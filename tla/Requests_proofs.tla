-------------------------- MODULE Requests_proofs --------------------------
(***************************************************************************)
(* Proofs about what concurrent requests may do.                           *)
(*                                                                         *)
(* The guards of button presses, for any number of presses, deliveries and *)
(* tokens and any length of the history of marks:                          *)
(*   PressesCountOnce   a callback counts once, in the stage its button    *)
(*                      was drawn for, and a token plays once              *)
(* The dict-state actions of the engine, for any seats, chips, requests    *)
(* and order of their steps:                                               *)
(*   EngineKeepsTypes   type correctness                                   *)
(*   DocumentStaysWhole the saved document keeps every chip and every      *)
(*                      acknowledged action, and a round gets stuck only   *)
(*                      where somebody raised                              *)
(* The queue of private matches, for any users and requests, with pops     *)
(* repeated, states expired and requests failed at any command:            *)
(*   MatchesAreSound    a user is in one match at most, a match is of two, *)
(*                      nobody is forgotten and two who wait meet          *)
(***************************************************************************)
EXTENDS PrivateMatch, ButtonPresses, EngineActions, SumTheorems

-----------------------------------------------------------------------------
(* The inductive invariant.                                                  *)

\* A press whose mark is saved: it works, or it has had its effect.
Counted(p) == press[p].pc \in {"lock", "check", "act"} \/ \E e \in acted : e.press = p

Distinct(s) == \A i, j \in 1..Len(s) : s[i] = s[j] => i = j

\* order holds the ids marked last, one after the other; known has one more at
\* most, the first id of all, which the deque drops and nothing forgets.
MarksOK(m) ==
  /\ m.count \in Nat /\ IsFiniteSet(m.known) /\ m.order \in Seq(m.known)
  /\ Len(m.order) <= HistoryLimit /\ Len(m.order) <= m.count
  /\ Cardinality(m.known) <= HistoryLimit /\ Cardinality(m.known) <= Len(m.order) + 1
  /\ Distinct(m.order)

\* The id marked as the nth of its hand: in the deque at its place, or so long
\* ago that it may count again.
Remembered(m, id, nth) ==
  /\ nth \in Nat /\ nth < m.count
  /\ IF nth + Len(m.order) < m.count THEN nth + HistoryLimit <= m.count
     ELSE m.order[nth + Len(m.order) + 1 - m.count] = id

TableOK ==
  /\ DOMAIN table = {"hand", "stage", "cb", "rev", "marks"}
  /\ table.hand \in Nat /\ table.rev \in Nat
  /\ MarksOK(table.marks)

Pcs == {"idle", "mark", "save", "lock", "check", "act", "over"}

PressOK ==
  /\ DOMAIN press = Presses
  /\ \A p \in Presses :
       /\ DOMAIN press[p] = {"pc", "id", "button", "copy", "mark"}
       /\ press[p].pc \in Pcs

\* What a press works on is an older version of the game than the stored one, or
\* that very game: with its own mark at the save, as it is at the act.
CopyOf(p) ==
    LET g == press[p].copy IN
    /\ press[p].pc \in {"save", "act"} => g.rev \in Nat /\ g.rev <= table.rev
    /\ press[p].pc = "save" /\ g.rev = table.rev =>
         /\ press[p].id \notin table.marks.known
         /\ g = [table EXCEPT !.marks = MarkSeen(@, press[p].id)]
         /\ press[p].mark = [hand |-> table.hand, nth |-> table.marks.count]
    /\ press[p].pc = "act" =>
         /\ g.stage = press[p].button.stage /\ g.cb = press[p].button.cb
         /\ g.rev = table.rev => g = table

CopyOK == \A p \in Presses : CopyOf(p)

\* A mark is of this hand and remembered, or of an earlier hand.
MarkOf(p) ==
    /\ press[p].mark.hand \in Nat /\ press[p].mark.nth \in Nat
    /\ press[p].mark.hand <= table.hand
    /\ press[p].mark.hand = table.hand => Remembered(table.marks, press[p].id, press[p].mark.nth)

CountedOK == \A p \in Presses : Counted(p) => MarkOf(p)

Apart(p, q) ==
  press[p].mark.nth >= press[q].mark.nth + HistoryLimit \/ press[q].mark.nth >= press[p].mark.nth + HistoryLimit

CountedApart ==
  \A p, q \in Presses :
    /\ p # q /\ Counted(p) /\ Counted(q)
    /\ press[p].id = press[q].id /\ press[p].mark.hand = press[q].mark.hand
    => Apart(p, q)

\* An effect is its press's own, and a press has one effect.
ActedOK ==
  \A e \in acted :
    /\ e.press \in Presses /\ press[e.press].pc = "over"
    /\ e.id = press[e.press].id /\ e.mark = press[e.press].mark

GuardIInv == TableOK /\ PressOK /\ CopyOK /\ CountedOK /\ CountedApart /\ ActedOK /\ EffectInItsStage

TapStates == [pc : {"idle", "use", "refused", "play", "over"}, token : Tokens \cup {NoPress}]

TapOK ==
  /\ DOMAIN tap = Taps /\ DOMAIN token = Tokens
  /\ \A t \in Taps : /\ tap[t] \in TapStates
                     /\ tap[t].pc # "idle" => tap[t].token \in Tokens
  /\ played \subseteq Taps /\ \A t \in played : tap[t].pc = "over"

\* Who has marked a token finds it no longer fresh, and two read it as fresh only
\* before either marked it.
MarkedOnce ==
  /\ \A t \in Taps : tap[t].pc \in {"play", "over"} => token[tap[t].token] \notin {"none", "fresh"}
  /\ \A s, t \in Taps :
       /\ s # t /\ tap[s].token = tap[t].token
       /\ {tap[s].pc, tap[t].pc} \subseteq {"use", "play", "over"}
       => tap[s].token \in crossed
  /\ \A t \in Taps : tap[t].pc = "use" => token[tap[t].token] # "none"

TokenIInv == TapOK /\ MarkedOnce

PressIInv == GuardIInv /\ TokenIInv

-----------------------------------------------------------------------------
(* The history of marks.                                                     *)

\* What a sequence keeps when its head goes.
LEMMA TailKeeps ==
  ASSUME NEW K, NEW s \in Seq(K), Len(s) >= 1, Distinct(s)
  PROVE  /\ Tail(s) \in Seq(K) /\ Len(Tail(s)) = Len(s) - 1
         /\ Head(s) = s[1] /\ Head(s) \in K
         /\ \A i \in 1..(Len(s) - 1) : Tail(s)[i] = s[i + 1] /\ Tail(s)[i] # Head(s)
         /\ Distinct(Tail(s))
<1>1. /\ Tail(s) \in Seq(K) /\ Len(Tail(s)) = Len(s) - 1
      /\ Head(s) = s[1] /\ Head(s) \in K
      /\ \A i \in 1..(Len(s) - 1) : Tail(s)[i] = s[i + 1]
  OBVIOUS
<1> DEFINE t == Tail(s)
<1>2. /\ Len(t) = Len(s) - 1 /\ \A i \in 1..Len(t) : t[i] = s[i + 1]
  BY <1>1
<1> HIDE DEF t
<1>3. Distinct(t) /\ \A i \in 1..Len(t) : t[i] # s[1]
  BY <1>2 DEF Distinct
<1> QED
  BY <1>1, <1>2, <1>3 DEF t

\* The deque when its oldest entries go: one because it was full, one because too
\* many are known.
LEMMA WindowMoves ==
  ASSUME NEW K, NEW full \in Seq(K), Distinct(full), Len(full) >= 1, Len(full) <= HistoryLimit + 1,
         NEW order, Len(full) > HistoryLimit => order = Tail(full),
         ~(Len(full) > HistoryLimit) => order = full,
         NEW over \in BOOLEAN, over => Len(full) >= HistoryLimit,
         NEW last, over => last = Tail(order), ~over => last = order
  PROVE  /\ Head(order) \in K
         /\ over => \A i \in 1..Len(last) : last[i] # Head(order)
         /\ last \in Seq(K) /\ Distinct(last) /\ Len(last) <= HistoryLimit
         /\ over => Len(last) = HistoryLimit - 1
         /\ ~over => Len(last) \in {HistoryLimit, Len(full)}
         /\ \E s \in 0..2 :
              /\ Len(last) = Len(full) - s
              /\ s > 0 => Len(last) >= HistoryLimit - 1
              /\ \A i \in 1..Len(last) : last[i] = full[i + s]
<1> DEFINE c == Len(full) > HistoryLimit
<1>0. HistoryLimit \in Nat /\ HistoryLimit >= 1 /\ Len(full) \in Nat /\ c \in BOOLEAN
  BY PressAssumption
<1>1. /\ order \in Seq(K) /\ Distinct(order)
      /\ c => Len(order) = Len(full) - 1 /\ \A i \in 1..Len(order) : order[i] = full[i + 1]
      /\ ~c => order = full
  <2>1. CASE c
    <3>1. /\ Tail(full) \in Seq(K) /\ Distinct(Tail(full)) /\ Len(Tail(full)) = Len(full) - 1
          /\ \A i \in 1..(Len(full) - 1) : Tail(full)[i] = full[i + 1]
      BY TailKeeps
    <3>2. order = Tail(full)
      BY <2>1
    <3> QED
      BY ONLY <2>1, <3>1, <3>2
  <2>2. CASE ~c
    <3>1. order = full
      BY <2>2
    <3> QED
      BY ONLY full \in Seq(K), Distinct(full), <2>2, <3>1
  <2> QED
    BY <2>1, <2>2
<1>2. PICK cut \in 0..1 :
        /\ Len(order) = Len(full) - cut /\ Len(order) >= 1
        /\ Len(order) <= HistoryLimit
        /\ cut = 1 => Len(order) = HistoryLimit
        /\ \A i \in 1..Len(order) : order[i] = full[i + cut]
  <2>1. CASE c
    BY ONLY <1>0, <1>1, <2>1, Len(full) <= HistoryLimit + 1
  <2>2. CASE ~c
    BY ONLY <1>0, <1>1, <2>2, full \in Seq(K), Len(full) >= 1
  <2> QED
    BY <2>1, <2>2
<1>3. /\ last \in Seq(K) /\ Distinct(last)
      /\ Head(order) \in K
      /\ over => Len(last) = Len(order) - 1 /\ \A i \in 1..Len(last) : last[i] = order[i + 1] /\ last[i] # Head(order)
      /\ ~over => last = order
  <2>1. Head(order) \in K
    BY ONLY <1>1, <1>2
  <2>2. CASE over
    <3>1. /\ Tail(order) \in Seq(K) /\ Distinct(Tail(order)) /\ Len(Tail(order)) = Len(order) - 1
          /\ \A i \in 1..(Len(order) - 1) : Tail(order)[i] = order[i + 1] /\ Tail(order)[i] # Head(order)
      BY ONLY <1>1, <1>2, TailKeeps
    <3>2. last = Tail(order)
      BY <2>2
    <3> QED
      BY ONLY <2>1, <2>2, <3>1, <3>2
  <2>3. CASE ~over
    <3>1. last = order
      BY <2>3
    <3> QED
      BY ONLY <1>1, <2>1, <2>3, <3>1
  <2> QED
    BY <2>2, <2>3
<1>4. Len(order) \in Nat /\ Len(last) \in Nat
  BY <1>1, <1>3
<1>5. CASE over
  <2>1. Len(order) = HistoryLimit
    BY ONLY <1>0, <1>2, <1>5, over => Len(full) >= HistoryLimit
  <2>2. \A i \in 1..Len(last) : last[i] = full[i + (cut + 1)]
    BY ONLY <1>2, <1>3, <1>4, <1>5
  <2> QED
    BY ONLY <1>0, <1>2, <1>3, <1>4, <1>5, <2>1, <2>2
<1>6. CASE ~over
  BY ONLY <1>0, <1>2, <1>3, <1>4, <1>6
<1> QED
  BY ONLY <1>5, <1>6

\* Marking an unseen id: it is remembered, and an id that is forgotten by it was
\* marked HistoryLimit marks ago.
LEMMA MarkingRemembers ==
  ASSUME NEW m, NEW id, MarksOK(m), id \notin m.known, NEW n, n = MarkSeen(m, id)
  PROVE  /\ MarksOK(n)
         /\ n.count = m.count + 1
         /\ Remembered(n, id, m.count)
         /\ \A other, nth : Remembered(m, other, nth) => Remembered(n, other, nth)
<1>0. HistoryLimit \in Nat /\ HistoryLimit >= 1
  BY PressAssumption
<1> DEFINE known == m.known \union {id}
           full == Append(m.order, id)
           order == IF Len(full) > HistoryLimit THEN Tail(full) ELSE full
           over == Cardinality(known) > HistoryLimit
<1>1. /\ over \in BOOLEAN
      /\ Len(full) > HistoryLimit => order = Tail(full)
      /\ ~(Len(full) > HistoryLimit) => order = full
      /\ over => n.known = known \ {Head(order)} /\ n.order = Tail(order)
      /\ ~over => n.known = known /\ n.order = order
      /\ n.count = m.count + 1
  <2>1. n = [known |-> IF over THEN known \ {Head(order)} ELSE known,
             order |-> IF over THEN Tail(order) ELSE order,
             count |-> m.count + 1]
    BY DEF MarkSeen
  <2>2. /\ Len(full) > HistoryLimit => order = Tail(full)
        /\ ~(Len(full) > HistoryLimit) => order = full
        /\ over \in BOOLEAN
    OBVIOUS
  <2> HIDE DEF known, full, order, over
  <2> QED
    BY ONLY <2>1, <2>2
<1> DEFINE earlier == m.order
<1>2. /\ m.count \in Nat /\ earlier \in Seq(m.known)
      /\ Distinct(earlier) /\ Len(earlier) <= HistoryLimit /\ Len(earlier) <= m.count
      /\ IsFiniteSet(m.known) /\ Cardinality(m.known) <= HistoryLimit
      /\ Cardinality(m.known) <= Len(earlier) + 1
  BY DEF MarksOK
<1> HIDE DEF earlier
<1>19. over <=> Cardinality(known) > HistoryLimit
  OBVIOUS
<1>3. /\ earlier \in Seq(known) /\ id \in known /\ Len(earlier) \in Nat
      /\ \A i \in 1..Len(earlier) : earlier[i] # id
  BY <1>2
<1>4. /\ IsFiniteSet(known) /\ Cardinality(known) = Cardinality(m.known) + 1
      /\ Cardinality(m.known) \in Nat
  BY <1>2, FS_AddElement, FS_CardinalityType
<1>5. full = Append(earlier, id)
  BY DEF earlier
<1> HIDE DEF known, full, order, over
<1>6. /\ full \in Seq(known) /\ Len(full) = Len(earlier) + 1
      /\ full[Len(earlier) + 1] = id
      /\ \A i \in 1..Len(earlier) : full[i] = earlier[i]
  BY ONLY <1>3, <1>5
<1>7. Distinct(full)
  BY ONLY <1>2, <1>3, <1>6 DEF Distinct
<1>8. /\ over \in BOOLEAN
      /\ over => Len(full) >= HistoryLimit
      /\ ~over => Cardinality(known) <= HistoryLimit
  BY ONLY <1>0, <1>1, <1>2, <1>3, <1>4, <1>6, <1>19
<1> DEFINE last == n.order
<1>9. /\ Head(order) \in known
      /\ over => \A i \in 1..Len(last) : last[i] # Head(order)
      /\ last \in Seq(known) /\ Distinct(last) /\ Len(last) <= HistoryLimit
      /\ over => Len(last) = HistoryLimit - 1
      /\ ~over => Len(last) \in {HistoryLimit, Len(full)}
      /\ \E s \in 0..2 :
           /\ Len(last) = Len(full) - s
           /\ s > 0 => Len(last) >= HistoryLimit - 1
           /\ \A i \in 1..Len(last) : last[i] = full[i + s]
  <2>1. /\ Len(full) > HistoryLimit => order = Tail(full)
        /\ ~(Len(full) > HistoryLimit) => order = full
        /\ over => last = Tail(order)
        /\ ~over => last = order
    BY <1>1
  <2>2. Len(full) >= 1 /\ Len(full) <= HistoryLimit + 1
    BY ONLY <1>0, <1>2, <1>3, <1>6
  <2> HIDE DEF last
  <2> QED
    BY ONLY <1>6, <1>7, <1>8, <2>1, <2>2, WindowMoves, SMTT(30)
<1> HIDE DEF last
<1>10. PICK s \in 0..2 :
        /\ Len(last) = Len(full) - s
        /\ s > 0 => Len(last) >= HistoryLimit - 1
        /\ \A i \in 1..Len(last) : last[i] = full[i + s]
  BY <1>9
<1>11. Len(last) \in Nat
  BY <1>9
<1>12. MarksOK(n)
  <2>1. last \in Seq(n.known)
    <3>1. \A i \in 1..Len(last) : last[i] \in n.known
      <4>1. n.known = known \/ (over /\ n.known = known \ {Head(order)})
        BY <1>1, <1>8
      <4>2. \A i \in 1..Len(last) : last[i] \in known
        BY ONLY <1>9
      <4> QED
        BY ONLY <1>9, <4>1, <4>2
    <3>2. last = [i \in 1..Len(last) |-> last[i]] /\ Len(last) \in Nat
      BY ONLY <1>9
    <3> QED
      BY ONLY <3>1, <3>2
  <2>2. /\ IsFiniteSet(n.known) /\ Cardinality(n.known) <= HistoryLimit
        /\ Cardinality(n.known) <= Len(last) + 1
    <3>1. CASE over
      <4>1. n.known = known \ {Head(order)}
        BY <1>1, <3>1
      <4>2. IsFiniteSet(n.known) /\ Cardinality(n.known) = Cardinality(known) - 1
        BY ONLY <1>4, <1>9, <4>1, FS_RemoveElement
      <4> QED
        BY ONLY <1>0, <1>2, <1>4, <1>9, <3>1, <4>2
    <3>2. CASE ~over
      <4>1. n.known = known
        BY <1>1, <3>2
      <4> QED
        BY ONLY <1>0, <1>2, <1>3, <1>4, <1>6, <1>8, <1>9, <3>2, <4>1
    <3> QED
      BY <1>8, <3>1, <3>2
  <2>3. n.count \in Nat /\ Len(last) <= HistoryLimit /\ Len(last) <= n.count
    BY <1>1, <1>2, <1>3, <1>6, <1>9, <1>10, <1>11
  <2> QED
    BY <1>9, <2>1, <2>2, <2>3 DEF MarksOK, last
<1>13. n.count = m.count + 1
  BY <1>1
<1>14. \A other, nth : Remembered(n, other, nth) <=>
         /\ nth \in Nat /\ nth < m.count + 1
         /\ IF nth + Len(last) < m.count + 1 THEN nth + HistoryLimit <= m.count + 1
            ELSE last[nth + Len(last) + 1 - (m.count + 1)] = other
  BY ONLY <1>13 DEF Remembered, last
<1>15. \A other, nth : Remembered(m, other, nth) =>
         /\ nth \in Nat /\ nth < m.count
         /\ IF nth + Len(earlier) < m.count THEN nth + HistoryLimit <= m.count
            ELSE earlier[nth + Len(earlier) + 1 - m.count] = other
  BY ONLY DEF Remembered, earlier
<1>16. \A i \in 1..Len(last) :
         /\ i + s = Len(earlier) + 1 => last[i] = id
         /\ i + s # Len(earlier) + 1 => last[i] = earlier[i + s]
  <2>1. ASSUME NEW i \in 1..Len(last), i + s # Len(earlier) + 1 PROVE i + s \in 1..Len(earlier)
    BY ONLY <1>3, <1>6, <1>10, <1>11, <2>1
  <2>2. \A i \in 1..Len(last) : last[i] = full[i + s]
    BY ONLY <1>10
  <2> QED
    BY ONLY <1>6, <2>1, <2>2
<1>17. Remembered(n, id, m.count)
  <2>1. m.count \in Nat /\ m.count < m.count + 1
    BY <1>2
  <2>2. CASE Len(last) = 0
    BY ONLY <1>0, <1>2, <1>3, <1>6, <1>10, <1>14, <2>1, <2>2
  <2>3. CASE Len(last) > 0
    <3>1. /\ ~(m.count + Len(last) < m.count + 1)
          /\ m.count + Len(last) + 1 - (m.count + 1) = Len(last)
      BY ONLY <1>11, <2>1, <2>3
    <3>2. last[Len(last)] = id
      BY ONLY <1>3, <1>6, <1>10, <1>11, <1>16, <2>3
    <3> QED
      BY ONLY <1>14, <2>1, <3>1, <3>2
  <2> QED
    BY <1>11, <2>2, <2>3
<1>18. ASSUME NEW other, NEW nth, Remembered(m, other, nth)
       PROVE  Remembered(n, other, nth)
  <2>1. nth \in Nat /\ nth < m.count
    BY <1>15, <1>18
  <2>2. CASE nth + Len(last) < m.count + 1
    <3>1. nth + HistoryLimit <= m.count + 1
      BY ONLY <1>0, <1>2, <1>3, <1>6, <1>10, <1>11, <1>15, <1>18, <2>1, <2>2
    <3> QED
      BY ONLY <1>2, <1>14, <2>1, <2>2, <3>1
  <2>3. CASE ~(nth + Len(last) < m.count + 1)
    <3>1. PICK k \in 1..Len(last) : k = nth + Len(last) + 1 - (m.count + 1)
      BY ONLY <1>2, <1>11, <2>1, <2>3
    <3>2. /\ k + s # Len(earlier) + 1 /\ k + s = nth + Len(earlier) + 1 - m.count
          /\ ~(nth + Len(earlier) < m.count)
      BY ONLY <1>2, <1>3, <1>6, <1>10, <1>11, <2>1, <2>3, <3>1, SMTT(30)
    <3>3. last[k] = other
      BY ONLY <1>15, <1>16, <1>18, <3>1, <3>2
    <3>4. nth \in Nat /\ nth < m.count + 1
      BY ONLY <1>2, <2>1
    <3>5. last[nth + Len(last) + 1 - (m.count + 1)] = other
      BY ONLY <3>1, <3>3
    <3> QED
      BY ONLY <1>14, <2>3, <3>4, <3>5
  <2> QED
    BY <2>2, <2>3
<1> QED
  BY <1>12, <1>13, <1>17, <1>18

-----------------------------------------------------------------------------
(* The guarded handler.                                                      *)

\* Nothing is marked at first.
LEMMA InitGuardIInv == PressInit => GuardIInv
<1> SUFFICES ASSUME PressInit PROVE GuardIInv
  OBVIOUS
<1> USE PressAssumption DEF PressInit
<1>1. MarksOK(NoMarks)
  <2>1. IsFiniteSet({}) /\ Cardinality({}) = 0
    BY FS_EmptySet
  <2> QED
    BY <2>1 DEF MarksOK, NoMarks, Distinct
<1>2. TableOK
  BY <1>1 DEF TableOK
<1>3. PressOK
  BY DEF PressOK, NotPressed, Pcs
<1>4. \A p \in Presses : press[p].pc = "idle" /\ ~Counted(p)
  BY DEF NotPressed, Counted
<1>5. CopyOK /\ CountedOK /\ CountedApart
  BY <1>4 DEF CopyOK, CopyOf, CountedOK, CountedApart
<1> QED
  BY <1>2, <1>3, <1>5 DEF GuardIInv, ActedOK, EffectInItsStage

\* What a step of p does to the others' runs: nothing.
Only(p) ==
  /\ DOMAIN press' = Presses /\ \A q \in Presses \ {p} : press'[q] = press[q]
  /\ DOMAIN press'[p] = {"pc", "id", "button", "copy", "mark"}

\* A step of one press that leaves the game and the effects alone.
LEMMA QuietStep ==
  ASSUME GuardIInv, NEW p \in Presses, Only(p), UNCHANGED <<table, acted>>,
         press'[p].pc \in Pcs, press[p].pc # "over",
         press'[p].pc \in {"lock", "check", "act"} =>
           Counted(p) /\ press'[p].id = press[p].id /\ press'[p].mark = press[p].mark,
         CopyOf(p)'
  PROVE  GuardIInv'
<1> USE DEF GuardIInv, Only
<1>1. \A e \in acted : e.press # p
  BY DEF ActedOK
<1>2. TableOK' /\ PressOK' /\ EffectInItsStage'
  BY DEF TableOK, PressOK, EffectInItsStage
<1>3. CopyOK'
  BY DEF CopyOK, CopyOf
<1>4. \A q \in Presses : Counted(q)' =>
        Counted(q) /\ press'[q].id = press[q].id /\ press'[q].mark = press[q].mark
  BY <1>1 DEF Counted
<1>5. CountedOK'
  BY <1>4 DEF CountedOK, MarkOf
<1>6. CountedApart'
  BY <1>4 DEF CountedApart, Apart
<1>7. ActedOK'
  BY <1>1 DEF ActedOK
<1> QED
  BY <1>2, <1>3, <1>5, <1>6, <1>7

\* A step that writes one press's run is its own.
LEMMA WriteOnly ==
  ASSUME GuardIInv, NEW p \in Presses, NEW r, press' = [press EXCEPT ![p] = r],
         DOMAIN r = {"pc", "id", "button", "copy", "mark"}
  PROVE  Only(p) /\ press'[p] = r
BY DEF GuardIInv, PressOK, Only

\* Going on drops the copy and nothing else.
LEMMA GoEffect ==
  ASSUME GuardIInv, NEW p \in Presses, NEW pc, Go(p, pc)
  PROVE  /\ Only(p) /\ press'[p].pc = pc
         /\ press'[p].id = press[p].id /\ press'[p].mark = press[p].mark
         /\ press'[p].button = press[p].button
<1>1. p \in DOMAIN press /\ DOMAIN press = Presses /\ DOMAIN press[p] = {"pc", "id", "button", "copy", "mark"}
  BY DEF GuardIInv, PressOK
<1>2. press' = [press EXCEPT ![p] = [press[p] EXCEPT !.pc = pc, !.copy = NoPress]]
  BY <1>1 DEF Go
<1> QED
  BY <1>1, <1>2 DEF Only

\* Every step of a press that leaves the game alone keeps the invariant.
LEMMA QuietSteps ==
  ASSUME GuardIInv, NEW p \in Presses,
         \/ PressButton(p) \/ PressAgain(p) \/ MarkCallback(p)
         \/ LockButton(p) \/ CheckButton(p)
  PROVE  GuardIInv'
<1>0. /\ p \in DOMAIN press /\ DOMAIN press = Presses
      /\ \A q \in Presses : DOMAIN press[q] = {"pc", "id", "button", "copy", "mark"}
      /\ table.rev \in Nat /\ DOMAIN table = {"hand", "stage", "cb", "rev", "marks"}
  BY DEF GuardIInv, PressOK, TableOK
<1>1. CASE PressButton(p) \/ PressAgain(p)
  <2>1. PICK id, b : press' = [press EXCEPT ![p] =
          [NotPressed EXCEPT !.pc = "mark", !.id = id, !.button = b]]
    BY <1>1 DEF PressButton, PressAgain
  <2>2. Only(p) /\ press'[p].pc = "mark"
    BY <1>0, <2>1 DEF Only, NotPressed
  <2>3. press[p].pc = "idle" /\ UNCHANGED <<table, acted>>
    BY <1>1 DEF PressButton, PressAgain
  <2> QED
    BY <2>2, <2>3, QuietStep DEF Pcs, CopyOf
<1>2. CASE MarkCallback(p) /\ press[p].id \in table.marks.known
  <2>1. press' = [press EXCEPT ![p] = [press[p] EXCEPT !.pc = "over"]]
    BY <1>0, <1>2 DEF MarkCallback
  <2>2. Only(p) /\ press'[p].pc = "over"
    BY <1>0, <2>1 DEF Only
  <2>3. press[p].pc = "mark" /\ UNCHANGED <<table, acted>>
    BY <1>2 DEF MarkCallback
  <2> QED
    BY <2>2, <2>3, QuietStep DEF Pcs, CopyOf
<1>3. CASE MarkCallback(p) /\ press[p].id \notin table.marks.known
  <2> DEFINE r == [press[p] EXCEPT !.pc = "save",
                     !.mark = [hand |-> table.hand, nth |-> table.marks.count],
                     !.copy = [table EXCEPT !.marks = MarkSeen(@, press[p].id)]]
  <2>1. press' = [press EXCEPT ![p] = r]
    BY <1>0, <1>3 DEF MarkCallback
  <2>2. /\ DOMAIN r = {"pc", "id", "button", "copy", "mark"} /\ r.pc = "save" /\ r.id = press[p].id
        /\ r.mark = [hand |-> table.hand, nth |-> table.marks.count]
        /\ r.copy = [table EXCEPT !.marks = MarkSeen(@, press[p].id)]
    BY <1>0
  <2>3. r.copy.rev = table.rev
    BY <1>0, <2>2
  <2> HIDE DEF r
  <2>4. Only(p) /\ press'[p] = r
    BY <2>1, <2>2, WriteOnly
  <2>5. press[p].pc = "mark" /\ UNCHANGED <<table, acted>>
    BY <1>3 DEF MarkCallback
  <2>6. CopyOf(p)'
    BY <1>0, <1>3, <2>2, <2>3, <2>4, <2>5 DEF CopyOf
  <2> QED
    BY <2>2, <2>4, <2>5, <2>6, QuietStep DEF Pcs
<1>4. CASE LockButton(p)
  <2>1. PICK pc \in {"check", "over"} : Go(p, pc)
    BY <1>4 DEF LockButton
  <2>2. /\ Only(p) /\ press'[p].pc = pc
        /\ press'[p].id = press[p].id /\ press'[p].mark = press[p].mark
    BY <2>1, GoEffect
  <2>3. press[p].pc = "lock" /\ UNCHANGED <<table, acted>>
    BY <1>4 DEF LockButton
  <2> QED
    BY <2>2, <2>3, QuietStep DEF Pcs, CopyOf, Counted
<1>5. CASE CheckButton(p) /\ table.cb = press[p].button.cb /\ table.stage = press[p].button.stage
  <2> DEFINE r == [press[p] EXCEPT !.pc = "act", !.copy = table]
  <2>1. press' = [press EXCEPT ![p] = r]
    BY <1>0, <1>5 DEF CheckButton
  <2>2. /\ DOMAIN r = {"pc", "id", "button", "copy", "mark"} /\ r.pc = "act" /\ r.copy = table
        /\ r.id = press[p].id /\ r.mark = press[p].mark /\ r.button = press[p].button
    BY <1>0
  <2> HIDE DEF r
  <2>3. Only(p) /\ press'[p] = r
    BY <2>1, <2>2, WriteOnly
  <2>4. press[p].pc = "check" /\ UNCHANGED <<table, acted>>
    BY <1>5 DEF CheckButton
  <2>5. CopyOf(p)'
    BY <1>0, <1>5, <2>2, <2>3, <2>4 DEF CopyOf
  <2> QED
    BY <2>2, <2>3, <2>4, <2>5, QuietStep DEF Pcs, Counted
<1>6. CASE CheckButton(p) /\ ~(table.cb = press[p].button.cb /\ table.stage = press[p].button.stage)
  <2>1. Go(p, "over") /\ press[p].pc = "check" /\ UNCHANGED <<table, acted>>
    BY <1>6 DEF CheckButton
  <2>2. Only(p) /\ press'[p].pc = "over"
    BY <2>1, GoEffect
  <2> QED
    BY <2>1, <2>2, QuietStep DEF Pcs, CopyOf
<1> QED
  BY <1>1, <1>2, <1>3, <1>4, <1>5, <1>6

\* The stored game changes under whoever works on a copy of it.
LEMMA OlderCopies ==
  ASSUME GuardIInv, NEW g, g.rev = table.rev, "rev" \in DOMAIN g, Store(g),
         NEW q \in Presses, press'[q] = press[q] \/ press'[q].pc \notin {"save", "act"}
  PROVE  CopyOf(q)'
<1>1. table'.rev = table.rev + 1 /\ table.rev \in Nat
  BY DEF Store, GuardIInv, TableOK
<1>2. CopyOf(q)
  BY DEF GuardIInv, CopyOK
<1>3. CASE press'[q] = press[q]
  BY <1>1, <1>2, <1>3 DEF CopyOf
<1> QED
  BY <1>3 DEF CopyOf

\* A save by someone else keeps the invariant: marks stay, or a hand begins, of
\* which there are none.
LEMMA OthersStep ==
  ASSUME GuardIInv, OthersMove
  PROVE  GuardIInv'
<1> USE DEF GuardIInv
<1>1. UNCHANGED <<press, acted>>
  BY DEF OthersMove
<1>2. PICK g : /\ Store(g) /\ g.rev = table.rev
               /\ DOMAIN g = {"hand", "stage", "cb", "rev", "marks"}
               /\ \/ g.hand = table.hand /\ g.marks = table.marks
                  \/ g.hand = table.hand + 1 /\ g.marks = NoMarks
  <2>1. PICK g \in {table, NextStage(table), NextHand(table)} : Store(g)
    BY DEF OthersMove
  <2>2. /\ g.rev = table.rev /\ DOMAIN g = {"hand", "stage", "cb", "rev", "marks"}
        /\ \/ g.hand = table.hand /\ g.marks = table.marks
           \/ g.hand = table.hand + 1 /\ g.marks = NoMarks
    BY DEF NextStage, NextHand, TableOK
  <2> QED
    BY <2>1, <2>2
<1>3. /\ DOMAIN table' = {"hand", "stage", "cb", "rev", "marks"}
      /\ table'.hand = g.hand /\ table'.marks = g.marks /\ table'.rev = table.rev + 1
  BY <1>2 DEF Store
<1>4. MarksOK(NoMarks)
  <2>1. IsFiniteSet({}) /\ Cardinality({}) = 0
    BY FS_EmptySet
  <2> QED
    BY <2>1, PressAssumption DEF MarksOK, NoMarks, Distinct
<1>5. TableOK'
  BY <1>2, <1>3, <1>4 DEF TableOK
<1>6. CopyOK'
  BY <1>1, <1>2, OlderCopies DEF CopyOK
<1>7. CountedOK'
  <2> SUFFICES ASSUME NEW p \in Presses, Counted(p)' PROVE MarkOf(p)'
    BY DEF CountedOK
  <2>1. MarkOf(p) /\ press'[p] = press[p]
    BY <1>1 DEF CountedOK, Counted
  <2>2. table.hand \in Nat /\ table'.hand \in {table.hand, table.hand + 1}
    BY <1>2, <1>3 DEF TableOK
  <2>3. table'.hand = table.hand => table'.marks = table.marks
    BY <1>2, <1>3, <2>2
  <2> QED
    BY <2>1, <2>2, <2>3 DEF MarkOf
<1> QED
  BY <1>1, <1>5, <1>6, <1>7 DEF PressOK, CountedApart, Counted, Apart, ActedOK, EffectInItsStage

\* The mark is saved: the press counts from here on, apart from all earlier ones
\* with its id.
LEMMA SaveMarkStep ==
  ASSUME GuardIInv, NEW p \in Presses, SaveMark(p)
  PROVE  GuardIInv'
<1> USE DEF GuardIInv
<1>0. press[p].pc = "save" /\ UNCHANGED acted
  BY DEF SaveMark
<1>1. CASE table.rev # press[p].copy.rev
  <2>1. Go(p, "over") /\ UNCHANGED table
    BY <1>1 DEF SaveMark
  <2>2. Only(p) /\ press'[p].pc = "over"
    BY <2>1, GoEffect
  <2> QED
    BY <1>0, <2>1, <2>2, QuietStep DEF Pcs, CopyOf
<1>2. CASE table.rev = press[p].copy.rev
  <2> DEFINE m == table.marks
             n == MarkSeen(m, press[p].id)
             g == press[p].copy
  <2>1. Store(g) /\ Go(p, "lock")
    BY <1>2 DEF SaveMark
  <2>2. /\ press[p].id \notin m.known
        /\ g = [table EXCEPT !.marks = n]
        /\ press[p].mark = [hand |-> table.hand, nth |-> m.count]
    BY <1>0, <1>2 DEF CopyOK, CopyOf
  <2>3. /\ Only(p) /\ press'[p].pc = "lock"
        /\ press'[p].id = press[p].id /\ press'[p].mark = press[p].mark
    BY <2>1, GoEffect
  <2>4. /\ DOMAIN g = {"hand", "stage", "cb", "rev", "marks"}
        /\ g.hand = table.hand /\ g.marks = n /\ g.rev = table.rev
    BY <2>2 DEF TableOK
  <2>5. MarksOK(m) /\ table.hand \in Nat /\ m.count \in Nat /\ table.rev \in Nat
    BY DEF TableOK, MarksOK
  <2>6. /\ MarksOK(n) /\ n.count = m.count + 1
        /\ Remembered(n, press[p].id, m.count)
        /\ \A other, nth : Remembered(m, other, nth) => Remembered(n, other, nth)
    BY <2>2, <2>5, MarkingRemembers
  <2> HIDE DEF m, n, g
  <2>7. /\ DOMAIN table' = {"hand", "stage", "cb", "rev", "marks"}
        /\ table'.hand = table.hand /\ table'.marks = n /\ table'.rev = table.rev + 1
    BY <2>1, <2>4 DEF Store
  <2>8. TableOK'
    BY <2>5, <2>6, <2>7 DEF TableOK
  <2>9. CopyOK'
    BY <2>1, <2>3, <2>4, OlderCopies DEF CopyOK, Only
  <2>10. \A q \in Presses \ {p} :
           /\ press'[q] = press[q]
           /\ Counted(q)' => Counted(q)
    BY <1>0, <2>3 DEF Only, Counted
  <2>11. /\ press'[p].mark.hand = table.hand /\ press'[p].mark.nth = m.count
         /\ press'[p].id = press[p].id
    BY <2>2, <2>3
  <2>12. CountedOK'
    <3>1. MarkOf(p)'
      BY <2>5, <2>6, <2>7, <2>11 DEF MarkOf
    <3>2. ASSUME NEW q \in Presses \ {p}, Counted(q)' PROVE MarkOf(q)'
      <4>1. MarkOf(q)
        BY <2>10, <3>2 DEF CountedOK
      <4> QED
        BY <2>6, <2>7, <2>10, <4>1 DEF MarkOf, m
    <3> QED
      BY <3>1, <3>2 DEF CountedOK
  <2>13. ASSUME NEW q \in Presses \ {p}, Counted(q), press[q].id = press[p].id,
                press[q].mark.hand = table.hand
         PROVE  press[q].mark.nth \in Nat /\ m.count >= press[q].mark.nth + HistoryLimit
    <3>1. Remembered(m, press[q].id, press[q].mark.nth)
      BY <2>13 DEF CountedOK, MarkOf, m
    <3>2. /\ press[q].mark.nth \in Nat /\ press[q].mark.nth < m.count
          /\ m.order \in Seq(m.known) /\ Len(m.order) \in Nat
      BY <2>5, <3>1 DEF Remembered, MarksOK
    <3>3. CASE press[q].mark.nth + Len(m.order) < m.count
      BY <2>5, <3>1, <3>2, <3>3, PressAssumption DEF Remembered
    <3>4. CASE ~(press[q].mark.nth + Len(m.order) < m.count)
      <4>1. PICK i \in 1..Len(m.order) : i = press[q].mark.nth + Len(m.order) + 1 - m.count
        BY <2>5, <3>2, <3>4
      <4>2. m.order[i] = press[q].id
        BY <3>1, <3>4, <4>1 DEF Remembered
      <4> QED
        BY <2>2, <2>13, <3>2, <4>1, <4>2
    <3> QED
      BY <3>3, <3>4
  <2>14. CountedApart'
    <3> SUFFICES ASSUME NEW q \in Presses, NEW r \in Presses, q # r, Counted(q)', Counted(r)',
                        press'[q].id = press'[r].id, press'[q].mark.hand = press'[r].mark.hand
                 PROVE  Apart(q, r)'
      BY DEF CountedApart
    <3>1. CASE q # p /\ r # p
      BY <2>10, <3>1 DEF CountedApart, Apart
    <3>2. CASE q = p
      BY <2>10, <2>11, <2>13, <3>2 DEF Apart
    <3>3. CASE r = p
      BY <2>10, <2>11, <2>13, <3>3 DEF Apart
    <3> QED
      BY <3>1, <3>2, <3>3
  <2>15. PressOK'
    BY <2>3, <2>10 DEF PressOK, Only, Pcs
  <2>16. ActedOK' /\ EffectInItsStage'
    BY <1>0, <2>10 DEF ActedOK, EffectInItsStage
  <2> QED
    BY <2>8, <2>9, <2>12, <2>14, <2>15, <2>16
<1> QED
  BY <1>1, <1>2

\* A press takes effect on the game it checked its button against, or has none.
LEMMA ActStep ==
  ASSUME GuardIInv, NEW p \in Presses, Act(p)
  PROVE  GuardIInv'
<1> USE DEF GuardIInv
<1>0. press[p].pc = "act" /\ Go(p, "over")
  BY DEF Act
<1>1. /\ Only(p) /\ press'[p].pc = "over"
      /\ press'[p].id = press[p].id /\ press'[p].mark = press[p].mark
      /\ press'[p].button = press[p].button
  BY <1>0, GoEffect
<1>2. CASE UNCHANGED <<table, shown, acted>>
  BY <1>0, <1>1, <1>2, QuietStep DEF Pcs, CopyOf
<1>3. CASE ~UNCHANGED <<table, shown, acted>>
  <2> DEFINE effect == [press |-> p, id |-> press[p].id, mark |-> press[p].mark,
                        button |-> press[p].button, on |-> ButtonOf(table)]
  <2>1. /\ table.rev = press[p].copy.rev
        /\ Store(press[p].copy) \/ Store(NextStage(press[p].copy))
        /\ acted' = acted \union {effect}
    BY <1>3 DEF Act
  <2>2. /\ press[p].copy = table
        /\ table.stage = press[p].button.stage /\ table.cb = press[p].button.cb
    BY <1>0, <2>1 DEF CopyOK, CopyOf
  <2>3. PICK g : /\ Store(g) /\ g.rev = table.rev /\ g.hand = table.hand /\ g.marks = table.marks
                 /\ DOMAIN g = {"hand", "stage", "cb", "rev", "marks"}
    <3>1. PICK g \in {table, NextStage(table)} : Store(g)
      BY <2>1, <2>2
    <3>2. /\ g.rev = table.rev /\ g.hand = table.hand /\ g.marks = table.marks
          /\ DOMAIN g = {"hand", "stage", "cb", "rev", "marks"}
      BY DEF NextStage, TableOK
    <3> QED
      BY <3>1, <3>2
  <2>4. /\ DOMAIN table' = {"hand", "stage", "cb", "rev", "marks"}
        /\ table'.hand = table.hand /\ table'.marks = table.marks /\ table'.rev = table.rev + 1
    BY <2>3 DEF Store
  <2>5. /\ effect.press = p /\ effect.id = press[p].id /\ effect.mark = press[p].mark
        /\ effect.on.stage = effect.button.stage /\ effect.on.cb = effect.button.cb
    BY <2>2 DEF ButtonOf
  <2> HIDE DEF effect
  <2>6. TableOK' /\ PressOK'
    BY <1>1, <2>4 DEF TableOK, PressOK, Only, Pcs
  <2>7. CopyOK'
    BY <1>1, <2>3, OlderCopies DEF CopyOK, Only
  <2>8. Counted(p) /\ \A q \in Presses : press'[q].id = press[q].id /\ press'[q].mark = press[q].mark
    BY <1>0, <1>1 DEF Counted, Only
  <2>9. \A q \in Presses : Counted(q)' => Counted(q)
    BY <1>1, <2>1, <2>5, <2>8 DEF Counted, Only
  <2>10. CountedOK'
    BY <2>4, <2>8, <2>9 DEF CountedOK, MarkOf
  <2>11. CountedApart'
    BY <2>8, <2>9 DEF CountedApart, Apart
  <2>12. ActedOK'
    BY <1>1, <2>1, <2>5, <2>8 DEF ActedOK, Only
  <2>13. EffectInItsStage'
    BY <2>1, <2>5 DEF EffectInItsStage
  <2> QED
    BY <2>6, <2>7, <2>10, <2>11, <2>12, <2>13
<1> QED
  BY <1>2, <1>3

\* The guards' invariant is kept by every step.
LEMMA GuardStepKeeps ==
  ASSUME GuardIInv, PressNext \/ UNCHANGED pressVars
  PROVE  GuardIInv'
<1>1. CASE UNCHANGED <<table, press, acted>>
  BY <1>1 DEF GuardIInv, TableOK, PressOK, CopyOK, CopyOf, CountedOK, MarkOf, Counted,
              CountedApart, Apart, ActedOK, EffectInItsStage
<1>2. CASE \E p \in Presses : GuardStep(p)
  BY <1>2, QuietSteps, SaveMarkStep, ActStep DEF GuardStep
<1>3. CASE OthersMove
  BY <1>3, OthersStep
<1>4. CASE LockExpires
  BY <1>1, <1>4 DEF LockExpires
<1>5. CASE TokenStep
  <2>1. UNCHANGED gateVars
    BY <1>5 DEF TokenStep, GenerateToken, TokenExpires, ReadToken, UseToken, PlayToken
  <2> QED
    BY <1>1, <2>1 DEF gateVars
<1>6. CASE UNCHANGED pressVars
  BY <1>1, <1>6 DEF pressVars
<1> QED
  BY <1>2, <1>3, <1>4, <1>5, <1>6 DEF PressNext, GuardNext

-----------------------------------------------------------------------------
(* The tokens.                                                               *)

\* No token is there at first.
LEMMA InitTokenIInv == PressInit => TokenIInv
BY DEF PressInit, TokenIInv, TapOK, TapStates, MarkedOnce

\* Making a token, or losing its record, makes no marked one fresh again.
LEMMA RecordStep ==
  ASSUME TokenIInv, NEW k \in Tokens, GenerateToken(k) \/ TokenExpires(k)
  PROVE  TokenIInv'
<1> USE DEF TokenIInv
<1>1. UNCHANGED <<tap, played, crossed>>
  BY DEF GenerateToken, TokenExpires
<1>2. /\ DOMAIN token' = Tokens
      /\ \A j \in Tokens : j # k => token'[j] = token[j]
      /\ token'[k] # "none"
      /\ token[k] # "none" => token'[k] = "gone"
  BY DEF GenerateToken, TokenExpires, TapOK
<1>3. TapOK'
  BY <1>1, <1>2 DEF TapOK
<1>4. MarkedOnce'
  BY <1>1, <1>2 DEF TapOK, MarkedOnce
<1> QED
  BY <1>3, <1>4

\* A tap that finds its token fresh is the first, or crosses the one before it.
LEMMA ReadStep ==
  ASSUME TokenIInv, NEW t \in Taps, ReadToken(t)
  PROVE  TokenIInv'
<1> USE DEF TokenIInv
<1>1. PICK k \in Tokens :
        /\ token[k] # "none"
        /\ tap' = [tap EXCEPT ![t] = [pc |-> IF Found(k) = "fresh" THEN "use" ELSE "refused", token |-> k]]
        /\ crossed' = IF Found(k) = "fresh" /\ \E s \in Taps : tap[s] = [pc |-> "use", token |-> k]
                        THEN crossed \union {k} ELSE crossed
  BY DEF ReadToken
<1>2. UNCHANGED <<token, whole, played>> /\ tap[t].pc = "idle"
  BY DEF ReadToken
<1>3. /\ DOMAIN tap' = Taps /\ tap'[t] \in TapStates /\ tap'[t].token = k
      /\ tap'[t].pc = (IF Found(k) = "fresh" THEN "use" ELSE "refused")
      /\ \A s \in Taps \ {t} : tap'[s] = tap[s]
  BY <1>1 DEF TapOK, TapStates
<1>4. crossed \subseteq crossed'
  BY <1>1
<1>5. TapOK'
  BY <1>2, <1>3 DEF TapOK
<1>6. ASSUME NEW s \in Taps \ {t}, tap[s].token = k, tap[s].pc \in {"use", "play", "over"},
             Found(k) = "fresh"
      PROVE  k \in crossed'
  <2>1. token[k] = "fresh"
    BY <1>6 DEF Found
  <2>2. tap[s].pc = "use"
    BY <1>6, <2>1 DEF MarkedOnce
  <2>3. tap[s] = [pc |-> "use", token |-> k]
    BY <1>6, <2>2 DEF TapOK, TapStates
  <2> QED
    BY <1>1, <1>6, <2>3
<1>7. MarkedOnce'
  BY <1>1, <1>2, <1>3, <1>4, <1>6 DEF MarkedOnce
<1> QED
  BY <1>5, <1>7

\* Marking a token used and playing it move the tap on.
LEMMA PlayStep ==
  ASSUME TokenIInv, NEW t \in Taps, UseToken(t) \/ PlayToken(t)
  PROVE  TokenIInv'
<1> USE DEF TokenIInv
<1>1. /\ DOMAIN tap' = Taps /\ tap'[t] \in TapStates /\ tap'[t].token = tap[t].token
      /\ \A s \in Taps \ {t} : tap'[s] = tap[s]
      /\ tap[t].token \in Tokens /\ crossed' = crossed
  BY DEF UseToken, PlayToken, TapOK, TapStates
<1>2. CASE UseToken(t)
  <2>1. /\ tap[t].pc = "use" /\ tap'[t].pc = "play" /\ played' = played
        /\ DOMAIN token' = Tokens /\ token'[tap[t].token] = "used"
        /\ \A k \in Tokens : k # tap[t].token => token'[k] = token[k]
    BY <1>1, <1>2 DEF UseToken, TapOK
  <2>2. TapOK'
    BY <1>1, <2>1 DEF TapOK
  <2>3. MarkedOnce'
    BY <1>1, <2>1 DEF MarkedOnce, TapOK
  <2> QED
    BY <2>2, <2>3
<1>3. CASE PlayToken(t)
  <2>1. /\ tap[t].pc = "play" /\ tap'[t].pc = "over" /\ token' = token
        /\ played' \subseteq played \union {t}
    BY <1>1, <1>3 DEF PlayToken, TapOK
  <2>2. TapOK'
    BY <1>1, <2>1 DEF TapOK
  <2>3. MarkedOnce'
    BY <1>1, <2>1 DEF MarkedOnce, TapOK
  <2> QED
    BY <2>2, <2>3
<1> QED
  BY <1>2, <1>3

\* The tokens' invariant is kept by every step.
LEMMA TokenStepKeeps ==
  ASSUME TokenIInv, PressNext \/ UNCHANGED pressVars
  PROVE  TokenIInv'
<1>1. CASE UNCHANGED tokenVars
  BY <1>1 DEF tokenVars, TokenIInv, TapOK, MarkedOnce
<1>2. CASE GuardNext
  <2>1. UNCHANGED tokenVars
    BY <1>2 DEF GuardNext, GuardStep, PressButton, PressAgain, MarkCallback, SaveMark, LockButton,
                CheckButton, Act, OthersMove, LockExpires
  <2> QED
    BY <1>1, <2>1
<1>3. CASE TokenStep
  BY <1>3, RecordStep, ReadStep, PlayStep DEF TokenStep
<1>4. CASE UNCHANGED pressVars
  BY <1>1, <1>4 DEF pressVars, tokenVars
<1> QED
  BY <1>2, <1>3, <1>4 DEF PressNext

-----------------------------------------------------------------------------
(* The theorem.                                                              *)

\* The inductive invariant says what the guards promise.
LEMMA PressIInvImplies == PressIInv => PressInv
<1> SUFFICES ASSUME PressIInv PROVE PressInv
  OBVIOUS
<1>1. CallbackCountsOnce
  <2> SUFFICES ASSUME NEW e \in acted, NEW f \in acted, e.id = f.id, e.mark.hand = f.mark.hand,
                      e.press # f.press
               PROVE  \/ e.mark.nth >= f.mark.nth + HistoryLimit
                      \/ f.mark.nth >= e.mark.nth + HistoryLimit
    BY DEF CallbackCountsOnce
  <2>1. /\ e.press \in Presses /\ e.id = press[e.press].id /\ e.mark = press[e.press].mark
        /\ f.press \in Presses /\ f.id = press[f.press].id /\ f.mark = press[f.press].mark
    BY DEF PressIInv, GuardIInv, ActedOK
  <2>2. Counted(e.press) /\ Counted(f.press)
    BY DEF Counted
  <2>3. Apart(e.press, f.press)
    BY <2>1, <2>2 DEF PressIInv, GuardIInv, CountedApart
  <2> QED
    BY <2>1, <2>3 DEF Apart
<1>2. EffectInItsStage
  BY DEF PressIInv, GuardIInv
<1>3. TokenPlaysOnce
  BY DEF PressIInv, TokenIInv, TapOK, MarkedOnce, TokenPlaysOnce
<1> QED
  BY <1>1, <1>2, <1>3 DEF PressInv

\* A button pressed twice, delivered twice or pressed late counts once and only in
\* the stage it was drawn for, however many presses and tokens there are: the
\* lock may expire, the game may move, marks may fall out of the history.
THEOREM PressesCountOnce == PressSpec => []PressInv
<1>1. PressInit => PressIInv
  BY InitGuardIInv, InitTokenIInv DEF PressIInv
<1>2. PressIInv /\ [PressNext]_pressVars => PressIInv'
  BY GuardStepKeeps, TokenStepKeeps DEF PressIInv
<1> QED
  BY <1>1, <1>2, PressIInvImplies, PTL DEF PressSpec

-----------------------------------------------------------------------------
(* The dict-state actions of the engine.                                   *)

Stacks(d) == Sum([p \in SeatNos |-> d.players[p].chips], SeatNos)
HeldBy(d) == d.pot + Bets(d) + Stacks(d)

Begun == [at : {"locked", "valid"}, who : SeatNos, act : Acts]
Changed == [at : {"applied", "collected"}, who : SeatNos, act : Acts, copy : Documents]
Ended == [at : {"answered", "done"}, who : SeatNos, act : Acts,
          reply : {"success", "refused", "error"}]

EngineShape ==
  /\ doc = NoDoc \/ doc \in Documents
  /\ call \in [Requests -> [at : {"new"}] \cup Begun \cup Changed \cup Ended]
  /\ tapLock \in [SeatNos \X Acts -> Requests \cup {NoRequest}]

Copied(r) == At(r) \in {"applied", "collected"}

NobodyRaises == \A r \in Requests : At(r) # "new" => call[r].act \in {"fold", "call"}

\* Until somebody raises or the bets are collected, who has acted and not folded has
\* bet what everybody has to bet.
Level(d) ==
  /\ d.bet = Bet
  /\ \A p \in SeatNos : /\ d.players[p].bet <= Bet
                        /\ d.players[p].acted /\ ~d.players[p].folded => d.players[p].bet = Bet

Even(d) == NobodyRaises /\ d.pot = 0 => Level(d)

Whole(d) == HeldBy(d) = SeatUsers * Stack /\ Even(d)

\* Two documents say the same of a player but for his bet, which is collected.
SameOf(d, e, q) ==
  /\ d.players[q].chips = e.players[q].chips
  /\ d.players[q].acted = e.players[q].acted
  /\ d.players[q].folded = e.players[q].folded

\* A copy of the version that is stored differs from it in its player alone, who acts for
\* the first time; other copies cannot be saved any more.
CopyFits(r) ==
  LET c == call[r].copy
  IN /\ c.version <= doc.version
     /\ c.version = doc.version =>
          /\ doc.players[Who(r)].acted = FALSE /\ c.players[Who(r)].acted = TRUE
          /\ \A q \in SeatNos \ {Who(r)} : SameOf(c, doc, q)

\* A player as he was at first, or one with a request that succeeded or broke off.
Traced(p) ==
  \/ /\ doc.players[p].chips = Stack /\ doc.players[p].acted = FALSE
     /\ doc.players[p].folded = FALSE
  \/ Replies(p, "success") \cup Replies(p, "error") # {}

Stored ==
  /\ Whole(doc)
  /\ \A p \in SeatNos : Replies(p, "success") # {} => doc.players[p].acted = TRUE
  /\ \A p \in SeatNos : Traced(p)
  /\ \A r \in Requests : Copied(r) => CopyFits(r)

EngineIInv ==
  /\ EngineShape
  /\ \A r \in Requests : Copied(r) => Whole(call[r].copy)
  /\ doc # NoDoc => Stored
  /\ \A p \in SeatNos : \A r, q \in Replies(p, "success") : r = q

-----------------------------------------------------------------------------
(* What the operations on a document do.                                   *)

\* There are finitely many seats.
LEMMA SeatNosFinite == IsFiniteSet(SeatNos) /\ Cardinality(SeatNos) = SeatUsers
<1> USE EngineAssumption
<1> QED
  BY FS_Interval DEF SeatNos

\* The parts of a document.
LEMMA DocumentParts ==
  ASSUME NEW d \in Documents
  PROVE  /\ d.version \in Nat \ {0} /\ d.bet \in Nat /\ d.pot \in Nat /\ d.turn \in SeatNos
         /\ \A p \in SeatNos : /\ d.players[p].chips \in Nat /\ d.players[p].chips <= Stack
                               /\ d.players[p].bet \in Nat
                               /\ d.players[p].acted \in BOOLEAN /\ d.players[p].folded \in BOOLEAN
         /\ Bets(d) \in Nat /\ Stacks(d) \in Nat
<1>1. /\ d.version \in Nat \ {0} /\ d.bet \in Nat /\ d.pot \in Nat /\ d.turn \in SeatNos
      /\ \A p \in SeatNos : /\ d.players[p].chips \in Nat /\ d.players[p].chips <= Stack
                            /\ d.players[p].bet \in Nat
                            /\ d.players[p].acted \in BOOLEAN /\ d.players[p].folded \in BOOLEAN
  BY EngineAssumption DEF Documents
<1>2. Bets(d) \in Nat
  <2> DEFINE f == [p \in SeatNos |-> d.players[p].bet]
  <2>1. \A p \in SeatNos : f[p] \in Nat
    BY <1>1
  <2> HIDE DEF f
  <2>2. Sum(f, SeatNos) \in Nat
    BY <2>1, SeatNosFinite, SumNat
  <2> QED
    BY <2>2 DEF f, Bets
<1>3. Stacks(d) \in Nat
  <2> DEFINE f == [p \in SeatNos |-> d.players[p].chips]
  <2>1. \A p \in SeatNos : f[p] \in Nat
    BY <1>1
  <2> HIDE DEF f
  <2>2. Sum(f, SeatNos) \in Nat
    BY <2>1, SeatNosFinite, SumNat
  <2> QED
    BY <2>2 DEF f, Stacks
<1> QED
  BY <1>1, <1>2, <1>3

\* A contribution is what is required, or nothing.
LEMMA ContributionIs ==
  ASSUME NEW d \in Documents, NEW p \in SeatNos, NEW act \in Acts
  PROVE  /\ Contribution(act, d, p) \in Nat
         /\ act = "fold" => Contribution(act, d, p) = 0
         /\ act = "call" /\ d.players[p].bet <= d.bet
              => Contribution(act, d, p) = d.bet - d.players[p].bet
<1>1. RequiredAmount(act, d, p) \in Int
  BY EngineAssumption, DocumentParts DEF RequiredAmount
<1>2. Contribution(act, d, p)
        = IF RequiredAmount(act, d, p) > 0 THEN RequiredAmount(act, d, p) ELSE 0
  BY <1>1, MaxOrZero DEF Contribution
<1>3. act = "fold" => RequiredAmount(act, d, p) = 0
  BY DEF RequiredAmount
<1>4. act = "call" => RequiredAmount(act, d, p) = d.bet - d.players[p].bet
  BY DEF RequiredAmount
<1>5. d.bet \in Nat /\ d.players[p].bet \in Nat
  BY DocumentParts
<1> QED
  BY <1>1, <1>2, <1>3, <1>4, <1>5

\* What Applied changes.
LEMMA AppliedParts ==
  ASSUME NEW d \in Documents, NEW p \in SeatNos, NEW act \in Acts, CanApply(act, d, p)
  PROVE  /\ Applied(act, d, p) \in Documents
         /\ Applied(act, d, p).version = d.version
         /\ Applied(act, d, p).pot = d.pot
         /\ act \notin {"raise", "all_in"} => Applied(act, d, p).bet = d.bet
         /\ \A q \in SeatNos \ {p} : Applied(act, d, p).players[q] = d.players[q]
         /\ Applied(act, d, p).players[p].chips = d.players[p].chips - Contribution(act, d, p)
         /\ Applied(act, d, p).players[p].bet = d.players[p].bet + Contribution(act, d, p)
         /\ Applied(act, d, p).players[p].acted = TRUE
         /\ act = "fold" => Applied(act, d, p).players[p].folded = TRUE
<1> DEFINE paid == Contribution(act, d, p)
           staked == d.players[p].bet + paid
           high == IF act \in {"raise", "all_in"} THEN Max({d.bet, staked}) ELSE d.bet
           one == d.players[p]
           gone == (one.folded \/ act = "fold")
           new == [chips |-> one.chips - paid, bet |-> staked, acted |-> TRUE, folded |-> gone]
           all == [d.players EXCEPT ![p] = new]
           PlayerSet == [chips : 0..Stack, bet : Nat, acted : BOOLEAN, folded : BOOLEAN]
<1>1. paid \in Nat /\ paid <= one.chips /\ one.chips \in Nat /\ one.chips <= Stack
      /\ one.bet \in Nat /\ d.bet \in Nat
  BY ContributionIs, DocumentParts DEF CanApply
<1>2. staked \in Nat /\ one.chips - paid \in 0..Stack
  <2> HIDE DEF paid
  <2> QED
    BY <1>1, EngineAssumption
<1>3. high \in Nat
  <2>1. Max({d.bet, staked}) \in {d.bet, staked}
    <3> DEFINE s == staked
    <3>1. s \in Nat
      BY <1>2
    <3> HIDE DEF s
    <3>2. Max({d.bet, s}) \in {d.bet, s}
      BY <1>1, <3>1 DEF Max
    <3> QED
      BY <3>2 DEF s
  <2> QED
    BY <1>1, <1>2, <2>1
<1>4. d.players \in [SeatNos -> PlayerSet] /\ one \in PlayerSet
  BY DEF Documents
<1>5. new \in PlayerSet
  <2>1. gone \in BOOLEAN
    BY <1>4
  <2> HIDE DEF paid, staked, gone, one
  <2> QED
    BY <1>2, <2>1
<1>6. all \in [SeatNos -> PlayerSet] /\ all[p] = new /\ \A q \in SeatNos \ {p} : all[q] = d.players[q]
  <2> HIDE DEF new, PlayerSet, one
  <2> QED
    BY <1>4, <1>5
<1>7. Applied(act, d, p) = [d EXCEPT !.players[p] = new, !.bet = high]
  BY DEF Applied
<1>8. /\ Applied(act, d, p) \in Documents
      /\ Applied(act, d, p).version = d.version /\ Applied(act, d, p).pot = d.pot
      /\ Applied(act, d, p).bet = high /\ Applied(act, d, p).players = all
  <2>1. all = [d.players EXCEPT ![p] = new]
    OBVIOUS
  <2> HIDE DEF all, high, new
  <2>2. Applied(act, d, p) = [d EXCEPT !.players = all, !.bet = high]
    BY <1>7, <2>1
  <2> QED
    BY <1>3, <1>6, <2>2 DEF Documents
<1>9. new.chips = one.chips - paid /\ new.bet = staked /\ new.acted = TRUE
      /\ (act = "fold" => new.folded = TRUE)
  <2> HIDE DEF paid, one
  <2> QED
    OBVIOUS
<1> QED
  <2> HIDE DEF new, all, paid
  <2>1. /\ Applied(act, d, p).players[p] = new
        /\ \A q \in SeatNos \ {p} : Applied(act, d, p).players[q] = d.players[q]
    BY <1>6, <1>8
  <2>2. act \notin {"raise", "all_in"} => Applied(act, d, p).bet = d.bet
    BY <1>8
  <2>3. Contribution(act, d, p) = paid
    BY DEF paid
  <2> QED
    BY <1>8, <1>9, <2>1, <2>2, <2>3

\* It moves chips from the player's stack to his bet.
LEMMA AppliedKeepsChips ==
  ASSUME NEW d \in Documents, NEW p \in SeatNos, NEW act \in Acts, CanApply(act, d, p)
  PROVE  HeldBy(Applied(act, d, p)) = HeldBy(d)
<1> DEFINE e == Applied(act, d, p)
           paid == Contribution(act, d, p)
<1>1. /\ e \in Documents /\ e.pot = d.pot
      /\ \A q \in SeatNos \ {p} : e.players[q] = d.players[q]
      /\ e.players[p].chips = d.players[p].chips - paid
      /\ e.players[p].bet = d.players[p].bet + paid
  BY AppliedParts
<1>2. paid \in Nat
  BY ContributionIs
<1> HIDE DEF e, paid
<1>3. \A q \in SeatNos : /\ d.players[q].chips \in Int /\ d.players[q].bet \in Int
                         /\ e.players[q].chips \in Int /\ e.players[q].bet \in Int
  BY <1>1, DocumentParts
<1>4. Bets(e) = Bets(d) + paid
  <2> DEFINE f == [q \in SeatNos |-> d.players[q].bet]
             g == [q \in SeatNos |-> e.players[q].bet]
  <2>1. /\ \A q \in SeatNos : f[q] \in Int /\ g[q] \in Int
        /\ \A q \in SeatNos \ {p} : g[q] = f[q]
        /\ g[p] - f[p] = paid
    BY <1>1, <1>2, <1>3
  <2> HIDE DEF f, g
  <2>2. Sum(g, SeatNos) = Sum(f, SeatNos) + (g[p] - f[p])
    BY <2>1, SeatNosFinite, SumChange
  <2> QED
    BY <2>1, <2>2 DEF f, g, Bets
<1>5. Stacks(e) = Stacks(d) - paid
  <2> DEFINE f == [q \in SeatNos |-> d.players[q].chips]
             g == [q \in SeatNos |-> e.players[q].chips]
  <2>1. /\ \A q \in SeatNos : f[q] \in Int /\ g[q] \in Int
        /\ \A q \in SeatNos \ {p} : g[q] = f[q]
        /\ g[p] = f[p] - paid
    BY <1>1, <1>2, <1>3
  <2> HIDE DEF f, g
  <2>2. Sum(g, SeatNos) = Sum(f, SeatNos) + (g[p] - f[p])
    BY <2>1, SeatNosFinite, SumChange
  <2>3. Sum(f, SeatNos) \in Int
    BY <2>1, SeatNosFinite, SumInt
  <2>4. Sum(g, SeatNos) = Sum(f, SeatNos) - paid
    BY <1>2, <2>1, <2>2, <2>3
  <2> QED
    BY <2>4 DEF f, g, Stacks
<1>6. HeldBy(e) = HeldBy(d)
  <2>1. Bets(d) \in Nat /\ Stacks(d) \in Nat /\ d.pot \in Nat
    BY DocumentParts
  <2> QED
    BY <1>1, <1>2, <1>4, <1>5, <2>1 DEF HeldBy
<1> QED
  BY <1>6 DEF e

\* A call, or a fold, leaves the round even.
LEMMA AppliedStaysEven ==
  ASSUME NEW d \in Documents, NEW p \in SeatNos, NEW act \in Acts, CanApply(act, d, p),
         act \in {"fold", "call"}, Level(d)
  PROVE  Level(Applied(act, d, p))
<1> DEFINE e == Applied(act, d, p)
           paid == Contribution(act, d, p)
<1>0. /\ d.bet = Bet
      /\ \A q \in SeatNos : /\ d.players[q].bet <= Bet
                            /\ d.players[q].acted /\ ~d.players[q].folded => d.players[q].bet = Bet
  BY DEF Level
<1>1. /\ e.bet = Bet
      /\ \A q \in SeatNos \ {p} : e.players[q] = d.players[q]
      /\ e.players[p].bet = d.players[p].bet + paid
      /\ act = "fold" => e.players[p].folded = TRUE
  BY <1>0, AppliedParts
<1>2. act = "fold" => paid = 0
  BY ContributionIs
<1>3. act = "call" => paid = Bet - d.players[p].bet
  BY <1>0, ContributionIs
<1>4. d.players[p].bet \in Nat /\ Bet \in Nat
  BY DocumentParts, EngineAssumption
<1> HIDE DEF e, paid
<1>5. e.players[p].bet <= Bet /\ (act = "call" => e.players[p].bet = Bet)
  BY <1>0, <1>1, <1>2, <1>3, <1>4
<1>6. e.players[p].folded = TRUE \/ e.players[p].bet = Bet
  BY <1>1, <1>5
<1>7. \A q \in SeatNos : /\ e.players[q].bet <= Bet
                         /\ e.players[q].acted /\ ~e.players[q].folded
                              => e.players[q].bet = Bet
  <2> TAKE q \in SeatNos
  <2>1. CASE q = p
    BY <1>5, <1>6, <2>1
  <2>2. CASE q # p
    BY <1>0, <1>1, <2>2
  <2> QED
    BY <2>1, <2>2
<1> QED
  BY <1>1, <1>7 DEF e, Level

\* Collecting the bets.
LEMMA CollectParts ==
  ASSUME NEW d \in Documents
  PROVE  /\ CollectBets(d) \in Documents
         /\ CollectBets(d).version = d.version /\ CollectBets(d).bet = d.bet
         /\ CollectBets(d).pot = d.pot + Bets(d)
         /\ \A p \in SeatNos : SameOf(CollectBets(d), d, p) /\ CollectBets(d).players[p].bet = 0
         /\ HeldBy(CollectBets(d)) = HeldBy(d)
<1> DEFINE PlayerSet == [chips : 0..Stack, bet : Nat, acted : BOOLEAN, folded : BOOLEAN]
           all == [p \in SeatNos |-> [d.players[p] EXCEPT !.bet = 0]]
           e == CollectBets(d)
<1>1. d.players \in [SeatNos -> PlayerSet] /\ Bets(d) \in Nat /\ d.pot \in Nat /\ Stacks(d) \in Nat
  BY DocumentParts DEF Documents
<1>2. all \in [SeatNos -> PlayerSet]
  BY <1>1
<1>3. \A p \in SeatNos : /\ all[p].chips = d.players[p].chips /\ all[p].bet = 0
                         /\ all[p].acted = d.players[p].acted /\ all[p].folded = d.players[p].folded
  BY <1>1
<1>4. e = [d EXCEPT !.pot = d.pot + Bets(d), !.players = all]
  BY DEF CollectBets
<1>5. /\ e \in Documents /\ e.version = d.version /\ e.bet = d.bet
      /\ e.pot = d.pot + Bets(d) /\ e.players = all
  <2> HIDE DEF all
  <2>1. d.pot + Bets(d) \in Nat
    BY <1>1
  <2> QED
    BY <1>2, <1>4, <2>1 DEF Documents
<1> HIDE DEF all, e
<1>6. \A p \in SeatNos : SameOf(e, d, p) /\ e.players[p].bet = 0
  BY <1>3, <1>5 DEF SameOf
<1>7. Bets(e) = 0
  <2> DEFINE f == [p \in SeatNos |-> e.players[p].bet]
  <2>1. \A p \in SeatNos : f[p] = 0
    BY <1>6
  <2> HIDE DEF f
  <2>2. Sum(f, SeatNos) = 0
    BY <2>1, SeatNosFinite, SumZero
  <2> QED
    BY <2>2 DEF f, Bets
<1>8. Stacks(e) = Stacks(d)
  <2> DEFINE f == [p \in SeatNos |-> e.players[p].chips]
             g == [p \in SeatNos |-> d.players[p].chips]
  <2>1. f = g
    BY <1>6 DEF SameOf
  <2> HIDE DEF f, g
  <2>2. Sum(f, SeatNos) = Sum(g, SeatNos)
    BY <2>1
  <2> QED
    BY <2>2 DEF f, g, Stacks
<1>9. HeldBy(e) = HeldBy(d)
  BY <1>1, <1>5, <1>7, <1>8 DEF HeldBy
<1> QED
  BY <1>5, <1>6, <1>9 DEF e

\* If nothing comes into the pot, everybody's bet was 0.
LEMMA NothingCollected ==
  ASSUME NEW d \in Documents, d.pot + Bets(d) = 0
  PROVE  d.pot = 0 /\ \A p \in SeatNos : d.players[p].bet = 0
<1> DEFINE f == [p \in SeatNos |-> d.players[p].bet]
<1>1. \A p \in SeatNos : f[p] \in Nat
  BY DocumentParts
<1>2. d.pot = 0 /\ Bets(d) = 0
  BY DocumentParts
<1>3. Sum(f, SeatNos) = 0
  BY <1>2 DEF Bets
<1>4. \A p \in SeatNos : f[p] = 0
  <2> HIDE DEF f
  <2> QED
    BY <1>1, <1>3, SeatNosFinite, SumNone
<1> QED
  BY <1>2, <1>4

\* The turn goes round the table.
LEMMA NextTurnIsSeat ==
  ASSUME NEW d \in Documents
  PROVE  NextTurn(d) \in SeatNos
<1> DEFINE after == {i \in 1..SeatUsers : (d.turn + i) % SeatUsers \in Unfolded(d)}
<1>1. d.turn \in SeatNos /\ SeatNos \subseteq Nat
  BY DocumentParts DEF SeatNos
<1>2. ASSUME after # {} PROVE (d.turn + Min(after)) % SeatUsers \in SeatNos
  <2>1. after \in SUBSET Nat
    BY EngineAssumption
  <2>2. Min(after) \in after
    <3> HIDE DEF after
    <3> QED
      BY <1>2, <2>1, MinIsLeast
  <2>3. d.turn + Min(after) \in Int
    <3> DEFINE m == Min(after)
    <3>1. m \in Nat /\ d.turn \in Nat
      BY <1>1, <2>1, <2>2
    <3> HIDE DEF m
    <3>2. d.turn + m \in Int
      BY <3>1
    <3> QED
      BY <3>2 DEF m
  <2> QED
    BY <2>3, EngineAssumption, ModRange DEF SeatNos
<1> QED
  BY <1>1, <1>2 DEF NextTurn

\* Advance changes the turn and the version.
LEMMA AdvanceParts ==
  ASSUME NEW d \in Documents
  PROVE  /\ Advance(d) \in Documents
         /\ Advance(d).version = d.version + 1 /\ Advance(d).bet = d.bet
         /\ Advance(d).pot = d.pot /\ Advance(d).players = d.players
<1> DEFINE t == NextTurn(d)
           v == d.version + 1
<1>1. t \in SeatNos /\ v \in Nat \ {0}
  BY NextTurnIsSeat, DocumentParts
<1>2. Advance(d) = [d EXCEPT !.turn = t, !.version = v]
  BY DEF Advance
<1>3. v = d.version + 1
  OBVIOUS
<1> HIDE DEF t, v
<1> QED
  BY <1>1, <1>2, <1>3 DEF Documents

-----------------------------------------------------------------------------
(* What a step does to the requests.                                       *)

Replied == {"answered", "done"}
Places == {"new", "locked", "valid", "applied", "collected", "answered", "done"}

\* What a request knows depends on how far it is.
LEMMA RequestParts ==
  ASSUME EngineShape, NEW r \in Requests
  PROVE  /\ At(r) \in Places
         /\ At(r) # "new" => Who(r) \in SeatNos /\ call[r].act \in Acts
         /\ At(r) \in {"locked", "valid"} => call[r] \in Begun
         /\ Copied(r) => call[r] \in Changed /\ call[r].copy \in Documents
         /\ At(r) \in Replied => call[r] \in Ended
<1>1. call[r] \in [at : {"new"}] \cup Begun \cup Changed \cup Ended
  BY DEF EngineShape
<1>2. CASE call[r] \in [at : {"new"}]
  BY <1>2 DEF At, Copied, Replied, Places
<1>3. CASE call[r] \in Begun
  BY <1>3 DEF At, Who, Copied, Replied, Places, Begun
<1>4. CASE call[r] \in Changed
  BY <1>4 DEF At, Who, Copied, Replied, Places, Changed
<1>5. CASE call[r] \in Ended
  BY <1>5 DEF At, Who, Copied, Replied, Places, Ended
<1> QED
  BY <1>1, <1>2, <1>3, <1>4, <1>5

\* A step of one request leaves the others alone, and its player and action.
OthersStay(r) == \A q \in Requests \ {r} : call'[q] = call[q]
StaysHis(r) ==
  At(r) # "new" => call'[r].at # "new" /\ call'[r].who = Who(r) /\ call'[r].act = call[r].act

\* Who is still to raise is nobody who has raised.
LEMMA NobodyRaised ==
  ASSUME NEW r \in Requests, OthersStay(r), StaysHis(r), NobodyRaises'
  PROVE  NobodyRaises
<1> SUFFICES ASSUME NEW q \in Requests, At(q) # "new"
             PROVE  call[q].act \in {"fold", "call"}
  BY DEF NobodyRaises
<1>1. At(q)' # "new" /\ call'[q].act = call[q].act
  BY DEF OthersStay, StaysHis, At
<1> QED
  BY <1>1 DEF NobodyRaises

\* Answers stay, and one request gets one.
LEMMA RepliesStay ==
  ASSUME NEW r \in Requests, OthersStay(r),
         At(r) \in Replied => /\ At(r)' \in Replied /\ Who(r)' = Who(r)
                              /\ call'[r].reply = call[r].reply,
         NEW p, NEW reply
  PROVE  /\ Replies(p, reply) \subseteq Replies(p, reply)'
         /\ Replies(p, reply)' \subseteq Replies(p, reply) \cup {r}
         /\ r \in Replies(p, reply)' =>
              At(r)' \in Replied /\ Who(r)' = p /\ call'[r].reply = reply
<1>1. \A q \in Requests \ {r} : At(q)' = At(q) /\ Who(q)' = Who(q)
                                   /\ call'[q].reply = call[q].reply
  BY DEF OthersStay, At, Who
<1> QED
  BY <1>1 DEF Replies, Replied

\* A step that saves nothing: the document stays, no request succeeds, and a copy that
\* was made or changed is as good as it has to be.
LEMMA NothingSaved ==
  ASSUME EngineIInv, EngineShape', NEW r \in Requests, OthersStay(r), StaysHis(r), doc' = doc,
         At(r) \in Replied => At(r)' \in Replied /\ call'[r].reply = call[r].reply,
         At(r)' \in Replied /\ At(r) \notin Replied => call'[r].reply # "success",
         Copied(r)' => Whole(call'[r].copy),
         Copied(r)' /\ doc # NoDoc => CopyFits(r)'
  PROVE  EngineIInv'
<1>1. At(r) \in Replied => At(r)' \in Replied /\ Who(r)' = Who(r) /\ call'[r].reply = call[r].reply
  BY DEF StaysHis, Who, Replied
<1>2. \A p, reply : Replies(p, reply) \subseteq Replies(p, reply)'
  BY <1>1, RepliesStay
<1>3. \A p : Replies(p, "success")' = Replies(p, "success")
  <2> TAKE p
  <2>1. r \in Replies(p, "success")' => r \in Replies(p, "success")
    <3> SUFFICES ASSUME r \in Replies(p, "success")' PROVE r \in Replies(p, "success")
      OBVIOUS
    <3>1. At(r)' \in Replied /\ Who(r)' = p /\ call'[r].reply = "success"
      BY <1>1, RepliesStay
    <3>2. At(r) \in Replied
      BY <3>1
    <3> QED
      BY <1>1, <3>1, <3>2 DEF Replies, Replied
  <2> QED
    BY <1>1, <2>1, RepliesStay
<1>4. \A q \in Requests : Copied(q)' => Whole(call[q].copy)'
  <2> SUFFICES ASSUME NEW q \in Requests, Copied(q)' PROVE Whole(call[q].copy)'
    OBVIOUS
  <2>1. Whole(call'[q].copy)
    <3>1. CASE q = r
      BY <3>1
    <3>2. CASE q # r
      BY <3>2 DEF OthersStay, EngineIInv, Copied, At
    <3> QED
      BY <3>1, <3>2
  <2> QED
    BY <2>1, NobodyRaised DEF Whole, Even, Level, HeldBy, Bets, Stacks
<1>5. ASSUME doc # NoDoc PROVE Stored'
  <2>1. Whole(doc)'
    <3>1. Whole(doc)
      BY <1>5 DEF EngineIInv, Stored
    <3> QED
      BY <3>1, NobodyRaised DEF Whole, Even, Level, HeldBy, Bets, Stacks
  <2>2. \A p \in SeatNos : Replies(p, "success")' # {} => doc'.players[p].acted = TRUE
    BY <1>3, <1>5 DEF EngineIInv, Stored
  <2>3. \A p \in SeatNos : Traced(p)'
    BY <1>2, <1>5 DEF EngineIInv, Stored, Traced
  <2>4. \A q \in Requests : Copied(q)' => CopyFits(q)'
    <3> SUFFICES ASSUME NEW q \in Requests, Copied(q)', q # r PROVE CopyFits(q)'
      BY <1>5
    <3>1. call'[q] = call[q]
      BY DEF OthersStay
    <3>2. CopyFits(q)
      BY <1>5, <3>1 DEF EngineIInv, Stored, Copied, At
    <3> QED
      BY <3>1, <3>2 DEF CopyFits, SameOf, Who
  <2> QED
    BY <2>1, <2>2, <2>3, <2>4 DEF Stored
<1>6. \A p \in SeatNos : \A a, b \in Replies(p, "success")' : a = b
  BY <1>3 DEF EngineIInv
<1> QED
  BY <1>4, <1>5, <1>6 DEF EngineIInv

\* A copy of the version that is stored replaces it.
LEMMA CopySaved ==
  ASSUME EngineIInv, EngineShape', NEW r \in Requests, OthersStay(r), StaysHis(r),
         At(r) = "collected", VersionMatches(call[r].copy), doc' = Advance(call[r].copy),
         At(r)' = "answered", call'[r].reply \in {"success", "error"}
  PROVE  EngineIInv'
<1> DEFINE c == call[r].copy
<1>1. doc \in Documents /\ doc # NoDoc /\ c \in Documents /\ c.version = doc.version
  <2>1. c \in Documents /\ c.version # 0
    BY RequestParts, DocumentParts DEF EngineIInv, Copied
  <2> QED
    BY <2>1 DEF VersionMatches, EngineIInv, EngineShape
<1>2. Stored
  BY <1>1 DEF EngineIInv
<1>3. /\ Who(r) \in SeatNos /\ Who(r)' = Who(r)
      /\ doc.players[Who(r)].acted = FALSE /\ c.players[Who(r)].acted = TRUE
      /\ \A q \in SeatNos \ {Who(r)} : SameOf(c, doc, q)
  <2>1. Copied(r) /\ CopyFits(r)
    BY <1>2 DEF Stored, Copied
  <2>2. Who(r) \in SeatNos /\ Who(r)' = Who(r)
    BY RequestParts DEF EngineIInv, StaysHis, Who
  <2> QED
    BY <1>1, <2>1, <2>2 DEF CopyFits
<1>4. /\ doc'.version = doc.version + 1 /\ doc'.bet = c.bet /\ doc'.pot = c.pot
      /\ doc'.players = c.players
  BY <1>1, AdvanceParts
<1>5. \A p, reply : Replies(p, reply) \subseteq Replies(p, reply)'
  BY RepliesStay DEF Replied
<1>6. \A p : \A q \in Replies(p, "success")' : q \in Replies(p, "success") \/ (q = r /\ p = Who(r))
  <2> TAKE p
  <2>1. /\ Replies(p, "success")' \subseteq Replies(p, "success") \cup {r}
        /\ r \in Replies(p, "success")' => Who(r)' = p
    BY RepliesStay DEF Replied
  <2> QED
    BY <1>3, <2>1
<1>7. Replies(Who(r), "success") = {}
  BY <1>2, <1>3 DEF Stored
<1>8. Whole(c)
  BY DEF EngineIInv, Copied
<1>9. Whole(doc)'
  BY <1>4, <1>8, NobodyRaised DEF Whole, Even, Level, HeldBy, Bets, Stacks
<1>10. \A p \in SeatNos : Replies(p, "success")' # {} => doc'.players[p].acted = TRUE
  <2> SUFFICES ASSUME NEW p \in SeatNos, Replies(p, "success")' # {}
               PROVE  doc'.players[p].acted = TRUE
    OBVIOUS
  <2>1. CASE p = Who(r)
    BY <1>3, <1>4, <2>1
  <2>2. CASE p # Who(r)
    <3>1. Replies(p, "success") # {}
      BY <1>6, <2>2
    <3>2. doc.players[p].acted = TRUE
      BY <1>2, <3>1 DEF Stored
    <3>3. SameOf(c, doc, p)
      BY <1>3, <2>2
    <3> QED
      BY <1>4, <3>2, <3>3 DEF SameOf
  <2> QED
    BY <2>1, <2>2
<1>11. \A p \in SeatNos : Traced(p)'
  <2> TAKE p \in SeatNos
  <2>1. CASE p = Who(r)
    <3>1. r \in Replies(p, "success")' \cup Replies(p, "error")'
      BY <1>3, <2>1 DEF Replies
    <3> QED
      BY <3>1 DEF Traced
  <2>2. CASE p # Who(r)
    <3>1. Traced(p)
      BY <1>2 DEF Stored
    <3>2. SameOf(c, doc, p)
      BY <1>3, <2>2
    <3> QED
      BY <1>4, <1>5, <3>1, <3>2 DEF Traced, SameOf
  <2> QED
    BY <2>1, <2>2
<1>12. \A q \in Requests : Copied(q)' => CopyFits(q)'
  <2> SUFFICES ASSUME NEW q \in Requests, Copied(q)' PROVE CopyFits(q)'
    OBVIOUS
  <2>1. q # r /\ call'[q] = call[q]
    BY DEF Copied, OthersStay
  <2>2. Copied(q) /\ CopyFits(q)
    BY <1>2, <2>1 DEF Stored, Copied, At
  <2>3. call[q].copy.version \in Nat /\ doc.version \in Nat
    BY <1>1, <2>2, RequestParts, DocumentParts DEF EngineIInv
  <2>4. call[q].copy.version < doc'.version
    BY <1>4, <2>2, <2>3 DEF CopyFits
  <2> QED
    BY <1>4, <2>1, <2>3, <2>4 DEF CopyFits
<1>13. \A q \in Requests : Copied(q)' => Whole(call[q].copy)'
  <2> SUFFICES ASSUME NEW q \in Requests, Copied(q)' PROVE Whole(call[q].copy)'
    OBVIOUS
  <2>1. q # r /\ call'[q] = call[q]
    BY DEF Copied, OthersStay
  <2>2. Whole(call'[q].copy)
    BY <2>1 DEF EngineIInv, Copied, At
  <2> QED
    BY <2>2, NobodyRaised DEF Whole, Even, Level, HeldBy, Bets, Stacks
<1>14. \A p \in SeatNos : \A a, b \in Replies(p, "success")' : a = b
  <2> TAKE p \in SeatNos
  <2>1. CASE p = Who(r)
    <3>1. Replies(p, "success") = {}
      BY <1>7, <2>1
    <3> QED
      BY <1>6, <3>1
  <2>2. CASE p # Who(r)
    <3>1. \A a, b \in Replies(p, "success") : a = b
      BY DEF EngineIInv
    <3> QED
      BY <1>6, <2>2, <3>1
  <2> QED
    BY <2>1, <2>2
<1> QED
  BY <1>9, <1>10, <1>11, <1>12, <1>13, <1>14 DEF EngineIInv, Stored

-----------------------------------------------------------------------------
(* Every step keeps the invariant.                                         *)

\* An answer is the end of a request.
LEMMA Answers ==
  ASSUME EngineShape, NEW r \in Requests, At(r) \notin {"new", "done"}, NEW reply,
         reply \in {"success", "refused", "error"}, Answer(r, reply)
  PROVE  /\ OthersStay(r) /\ StaysHis(r) /\ At(r)' = "answered" /\ call'[r].reply = reply
         /\ call' \in [Requests -> [at : {"new"}] \cup Begun \cup Changed \cup Ended]
<1> DEFINE new == [at |-> "answered", who |-> Who(r), act |-> call[r].act, reply |-> reply]
<1>1. new \in Ended
  BY RequestParts DEF Ended
<1>2. new.at = "answered" /\ new.who = Who(r) /\ new.act = call[r].act /\ new.reply = reply
  OBVIOUS
<1>3. call' = [call EXCEPT ![r] = new]
  BY DEF Answer
<1> HIDE DEF new
<1>4. call'[r] = new /\ OthersStay(r)
      /\ call' \in [Requests -> [at : {"new"}] \cup Begun \cup Changed \cup Ended]
  BY <1>1, <1>3 DEF EngineShape, OthersStay
<1> QED
  BY <1>2, <1>4 DEF StaysHis, At

\* Initially everybody has all the chips.
LEMMA EngineBegins == EngineInit => EngineIInv
<1> SUFFICES ASSUME EngineInit PROVE EngineIInv
  OBVIOUS
<1>1. SeatUsers \in Nat \ {0} /\ Stack \in Nat /\ Bet \in Nat
  BY EngineAssumption
<1>2. 0 \in SeatNos
  BY <1>1 DEF SeatNos
<1>3. Player \in [chips : 0..Stack, bet : Nat, acted : BOOLEAN, folded : BOOLEAN]
  BY <1>1 DEF Player
<1>4. /\ doc \in Documents /\ doc.pot = 0 /\ doc.bet = Bet
      /\ \A p \in SeatNos : doc.players[p] = Player
  BY <1>1, <1>2, <1>3 DEF EngineInit, Documents
<1>5. EngineShape
  BY <1>4 DEF EngineInit, EngineShape
<1>6. \A r \in Requests : At(r) = "new"
  BY DEF EngineInit, At
<1>7. HeldBy(doc) = SeatUsers * Stack
  <2>1. Bets(doc) = 0
    <3> DEFINE f == [p \in SeatNos |-> doc.players[p].bet]
    <3>1. \A p \in SeatNos : f[p] = 0
      BY <1>4 DEF Player
    <3> HIDE DEF f
    <3>2. Sum(f, SeatNos) = 0
      BY <3>1, SeatNosFinite, SumZero
    <3> QED
      BY <3>2 DEF f, Bets
  <2>2. Stacks(doc) = Stack * SeatUsers
    <3> DEFINE f == [p \in SeatNos |-> doc.players[p].chips]
    <3>1. \A p \in SeatNos : f[p] = Stack
      BY <1>4 DEF Player
    <3> HIDE DEF f
    <3>2. Stack \in Int
      BY <1>1
    <3>3. Sum(f, SeatNos) = Stack * Cardinality(SeatNos)
      BY <3>1, <3>2, SeatNosFinite, SumConst
    <3> QED
      BY <3>3, SeatNosFinite DEF f, Stacks
  <2>3. Stack * SeatUsers = SeatUsers * Stack
    BY <1>1
  <2> QED
    BY <1>1, <1>4, <2>1, <2>2, <2>3 DEF HeldBy
<1>8. Even(doc)
  BY <1>1, <1>4 DEF Even, Level, Player
<1>9. \A p, reply : Replies(p, reply) = {}
  BY <1>6 DEF Replies
<1>10. Stored
  BY <1>4, <1>6, <1>7, <1>8, <1>9 DEF Stored, Whole, Traced, Copied, Player
<1> QED
  BY <1>5, <1>6, <1>9, <1>10 DEF EngineIInv, Copied

\* process_action begins.
LEMMA TapKeeps ==
  ASSUME EngineIInv, NEW r \in Requests, NEW p \in SeatNos, NEW act \in Acts, Tap(r, p, act)
  PROVE  EngineIInv'
<1> DEFINE begun == [at |-> "locked", who |-> p, act |-> act]
           refused == [at |-> "done", who |-> p, act |-> act, reply |-> "refused"]
           new == IF tapLock[<<p, act>>] = NoRequest THEN begun ELSE refused
<1>1. begun \in Begun /\ refused \in Ended
  BY DEF Begun, Ended
<1>2. new \in Begun \cup Ended /\ new.at \in {"locked", "done"} /\ (new.at = "done" => new.reply = "refused")
  <2> HIDE DEF begun, refused
  <2>1. begun.at = "locked" /\ refused.at = "done" /\ refused.reply = "refused"
    BY DEF begun, refused
  <2> QED
    BY <1>1, <2>1
<1>3. /\ call' = [call EXCEPT ![r] = new] /\ At(r) = "new" /\ doc' = doc
      /\ tapLock' = [tapLock EXCEPT ![<<p, act>>] = IF @ = NoRequest THEN r ELSE @]
  BY DEF Tap
<1> HIDE DEF new
<1>4. EngineShape'
  <2>1. call' \in [Requests -> [at : {"new"}] \cup Begun \cup Changed \cup Ended]
    BY <1>2, <1>3 DEF EngineIInv, EngineShape
  <2>2. tapLock' \in [SeatNos \X Acts -> Requests \cup {NoRequest}]
    BY <1>3 DEF EngineIInv, EngineShape
  <2> QED
    BY <1>3, <2>1, <2>2 DEF EngineIInv, EngineShape
<1>5. call'[r] = new /\ OthersStay(r)
  BY <1>3 DEF EngineIInv, EngineShape, OthersStay
<1> QED
  BY <1>2, <1>3, <1>4, <1>5, NothingSaved DEF At, StaysHis, Copied, Replied

\* The locks of the buttons matter to nothing that is saved.
LEMMA TapLockKeeps ==
  ASSUME EngineIInv, doc' = doc, call' = call,
         tapLock' \in [SeatNos \X Acts -> Requests \cup {NoRequest}]
  PROVE  EngineIInv'
<1>1. EngineShape'
  BY DEF EngineIInv, EngineShape
<1>2. NobodyRaises' = NobodyRaises
  BY DEF NobodyRaises, At
<1>3. \A p, reply : Replies(p, reply)' = Replies(p, reply)
  BY DEF Replies, At, Who
<1>4. \A r \in Requests : Copied(r)' => Whole(call[r].copy)'
  BY <1>2 DEF EngineIInv, Copied, At, Whole, Even, HeldBy, Bets, Stacks
<1>5. doc # NoDoc => Stored'
  BY <1>2, <1>3 DEF EngineIInv, Stored, Whole, Even, HeldBy, Bets, Stacks, Traced, Copied, CopyFits, SameOf, At, Who
<1>6. \A p \in SeatNos : \A r, q \in Replies(p, "success")' : r = q
  BY <1>3 DEF EngineIInv
<1> QED
  BY <1>1, <1>4, <1>5, <1>6 DEF EngineIInv

\* An answer that is no success saves nothing.
LEMMA RefusedKeeps ==
  ASSUME EngineIInv, NEW r \in Requests, At(r) \in {"locked", "valid", "applied", "collected"},
         NEW reply \in {"refused", "error"}, Answer(r, reply), doc' = doc, tapLock' = tapLock
  PROVE  EngineIInv'
<1>1. /\ OthersStay(r) /\ StaysHis(r) /\ At(r)' = "answered" /\ call'[r].reply = reply
      /\ call' \in [Requests -> [at : {"new"}] \cup Begun \cup Changed \cup Ended]
  BY Answers DEF EngineIInv
<1>2. EngineShape'
  BY <1>1 DEF EngineIInv, EngineShape
<1> QED
  BY <1>1, <1>2, NothingSaved DEF Copied, Replied

\* Step 1.
LEMMA ValidateKeeps ==
  ASSUME EngineIInv, NEW r \in Requests, Validate(r)
  PROVE  EngineIInv'
<1>1. At(r) = "locked" /\ doc' = doc /\ tapLock' = tapLock
  BY DEF Validate
<1>2. CASE Answer(r, "refused")
  BY <1>1, <1>2, RefusedKeeps
<1>3. CASE call' = [call EXCEPT ![r].at = "valid"]
  <2>1. call[r] \in Begun /\ call \in [Requests -> [at : {"new"}] \cup Begun \cup Changed \cup Ended]
    BY <1>1, RequestParts DEF EngineIInv, EngineShape
  <2> DEFINE new == [call[r] EXCEPT !.at = "valid"]
  <2>2. new \in Begun /\ new.at = "valid" /\ new.who = call[r].who /\ new.act = call[r].act
    BY <2>1 DEF Begun
  <2>3. call' = [call EXCEPT ![r] = new]
    BY <1>3
  <2> HIDE DEF new
  <2>4. call'[r] = new /\ OthersStay(r)
        /\ call' \in [Requests -> [at : {"new"}] \cup Begun \cup Changed \cup Ended]
    BY <2>1, <2>2, <2>3 DEF OthersStay
  <2>5. EngineShape'
    BY <1>1, <2>4 DEF EngineIInv, EngineShape
  <2>6. StaysHis(r) /\ At(r)' = "valid"
    BY <2>2, <2>4 DEF StaysHis, At, Who
  <2> QED
    BY <1>1, <2>4, <2>5, <2>6, NothingSaved DEF Copied, Replied
<1> QED
  BY <1>2, <1>3 DEF Validate

\* Step 2.
LEMMA ApplyKeeps ==
  ASSUME EngineIInv, NEW r \in Requests, Apply(r)
  PROVE  EngineIInv'
<1>1. At(r) = "valid" /\ doc' = doc /\ tapLock' = tapLock
  BY DEF Apply
<1>2. CASE Answer(r, "refused")
  BY <1>1, <1>2, RefusedKeeps
<1>3. CASE ~Answer(r, "refused")
  <2> DEFINE c == Applied(call[r].act, doc, Who(r))
             new == [at |-> "applied", who |-> Who(r), act |-> call[r].act, copy |-> c]
  <2>1. Who(r) \in SeatNos /\ call[r].act \in Acts
    BY <1>1, RequestParts DEF EngineIInv
  <2>2. /\ doc \in Documents /\ doc # NoDoc /\ doc.players[Who(r)].acted # TRUE
        /\ CanApply(call[r].act, doc, Who(r)) /\ call' = [call EXCEPT ![r] = new]
    BY <1>3 DEF Apply, EngineIInv, EngineShape
  <2>3. doc.players[Who(r)].acted = FALSE
    BY <2>1, <2>2, DocumentParts
  <2>4. /\ c \in Documents /\ c.version = doc.version /\ c.pot = doc.pot
        /\ \A q \in SeatNos \ {Who(r)} : c.players[q] = doc.players[q]
        /\ c.players[Who(r)].acted = TRUE
    BY <2>1, <2>2, AppliedParts
  <2>5. HeldBy(c) = HeldBy(doc)
    BY <2>1, <2>2, AppliedKeepsChips
  <2>6. Whole(doc)
    BY <2>2 DEF EngineIInv, Stored
  <2>7. Even(c)
    <3> SUFFICES ASSUME NobodyRaises, c.pot = 0 PROVE Level(c)
      BY DEF Even
    <3>1. call[r].act \in {"fold", "call"}
      BY <1>1 DEF NobodyRaises
    <3>2. Level(doc)
      BY <2>4, <2>6 DEF Whole, Even
    <3> QED
      BY <2>1, <2>2, <3>1, <3>2, AppliedStaysEven
  <2> HIDE DEF c
  <2>8. new \in Changed /\ new.at = "applied" /\ new.who = Who(r) /\ new.act = call[r].act /\ new.copy = c
    BY <2>1, <2>4 DEF Changed
  <2> HIDE DEF new
  <2>9. call'[r] = new /\ OthersStay(r)
        /\ call' \in [Requests -> [at : {"new"}] \cup Begun \cup Changed \cup Ended]
    BY <2>2, <2>8 DEF OthersStay, EngineIInv, EngineShape
  <2>10. EngineShape'
    BY <1>1, <2>9 DEF EngineIInv, EngineShape
  <2>11. StaysHis(r) /\ At(r)' = "applied" /\ Who(r)' = Who(r) /\ call'[r].copy = c
    BY <2>8, <2>9 DEF StaysHis, At, Who
  <2>12. Whole(call'[r].copy)
    BY <2>5, <2>6, <2>7, <2>11 DEF Whole
  <2>13. CopyFits(r)'
    <3>1. c.version \in Nat
      BY <2>4, DocumentParts
    <3> QED
      BY <1>1, <2>3, <2>4, <2>11, <3>1 DEF CopyFits, SameOf
  <2> QED
    BY <1>1, <2>9, <2>10, <2>11, <2>12, <2>13, NothingSaved DEF Replied
<1> QED
  BY <1>2, <1>3

\* Step 3.
LEMMA CollectPotKeeps ==
  ASSUME EngineIInv, NEW r \in Requests, CollectPot(r)
  PROVE  EngineIInv'
<1> DEFINE d == call[r].copy
           over == call[r].act \in {"call", "raise", "all_in"} /\ RoundComplete(d)
           c == IF over THEN CollectBets(d) ELSE d
           new == [call[r] EXCEPT !.at = "collected", !.copy = c]
<1>1. At(r) = "applied" /\ Copied(r) /\ doc' = doc /\ tapLock' = tapLock
  BY DEF CollectPot, Copied
<1>2. call[r] \in Changed /\ d \in Documents
  BY <1>1, RequestParts DEF EngineIInv
<1>3. call' = [call EXCEPT ![r] = new]
  BY DEF CollectPot
<1>4. Whole(d)
  BY <1>1 DEF EngineIInv
<1>5. /\ c \in Documents /\ c.version = d.version /\ HeldBy(c) = HeldBy(d)
      /\ \A p \in SeatNos : SameOf(c, d, p)
  <2>1. CASE c = d
    BY <1>2, <2>1 DEF SameOf
  <2>2. CASE c = CollectBets(d)
    <3> HIDE DEF c, d
    <3> QED
      BY <1>2, <2>2, CollectParts
  <2> QED
    BY <2>1, <2>2
<1>6. Even(c)
  <2>1. CASE c = d
    BY <1>4, <2>1 DEF Whole
  <2>2. CASE c = CollectBets(d)
    <3> SUFFICES ASSUME NobodyRaises, c.pot = 0 PROVE Level(c)
      BY DEF Even
    <3> HIDE DEF c, d
    <3>1. /\ c.pot = d.pot + Bets(d) /\ c.bet = d.bet
          /\ \A p \in SeatNos : c.players[p].bet = 0
      BY <1>2, <2>2, CollectParts
    <3>2. d.pot = 0 /\ \A p \in SeatNos : d.players[p].bet = 0
      BY <1>2, <3>1, NothingCollected
    <3>3. Level(d)
      BY <1>4, <3>2 DEF Whole, Even
    <3>4. \A p \in SeatNos : c.players[p].bet = d.players[p].bet /\ SameOf(c, d, p)
      BY <1>5, <3>1, <3>2
    <3> QED
      BY <3>1, <3>3, <3>4 DEF SameOf, Level
  <2> QED
    BY <2>1, <2>2
<1> HIDE DEF c
<1>7. /\ new \in Changed /\ new.at = "collected" /\ new.who = call[r].who
      /\ new.act = call[r].act /\ new.copy = c
  BY <1>2, <1>5 DEF Changed
<1> HIDE DEF new
<1>8. call'[r] = new /\ OthersStay(r)
      /\ call' \in [Requests -> [at : {"new"}] \cup Begun \cup Changed \cup Ended]
  BY <1>3, <1>7 DEF OthersStay, EngineIInv, EngineShape
<1>9. EngineShape'
  BY <1>1, <1>8 DEF EngineIInv, EngineShape
<1>10. StaysHis(r) /\ At(r)' = "collected" /\ Who(r)' = Who(r) /\ call'[r].copy = c
  BY <1>7, <1>8 DEF StaysHis, At, Who
<1>11. Whole(call'[r].copy)
  BY <1>4, <1>5, <1>6, <1>10 DEF Whole
<1>12. doc # NoDoc => CopyFits(r)'
  <2> SUFFICES ASSUME doc # NoDoc PROVE CopyFits(r)'
    OBVIOUS
  <2>1. CopyFits(r)
    BY <1>1 DEF EngineIInv, Stored
  <2>2. Who(r) \in SeatNos
    BY <1>1, RequestParts DEF EngineIInv
  <2> HIDE DEF d
  <2>3. d = call[r].copy
    BY DEF d
  <2>4. c.version <= doc.version /\ (c.version = doc.version =>
          doc.players[Who(r)].acted = FALSE /\ c.players[Who(r)].acted = TRUE
          /\ \A q \in SeatNos \ {Who(r)} : SameOf(c, doc, q))
    BY <1>5, <2>1, <2>2, <2>3 DEF CopyFits, SameOf
  <2> QED
    BY <1>1, <1>10, <2>4 DEF CopyFits, SameOf
<1> QED
  BY <1>1, <1>8, <1>9, <1>10, <1>11, <1>12, NothingSaved DEF Replied

\* Step 4: the version matches and the copy replaces the document, or nothing happens.
LEMMA SaveKeeps ==
  ASSUME EngineIInv, NEW r \in Requests, At(r) = "collected", tapLock' = tapLock,
         NEW reply \in {"success", "refused", "error"}, Answer(r, reply),
         \/ doc' = doc /\ reply # "success"
         \/ /\ VersionMatches(call[r].copy) /\ doc' = Advance(call[r].copy) /\ reply # "refused"
  PROVE  EngineIInv'
<1>1. CASE doc' = doc /\ reply # "success"
  BY <1>1, RefusedKeeps
<1>2. CASE /\ VersionMatches(call[r].copy) /\ doc' = Advance(call[r].copy) /\ reply # "refused"
  <2>1. /\ OthersStay(r) /\ StaysHis(r) /\ At(r)' = "answered" /\ call'[r].reply = reply
        /\ call' \in [Requests -> [at : {"new"}] \cup Begun \cup Changed \cup Ended]
    BY Answers DEF EngineIInv
  <2>2. doc' \in Documents
    BY <1>2, RequestParts, AdvanceParts DEF EngineIInv, Copied
  <2>3. EngineShape'
    BY <2>1, <2>2 DEF EngineIInv, EngineShape
  <2> QED
    BY <1>2, <2>1, <2>3, CopySaved
<1> QED
  BY <1>1, <1>2

\* finally.
LEMMA ReleaseTapKeeps ==
  ASSUME EngineIInv, NEW r \in Requests, ReleaseTap(r)
  PROVE  EngineIInv'
<1>1. At(r) = "answered" /\ doc' = doc
      /\ tapLock' = [tapLock EXCEPT ![TapKey(r)] = IF @ = r THEN NoRequest ELSE @]
  BY DEF ReleaseTap
<1>2. call[r] \in Ended
  BY <1>1, RequestParts DEF EngineIInv, Replied
<1> DEFINE new == [call[r] EXCEPT !.at = "done"]
<1>3. /\ new \in Ended /\ new.at = "done" /\ new.who = call[r].who
      /\ new.act = call[r].act /\ new.reply = call[r].reply
  BY <1>2 DEF Ended
<1>4. call' = [call EXCEPT ![r] = new]
  BY DEF ReleaseTap
<1> HIDE DEF new
<1>5. call'[r] = new /\ OthersStay(r)
      /\ call' \in [Requests -> [at : {"new"}] \cup Begun \cup Changed \cup Ended]
  BY <1>3, <1>4 DEF OthersStay, EngineIInv, EngineShape
<1>6. tapLock' \in [SeatNos \X Acts -> Requests \cup {NoRequest}]
  BY <1>1 DEF EngineIInv, EngineShape
<1>7. EngineShape'
  BY <1>1, <1>5, <1>6 DEF EngineIInv, EngineShape
<1> QED
  BY <1>1, <1>3, <1>5, <1>7, NothingSaved DEF StaysHis, At, Who, Copied, Replied

\* The document expires.
LEMMA DocExpiresKeeps ==
  ASSUME EngineIInv, DocExpires
  PROVE  EngineIInv'
<1>1. doc' = NoDoc /\ call' = call /\ tapLock' = tapLock
  BY DEF DocExpires
<1>2. NobodyRaises' = NobodyRaises
  BY <1>1 DEF NobodyRaises, At
<1>3. \A p, reply : Replies(p, reply)' = Replies(p, reply)
  BY <1>1 DEF Replies, At, Who
<1>4. \A r \in Requests : Copied(r)' => Whole(call[r].copy)'
  BY <1>1, <1>2 DEF EngineIInv, Copied, At, Whole, Even, HeldBy, Bets, Stacks
<1> QED
  BY <1>1, <1>3, <1>4 DEF EngineIInv, EngineShape

\* So every step of the engine keeps the invariant.
LEMMA EngineStepKeeps == EngineIInv /\ [EngineNext]_engineVars => EngineIInv'
<1> SUFFICES ASSUME EngineIInv, [EngineNext]_engineVars PROVE EngineIInv'
  OBVIOUS
<1>1. CASE UNCHANGED engineVars
  BY <1>1, TapLockKeeps DEF engineVars, EngineIInv, EngineShape
<1>2. CASE DocExpires
  BY <1>2, DocExpiresKeeps
<1>3. ASSUME NEW k \in DOMAIN tapLock, TapLockExpires(k) PROVE EngineIInv'
  <2>1. tapLock' \in [SeatNos \X Acts -> Requests \cup {NoRequest}]
    BY <1>3 DEF TapLockExpires, EngineIInv, EngineShape
  <2> QED
    BY <1>3, <2>1, TapLockKeeps DEF TapLockExpires
<1>4. ASSUME NEW r \in Requests, NEW p \in SeatNos, NEW act \in Acts, Tap(r, p, act) PROVE EngineIInv'
  BY <1>4, TapKeeps
<1>5. ASSUME NEW r \in Requests, Validate(r) \/ Apply(r) \/ CollectPot(r) \/ ReleaseTap(r)
      PROVE  EngineIInv'
  BY <1>5, ValidateKeeps, ApplyKeeps, CollectPotKeeps, ReleaseTapKeeps
<1>6. ASSUME NEW r \in Requests, SaveState(r) PROVE EngineIInv'
  BY <1>6, SaveKeeps DEF SaveState
<1>7. ASSUME NEW r \in Requests, StepFails(r) PROVE EngineIInv'
  BY <1>7, RefusedKeeps DEF StepFails
<1>8. ASSUME NEW r \in Requests, NEW applied \in BOOLEAN, SaveRaises(r, applied) PROVE EngineIInv'
  BY <1>8, SaveKeeps DEF SaveRaises
<1> QED
  BY <1>1, <1>2, <1>3, <1>4, <1>5, <1>6, <1>7, <1>8 DEF EngineNext

-----------------------------------------------------------------------------
(* What it means.                                                          *)

\* A request has at most one success for its player.
LEMMA SuccessIsOne ==
  ASSUME NEW S, \A r, q \in S : r = q
  PROVE  Cardinality(S) <= 1
<1>1. CASE S = {}
  BY <1>1, FS_EmptySet
<1>2. CASE S # {}
  <2>1. PICK r \in S : S = {r}
    BY <1>2
  <2> QED
    BY <2>1, FS_Singleton
<1> QED
  BY <1>1, <1>2

\* The invariant is what DocumentInv promises.
LEMMA EngineInvImplies == EngineIInv => DocumentInv
<1> SUFFICES ASSUME EngineIInv PROVE DocumentInv
  OBVIOUS
<1>1. ASSUME doc # NoDoc PROVE doc \in Documents /\ Stored
  BY <1>1 DEF EngineIInv, EngineShape
<1>2. ChipsOfDocument
  BY <1>1 DEF ChipsOfDocument, Stored, Whole, HeldBy, Stacks
<1>3. OneSuccessPerPlayer
  BY SuccessIsOne DEF OneSuccessPerPlayer, EngineIInv
<1>4. AcknowledgedStays
  BY <1>1 DEF AcknowledgedStays, Stored
<1>5. RefusedLeavesNoTrace
  <2> SUFFICES ASSUME doc # NoDoc, NEW p \in SeatNos,
                      \A r \in Requests : At(r) \in {"answered", "done"} /\ Who(r) = p
                                            => call[r].reply = "refused"
               PROVE  doc.players[p] = [Player EXCEPT !.bet = doc.players[p].bet]
    BY DEF RefusedLeavesNoTrace
  <2>1. Replies(p, "success") = {} /\ Replies(p, "error") = {}
    BY DEF Replies
  <2>2. /\ doc.players[p].chips = Stack /\ doc.players[p].acted = FALSE
        /\ doc.players[p].folded = FALSE
    BY <1>1, <2>1 DEF Stored, Traced
  <2>3. doc.players[p] \in [chips : 0..Stack, bet : Nat, acted : BOOLEAN, folded : BOOLEAN]
    BY <1>1 DEF Documents
  <2>4. doc.players[p] = [chips |-> Stack, bet |-> doc.players[p].bet, acted |-> FALSE, folded |-> FALSE]
    BY <2>2, <2>3
  <2>5. /\ Player \in [chips : 0..Stack, bet : Nat, acted : BOOLEAN, folded : BOOLEAN]
        /\ Player.chips = Stack /\ Player.acted = FALSE /\ Player.folded = FALSE
    BY EngineAssumption DEF Player
  <2>6. \A v \in [chips : 0..Stack, bet : Nat, acted : BOOLEAN, folded : BOOLEAN], b \in Nat :
          [v EXCEPT !.bet = b] = [chips |-> v.chips, bet |-> b, acted |-> v.acted, folded |-> v.folded]
    OBVIOUS
  <2> QED
    BY <2>3, <2>4, <2>5, <2>6
<1>6. StuckOnlyByRaise
  <2> SUFFICES ASSUME doc # NoDoc, doc.pot <= 0,
                      \A p \in Unfolded(doc) : doc.players[p].acted,
                      \A r \in Requests : At(r) # "new" => call[r].act \notin {"raise", "all_in", "check"}
               PROVE  RoundComplete(doc)
    <3>1. doc # NoDoc => (doc.pot > 0 \/ doc.pot <= 0)
      BY <1>1, DocumentParts
    <3> QED
      BY <3>1 DEF StuckOnlyByRaise
  <2>1. NobodyRaises
    BY RequestParts, EngineAssumption DEF EngineIInv, NobodyRaises
  <2>2. doc.pot = 0
    BY <1>1, DocumentParts
  <2>3. doc.bet = Bet /\ \A p \in Unfolded(doc) : doc.players[p].bet = Bet
    <3>1. Level(doc)
      BY <1>1, <2>1, <2>2 DEF Stored, Whole, Even
    <3> QED
      BY <3>1 DEF Level, Unfolded
  <2> QED
    BY <2>3 DEF RoundComplete
<1> QED
  BY <1>2, <1>3, <1>4, <1>5, <1>6 DEF DocumentInv

\* Whatever the requests of all players have read before others save, the document keeps
\* its chips, one action of a player succeeds a round and stays in the document, a refused
\* one leaves no trace, and the round can go on unless somebody raised or checked
\* (GameEngine.process_action, _SAVE_GAME_STATE_LUA).
THEOREM DocumentStaysWhole == EngineSpec => []DocumentInv
<1>1. EngineInit => EngineIInv
  BY EngineBegins
<1>2. EngineIInv /\ [EngineNext]_engineVars => EngineIInv'
  BY EngineStepKeeps
<1>3. EngineIInv => DocumentInv
  BY EngineInvImplies
<1> QED
  BY <1>1, <1>2, <1>3, PTL DEF EngineSpec

\* Types of the document, the requests and the action locks, for any numbers of requests
\* and seats.
THEOREM EngineKeepsTypes == EngineSpec => []EngineTypeOK
<1>1. EngineInit => EngineIInv
  BY EngineBegins
<1>2. EngineIInv /\ [EngineNext]_engineVars => EngineIInv'
  BY EngineStepKeeps
<1>3. EngineIInv => EngineTypeOK
  <2> SUFFICES ASSUME EngineIInv PROVE EngineTypeOK
    OBVIOUS
  <2>1. doc # NoDoc => doc \in Documents
    BY DEF EngineIInv, EngineShape
  <2>2. \A r \in Requests : At(r) \in Places
    BY RequestParts DEF EngineIInv
  <2>3. doc # NoDoc =>
          /\ doc.version \in Nat /\ doc.bet \in Nat /\ doc.pot \in Nat /\ doc.turn \in SeatNos
          /\ \A p \in SeatNos : doc.players[p].chips \in 0..Stack /\ doc.players[p].bet \in Nat
    BY <2>1 DEF Documents
  <2> QED
    BY <2>2, <2>3 DEF EngineTypeOK, EngineIInv, EngineShape, Places
<1> QED
  BY <1>1, <1>2, <1>3, PTL DEF EngineSpec

-----------------------------------------------------------------------------
(* The queue of private matches.                                             *)

Statuses == {"none", "queued", "matched", "playing"}
Empty == {"none", "clean", "leave", "remove", "delete", "enter", "write", "add", "pop", "done"}
Paired == {"read", "match", "begin", "play"}
NoGame == [players |-> {}, left |-> {}, over |-> FALSE]

AskRecords ==
  [at : Empty \cup Paired \cup {"forget", "requeue"}, user : Users \cup {NoUser},
   popped : Seq(Users), seen : Seq(Statuses), n : {0, 1}]

\* Whom a request has popped, by the place where it is.
AskShape(a) ==
  /\ a.at # "none" => a.user \in Users
  /\ a.at \in Empty => a.popped = <<>> /\ a.seen = <<>> /\ a.n = 0
  /\ a.at = "forget" => Len(a.popped) = 1 /\ a.seen = <<>> /\ a.n = 0
  /\ a.at \in Paired => Len(a.popped) = 2
  /\ a.at = "requeue" => Len(a.popped) \in {1, 2}
  /\ Len(a.popped) = 2 => a.popped[1] # a.popped[2]
  /\ a.at = "read" => Len(a.seen) < 2
  /\ a.at \in {"read", "begin"} => a.n = 0

MatchShape ==
  /\ ask \in [Asks -> AskRecords] /\ \A r \in Asks : AskShape(ask[r])
  /\ game \in [Asks -> [players : SUBSET Users, left : SUBSET Users, over : BOOLEAN]]
  /\ \A r \in Asks : ask[r].at \notin {"play", "done"} => game[r] = NoGame
  /\ status \in [Users -> Statuses]
  /\ waiting \in SUBSET Users /\ IsFiniteSet(waiting) /\ old \subseteq waiting
  /\ touched \in SUBSET Users
  /\ failures \in Nat /\ expiries \in Nat /\ overlap \in BOOLEAN

\* What is popped is in one pair of hands, and not in the queue.
HandsApart(u) ==
  /\ \A r, q \in Asks : u \in HandsOf(r) /\ u \in HandsOf(q) => r = q
  /\ u \in waiting => \A r \in Asks : u \notin HandsOf(r)

\* A match that is not over has its players for itself.
Claimed(u) ==
  \A m \in GamesOf(u) :
    /\ status[u] \in {"matched", "playing"} /\ u \notin waiting
    /\ \A r \in Asks : u \in HandsOf(r) => r = m /\ ask[r].at = "play"
    /\ \A n \in GamesOf(u) : n = m

\* The state of a popped user is what the place of the request says.
StateFits(a, i, s) ==
  /\ a.at = "read" /\ i <= Len(a.seen) => a.seen[i] = s
  /\ a.at = "match" => s = IF i <= a.n THEN "matched" ELSE "queued"
  /\ a.at = "begin" => s = "matched"
  /\ a.at = "play" => s = IF i <= a.n THEN "playing" ELSE "matched"
StatesFit(u) ==
  \A r \in Asks, i \in {1, 2} :
    i <= Len(ask[r].popped) /\ ask[r].popped[i] = u => StateFits(ask[r], i, status[u])

\* Who is told to wait is in the queue, in hands, or about to enter or to be told not to.
WaiterFound(u) ==
  status[u] = "queued" =>
    \/ u \in waiting \/ \E r \in Asks : u \in HandsOf(r)
    \/ \E q \in Asks : ask[q].user = u /\ ask[q].at \in {"add", "delete"}
Started(u) ==
  status[u] = "matched" => \E r \in Asks : u \in HandsOf(r) /\ ask[r].at \in {"match", "begin", "play"}
Stands(u) ==
  u \in waiting \/ (\E r \in Asks : ask[r].at \in {"read", "requeue", "forget"} /\ u \in HandsOf(r))
    => status[u] = "queued"

UserInv(u) ==
  /\ HandsApart(u) /\ Claimed(u) /\ StatesFit(u)
  /\ failures = 0 => WaiterFound(u) /\ Started(u)
  /\ expiries = 0 => Stands(u)

\* Two valid entries are never put back,
PairsMatch ==
  touched = {} /\ expiries = 0 => \A r \in Asks : ask[r].at = "requeue" => Len(ask[r].popped) = 1

\* so that two wait only while somebody is about to pop.
Line == waiting \cup UNION {HandsOf(r) : r \in {q \in Asks : ask[q].at = "requeue"}}
Alone(S) == \A x, y \in S : x = y
Crowd ==
  failures = 0 /\ ~overlap /\ touched = {} /\ expiries = 0 =>
    \/ Alone(Line)
    \/ \E r \in Asks : ask[r].at = "pop" /\ Alone(Line \ {ask[r].user})
    \/ \E r, q \in Asks : r # q /\ ask[r].at = "pop" /\ ask[q].at = "pop"

MatchIInv ==
  /\ MatchShape
  /\ \A u \in Users \ touched : UserInv(u)
  /\ PairsAreTwo
  /\ PairsMatch
  /\ Crowd

-----------------------------------------------------------------------------

\* Whom a request has popped: by the length of what it popped.
LEMMA HandsAre ==
    ASSUME NEW s \in Seq(Users)
    PROVE  /\ s = <<>> => Range(s) = {}
           /\ Len(s) = 1 => Range(s) = {s[1]} /\ Head(s) = s[1] /\ s[1] \in Users
           /\ Len(s) = 2 => /\ Range(s) = {s[1], s[2]} /\ Head(s) = s[1] /\ Tail(s) \in Seq(Users)
                            /\ Len(Tail(s)) = 1 /\ Tail(s)[1] = s[2]
                            /\ s[1] \in Users /\ s[2] \in Users
<1>1. DOMAIN s = 1..Len(s) /\ Range(s) = {s[i] : i \in 1..Len(s)}
  BY DEF Range
<1>2. s = <<>> => Range(s) = {}
  <2>1. s = <<>> => 1..Len(s) = {}
    OBVIOUS
  <2> QED
    BY <1>1, <2>1
<1>3. ASSUME Len(s) = 1 PROVE Range(s) = {s[1]} /\ Head(s) = s[1] /\ s[1] \in Users
  <2>1. 1..Len(s) = {1}
    BY <1>3
  <2> QED
    BY <1>1, <1>3, <2>1
<1>4. ASSUME Len(s) = 2
      PROVE  /\ Range(s) = {s[1], s[2]} /\ Head(s) = s[1] /\ Tail(s) \in Seq(Users)
             /\ Len(Tail(s)) = 1 /\ Tail(s)[1] = s[2]
             /\ s[1] \in Users /\ s[2] \in Users
  <2>1. 1..Len(s) = {1, 2}
    BY <1>4
  <2>2. Range(s) = {s[1], s[2]}
    BY <1>1, <2>1
  <2>3. Head(s) = s[1] /\ s[1] \in Users /\ s[2] \in Users
    BY <1>4
  <2>4. s # <<>>
    BY <1>4
  <2>5. Tail(s) \in Seq(Users) /\ Len(Tail(s)) = Len(s) - 1
    BY <2>4
  <2>6. Len(Tail(s)) = 1
    BY <1>4, <2>5
  <2>7. Tail(s)[1] = s[2]
    BY <1>4, <2>4, <2>5, <2>6
  <2> QED
    BY <2>2, <2>3, <2>5, <2>6, <2>7
<1> QED
  BY <1>2, <1>3, <1>4

\* Who is in the hands of a request, by its place and by how many it popped.
LEMMA HandsByPlace ==
    ASSUME NEW a \in AskRecords, AskShape(a)
    PROVE  /\ a.at \in Empty => Range(a.popped) = {}
           /\ Len(a.popped) = 1 => Range(a.popped) = {a.popped[1]}
           /\ Len(a.popped) = 2 => Range(a.popped) = {a.popped[1], a.popped[2]}
           /\ Range(a.popped) # {} => Len(a.popped) \in {1, 2}
           /\ Range(a.popped) \subseteq Users
<1>1. a.popped \in Seq(Users)
  BY DEF AskRecords
<1>2. Len(a.popped) \notin {1, 2} => a.at \in Empty
  BY <1>1 DEF AskRecords, AskShape
<1>3. a.at \in Empty => a.popped = <<>>
  BY <1>1 DEF AskShape
<1>4. Range(a.popped) \subseteq Users
  BY <1>1 DEF Range
<1> QED
  BY <1>1, <1>2, <1>3, <1>4, HandsAre

\* Only requests under way have anybody in their hands.
LEMMA HandsUnderWay ==
    ASSUME MatchShape
    PROVE  /\ \A r \in Asks : \A u : u \in HandsOf(r) => r \in UnderWay
           /\ \A u : u \in InHands <=> \E r \in Asks : u \in HandsOf(r)
<1>1. \A r \in Asks : ask[r].at \in Empty => HandsOf(r) = {}
  BY HandsByPlace DEF MatchShape, HandsOf
<1> QED
  BY <1>1 DEF InHands, UnderWay, Empty


\* What is popped at a place is in the request's hands.
LEMMA PoppedIsHeld ==
    ASSUME NEW s \in Seq(Users), NEW i \in {1, 2}, i <= Len(s)
    PROVE  s[i] \in Range(s) /\ s[i] \in Users
<1>1. i \in DOMAIN s
  OBVIOUS
<1> QED
  BY <1>1 DEF Range

\* A step that is not about u: his state, entry, matches and requests stay.
Aside(u) ==
  /\ status'[u] = status[u] /\ (u \in waiting' <=> u \in waiting)
  /\ \A r \in Asks : u \in HandsOf(r)' => u \in HandsOf(r)
  /\ \A r \in Asks : u \in HandsOf(r) => ask'[r] = ask[r]
  /\ \A q \in Asks : ask[q].user = u /\ ask[q].at \in {"add", "delete"} => ask'[q] = ask[q]
  /\ GamesOf(u)' \subseteq GamesOf(u)
  /\ (failures' = 0 => failures = 0) /\ (expiries' = 0 => expiries = 0)

\* Such a step keeps what holds of u.
LEMMA AsideKeeps ==
    ASSUME MatchShape, MatchShape', NEW u \in Users, UserInv(u), Aside(u)
    PROVE  UserInv(u)'
<1>1. \A r \in Asks : u \in HandsOf(r)' <=> u \in HandsOf(r)
  BY DEF Aside, HandsOf
<1>2. \A r \in Asks : u \in HandsOf(r) => ask'[r] = ask[r]
  BY DEF Aside
<1>3. HandsApart(u)'
  BY <1>1 DEF Aside, UserInv, HandsApart
<1>4. Claimed(u)'
  BY <1>1, <1>2 DEF Aside, UserInv, Claimed
<1>5. StatesFit(u)'
  <2> SUFFICES ASSUME NEW r \in Asks, NEW i \in {1, 2}, i <= Len(ask'[r].popped), ask'[r].popped[i] = u
               PROVE  StateFits(ask'[r], i, status'[u])
    BY DEF StatesFit
  <2>1. u \in HandsOf(r)'
    <3>1. ask'[r].popped \in Seq(Users)
      BY DEF MatchShape, AskRecords
    <3> QED
      BY <3>1, PoppedIsHeld DEF HandsOf
  <2>2. ask'[r] = ask[r] /\ status'[u] = status[u]
    BY <1>1, <1>2, <2>1 DEF Aside
  <2> QED
    BY <2>2 DEF UserInv, StatesFit
<1>6. failures' = 0 => WaiterFound(u)' /\ Started(u)'
  <2> SUFFICES ASSUME failures' = 0 PROVE WaiterFound(u)' /\ Started(u)'
    OBVIOUS
  <2>1. WaiterFound(u) /\ Started(u)
    BY DEF Aside, UserInv
  <2>2. WaiterFound(u)'
    BY <1>1, <2>1 DEF Aside, WaiterFound
  <2>3. Started(u)'
    BY <1>1, <1>2, <2>1 DEF Aside, Started
  <2> QED
    BY <2>2, <2>3
<1>7. expiries' = 0 => Stands(u)'
  BY <1>1, <1>2 DEF Aside, UserInv, Stands
<1> QED
  BY <1>3, <1>4, <1>5, <1>6, <1>7 DEF UserInv

\* The queue is empty at the start.
LEMMA MatchBegins == MatchInit => MatchIInv
<1> SUFFICES ASSUME MatchInit PROVE MatchIInv
  OBVIOUS
<1>1. MatchShape
  <2>1. ask \in [Asks -> AskRecords] /\ \A r \in Asks : AskShape(ask[r])
    BY DEF MatchInit, AskRecords, AskShape, Empty, Paired, Bare, Holding
  <2>2. /\ game \in [Asks -> [players : SUBSET Users, left : SUBSET Users, over : BOOLEAN]]
        /\ \A r \in Asks : ask[r].at \notin {"play", "done"} => game[r] = NoGame
    BY DEF MatchInit, NoGame, Matches
  <2>3. status \in [Users -> Statuses] /\ IsFiniteSet(waiting)
    BY FS_EmptySet DEF MatchInit, Statuses
  <2> QED
    BY <2>1, <2>2, <2>3 DEF MatchInit, MatchShape
<1>2. \A r \in Asks : HandsOf(r) = {}
  BY <1>1, HandsByPlace DEF MatchInit, Empty, HandsOf, MatchShape, Bare, Holding
<1>3. \A u : GamesOf(u) = {}
  BY DEF GamesOf, MatchInit
<1>4. ASSUME NEW u \in Users PROVE UserInv(u)
  BY <1>2, <1>3, <1>4 DEF UserInv, HandsApart, Claimed, StatesFit, WaiterFound, Started, Stands, MatchInit,
                            Bare, Holding
<1>5. PairsAreTwo /\ PairsMatch
  BY DEF PairsAreTwo, PairsMatch, MatchInit, Matches, Bare, Holding
<1>6. Crowd
  <2>1. Line = {}
    BY DEF Line, MatchInit, Bare, Holding
  <2> QED
    BY <2>1 DEF Crowd, Alone
<1> QED
  BY <1>1, <1>4, <1>5, <1>6 DEF MatchIInv

-----------------------------------------------------------------------------
(* What a step does to the requests.                                         *)

AskShapes == ask \in [Asks -> AskRecords] /\ \A r \in Asks : AskShape(ask[r])
OnlyAsk(r) == \A q \in Asks \ {r} : ask'[q] = ask[q] /\ HandsOf(q)' = HandsOf(q)

\* A request becomes a, and the others stay.
LEMMA AskStep ==
    ASSUME AskShapes, NEW r \in Asks, NEW a \in AskRecords, AskShape(a), ask' = [ask EXCEPT ![r] = a]
    PROVE  AskShapes' /\ OnlyAsk(r) /\ ask'[r] = a /\ HandsOf(r)' = Range(a.popped)
BY DEF AskShapes, OnlyAsk, HandsOf

\* A request with empty hands goes to its next place.
LEMMA ProceedStep ==
    ASSUME AskShapes, NEW r \in Asks, ask[r].at \in Empty \ {"none"}, NEW place \in Empty \ {"none"},
           Proceed(r, place)
    PROVE  /\ AskShapes' /\ OnlyAsk(r) /\ ask'[r].at = place /\ ask'[r].user = ask[r].user
           /\ HandsOf(r)' = {} /\ HandsOf(r) = {}
<1> DEFINE a == [ask[r] EXCEPT !.at = place]
<1>1. ask[r] \in AskRecords /\ AskShape(ask[r])
  BY DEF AskShapes
<1>2. a \in AskRecords /\ a.at = place /\ a.user = ask[r].user /\ a.popped = ask[r].popped
      /\ a.seen = ask[r].seen /\ a.n = ask[r].n
  BY <1>1 DEF AskRecords
<1>3. AskShape(a)
  BY <1>1, <1>2 DEF AskShape, Empty, Paired
<1>4. ask' = [ask EXCEPT ![r] = a]
  BY DEF Proceed
<1>5. Range(a.popped) = {} /\ Range(ask[r].popped) = {}
  BY <1>1, <1>2, <1>3, HandsByPlace
<1> HIDE DEF a
<1>6. AskShapes' /\ OnlyAsk(r) /\ ask'[r] = a /\ HandsOf(r)' = Range(a.popped)
  BY <1>2, <1>3, <1>4, AskStep
<1> QED
  BY <1>2, <1>5, <1>6 DEF HandsOf

\* A request ends, and has nobody in its hands any more.
LEMMA DoneStep ==
    ASSUME AskShapes, NEW r \in Asks, ask[r].at # "none", Done(r)
    PROVE  /\ AskShapes' /\ OnlyAsk(r) /\ ask'[r].at = "done" /\ ask'[r].user = ask[r].user
           /\ HandsOf(r)' = {}
<1> DEFINE a == Bare("done", ask[r].user)
<1>1. ask[r] \in AskRecords /\ AskShape(ask[r])
  BY DEF AskShapes
<1>2. a \in AskRecords /\ a.at = "done" /\ a.user = ask[r].user /\ a.popped = <<>>
      /\ a.seen = <<>> /\ a.n = 0
  BY <1>1 DEF AskRecords, Empty, Bare, Holding
<1>3. AskShape(a)
  BY <1>1, <1>2 DEF AskShape, Empty, Paired
<1>4. ask' = [ask EXCEPT ![r] = a]
  BY DEF Done
<1>5. Range(a.popped) = {}
  BY <1>2, <1>3, HandsByPlace DEF Empty
<1> HIDE DEF a
<1>6. AskShapes' /\ OnlyAsk(r) /\ ask'[r] = a /\ HandsOf(r)' = Range(a.popped)
  BY <1>2, <1>3, <1>4, AskStep
<1> QED
  BY <1>2, <1>5, <1>6

\* A request that holds two keeps them.
LEMMA HoldStep ==
    ASSUME AskShapes, NEW r \in Asks, ask[r].at \in Paired, NEW a \in AskRecords, AskShape(a),
           a.popped = ask[r].popped, ask' = [ask EXCEPT ![r] = a]
    PROVE  AskShapes' /\ OnlyAsk(r) /\ ask'[r] = a /\ HandsOf(r)' = HandsOf(r)
BY AskStep DEF HandsOf

\* A new request has nobody in its hands.
LEMMA ArriveStep ==
    ASSUME MatchShape, NEW r \in Asks, NEW u \in Users, Arrive(r, u)
    PROVE  /\ AskShapes' /\ OnlyAsk(r) /\ HandsOf(r)' = {} /\ HandsOf(r) = {}
           /\ ask[r].at = "none" /\ ask'[r].at = "clean"
<1> DEFINE a == Bare("clean", u)
<1>1. AskShapes /\ ask[r].at = "none" /\ ask' = [ask EXCEPT ![r] = a]
  BY DEF MatchShape, AskShapes, Arrive
<1>2. a \in AskRecords /\ AskShape(a) /\ a.at = "clean"
  BY DEF Bare, Holding, AskRecords, AskShape, Empty, Paired
<1>3. Range(a.popped) = {} /\ HandsOf(r) = {}
  BY <1>1, <1>2, HandsByPlace DEF Empty, HandsOf, AskShapes
<1> HIDE DEF a
<1> QED
  BY <1>1, <1>2, <1>3, AskStep

\* An old entry leaves the queue, and is in the hands of the request that is to forget it.
LEMMA RemoveOldStep ==
    ASSUME MatchShape, NEW r \in Asks, NEW x \in Users, RemoveOld(r, x)
    PROVE  /\ AskShapes' /\ OnlyAsk(r) /\ HandsOf(r) = {} /\ HandsOf(r)' = {x}
           /\ ask[r].at = "clean" /\ ask'[r].at = "forget" /\ ask'[r].user = ask[r].user
           /\ x \in waiting
<1> DEFINE a == Holding("forget", ask[r].user, <<x>>, <<>>)
<1>1. AskShapes /\ ask[r].at = "clean" /\ x \in waiting /\ ask' = [ask EXCEPT ![r] = a]
  BY DEF MatchShape, AskShapes, RemoveOld
<1>2. ask[r].user \in Users
  BY <1>1 DEF AskShapes, AskShape
<1>3. a \in AskRecords /\ AskShape(a) /\ a.at = "forget" /\ a.user = ask[r].user /\ a.popped = <<x>>
  BY <1>2 DEF Holding, AskRecords, AskShape, Paired, Empty
<1>4. Range(a.popped) = {x}
  <2>1. <<x>> \in Seq(Users) /\ Len(<<x>>) = 1 /\ <<x>>[1] = x
    OBVIOUS
  <2> QED
    BY <1>3, <2>1, HandsAre
<1>5. HandsOf(r) = {}
  BY <1>1, HandsByPlace DEF Empty, HandsOf, AskShapes
<1> HIDE DEF a
<1> QED
  BY <1>1, <1>3, <1>4, <1>5, AskStep

\* A forgotten user is let go.
LEMMA ForgetOldStep ==
    ASSUME MatchShape, NEW r \in Asks, ForgetOld(r)
    PROVE  /\ AskShapes' /\ OnlyAsk(r) /\ HandsOf(r)' = {}
           /\ ask[r].at = "forget" /\ ask'[r].at = "clean" /\ ask'[r].user = ask[r].user
           /\ HandsOf(r) = {Head(ask[r].popped)} /\ Head(ask[r].popped) \in Users
<1> DEFINE a == Bare("clean", ask[r].user)
<1>1. AskShapes /\ ask[r].at = "forget" /\ ask' = [ask EXCEPT ![r] = a]
  BY DEF MatchShape, AskShapes, ForgetOld
<1>2. ask[r].user \in Users /\ ask[r].popped \in Seq(Users) /\ Len(ask[r].popped) = 1
  BY <1>1 DEF AskShapes, AskShape, AskRecords
<1>3. a \in AskRecords /\ AskShape(a) /\ a.at = "clean" /\ a.user = ask[r].user
  BY <1>2 DEF Bare, Holding, AskRecords, AskShape, Empty, Paired
<1>4. Range(a.popped) = {}
  BY <1>3, HandsByPlace DEF Empty
<1> HIDE DEF a
<1>5. HandsOf(r) = {Head(ask[r].popped)} /\ Head(ask[r].popped) \in Users
  BY <1>2, HandsAre DEF HandsOf
<1> QED
  BY <1>1, <1>3, <1>4, <1>5, AskStep

\* Requests with empty hands.
LEMMA BareStep ==
    ASSUME MatchShape, NEW r \in Asks,
           \/ Look(r) \/ LeaveQueue(r) \/ RemoveEntry(r) \/ DeleteState(r) \/ Enter(r)
           \/ WriteState(r) \/ AddEntry(r)
    PROVE  /\ AskShapes' /\ OnlyAsk(r) /\ HandsOf(r) = {} /\ HandsOf(r)' = {}
           /\ ask[r].at \in Empty \ {"none", "pop", "done"} /\ ask[r].user \in Users
           /\ ask'[r].at \in Empty \ {"none"} /\ ask'[r].user = ask[r].user
<1>1. AskShapes /\ ask[r].at \in Empty \ {"none", "pop", "done"}
      /\ (Done(r) \/ \E place \in Empty \ {"none"} : Proceed(r, place))
  BY DEF MatchShape, AskShapes, Look, LeaveQueue, RemoveEntry, DeleteState, Enter, WriteState,
         AddEntry, Empty
<1>2. HandsOf(r) = {} /\ ask[r].user \in Users
  BY <1>1, HandsByPlace DEF Empty, HandsOf, AskShapes, AskShape
<1>3. CASE Done(r)
  BY <1>1, <1>2, <1>3, DoneStep DEF Empty
<1>4. CASE \E place \in Empty \ {"none"} : Proceed(r, place)
  BY <1>1, <1>2, <1>4, ProceedStep
<1> QED
  BY <1>1, <1>3, <1>4

\* Nobody, one or two are popped.
LEMMA PopsAre == \A two \in Pops : two \in Seq(Users) /\ Len(two) \in {0, 1, 2} /\ (Len(two) = 0 => two = <<>>)
<1> SUFFICES ASSUME NEW two \in Pops
             PROVE  two \in Seq(Users) /\ Len(two) \in {0, 1, 2} /\ (Len(two) = 0 => two = <<>>)
  OBVIOUS
<1>1. CASE two = <<>>
  BY <1>1
<1>2. CASE two \in {<<u>> : u \in Users}
  <2>1. PICK x \in Users : two = <<x>>
    BY <1>2
  <2> QED
    BY <2>1
<1>3. CASE two \in Users \X Users
  <2>1. PICK x \in Users, y \in Users : two = <<x, y>>
    BY <1>3
  <2> QED
    BY <2>1
<1> QED
  BY <1>1, <1>2, <1>3 DEF Pops

\* Whose state is read next.
LEMMA NextRead ==
    ASSUME NEW who \in Seq(Users), Len(who) = 2, NEW was \in Seq(Statuses), Len(was) < 2
    PROVE  Len(was) \in {0, 1} /\ who[Len(was) + 1] \in Users
<1>1. PICK n \in Nat : n = Len(was)
  OBVIOUS
<1>2. n \in {0, 1}
  BY <1>1
<1>3. n + 1 \in 1..Len(who)
  BY <1>2
<1>4. \A i \in 1..Len(who) : who[i] \in Users
  OBVIOUS
<1>5. who[n + 1] \in Users
  BY <1>3, <1>4
<1> QED
  BY <1>1, <1>2, <1>5

\* Fewer than two are popped only when nobody else is in the queue.
LEMMA PopMatchStep ==
    ASSUME MatchShape, NEW r \in Asks, NEW two \in Pops, PopMatch(r, two)
    PROVE  /\ AskShapes' /\ OnlyAsk(r) /\ HandsOf(r) = {} /\ HandsOf(r)' = Range(two)
           /\ ask[r].at = "pop" /\ ask'[r].user = ask[r].user /\ Range(two) \subseteq waiting
           /\ two \in Seq(Users) /\ Len(two) \in {0, 1, 2}
           /\ Len(two) = 0 => ask'[r].at = "done"
           /\ Len(two) = 1 => ask'[r].at = "requeue" /\ ask'[r].popped = two
           /\ Len(two) = 2 => ask'[r].at = "read" /\ ask'[r].seen = <<>> /\ two[1] # two[2]
           /\ Len(two) < 2 => Range(two) = waiting
<1>1. AskShapes /\ ask[r].at = "pop" /\ Range(two) \subseteq waiting
  BY DEF MatchShape, AskShapes, PopMatch
<1>2. two \in Seq(Users) /\ Len(two) \in {0, 1, 2} /\ (Len(two) = 0 => two = <<>>)
  BY PopsAre
<1>3. HandsOf(r) = {}
  BY <1>1, HandsByPlace DEF Empty, HandsOf, AskShapes
<1>4. Cardinality(waiting) \in Nat
  BY FS_CardinalityType DEF MatchShape
<1>5. ASSUME Len(two) < 2 PROVE Range(two) = waiting
  <2>1. Len(two) = Cardinality(waiting)
    BY <1>2, <1>4, <1>5 DEF PopMatch
  <2>2. CASE Len(two) = 0
    BY <2>1, <2>2, <1>2, HandsAre, FS_EmptySet DEF MatchShape
  <2>3. CASE Len(two) = 1
    <3>1. PICK x : waiting = {x}
      BY <2>1, <2>3, FS_Singleton DEF MatchShape
    <3> QED
      BY <1>1, <1>2, <2>3, <3>1, HandsAre
  <2> QED
    BY <1>2, <1>5, <2>2, <2>3
<1>6. ASSUME Len(two) = 0
      PROVE  /\ AskShapes' /\ OnlyAsk(r) /\ HandsOf(r)' = Range(two) /\ ask'[r].user = ask[r].user
             /\ ask'[r].at = "done"
  <2>1. Done(r) /\ two = <<>>
    BY <1>2, <1>6 DEF PopMatch
  <2>2. Range(two) = {}
    BY <2>1, <1>2, HandsAre
  <2> QED
    BY <1>1, <2>1, <2>2, DoneStep
<1>7. ASSUME Len(two) \in {1, 2}
      PROVE  /\ AskShapes' /\ OnlyAsk(r) /\ HandsOf(r)' = Range(two) /\ ask'[r].user = ask[r].user
             /\ Len(two) = 1 => ask'[r].at = "requeue" /\ ask'[r].popped = two
             /\ Len(two) = 2 => ask'[r].at = "read" /\ ask'[r].seen = <<>> /\ two[1] # two[2]
  <2> DEFINE place == IF Len(two) = 1 THEN "requeue" ELSE "read"
             a == Holding(place, ask[r].user, two, <<>>)
  <2>1. two # <<>> /\ IsInjective(two)
    BY <1>7 DEF PopMatch
  <2>2. ask' = [ask EXCEPT ![r] = a]
    BY <2>1 DEF PopMatch
  <2>3. Len(two) = 2 => two[1] # two[2]
    <3>1. Len(two) = 2 => 1 \in DOMAIN two /\ 2 \in DOMAIN two
      BY <1>2
    <3> QED
      BY <2>1, <3>1 DEF IsInjective
  <2>4. ask[r].user \in Users
    BY <1>1 DEF AskShapes, AskShape
  <2>5. a \in AskRecords /\ AskShape(a)
    BY <1>2, <1>7, <2>3, <2>4 DEF Holding, AskRecords, AskShape, Paired, Empty
  <2>6. /\ a.user = ask[r].user /\ a.popped = two /\ a.seen = <<>>
        /\ Len(two) = 1 => a.at = "requeue"
        /\ Len(two) = 2 => a.at = "read"
    BY DEF Holding
  <2> HIDE DEF place, a
  <2>7. AskShapes' /\ OnlyAsk(r) /\ HandsOf(r)' = Range(two) /\ ask'[r] = a
    BY <1>1, <2>2, <2>5, <2>6, AskStep
  <2> QED
    BY <2>3, <2>6, <2>7
<1> QED
  BY <1>1, <1>2, <1>3, <1>5, <1>6, <1>7

\* The next state is read; after the second, both are valid or all go back.
LEMMA ReadStateStep ==
    ASSUME MatchShape, NEW r \in Asks, ReadState(r)
    PROVE  /\ AskShapes' /\ OnlyAsk(r) /\ HandsOf(r)' = HandsOf(r)
           /\ ask[r].at = "read" /\ ask'[r].user = ask[r].user /\ ask'[r].popped = ask[r].popped
           /\ Len(ask[r].popped) = 2 /\ ask[r].popped \in Seq(Users) /\ ask[r].popped[1] # ask[r].popped[2]
           /\ Len(ask[r].seen) \in {0, 1} /\ ask[r].seen \in Seq(Statuses) /\ ask'[r].n = 0
           /\ ask'[r].seen = Append(ask[r].seen, status[ask[r].popped[Len(ask[r].seen) + 1]])
           /\ Len(ask[r].seen) = 0 => ask'[r].at = "read"
           /\ Len(ask[r].seen) = 1 =>
                ask'[r].at = IF ask'[r].seen = <<"queued", "queued">> THEN "match" ELSE "requeue"
<1> DEFINE who == ask[r].popped
           was == ask[r].seen
           seen == Append(was, status[who[Len(was) + 1]])
           place == IF Len(seen) < 2 THEN "read" ELSE IF seen = <<"queued", "queued">> THEN "match" ELSE "requeue"
           a == Holding(place, ask[r].user, who, seen)
<1>1. AskShapes /\ ask[r].at = "read" /\ who \in Seq(Users) /\ Len(who) = 2 /\ was \in Seq(Statuses)
      /\ Len(was) < 2 /\ who[1] # who[2] /\ ask[r].user \in Users
  BY DEF MatchShape, AskShapes, AskShape, AskRecords, Paired, ReadState
<1>2. Len(was) \in {0, 1}
  BY <1>1, NextRead
<1>3. status[who[Len(was) + 1]] \in Statuses
  BY <1>1, NextRead DEF MatchShape
<1>4. ask' = [ask EXCEPT ![r] = a]
  BY DEF ReadState
<1>5. who = ask[r].popped /\ Range(who) = HandsOf(r) /\ was = ask[r].seen
  BY DEF HandsOf
<1> HIDE DEF who, was
<1>6. seen \in Seq(Statuses) /\ Len(seen) = Len(was) + 1 /\ seen = Append(was, status[who[Len(was) + 1]])
  BY <1>1, <1>3
<1> HIDE DEF seen
<1>7. /\ place \in {"requeue", "read", "match"} /\ (place = "read" => Len(seen) < 2)
      /\ Len(was) = 0 => place = "read"
      /\ Len(was) = 1 => place = IF seen = <<"queued", "queued">> THEN "match" ELSE "requeue"
  BY <1>2, <1>6
<1> HIDE DEF place
<1>8. /\ a \in AskRecords /\ AskShape(a)
      /\ a.at = place /\ a.user = ask[r].user /\ a.popped = who /\ a.n = 0 /\ a.seen = seen
  BY <1>1, <1>6, <1>7 DEF Holding, AskRecords, AskShape, Paired, Empty
<1> HIDE DEF a
<1>9. AskShapes' /\ OnlyAsk(r) /\ HandsOf(r)' = Range(who) /\ ask'[r] = a
  BY <1>1, <1>4, <1>8, AskStep
<1> QED
  BY <1>1, <1>2, <1>5, <1>6, <1>7, <1>8, <1>9

\* The first goes back to the queue; the second, if there is one, stays in hands.
LEMMA RequeueStep ==
    ASSUME MatchShape, NEW r \in Asks, Requeue(r)
    PROVE  /\ AskShapes' /\ OnlyAsk(r) /\ ask[r].at = "requeue" /\ ask'[r].user = ask[r].user
           /\ Head(ask[r].popped) \in HandsOf(r) /\ Head(ask[r].popped) \in Users
           /\ HandsOf(r)' = HandsOf(r) \ {Head(ask[r].popped)}
           /\ ask'[r].at \in {"requeue", "done"}
           /\ ask'[r].at = "requeue" <=> Len(ask[r].popped) = 2
<1> DEFINE who == ask[r].popped
<1>1. AskShapes /\ ask[r].at = "requeue" /\ who \in Seq(Users) /\ Len(who) \in {1, 2}
      /\ (Len(who) = 2 => who[1] # who[2])
  BY DEF MatchShape, AskShapes, AskShape, AskRecords, Requeue
<1>2. HandsOf(r) = Range(who) /\ who = ask[r].popped
  BY DEF HandsOf
<1> HIDE DEF who
<1>3. Head(who) \in HandsOf(r) /\ Head(who) \in Users
  BY <1>1, <1>2, HandsAre
<1>4. CASE Len(who) = 1
  <2>1. Done(r) /\ HandsOf(r) \ {Head(who)} = {}
    BY <1>1, <1>2, <1>4, HandsAre DEF Requeue
  <2> QED
    BY <1>1, <1>2, <1>3, <1>4, <2>1, DoneStep
<1>5. CASE Len(who) = 2
  <2> DEFINE a == [ask[r] EXCEPT !.popped = Tail(who)]
  <2>1. ask' = [ask EXCEPT ![r] = a]
    BY <1>2, <1>5 DEF Requeue
  <2>2. ask[r] \in AskRecords /\ AskShape(ask[r])
    BY <1>1 DEF AskShapes
  <2>3. Tail(who) \in Seq(Users) /\ Len(Tail(who)) = 1 /\ Tail(who)[1] = who[2] /\ Head(who) = who[1]
        /\ Range(who) = {who[1], who[2]}
    BY <1>1, <1>5, HandsAre
  <2>4. a \in AskRecords /\ a.at = "requeue" /\ a.user = ask[r].user /\ a.popped = Tail(who)
    BY <1>1, <2>2, <2>3 DEF AskRecords
  <2>5. AskShape(a)
    BY <2>2, <2>3, <2>4, <1>1 DEF AskShape, Empty, Paired
  <2>6. Range(a.popped) = {who[2]}
    BY <2>3, <2>4, HandsAre
  <2> HIDE DEF a
  <2>7. AskShapes' /\ OnlyAsk(r) /\ ask'[r] = a /\ HandsOf(r)' = Range(a.popped)
    BY <1>1, <2>1, <2>4, <2>5, AskStep
  <2> QED
    BY <1>1, <1>2, <1>3, <1>5, <2>3, <2>4, <2>6, <2>7
<1> QED
  BY <1>1, <1>4, <1>5

\* The second of two states is to be written.
LEMMA SecondStep ==
    ASSUME AskShapes, NEW r \in Asks, ask[r].at \in {"match", "play"}, ask' = [ask EXCEPT ![r].n = 1]
    PROVE  /\ AskShapes' /\ OnlyAsk(r) /\ HandsOf(r)' = HandsOf(r) /\ ask'[r].n = 1
           /\ ask'[r].at = ask[r].at /\ ask'[r].user = ask[r].user /\ ask'[r].popped = ask[r].popped
<1> DEFINE a == [ask[r] EXCEPT !.n = 1]
<1>1. ask[r] \in AskRecords /\ AskShape(ask[r])
  BY DEF AskShapes
<1>2. a \in AskRecords /\ a.at = ask[r].at /\ a.user = ask[r].user /\ a.popped = ask[r].popped
      /\ a.seen = ask[r].seen /\ a.n = 1
  BY <1>1 DEF AskRecords
<1>3. AskShape(a)
  BY <1>1, <1>2 DEF AskShape, Empty, Paired
<1>4. ask' = [ask EXCEPT ![r] = a]
  OBVIOUS
<1> HIDE DEF a
<1>5. AskShapes' /\ OnlyAsk(r) /\ ask'[r] = a /\ HandsOf(r)' = Range(a.popped)
  BY <1>2, <1>3, <1>4, AskStep
<1> QED
  BY <1>2, <1>5 DEF HandsOf

\* The first of two is marked, then the second.
LEMMA MarkMatchedStep ==
    ASSUME MatchShape, NEW r \in Asks, MarkMatched(r)
    PROVE  /\ AskShapes' /\ OnlyAsk(r) /\ HandsOf(r)' = HandsOf(r)
           /\ ask[r].at = "match" /\ ask'[r].user = ask[r].user /\ ask'[r].popped = ask[r].popped
           /\ Len(ask[r].popped) = 2 /\ ask[r].popped \in Seq(Users) /\ ask[r].popped[1] # ask[r].popped[2]
           /\ ask[r].n \in {0, 1}
           /\ ask[r].n = 0 => ask'[r].at = "match" /\ ask'[r].n = 1
           /\ ask[r].n = 1 => ask'[r].at = "begin" /\ ask'[r].n = 0
<1>1. AskShapes /\ ask[r].at = "match" /\ ask[r] \in AskRecords /\ AskShape(ask[r])
  BY DEF MatchShape, AskShapes, MarkMatched
<1>2. ask[r].popped \in Seq(Users) /\ Len(ask[r].popped) = 2 /\ ask[r].popped[1] # ask[r].popped[2]
      /\ ask[r].n \in {0, 1} /\ ask[r].user \in Users
  BY <1>1 DEF AskRecords, AskShape, Paired
<1>3. CASE ask[r].n = 0
  <2>1. ask' = [ask EXCEPT ![r].n = 1]
    BY <1>3 DEF MarkMatched
  <2> QED
    BY <1>1, <1>2, <1>3, <2>1, SecondStep
<1>4. CASE ask[r].n = 1
  <2> DEFINE a == Holding("begin", ask[r].user, ask[r].popped, <<>>)
  <2>1. ask' = [ask EXCEPT ![r] = a]
    BY <1>4 DEF MarkMatched
  <2>2. a \in AskRecords /\ AskShape(a)
    BY <1>2 DEF Holding, AskRecords, AskShape, Paired, Empty
  <2>3. a.at = "begin" /\ a.user = ask[r].user /\ a.popped = ask[r].popped /\ a.n = 0
    BY DEF Holding
  <2> HIDE DEF a
  <2>4. AskShapes' /\ OnlyAsk(r) /\ ask'[r] = a /\ HandsOf(r)' = Range(a.popped)
    BY <1>1, <2>1, <2>2, AskStep
  <2> QED
    BY <1>1, <1>2, <1>4, <2>3, <2>4 DEF HandsOf
<1> QED
  BY <1>2, <1>3, <1>4

\* The two who were matched become the players.
LEMMA BeginMatchStep ==
    ASSUME MatchShape, NEW r \in Asks, BeginMatch(r)
    PROVE  /\ AskShapes' /\ OnlyAsk(r) /\ HandsOf(r)' = HandsOf(r)
           /\ ask[r].at = "begin" /\ ask'[r].user = ask[r].user /\ ask'[r].popped = ask[r].popped
           /\ Len(ask[r].popped) = 2 /\ ask[r].popped \in Seq(Users) /\ ask[r].popped[1] # ask[r].popped[2]
           /\ ask'[r].at = "play" /\ ask'[r].n = 0
           /\ HandsOf(r) \in SUBSET Users /\ Cardinality(HandsOf(r)) = 2
<1> DEFINE a == [ask[r] EXCEPT !.at = "play"]
<1>1. AskShapes /\ ask[r].at = "begin" /\ ask[r] \in AskRecords /\ AskShape(ask[r])
  BY DEF MatchShape, AskShapes, BeginMatch
<1>2. ask[r].popped \in Seq(Users) /\ Len(ask[r].popped) = 2 /\ ask[r].popped[1] # ask[r].popped[2]
      /\ ask[r].n = 0
  BY <1>1 DEF AskRecords, AskShape, Paired
<1>3. a \in AskRecords /\ a.at = "play" /\ a.user = ask[r].user /\ a.popped = ask[r].popped
      /\ a.seen = ask[r].seen /\ a.n = 0
  BY <1>1, <1>2 DEF AskRecords, Paired
<1>4. AskShape(a)
  BY <1>1, <1>3 DEF AskShape, Empty, Paired
<1>5. ask' = [ask EXCEPT ![r] = a]
  BY DEF BeginMatch, Proceed
<1> HIDE DEF a
<1>6. AskShapes' /\ OnlyAsk(r) /\ ask'[r] = a /\ HandsOf(r)' = Range(a.popped)
  BY <1>1, <1>3, <1>4, <1>5, AskStep
<1>7. HandsOf(r) = {ask[r].popped[1], ask[r].popped[2]} /\ HandsOf(r) \in SUBSET Users
  BY <1>2, HandsAre DEF HandsOf
<1>8. Cardinality(HandsOf(r)) = 2
  <2>1. PICK x, y : x # y /\ HandsOf(r) = {x, y}
    BY <1>2, <1>7
  <2>2. {x, y} = {x} \cup {y} /\ y \notin {x}
    BY <2>1
  <2>3. IsFiniteSet({x}) /\ Cardinality({x}) = 1
    BY FS_Singleton
  <2>4. Cardinality({x} \cup {y}) = Cardinality({x}) + 1
    BY <2>2, <2>3, FS_AddElement
  <2> QED
    BY <2>1, <2>2, <2>3, <2>4
<1> QED
  BY <1>1, <1>2, <1>3, <1>6, <1>7, <1>8 DEF HandsOf

\* The first is told to play, then the second, who is let go with him.
LEMMA MarkPlayingStep ==
    ASSUME MatchShape, NEW r \in Asks, MarkPlaying(r)
    PROVE  /\ AskShapes' /\ OnlyAsk(r) /\ ask[r].at = "play" /\ ask'[r].user = ask[r].user
           /\ Len(ask[r].popped) = 2 /\ ask[r].popped \in Seq(Users) /\ ask[r].popped[1] # ask[r].popped[2]
           /\ ask[r].n \in {0, 1}
           /\ ask[r].n = 0 => /\ HandsOf(r)' = HandsOf(r) /\ ask'[r].popped = ask[r].popped
                              /\ ask'[r].at = "play" /\ ask'[r].n = 1
           /\ ask[r].n = 1 => HandsOf(r)' = {} /\ ask'[r].at = "done"
<1>1. AskShapes /\ ask[r].at = "play" /\ ask[r] \in AskRecords /\ AskShape(ask[r])
  BY DEF MatchShape, AskShapes, MarkPlaying
<1>2. ask[r].popped \in Seq(Users) /\ Len(ask[r].popped) = 2 /\ ask[r].popped[1] # ask[r].popped[2]
      /\ ask[r].n \in {0, 1}
  BY <1>1 DEF AskRecords, AskShape, Paired
<1>3. CASE ask[r].n = 0
  <2>1. ask' = [ask EXCEPT ![r].n = 1]
    BY <1>3 DEF MarkPlaying
  <2> QED
    BY <1>1, <1>2, <1>3, <2>1, SecondStep
<1>4. CASE ask[r].n = 1
  <2>1. Done(r)
    BY <1>4 DEF MarkPlaying
  <2> QED
    BY <1>1, <1>2, <1>4, <2>1, DoneStep
<1> QED
  BY <1>2, <1>3, <1>4

\* A request that fails lets go of everybody.
LEMMA FailAskStep ==
    ASSUME MatchShape, NEW r \in Asks, FailAsk(r)
    PROVE  /\ AskShapes' /\ OnlyAsk(r) /\ HandsOf(r)' = {} /\ ask'[r].at = "done"
           /\ ask[r].at \notin {"none", "done"}
<1>1. AskShapes /\ Done(r) /\ ask[r].at \notin {"none", "done"}
  BY DEF MatchShape, AskShapes, FailAsk, UnderWay
<1> QED
  BY <1>1, DoneStep

-----------------------------------------------------------------------------
(* What the steps have in common.                                            *)

\* What has happened is not forgotten.
History ==
  /\ touched \subseteq touched' /\ touched' \in SUBSET Users
  /\ failures' \in Nat /\ expiries' \in Nat /\ overlap' \in BOOLEAN
  /\ (failures' = 0 => failures = 0) /\ (expiries' = 0 => expiries = 0) /\ (~overlap' => ~overlap)

\* A step of one request that leaves the matches keeps every shape.
LEMMA ShapeStep ==
    ASSUME MatchShape, NEW r \in Asks, AskShapes', OnlyAsk(r), game' = game, History,
           ask[r].at \in {"play", "done"} => ask'[r].at \in {"play", "done"},
           status' \in [Users -> Statuses], waiting' \in SUBSET Users,
           waiting' \subseteq waiting \/ \E x : waiting' = waiting \cup {x}, old' \subseteq waiting'
    PROVE  MatchShape'
<1>1. IsFiniteSet(waiting')
  BY FS_Subset, FS_AddElement DEF MatchShape
<1>2. \A q \in Asks : ask'[q].at \notin {"play", "done"} => game'[q] = NoGame
  BY DEF MatchShape, OnlyAsk
<1> QED
  BY <1>1, <1>2 DEF MatchShape, AskShapes, History

\* Who is not in the request's hands, and whose key it does not write, is not concerned.
LEMMA AsideStep ==
    ASSUME MatchIInv, MatchShape', NEW r \in Asks, OnlyAsk(r), History,
           NEW u \in Users \ touched', u \notin HandsOf(r), u \notin HandsOf(r)',
           ask[r].user = u => ask[r].at \notin {"add", "delete"},
           status'[u] = status[u], u \in waiting' <=> u \in waiting, GamesOf(u)' \subseteq GamesOf(u)
    PROVE  UserInv(u)'
<1>1. u \in Users /\ UserInv(u) /\ MatchShape
  BY DEF MatchIInv, History
<1>2. Aside(u)
  BY DEF Aside, OnlyAsk, History
<1> QED
  BY <1>1, <1>2, AsideKeeps

\* No request comes to put entries back, and none to pop is over.
LEMMA NoRequeueStep ==
    ASSUME MatchIInv, NEW r \in Asks, OnlyAsk(r), History, waiting' \subseteq waiting,
           ask[r].at \notin {"requeue", "pop"}, ask'[r].at # "requeue"
    PROVE  PairsMatch' /\ Crowd'
<1>1. PairsMatch'
  BY DEF MatchIInv, PairsMatch, OnlyAsk, History
<1>2. Line' \subseteq Line
  BY DEF Line, OnlyAsk
<1>3. \A q \in Asks : ask[q].at = "pop" => ask'[q].at = "pop" /\ ask'[q].user = ask[q].user
  BY DEF OnlyAsk
<1>4. Crowd'
  <2> SUFFICES ASSUME failures' = 0, ~overlap', touched' = {}, expiries' = 0
               PROVE  \/ Alone(Line')
                      \/ \E q \in Asks : ask'[q].at = "pop" /\ Alone(Line' \ {ask'[q].user})
                      \/ \E q, p \in Asks : q # p /\ ask'[q].at = "pop" /\ ask'[p].at = "pop"
    BY DEF Crowd, Alone
  <2>1. \/ Alone(Line)
        \/ \E q \in Asks : ask[q].at = "pop" /\ Alone(Line \ {ask[q].user})
        \/ \E q, p \in Asks : q # p /\ ask[q].at = "pop" /\ ask[p].at = "pop"
    BY DEF MatchIInv, Crowd, History
  <2> QED
    BY <1>2, <1>3, <2>1 DEF Alone
<1> QED
  BY <1>1, <1>4

\* The matches keep their players.
LEMMA SamePairs == ASSUME PairsAreTwo, \A m \in Asks : game'[m].players = game[m].players PROVE PairsAreTwo'
BY DEF PairsAreTwo, Matches

\* Whether a match of u is on.
LEMMA SameGames == ASSUME NEW u, game' = game PROVE GamesOf(u)' = GamesOf(u)
BY DEF GamesOf

-----------------------------------------------------------------------------
(* The handler.                                                              *)

\* A new request concerns nobody yet.
LEMMA ArriveKeeps == ASSUME MatchIInv, NEW r \in Asks, NEW w \in Users, Arrive(r, w) PROVE MatchIInv'
<1>1. MatchShape /\ PairsAreTwo
  BY DEF MatchIInv
<1>2. /\ AskShapes' /\ OnlyAsk(r) /\ HandsOf(r)' = {} /\ HandsOf(r) = {}
      /\ ask[r].at = "none" /\ ask'[r].at = "clean"
  BY <1>1, ArriveStep
<1>3. History /\ game' = game /\ status' = status /\ waiting' = waiting /\ old' = old
  BY <1>1 DEF Arrive, History, MatchShape
<1>4. MatchShape'
  BY <1>1, <1>2, <1>3, ShapeStep DEF MatchShape
<1>5. ASSUME NEW u \in Users \ touched' PROVE UserInv(u)'
  BY <1>2, <1>3, <1>4, SameGames, AsideStep
<1>6. PairsMatch' /\ Crowd'
  BY <1>2, <1>3, NoRequeueStep
<1>7. PairsAreTwo'
  BY <1>1, <1>3, SamePairs
<1> QED
  BY <1>4, <1>5, <1>6, <1>7 DEF MatchIInv

\* Whose entry was old waits in the hands of the cleanup.
LEMMA RemoveOldKeeps == ASSUME MatchIInv, NEW r \in Asks, NEW x \in Users, RemoveOld(r, x) PROVE MatchIInv'
<1>1. MatchShape /\ PairsAreTwo
  BY DEF MatchIInv
<1>2. /\ AskShapes' /\ OnlyAsk(r) /\ HandsOf(r) = {} /\ HandsOf(r)' = {x}
      /\ ask[r].at = "clean" /\ ask'[r].at = "forget" /\ ask'[r].user = ask[r].user
      /\ x \in waiting
  BY <1>1, RemoveOldStep
<1>3. /\ History /\ game' = game /\ status' = status /\ waiting' = waiting \ {x} /\ old' = old \ {x}
      /\ touched' = touched /\ failures' = failures /\ expiries' = expiries
  BY <1>1 DEF RemoveOld, History, MatchShape
<1>4. MatchShape'
  BY <1>1, <1>2, <1>3, ShapeStep DEF MatchShape
<1>5. ASSUME NEW u \in Users \ touched' PROVE UserInv(u)'
  <2>1. CASE u # x
    BY <1>2, <1>3, <1>4, <2>1, SameGames, AsideStep
  <2>2. CASE u = x
    <3>1. UserInv(x)
      BY <1>3, <2>2 DEF MatchIInv
    <3>2. \A q \in Asks : x \notin HandsOf(q)
      BY <1>2, <3>1 DEF UserInv, HandsApart
    <3>3. \A q \in Asks : x \in HandsOf(q)' <=> q = r
      BY <1>2, <3>2 DEF OnlyAsk
    <3>4. HandsApart(x)'
      BY <1>3, <3>3 DEF HandsApart
    <3>5. GamesOf(x)' = {}
      BY <1>2, <1>3, <3>1, SameGames DEF UserInv, Claimed
    <3>6. StatesFit(x)'
      BY <1>2, <1>4, <3>3, PoppedIsHeld DEF StatesFit, StateFits, MatchShape, AskRecords, HandsOf
    <3>7. failures' = 0 => WaiterFound(x)' /\ Started(x)'
      BY <1>3, <3>1, <3>2, <3>3 DEF UserInv, WaiterFound, Started
    <3>8. expiries' = 0 => Stands(x)'
      BY <1>2, <1>3, <3>1 DEF UserInv, Stands
    <3> QED
      BY <2>2, <3>4, <3>5, <3>6, <3>7, <3>8 DEF UserInv, Claimed
  <2> QED
    BY <2>1, <2>2
<1>6. PairsMatch' /\ Crowd'
  BY <1>2, <1>3, NoRequeueStep
<1>7. PairsAreTwo'
  BY <1>1, <1>3, SamePairs
<1> QED
  BY <1>4, <1>5, <1>6, <1>7 DEF MatchIInv

\* Who is forgotten waits no more.
LEMMA ForgetOldKeeps == ASSUME MatchIInv, NEW r \in Asks, ForgetOld(r) PROVE MatchIInv'
<1>1. MatchShape /\ PairsAreTwo
  BY DEF MatchIInv
<1>2. PICK x \in Users : x = Head(ask[r].popped) /\ HandsOf(r) = {x}
  BY <1>1, ForgetOldStep
<1>3. /\ AskShapes' /\ OnlyAsk(r) /\ HandsOf(r)' = {}
      /\ ask[r].at = "forget" /\ ask'[r].at = "clean" /\ ask'[r].user = ask[r].user
  BY <1>1, ForgetOldStep
<1>4. /\ game' = game /\ status' = [status EXCEPT ![x] = "none"] /\ waiting' = waiting /\ old' = old
      /\ failures' = failures /\ expiries' = expiries /\ overlap' = overlap
      /\ touched' = IF status[x] # "queued" \/ \E q \in UnderWay \ {r} : ask[q].user = x \/ x \in HandsOf(q)
                    THEN touched \cup {x} ELSE touched
  BY <1>2 DEF ForgetOld
<1>5. History
  BY <1>1, <1>4 DEF History, MatchShape
<1>6. status' \in [Users -> Statuses]
  BY <1>1, <1>4 DEF MatchShape, Statuses
<1>7. MatchShape'
  BY <1>1, <1>3, <1>4, <1>5, <1>6, ShapeStep DEF MatchShape
<1>8. ASSUME NEW u \in Users \ touched' PROVE UserInv(u)'
  <2>1. CASE u # x
    <3>1. status'[u] = status[u]
      BY <1>1, <1>4, <2>1 DEF MatchShape
    <3> QED
      BY <1>2, <1>3, <1>4, <1>5, <1>7, <2>1, <3>1, SameGames, AsideStep
  <2>2. CASE u = x
    <3>1. UserInv(x) /\ status[x] = "queued"
      BY <1>4, <1>5, <2>2 DEF MatchIInv, History
    <3>2. \A q \in Asks : x \notin HandsOf(q)'
      BY <1>2, <1>3, <3>1 DEF OnlyAsk, UserInv, HandsApart
    <3>3. x \notin waiting' /\ GamesOf(x)' = {} /\ status'[x] = "none"
      BY <1>1, <1>2, <1>4, <3>1, SameGames DEF UserInv, HandsApart, Claimed, MatchShape
    <3>4. StatesFit(x)'
      BY <1>7, <3>2, PoppedIsHeld DEF StatesFit, MatchShape, AskRecords, HandsOf
    <3> QED
      BY <2>2, <3>2, <3>3, <3>4 DEF UserInv, Claimed, HandsApart, WaiterFound, Started, Stands
  <2> QED
    BY <2>1, <2>2
<1>9. PairsMatch' /\ Crowd'
  BY <1>3, <1>4, <1>5, NoRequeueStep
<1>10. PairsAreTwo'
  BY <1>1, <1>4, SamePairs
<1> QED
  BY <1>7, <1>8, <1>9, <1>10 DEF MatchIInv

\* Looking, and finding that there is something to do.
LEMMA LookKeeps ==
    ASSUME MatchIInv, NEW r \in Asks, Look(r) \/ LeaveQueue(r) \/ Enter(r)
    PROVE  MatchIInv'
<1>1. MatchShape /\ PairsAreTwo
  BY DEF MatchIInv
<1>2. /\ AskShapes' /\ OnlyAsk(r) /\ HandsOf(r) = {} /\ HandsOf(r)' = {}
      /\ ask'[r].at \in Empty \ {"none"}
  BY <1>1, BareStep
<1>3. ask[r].at \in {"clean", "leave", "enter"}
  BY DEF Look, LeaveQueue, Enter
<1>4. History /\ game' = game /\ status' = status /\ waiting' = waiting /\ old' = old
  BY <1>1 DEF Look, LeaveQueue, Enter, History, MatchShape
<1>5. MatchShape'
  BY <1>1, <1>2, <1>3, <1>4, ShapeStep DEF MatchShape
<1>6. ASSUME NEW u \in Users \ touched' PROVE UserInv(u)'
  BY <1>2, <1>3, <1>4, <1>5, SameGames, AsideStep
<1>7. PairsMatch' /\ Crowd'
  BY <1>2, <1>3, <1>4, NoRequeueStep DEF Empty
<1>8. PairsAreTwo'
  BY <1>1, <1>4, SamePairs
<1> QED
  BY <1>5, <1>6, <1>7, <1>8 DEF MatchIInv

\* Who leaves the queue is about to be told so.
LEMMA RemoveEntryKeeps == ASSUME MatchIInv, NEW r \in Asks, RemoveEntry(r) PROVE MatchIInv'
<1>1. MatchShape /\ PairsAreTwo
  BY DEF MatchIInv
<1>2. PICK w \in Users : w = ask[r].user
  BY <1>1, BareStep
<1>3. /\ AskShapes' /\ OnlyAsk(r) /\ HandsOf(r) = {} /\ HandsOf(r)' = {} /\ ask'[r].user = w
  BY <1>1, <1>2, BareStep
<1>4. ask[r].at = "remove" /\ ask'[r].at = "delete"
  BY <1>1 DEF RemoveEntry, Proceed, MatchShape, AskRecords
<1>5. /\ game' = game /\ status' = status /\ waiting' = waiting \ {w} /\ old' = old \ {w}
      /\ failures' = failures /\ expiries' = expiries /\ overlap' = overlap /\ touched' = touched
  BY <1>2 DEF RemoveEntry
<1>6. History
  BY <1>1, <1>5 DEF History, MatchShape
<1>7. MatchShape'
  BY <1>1, <1>3, <1>4, <1>5, <1>6, ShapeStep DEF MatchShape
<1>8. ASSUME NEW u \in Users \ touched' PROVE UserInv(u)'
  <2>1. CASE u # w
    BY <1>3, <1>4, <1>5, <1>6, <1>7, <2>1, SameGames, AsideStep
  <2>2. CASE u = w
    <3>1. UserInv(w)
      BY <1>5, <2>2 DEF MatchIInv
    <3>2. \A q \in Asks : w \in HandsOf(q) => ask'[q] = ask[q]
      BY <1>3 DEF OnlyAsk
    <3>3. \A q \in Asks : w \in HandsOf(q)' <=> w \in HandsOf(q)
      BY <1>3 DEF OnlyAsk
    <3>4. HandsApart(w)' /\ GamesOf(w)' = GamesOf(w)
      BY <1>5, <3>1, <3>3, SameGames DEF UserInv, HandsApart
    <3>5. Claimed(w)'
      BY <1>5, <3>1, <3>2, <3>3, <3>4 DEF UserInv, Claimed
    <3>6. StatesFit(w)'
      <4> SUFFICES ASSUME NEW q \in Asks, NEW i \in {1, 2}, i <= Len(ask'[q].popped), ask'[q].popped[i] = w
                   PROVE  StateFits(ask'[q], i, status'[w])
        BY DEF StatesFit
      <4>1. w \in HandsOf(q)'
        BY <1>7, PoppedIsHeld DEF HandsOf, MatchShape, AskRecords
      <4> QED
        BY <1>5, <3>1, <3>2, <3>3, <4>1 DEF UserInv, StatesFit
    <3>7. WaiterFound(w)'
      BY <1>3, <1>4 DEF WaiterFound
    <3>8. failures' = 0 => Started(w)'
      BY <1>5, <3>1, <3>2, <3>3 DEF UserInv, Started
    <3>9. expiries' = 0 => Stands(w)'
      BY <1>5, <3>1, <3>2, <3>3 DEF UserInv, Stands
    <3> QED
      BY <2>2, <3>4, <3>5, <3>6, <3>7, <3>8, <3>9 DEF UserInv
  <2> QED
    BY <2>1, <2>2
<1>9. PairsMatch' /\ Crowd'
  BY <1>3, <1>4, <1>5, <1>6, NoRequeueStep
<1>10. PairsAreTwo'
  BY <1>1, <1>5, SamePairs
<1> QED
  BY <1>7, <1>8, <1>9, <1>10 DEF MatchIInv

\* A user in nobody's hands: who is not in the queue has no state there,
\* and who is, or is about to be, is told to wait.
LEMMA FreeHands ==
    ASSUME MatchShape', NEW u \in Users, \A q \in Asks : u \notin HandsOf(q)', GamesOf(u)' = {},
           \/ status'[u] = "none" /\ u \notin waiting'
           \/ status'[u] = "queued" /\ (u \in waiting' \/ \E q \in Asks : ask'[q].user = u /\ ask'[q].at = "add")
    PROVE  UserInv(u)'
<1>1. StatesFit(u)'
  BY PoppedIsHeld DEF StatesFit, MatchShape, AskRecords, HandsOf
<1>2. HandsApart(u)' /\ Claimed(u)'
  BY DEF HandsApart, Claimed
<1>3. WaiterFound(u)' /\ Started(u)'
  BY DEF WaiterFound, Started
<1>4. Stands(u)'
  BY DEF Stands
<1> QED
  BY <1>1, <1>2, <1>3, <1>4 DEF UserInv

\* Whose key the request writes as it has read it, he is in nobody's hands.
LEMMA TouchStep ==
    ASSUME MatchIInv, NEW u \in Users, NEW seen \in {"none", "queued"}, Touch(u, seen)
    PROVE  /\ touched \subseteq touched' /\ touched' \in SUBSET Users
           /\ u \notin touched' => /\ status[u] = seen /\ GamesOf(u) = {}
                                   /\ \A q \in Asks : u \notin HandsOf(q)
<1>1. MatchShape
  BY DEF MatchIInv
<1>2. touched \subseteq touched' /\ touched' \in SUBSET Users
  BY <1>1 DEF Touch, MatchShape
<1>3. ASSUME u \notin touched' PROVE status[u] = seen /\ u \notin InHands /\ UserInv(u)
  BY <1>2, <1>3 DEF Touch, MatchIInv
<1>4. ASSUME u \notin touched' PROVE GamesOf(u) = {} /\ \A q \in Asks : u \notin HandsOf(q)
  BY <1>1, <1>3, <1>4, HandsUnderWay DEF UserInv, Claimed
<1> QED
  BY <1>2, <1>3, <1>4

\* Who is told to wait is about to enter.
LEMMA WriteStateKeeps == ASSUME MatchIInv, NEW r \in Asks, WriteState(r) PROVE MatchIInv'
<1>1. MatchShape /\ PairsAreTwo
  BY DEF MatchIInv
<1>2. PICK w \in Users : w = ask[r].user
  BY <1>1, BareStep
<1>3. /\ AskShapes' /\ OnlyAsk(r) /\ HandsOf(r) = {} /\ HandsOf(r)' = {} /\ ask'[r].user = w
  BY <1>1, <1>2, BareStep
<1>4. ask[r].at = "write" /\ ask'[r].at = "add"
  BY <1>1 DEF WriteState, Proceed, MatchShape, AskRecords
<1>5. /\ game' = game /\ status' = [status EXCEPT ![w] = "queued"] /\ waiting' = waiting /\ old' = old
      /\ failures' = failures /\ expiries' = expiries /\ overlap' = overlap /\ Touch(w, "none")
  BY <1>2 DEF WriteState
<1>6. History
  BY <1>1, <1>5, TouchStep DEF History, MatchShape
<1>7. status' \in [Users -> Statuses] /\ status'[w] = "queued" /\ \A u \in Users \ {w} : status'[u] = status[u]
  BY <1>1, <1>5 DEF MatchShape, Statuses
<1>8. MatchShape'
  BY <1>1, <1>3, <1>4, <1>5, <1>6, <1>7, ShapeStep DEF MatchShape
<1>9. ASSUME NEW u \in Users \ touched' PROVE UserInv(u)'
  <2>1. CASE u # w
    BY <1>2, <1>3, <1>4, <1>5, <1>6, <1>7, <1>8, <2>1, SameGames, AsideStep
  <2>2. CASE u = w
    <3>1. GamesOf(w)' = {} /\ \A q \in Asks : w \notin HandsOf(q)'
      BY <1>3, <1>5, <2>2, TouchStep, SameGames DEF OnlyAsk
    <3> QED
      BY <1>3, <1>4, <1>7, <1>8, <2>2, <3>1, FreeHands
  <2> QED
    BY <2>1, <2>2
<1>10. PairsMatch' /\ Crowd'
  BY <1>3, <1>4, <1>5, <1>6, NoRequeueStep
<1>11. PairsAreTwo'
  BY <1>1, <1>5, SamePairs
<1> QED
  BY <1>8, <1>9, <1>10, <1>11 DEF MatchIInv

\* Who left the queue waits no more.
LEMMA DeleteStateKeeps == ASSUME MatchIInv, NEW r \in Asks, DeleteState(r) PROVE MatchIInv'
<1>1. MatchShape /\ PairsAreTwo
  BY DEF MatchIInv
<1>2. PICK w \in Users : w = ask[r].user
  BY <1>1, BareStep
<1>3. /\ AskShapes' /\ OnlyAsk(r) /\ HandsOf(r) = {} /\ HandsOf(r)' = {} /\ ask'[r].user = w
  BY <1>1, <1>2, BareStep
<1>4. ask[r].at = "delete" /\ ask'[r].at = "done"
  BY <1>1 DEF DeleteState, Done, Bare, Holding, MatchShape
<1>5. /\ game' = game /\ status' = [status EXCEPT ![w] = "none"] /\ waiting' = waiting /\ old' = old
      /\ failures' = failures /\ expiries' = expiries /\ overlap' = overlap
      /\ IF w \in waiting THEN touched' = touched \cup {w} ELSE Touch(w, "queued")
  BY <1>2 DEF DeleteState
<1>6. /\ touched \subseteq touched' /\ touched' \in SUBSET Users
      /\ w \notin touched' => w \notin waiting /\ GamesOf(w) = {} /\ \A q \in Asks : w \notin HandsOf(q)
  <2>1. CASE w \in waiting
    BY <1>1, <1>5, <2>1 DEF MatchShape
  <2>2. CASE w \notin waiting
    BY <1>5, <2>2, TouchStep
  <2> QED
    BY <2>1, <2>2
<1>7. History
  BY <1>1, <1>5, <1>6 DEF History, MatchShape
<1>8. status' \in [Users -> Statuses] /\ status'[w] = "none" /\ \A u \in Users \ {w} : status'[u] = status[u]
  BY <1>1, <1>5 DEF MatchShape, Statuses
<1>9. MatchShape'
  BY <1>1, <1>3, <1>4, <1>5, <1>7, <1>8, ShapeStep DEF MatchShape
<1>10. ASSUME NEW u \in Users \ touched' PROVE UserInv(u)'
  <2>1. CASE u # w
    BY <1>2, <1>3, <1>4, <1>5, <1>7, <1>8, <1>9, <2>1, SameGames, AsideStep
  <2>2. CASE u = w
    <3>1. GamesOf(w)' = {} /\ \A q \in Asks : w \notin HandsOf(q)'
      BY <1>3, <1>5, <1>6, <2>2, SameGames DEF OnlyAsk
    <3> QED
      BY <1>5, <1>6, <1>8, <1>9, <2>2, <3>1, FreeHands
  <2> QED
    BY <2>1, <2>2
<1>11. PairsMatch' /\ Crowd'
  BY <1>3, <1>4, <1>5, <1>7, NoRequeueStep
<1>12. PairsAreTwo'
  BY <1>1, <1>5, SamePairs
<1> QED
  BY <1>9, <1>10, <1>11, <1>12 DEF MatchIInv

\* Whoever joins the queue is about to pop.
LEMMA AddEntryKeeps == ASSUME MatchIInv, NEW r \in Asks, AddEntry(r) PROVE MatchIInv'
<1>1. MatchShape /\ PairsAreTwo
  BY DEF MatchIInv
<1>2. PICK w \in Users : w = ask[r].user
  BY <1>1, BareStep
<1>3. /\ AskShapes' /\ OnlyAsk(r) /\ HandsOf(r) = {} /\ HandsOf(r)' = {} /\ ask'[r].user = w
  BY <1>1, <1>2, BareStep
<1>4. ask[r].at = "add" /\ ask'[r].at = "pop"
  BY <1>1 DEF AddEntry, Proceed, MatchShape, AskRecords
<1>5. /\ game' = game /\ status' = status /\ waiting' = waiting \cup {w} /\ old' = old \ {w}
      /\ failures' = failures /\ expiries' = expiries /\ overlap' = overlap /\ Touch(w, "queued")
  BY <1>2 DEF AddEntry
<1>6. History
  BY <1>1, <1>5, TouchStep DEF History, MatchShape
<1>7. MatchShape'
  BY <1>1, <1>3, <1>4, <1>5, <1>6, ShapeStep DEF MatchShape
<1>8. ASSUME NEW u \in Users \ touched' PROVE UserInv(u)'
  <2>1. CASE u # w
    BY <1>2, <1>3, <1>4, <1>5, <1>6, <1>7, <2>1, SameGames, AsideStep
  <2>2. CASE u = w
    <3>1. GamesOf(w)' = {} /\ status[w] = "queued" /\ \A q \in Asks : w \notin HandsOf(q)'
      BY <1>3, <1>5, <2>2, TouchStep, SameGames DEF OnlyAsk
    <3> QED
      BY <1>5, <1>7, <2>2, <3>1, FreeHands
  <2> QED
    BY <2>1, <2>2
<1>9. PairsMatch'
  BY <1>3, <1>4, <1>6 DEF MatchIInv, PairsMatch, OnlyAsk, History
<1>10. Crowd'
  <2> SUFFICES ASSUME failures' = 0, ~overlap', touched' = {}, expiries' = 0
               PROVE  \/ Alone(Line' \ {w})
                      \/ \E q, p \in Asks : q # p /\ ask'[q].at = "pop" /\ ask'[p].at = "pop"
    BY <1>3, <1>4 DEF Crowd, Alone
  <2>1. \/ Alone(Line)
        \/ \E q \in Asks : ask[q].at = "pop" /\ Alone(Line \ {ask[q].user})
        \/ \E q, p \in Asks : q # p /\ ask[q].at = "pop" /\ ask[p].at = "pop"
    BY <1>6 DEF MatchIInv, Crowd, History
  <2>2. Line' \subseteq Line \cup {w}
    BY <1>3, <1>4, <1>5 DEF Line, OnlyAsk
  <2>3. CASE Alone(Line)
    BY <2>2, <2>3 DEF Alone
  <2>4. CASE \E q \in Asks : ask[q].at = "pop"
    BY <1>3, <1>4, <2>4 DEF OnlyAsk
  <2> QED
    BY <2>1, <2>3, <2>4
<1>11. PairsAreTwo'
  BY <1>1, <1>5, SamePairs
<1> QED
  BY <1>7, <1>8, <1>9, <1>10, <1>11 DEF MatchIInv

-----------------------------------------------------------------------------
(* Making a match.                                                           *)

\* A request that pops all who are in the queue leaves at most one of them.
LEMMA TwoOfTwo ==
    ASSUME NEW S, NEW x \in S, NEW y \in S, x # y, NEW w, Alone(S \ {w})
    PROVE  S \ {x, y} = {}
BY DEF Alone

\* Who is popped goes from the queue into one pair of hands.
LEMMA PopMatchKeeps == ASSUME MatchIInv, NEW r \in Asks, NEW two \in Pops, PopMatch(r, two) PROVE MatchIInv'
<1>1. MatchShape /\ PairsAreTwo
  BY DEF MatchIInv
<1>2. /\ AskShapes' /\ OnlyAsk(r) /\ HandsOf(r) = {} /\ HandsOf(r)' = Range(two)
      /\ ask[r].at = "pop" /\ ask'[r].user = ask[r].user /\ Range(two) \subseteq waiting
      /\ two \in Seq(Users) /\ Len(two) \in {0, 1, 2}
      /\ Len(two) = 0 => ask'[r].at = "done"
      /\ Len(two) = 1 => ask'[r].at = "requeue" /\ ask'[r].popped = two
      /\ Len(two) = 2 => ask'[r].at = "read" /\ ask'[r].seen = <<>> /\ two[1] # two[2]
      /\ Len(two) < 2 => Range(two) = waiting
  BY <1>1, PopMatchStep
<1>3. /\ game' = game /\ status' = status /\ waiting' = waiting \ Range(two) /\ old' = old \ Range(two)
      /\ failures' = failures /\ expiries' = expiries /\ touched' = touched
      /\ overlap' = (overlap \/ \E q \in Asks \ {r} : Matching(q))
  BY DEF PopMatch
<1>4. History
  BY <1>1, <1>3 DEF History, MatchShape
<1>5. MatchShape'
  <2>1. ask[r].at \notin {"play", "done"} /\ old' \subseteq waiting' /\ waiting' \subseteq waiting
    BY <1>1, <1>2, <1>3 DEF MatchShape
  <2> QED
    BY <1>1, <1>2, <1>3, <1>4, <2>1, ShapeStep DEF MatchShape
<1>6. ASSUME NEW u \in Users \ touched' PROVE UserInv(u)'
  <2>1. CASE u \notin Range(two)
    BY <1>2, <1>3, <1>4, <1>5, <2>1, SameGames, AsideStep
  <2>2. CASE u \in Range(two)
    <3>1. UserInv(u) /\ u \in waiting
      BY <1>2, <1>3, <2>2 DEF MatchIInv
    <3>2. \A q \in Asks : u \notin HandsOf(q)
      BY <3>1 DEF UserInv, HandsApart
    <3>3. \A q \in Asks : u \in HandsOf(q)' <=> q = r
      BY <1>2, <2>2, <3>2 DEF OnlyAsk
    <3>4. HandsApart(u)'
      BY <1>3, <2>2, <3>3 DEF HandsApart
    <3>5. GamesOf(u)' = {}
      BY <1>3, <3>1, SameGames DEF UserInv, Claimed
    <3>6. ask'[r].at \in {"read", "requeue"} /\ (ask'[r].at = "read" => Len(ask'[r].seen) = 0)
      <4>1. Len(two) # 0
        BY <1>2, <2>2, HandsAre
      <4> QED
        BY <1>2, <4>1
    <3>7. StatesFit(u)'
      <4> SUFFICES ASSUME NEW q \in Asks, NEW i \in {1, 2}, i <= Len(ask'[q].popped), ask'[q].popped[i] = u
                   PROVE  StateFits(ask'[q], i, status'[u])
        BY DEF StatesFit
      <4>1. q = r
        BY <1>5, <3>3, PoppedIsHeld DEF HandsOf, MatchShape, AskRecords
      <4> QED
        BY <3>6, <4>1 DEF StateFits
    <3>8. failures' = 0 => WaiterFound(u)' /\ Started(u)'
      BY <1>3, <3>1, <3>2, <3>3 DEF UserInv, WaiterFound, Started
    <3>9. expiries' = 0 => Stands(u)'
      BY <1>3, <3>1 DEF UserInv, Stands
    <3> QED
      BY <3>4, <3>5, <3>7, <3>8, <3>9 DEF UserInv, Claimed
  <2> QED
    BY <2>1, <2>2
<1>7. PairsMatch'
  <2> SUFFICES ASSUME touched' = {}, expiries' = 0, NEW q \in Asks, ask'[q].at = "requeue"
               PROVE  Len(ask'[q].popped) = 1
    BY DEF PairsMatch
  <2>1. CASE q # r
    BY <1>3, <2>1, <1>2 DEF MatchIInv, PairsMatch, OnlyAsk
  <2>2. CASE q = r
    <3>1. Len(two) = 1
      BY <1>2, <2>2
    <3>2. ask'[r].popped = two
      BY <1>2, <3>1
    <3> QED
      BY <2>2, <3>1, <3>2
  <2> QED
    BY <2>1, <2>2
<1>8. Crowd'
  <2> SUFFICES ASSUME failures' = 0, ~overlap', touched' = {}, expiries' = 0 PROVE Alone(Line')
    BY DEF Crowd, Alone
  <2>1. \A q \in Asks : q # r => ask[q].at \notin {"pop", "requeue"}
    BY <1>3 DEF Matching
  <2>2. Line = waiting
    BY <1>2, <2>1 DEF Line
  <2>3. \/ Alone(waiting)
        \/ Alone(waiting \ {ask[r].user})
    BY <1>3, <2>1, <2>2 DEF MatchIInv, Crowd
  <2>4. CASE Len(two) = 0
    <3>1. Range(two) = {}
      BY <1>2, <2>4, PopsAre, HandsAre
    <3>2. Line' = {}
      BY <1>2, <1>3, <2>1, <2>4, <3>1 DEF Line, OnlyAsk
    <3> QED
      BY <3>2 DEF Alone
  <2>5. CASE Len(two) = 1
    <3>1. Range(two) = {two[1]} /\ waiting = {two[1]}
      BY <1>2, <2>5, HandsAre
    <3>2. Line' \subseteq {two[1]}
      BY <1>2, <1>3, <2>1, <3>1 DEF Line, OnlyAsk
    <3> QED
      BY <3>2 DEF Alone
  <2>6. CASE Len(two) = 2
    <3>1. Range(two) = {two[1], two[2]} /\ two[1] # two[2] /\ two[1] \in waiting /\ two[2] \in waiting
      BY <1>2, <2>6, HandsAre
    <3>2. waiting \ {two[1], two[2]} = {}
      <4>1. Alone(waiting \ {ask[r].user})
        BY <2>3 DEF Alone
      <4>2. PICK S, w : S = waiting /\ Alone(S \ {w})
        BY <4>1
      <4>3. PICK x \in S, y \in S : x = two[1] /\ y = two[2] /\ x # y
        BY <3>1, <4>2
      <4>4. S \ {x, y} = {}
        BY <4>2, <4>3, TwoOfTwo
      <4> QED
        BY <4>2, <4>3, <4>4
    <3>3. Line' = {}
      BY <1>2, <1>3, <2>1, <2>6, <3>1, <3>2 DEF Line, OnlyAsk
    <3> QED
      BY <3>3 DEF Alone
  <2> QED
    BY <1>2, <2>4, <2>5, <2>6
<1>9. PairsAreTwo'
  BY <1>1, <1>3, SamePairs
<1> QED
  BY <1>5, <1>6, <1>7, <1>8, <1>9 DEF MatchIInv

\* Whom a request holds, no match has, and no other request.
LEMMA HeldAlone ==
    ASSUME MatchShape, NEW r \in Asks, ask[r].at # "play", NEW u, UserInv(u), u \in HandsOf(r)
    PROVE  GamesOf(u) = {} /\ u \notin waiting /\ \A q \in Asks : u \in HandsOf(q) <=> q = r
BY DEF UserInv, HandsApart, Claimed

\* The states that were read still stand when the second is read.
LEMMA ReadStateKeeps == ASSUME MatchIInv, NEW r \in Asks, ReadState(r) PROVE MatchIInv'
<1>1. MatchShape /\ PairsAreTwo
  BY DEF MatchIInv
<1> DEFINE was == ask[r].seen
           seen == ask'[r].seen
           who == ask[r].popped
<1>2. /\ AskShapes' /\ OnlyAsk(r) /\ HandsOf(r)' = HandsOf(r)
      /\ ask[r].at = "read" /\ ask'[r].user = ask[r].user /\ ask'[r].popped = who
      /\ Len(who) = 2 /\ who \in Seq(Users) /\ who[1] # who[2]
      /\ Len(was) \in {0, 1} /\ was \in Seq(Statuses) /\ ask'[r].n = 0
      /\ seen = Append(was, status[who[Len(was) + 1]])
      /\ Len(was) = 0 => ask'[r].at = "read"
      /\ Len(was) = 1 => ask'[r].at = IF seen = <<"queued", "queued">> THEN "match" ELSE "requeue"
      /\ HandsOf(r) = Range(who)
  BY <1>1, ReadStateStep DEF HandsOf
<1>3. /\ game' = game /\ status' = status /\ waiting' = waiting /\ old' = old
      /\ failures' = failures /\ expiries' = expiries /\ touched' = touched /\ overlap' = overlap
  BY DEF ReadState
<1>4. History
  BY <1>1, <1>3 DEF History, MatchShape
<1>5. MatchShape'
  BY <1>1, <1>2, <1>3, <1>4, ShapeStep DEF MatchShape
<1>6. Range(who) = {who[1], who[2]} /\ who[1] \in Users /\ who[2] \in Users
  BY <1>2, HandsAre
<1>7. ASSUME NEW i \in {1, 2}, i <= Len(seen), who[i] \notin touched
      PROVE  seen[i] = status[who[i]]
  <2>1. UserInv(who[i])
    BY <1>6, <1>7 DEF MatchIInv
  <2>2. StateFits(ask[r], i, status[who[i]])
    BY <1>2, <2>1 DEF UserInv, StatesFit
  <2>3. status[who[1]] \in Statuses /\ status[who[2]] \in Statuses
    BY <1>1, <1>6 DEF MatchShape
  <2>4. CASE Len(was) = 0
    <3>1. seen = Append(was, status[who[1]])
      BY <1>2, <2>4
    <3>2. Len(seen) = 1 /\ seen[1] = status[who[1]]
      BY <1>2, <2>3, <2>4, <3>1
    <3>3. i = 1
      BY <1>7, <3>2
    <3> QED
      BY <3>2, <3>3
  <2>5. CASE Len(was) = 1
    <3>1. seen = Append(was, status[who[2]])
      BY <1>2, <2>5
    <3>2. seen[1] = was[1] /\ seen[2] = status[who[2]]
      BY <1>2, <2>3, <2>5, <3>1
    <3>3. i = 1 => was[1] = status[who[1]]
      BY <1>2, <2>2, <2>5 DEF StateFits
    <3> QED
      BY <3>2, <3>3
  <2> QED
    BY <1>2, <2>4, <2>5
<1>8. Len(was) = 1 => Len(seen) = 2
  <2>1. Len(was) = 1 => seen = Append(was, status[who[2]])
    BY <1>2
  <2>2. status[who[2]] \in Statuses
    BY <1>1, <1>6 DEF MatchShape
  <2> QED
    BY <1>2, <2>1, <2>2
<1> HIDE DEF who, was, seen
<1>9. ask'[r].at \in {"read", "match", "requeue"} /\ (ask'[r].at = "match" => seen = <<"queued", "queued">>)
  BY <1>2
<1>10. ASSUME NEW u \in Users \ touched' PROVE UserInv(u)'
  <2>1. CASE u \notin Range(who)
    BY <1>2, <1>3, <1>4, <1>5, <2>1, SameGames, AsideStep
  <2>2. CASE u \in Range(who)
    <3>1. UserInv(u) /\ u \in HandsOf(r)
      BY <1>2, <1>3, <2>2 DEF MatchIInv
    <3>2. GamesOf(u) = {} /\ u \notin waiting /\ \A q \in Asks : u \in HandsOf(q) <=> q = r
      BY <1>1, <1>2, <3>1, HeldAlone
    <3>3. \A q \in Asks : u \in HandsOf(q)' <=> q = r
      BY <1>2, <3>2 DEF OnlyAsk
    <3>4. HandsApart(u)' /\ GamesOf(u)' = {}
      BY <1>3, <3>2, <3>3, SameGames DEF HandsApart
    <3>5. StatesFit(u)'
      <4> SUFFICES ASSUME NEW q \in Asks, NEW i \in {1, 2}, i <= Len(ask'[q].popped), ask'[q].popped[i] = u
                   PROVE  StateFits(ask'[q], i, status'[u])
        BY DEF StatesFit
      <4>1. q = r
        BY <1>5, <3>3, PoppedIsHeld DEF HandsOf, MatchShape, AskRecords
      <4>2. who[i] = u
        BY <1>2, <4>1
      <4>3. ask'[r].at = "read" /\ i <= Len(ask'[r].seen) => ask'[r].seen[i] = status[u]
        BY <1>3, <1>7, <4>2 DEF seen
      <4>4. ask'[r].at = "match" => status[u] = "queued"
        <5> SUFFICES ASSUME ask'[r].at = "match" PROVE status[u] = "queued"
          OBVIOUS
        <5>1. seen = <<"queued", "queued">>
          BY <1>9
        <5>2. i <= Len(seen) /\ seen[i] = "queued"
          BY <5>1
        <5> QED
          BY <1>3, <1>7, <4>2, <5>2
      <4> QED
        BY <1>2, <1>3, <1>9, <4>1, <4>3, <4>4 DEF StateFits
    <3>6. failures' = 0 => WaiterFound(u)' /\ Started(u)'
      BY <1>2, <1>3, <3>1, <3>2, <3>3 DEF UserInv, WaiterFound, Started
    <3>7. expiries' = 0 => Stands(u)'
      BY <1>2, <1>3, <3>1 DEF UserInv, Stands
    <3> QED
      BY <3>4, <3>5, <3>6, <3>7 DEF UserInv, Claimed
  <2> QED
    BY <2>1, <2>2
<1>11. ASSUME touched' = {}, expiries' = 0 PROVE ask'[r].at # "requeue"
  <2> SUFFICES ASSUME ask'[r].at = "requeue" PROVE FALSE
    OBVIOUS
  <2>1. Len(was) = 1 /\ Len(seen) = 2 /\ seen # <<"queued", "queued">>
    BY <1>2, <1>8
  <2>2. \A i \in {1, 2} : status[who[i]] = "queued"
    <3> SUFFICES ASSUME NEW i \in {1, 2} PROVE status[who[i]] = "queued"
      OBVIOUS
    <3>1. UserInv(who[i]) /\ who[i] \in HandsOf(r)
      BY <1>2, <1>3, <1>6, <1>11 DEF MatchIInv
    <3> QED
      BY <1>2, <1>3, <1>11, <3>1 DEF UserInv, Stands
  <2>3. seen[1] = "queued" /\ seen[2] = "queued"
    BY <1>3, <1>7, <1>11, <2>1, <2>2
  <2>4. seen \in Seq(Statuses)
    BY <1>2 DEF seen, AskShapes, AskRecords
  <2>5. seen = <<"queued", "queued">>
    BY <2>1, <2>3, <2>4
  <2> QED
    BY <2>1, <2>5
<1>12. PairsMatch' /\ Crowd'
  <2>1. CASE touched' = {} /\ expiries' = 0
    BY <1>2, <1>3, <1>4, <1>11, <2>1, NoRequeueStep
  <2>2. CASE ~(touched' = {} /\ expiries' = 0)
    BY <2>2 DEF PairsMatch, Crowd
  <2> QED
    BY <2>1, <2>2
<1>13. PairsAreTwo'
  BY <1>1, <1>3, SamePairs
<1> QED
  BY <1>5, <1>10, <1>12, <1>13 DEF MatchIInv

\* Whoever goes back to the queue had no match.
LEMMA RequeueKeeps == ASSUME MatchIInv, NEW r \in Asks, Requeue(r) PROVE MatchIInv'
<1>1. MatchShape /\ PairsAreTwo
  BY DEF MatchIInv
<1>2. PICK h \in Users : h = Head(ask[r].popped) /\ h \in HandsOf(r)
  BY <1>1, RequeueStep
<1>3. /\ AskShapes' /\ OnlyAsk(r) /\ ask[r].at = "requeue" /\ ask'[r].user = ask[r].user
      /\ HandsOf(r)' = HandsOf(r) \ {h}
      /\ ask'[r].at \in {"requeue", "done"}
      /\ ask'[r].at = "requeue" <=> Len(ask[r].popped) = 2
  BY <1>1, <1>2, RequeueStep
<1>4. /\ game' = game /\ status' = status /\ waiting' = waiting \cup {h} /\ old' = old
      /\ failures' = failures /\ expiries' = expiries /\ touched' = touched /\ overlap' = overlap
  BY <1>2 DEF Requeue
<1>5. History
  BY <1>1, <1>4 DEF History, MatchShape
<1>6. MatchShape'
  <2>1. old' \subseteq waiting'
    BY <1>1, <1>4 DEF MatchShape
  <2> QED
    BY <1>1, <1>3, <1>4, <1>5, <2>1, ShapeStep DEF MatchShape
<1>7. ASSUME NEW u \in Users \ touched' PROVE UserInv(u)'
  <2>1. CASE u \notin HandsOf(r)
    BY <1>2, <1>3, <1>4, <1>5, <1>6, <2>1, SameGames, AsideStep
  <2>2. CASE u \in HandsOf(r)
    <3>1. UserInv(u)
      BY <1>4 DEF MatchIInv
    <3>2. GamesOf(u) = {} /\ u \notin waiting /\ \A q \in Asks : u \in HandsOf(q) <=> q = r
      BY <1>1, <1>3, <2>2, <3>1, HeldAlone
    <3>3. \A q \in Asks : u \in HandsOf(q)' <=> q = r /\ u # h
      BY <1>3, <2>2, <3>2 DEF OnlyAsk
    <3>4. HandsApart(u)' /\ GamesOf(u)' = {}
      BY <1>4, <3>2, <3>3, SameGames DEF HandsApart
    <3>5. StatesFit(u)'
      <4> SUFFICES ASSUME NEW q \in Asks, NEW i \in {1, 2}, i <= Len(ask'[q].popped), ask'[q].popped[i] = u
                   PROVE  StateFits(ask'[q], i, status'[u])
        BY DEF StatesFit
      <4>1. q = r
        BY <1>6, <3>3, PoppedIsHeld DEF HandsOf, MatchShape, AskRecords
      <4> QED
        BY <1>3, <4>1 DEF StateFits
    <3>6. WaiterFound(u)' /\ (failures' = 0 => Started(u)')
      BY <1>3, <1>4, <3>1, <3>2, <3>3 DEF UserInv, WaiterFound, Started
    <3>7. expiries' = 0 => Stands(u)'
      BY <1>3, <1>4, <2>2, <3>1 DEF UserInv, Stands
    <3> QED
      BY <3>4, <3>5, <3>6, <3>7 DEF UserInv, Claimed
  <2> QED
    BY <2>1, <2>2
<1>8. PairsMatch'
  <2> SUFFICES ASSUME touched' = {}, expiries' = 0, NEW q \in Asks, ask'[q].at = "requeue"
               PROVE  Len(ask'[q].popped) = 1
    BY DEF PairsMatch
  <2>1. Len(ask[r].popped) = 1
    BY <1>3, <1>4 DEF MatchIInv, PairsMatch
  <2> QED
    BY <1>3, <1>4, <2>1 DEF MatchIInv, PairsMatch, OnlyAsk
<1>9. Crowd'
  <2> SUFFICES ASSUME failures' = 0, ~overlap', touched' = {}, expiries' = 0
               PROVE  \/ Alone(Line')
                      \/ \E q \in Asks : ask'[q].at = "pop" /\ Alone(Line' \ {ask'[q].user})
                      \/ \E q, p \in Asks : q # p /\ ask'[q].at = "pop" /\ ask'[p].at = "pop"
    BY DEF Crowd, Alone
  <2>1. \/ Alone(Line)
        \/ \E q \in Asks : ask[q].at = "pop" /\ Alone(Line \ {ask[q].user})
        \/ \E q, p \in Asks : q # p /\ ask[q].at = "pop" /\ ask[p].at = "pop"
    BY <1>4 DEF MatchIInv, Crowd
  <2>2. Line' \subseteq Line
    BY <1>2, <1>3, <1>4 DEF Line, OnlyAsk
  <2>3. \A q \in Asks : ask[q].at = "pop" => ask'[q].at = "pop" /\ ask'[q].user = ask[q].user
    BY <1>3 DEF OnlyAsk
  <2> QED
    BY <2>1, <2>2, <2>3 DEF Alone
<1>10. PairsAreTwo'
  BY <1>1, <1>4, SamePairs
<1> QED
  BY <1>6, <1>7, <1>8, <1>9, <1>10 DEF MatchIInv

\* Who is matched stays in the hands of the request that begins his match.
LEMMA MarkMatchedKeeps == ASSUME MatchIInv, NEW r \in Asks, MarkMatched(r) PROVE MatchIInv'
<1>1. MatchShape /\ PairsAreTwo
  BY DEF MatchIInv
<1> DEFINE who == ask[r].popped
           x == who[ask[r].n + 1]
<1>2. /\ AskShapes' /\ OnlyAsk(r) /\ HandsOf(r)' = HandsOf(r)
      /\ ask[r].at = "match" /\ ask'[r].user = ask[r].user /\ ask'[r].popped = who
      /\ Len(who) = 2 /\ who \in Seq(Users) /\ who[1] # who[2]
      /\ ask[r].n \in {0, 1}
      /\ ask[r].n = 0 => ask'[r].at = "match" /\ ask'[r].n = 1
      /\ ask[r].n = 1 => ask'[r].at = "begin" /\ ask'[r].n = 0
  BY <1>1, MarkMatchedStep
<1>3. HandsOf(r) = {who[1], who[2]} /\ who[1] \in Users /\ who[2] \in Users
  BY <1>2, HandsAre DEF HandsOf
<1>4. /\ game' = game /\ status' = [status EXCEPT ![x] = "matched"] /\ waiting' = waiting /\ old' = old
      /\ failures' = failures /\ expiries' = expiries /\ touched' = touched /\ overlap' = overlap
  BY DEF MarkMatched
<1>5. ask[r].n = 0 => x = who[1]
  BY <1>2
<1>6. ask[r].n = 1 => x = who[2]
  BY <1>2
<1> HIDE DEF who, x
<1>7. status' \in [Users -> Statuses] /\ status'[x] = "matched" /\ \A u \in Users \ {x} : status'[u] = status[u]
  BY <1>1, <1>2, <1>3, <1>4, <1>5, <1>6 DEF MatchShape, Statuses
<1>8. History
  BY <1>1, <1>4 DEF History, MatchShape
<1>9. MatchShape'
  BY <1>1, <1>2, <1>4, <1>7, <1>8, ShapeStep DEF MatchShape
<1>10. ASSUME NEW u \in Users \ touched' PROVE UserInv(u)'
  <2>1. CASE u \notin HandsOf(r)
    <3>1. status'[u] = status[u]
      BY <1>2, <1>3, <1>5, <1>6, <1>7, <2>1
    <3> QED
      BY <1>2, <1>4, <1>8, <1>9, <2>1, <3>1, SameGames, AsideStep
  <2>2. CASE u \in HandsOf(r)
    <3>1. UserInv(u)
      BY <1>4 DEF MatchIInv
    <3>2. GamesOf(u) = {} /\ u \notin waiting /\ \A q \in Asks : u \in HandsOf(q) <=> q = r
      BY <1>1, <1>2, <2>2, <3>1, HeldAlone
    <3>3. \A q \in Asks : u \in HandsOf(q)' <=> q = r
      BY <1>2, <3>2 DEF OnlyAsk
    <3>4. HandsApart(u)' /\ GamesOf(u)' = {}
      BY <1>4, <3>2, <3>3, SameGames DEF HandsApart
    <3>5. StatesFit(u)'
      <4> SUFFICES ASSUME NEW q \in Asks, NEW i \in {1, 2}, i <= Len(ask'[q].popped), ask'[q].popped[i] = u
                   PROVE  StateFits(ask'[q], i, status'[u])
        BY DEF StatesFit
      <4>1. q = r
        BY <1>9, <3>3, PoppedIsHeld DEF HandsOf, MatchShape, AskRecords
      <4>2. StateFits(ask[r], i, status[u]) /\ who[i] = u
        BY <1>2, <3>1, <4>1 DEF UserInv, StatesFit, who
      <4>3. CASE ask[r].n = 0
        <5>1. i = 1 => status'[u] = "matched"
          BY <1>5, <1>7, <4>2, <4>3
        <5>2. i = 2 => status'[u] = "queued"
          BY <1>2, <1>5, <1>7, <4>2, <4>3 DEF StateFits
        <5> QED
          BY <1>2, <4>1, <4>3, <5>1, <5>2 DEF StateFits
      <4>4. CASE ask[r].n = 1
        <5>1. i = 1 => status'[u] = "matched"
          BY <1>2, <1>6, <1>7, <4>2, <4>4 DEF StateFits
        <5>2. i = 2 => status'[u] = "matched"
          BY <1>6, <1>7, <4>2, <4>4
        <5> QED
          BY <1>2, <4>1, <4>4, <5>1, <5>2 DEF StateFits
      <4> QED
        BY <1>2, <4>3, <4>4
    <3>6. WaiterFound(u)' /\ Started(u)'
      BY <1>2, <3>3 DEF WaiterFound, Started
    <3>7. Stands(u)'
      BY <1>2, <1>4, <3>2, <3>3 DEF Stands
    <3> QED
      BY <3>4, <3>5, <3>6, <3>7 DEF UserInv, Claimed
  <2> QED
    BY <2>1, <2>2
<1>11. PairsMatch' /\ Crowd'
  BY <1>2, <1>4, <1>8, NoRequeueStep
<1>12. PairsAreTwo'
  BY <1>1, <1>4, SamePairs
<1> QED
  BY <1>9, <1>10, <1>11, <1>12 DEF MatchIInv

\* A match is begun by two whom nobody else has.
LEMMA BeginMatchKeeps == ASSUME MatchIInv, NEW r \in Asks, BeginMatch(r) PROVE MatchIInv'
<1>1. MatchShape /\ PairsAreTwo
  BY DEF MatchIInv
<1>2. /\ AskShapes' /\ OnlyAsk(r) /\ HandsOf(r)' = HandsOf(r)
      /\ ask[r].at = "begin" /\ ask'[r].user = ask[r].user /\ ask'[r].popped = ask[r].popped
      /\ ask'[r].at = "play" /\ ask'[r].n = 0
      /\ HandsOf(r) \in SUBSET Users /\ Cardinality(HandsOf(r)) = 2
  BY <1>1, BeginMatchStep
<1>3. /\ game' = [game EXCEPT ![r].players = HandsOf(r)]
      /\ status' = status /\ waiting' = waiting /\ old' = old
      /\ failures' = failures /\ expiries' = expiries /\ touched' = touched /\ overlap' = overlap
  BY DEF BeginMatch
<1>4. History
  BY <1>1, <1>3 DEF History, MatchShape
<1>5. game[r] = NoGame
  BY <1>1, <1>2 DEF MatchShape
<1>6. /\ game' \in [Asks -> [players : SUBSET Users, left : SUBSET Users, over : BOOLEAN]]
      /\ \A m \in Asks \ {r} : game'[m] = game[m]
      /\ game'[r].players = HandsOf(r) /\ ~game'[r].over
  <2> DEFINE new == [game[r] EXCEPT !.players = HandsOf(r)]
  <2>1. game[r] \in [players : SUBSET Users, left : SUBSET Users, over : BOOLEAN] /\ ~game[r].over
    BY <1>1, <1>5 DEF MatchShape, NoGame
  <2>2. /\ new \in [players : SUBSET Users, left : SUBSET Users, over : BOOLEAN]
        /\ new.players = HandsOf(r) /\ ~new.over
    BY <1>2, <2>1
  <2>3. game' = [game EXCEPT ![r] = new]
    BY <1>3
  <2> HIDE DEF new
  <2> QED
    BY <1>1, <2>2, <2>3 DEF MatchShape
<1>7. MatchShape'
  <2>1. \A q \in Asks : ask'[q].at \notin {"play", "done"} => game'[q] = NoGame
    BY <1>1, <1>2, <1>6 DEF MatchShape, OnlyAsk
  <2> QED
    BY <1>1, <1>2, <1>3, <1>6, <2>1 DEF MatchShape, AskShapes
<1>8. \A u : GamesOf(u)' = IF u \in HandsOf(r) THEN GamesOf(u) \cup {r} ELSE GamesOf(u)
  BY <1>5, <1>6 DEF GamesOf, Matches, NoGame
<1>9. ASSUME NEW u \in Users \ touched' PROVE UserInv(u)'
  <2>1. CASE u \notin HandsOf(r)
    BY <1>2, <1>3, <1>4, <1>7, <1>8, <2>1, AsideStep
  <2>2. CASE u \in HandsOf(r)
    <3>1. UserInv(u)
      BY <1>3 DEF MatchIInv
    <3>2. GamesOf(u) = {} /\ u \notin waiting /\ \A q \in Asks : u \in HandsOf(q) <=> q = r
      BY <1>1, <1>2, <2>2, <3>1, HeldAlone
    <3>3. \A q \in Asks : u \in HandsOf(q)' <=> q = r
      BY <1>2, <3>2 DEF OnlyAsk
    <3>4. GamesOf(u)' = {r}
      BY <1>8, <2>2, <3>2
    <3>5. status[u] = "matched"
      <4>1. PICK i \in {1, 2} : i <= Len(ask[r].popped) /\ ask[r].popped[i] = u
        <5>1. ask[r].popped \in Seq(Users) /\ Len(ask[r].popped) = 2
          BY <1>1, BeginMatchStep
        <5>2. HandsOf(r) = {ask[r].popped[1], ask[r].popped[2]}
          BY <5>1, HandsAre DEF HandsOf
        <5> QED
          BY <2>2, <5>1, <5>2
      <4> QED
        BY <1>2, <3>1, <4>1 DEF UserInv, StatesFit, StateFits
    <3>6. HandsApart(u)'
      BY <1>3, <3>2, <3>3 DEF HandsApart
    <3>7. Claimed(u)'
      BY <1>2, <1>3, <3>2, <3>3, <3>4, <3>5 DEF Claimed
    <3>8. StatesFit(u)'
      <4> SUFFICES ASSUME NEW q \in Asks, NEW i \in {1, 2}, i <= Len(ask'[q].popped), ask'[q].popped[i] = u
                   PROVE  StateFits(ask'[q], i, status'[u])
        BY DEF StatesFit
      <4>1. q = r
        BY <1>7, <3>3, PoppedIsHeld DEF HandsOf, MatchShape, AskRecords
      <4> QED
        BY <1>2, <1>3, <3>5, <4>1 DEF StateFits
    <3>9. WaiterFound(u)' /\ Started(u)' /\ Stands(u)'
      BY <1>2, <1>3, <3>2, <3>3 DEF WaiterFound, Started, Stands
    <3> QED
      BY <3>6, <3>7, <3>8, <3>9 DEF UserInv
  <2> QED
    BY <2>1, <2>2
<1>10. PairsMatch' /\ Crowd'
  BY <1>2, <1>3, <1>4, NoRequeueStep
<1>11. PairsAreTwo'
  BY <1>1, <1>2, <1>6 DEF PairsAreTwo, Matches
<1> QED
  BY <1>7, <1>9, <1>10, <1>11 DEF MatchIInv

\* Who plays has his match.
LEMMA MarkPlayingKeeps == ASSUME MatchIInv, NEW r \in Asks, MarkPlaying(r) PROVE MatchIInv'
<1>1. MatchShape /\ PairsAreTwo
  BY DEF MatchIInv
<1> DEFINE who == ask[r].popped
           x == who[ask[r].n + 1]
<1>2. /\ AskShapes' /\ OnlyAsk(r) /\ ask[r].at = "play" /\ ask'[r].user = ask[r].user
      /\ Len(who) = 2 /\ who \in Seq(Users) /\ who[1] # who[2]
      /\ ask[r].n \in {0, 1}
      /\ ask[r].n = 0 => HandsOf(r)' = HandsOf(r) /\ ask'[r].popped = who /\ ask'[r].at = "play" /\ ask'[r].n = 1
      /\ ask[r].n = 1 => HandsOf(r)' = {} /\ ask'[r].at = "done"
  BY <1>1, MarkPlayingStep
<1>3. HandsOf(r) = {who[1], who[2]} /\ who[1] \in Users /\ who[2] \in Users
  BY <1>2, HandsAre DEF HandsOf
<1>4. /\ game' = game /\ status' = [status EXCEPT ![x] = "playing"] /\ waiting' = waiting /\ old' = old
      /\ failures' = failures /\ expiries' = expiries /\ touched' = touched /\ overlap' = overlap
  BY DEF MarkPlaying
<1>5. ask[r].n = 0 => x = who[1]
  BY <1>2
<1>6. ask[r].n = 1 => x = who[2]
  BY <1>2
<1>7. who = ask[r].popped
  OBVIOUS
<1> HIDE DEF who, x
<1>8. status' \in [Users -> Statuses] /\ status'[x] = "playing" /\ \A u \in Users \ {x} : status'[u] = status[u]
  BY <1>1, <1>2, <1>3, <1>4, <1>5, <1>6 DEF MatchShape, Statuses
<1>9. History
  BY <1>1, <1>4 DEF History, MatchShape
<1>10. MatchShape'
  BY <1>1, <1>2, <1>4, <1>8, <1>9, ShapeStep DEF MatchShape
<1>11. ASSUME NEW u \in Users \ touched' PROVE UserInv(u)'
  <2>1. CASE u \notin HandsOf(r)
    <3>1. status'[u] = status[u] /\ u \notin HandsOf(r)'
      BY <1>2, <1>3, <1>5, <1>6, <1>8, <2>1
    <3> QED
      BY <1>2, <1>4, <1>9, <1>10, <2>1, <3>1, SameGames, AsideStep
  <2>2. CASE u \in HandsOf(r)
    <3>1. UserInv(u)
      BY <1>4 DEF MatchIInv
    <3>2. u \notin waiting /\ \A q \in Asks : u \in HandsOf(q) <=> q = r
      BY <2>2, <3>1 DEF UserInv, HandsApart
    <3>3. \A q \in Asks : u \in HandsOf(q)' <=> q = r /\ ask[r].n = 0
      BY <1>2, <2>2, <3>2 DEF OnlyAsk
    <3>4. HandsApart(u)'
      BY <1>4, <3>2, <3>3 DEF HandsApart
    <3>5. /\ u = who[1] \/ u = who[2]
          /\ u = who[1] => status[u] = IF 1 <= ask[r].n THEN "playing" ELSE "matched"
          /\ u = who[2] => status[u] = "matched"
      <4>1. \A i \in {1, 2} : who[i] = u => StateFits(ask[r], i, status[u])
        BY <1>2, <1>7, <3>1 DEF UserInv, StatesFit
      <4>2. u = who[1] => StateFits(ask[r], 1, status[u])
        BY <4>1
      <4>3. u = who[2] => StateFits(ask[r], 2, status[u])
        BY <4>1
      <4> QED
        BY <1>2, <1>3, <2>2, <4>2, <4>3 DEF StateFits
    <3>6. /\ ask[r].n = 0 => /\ u = who[1] => status'[u] = "playing"
                             /\ u = who[2] => status'[u] = "matched"
          /\ ask[r].n = 1 => status'[u] = "playing"
      BY <1>2, <1>3, <1>5, <1>6, <1>8, <3>5
    <3>7. status'[u] \in {"matched", "playing"}
      BY <1>2, <3>5, <3>6
    <3>8. Claimed(u)'
      BY <1>2, <1>4, <3>1, <3>2, <3>3, <3>7, SameGames DEF UserInv, Claimed
    <3>9. StatesFit(u)'
      <4> SUFFICES ASSUME NEW q \in Asks, NEW i \in {1, 2}, i <= Len(ask'[q].popped), ask'[q].popped[i] = u
                   PROVE  StateFits(ask'[q], i, status'[u])
        BY DEF StatesFit
      <4>1. q = r /\ ask[r].n = 0
        BY <1>10, <3>3, PoppedIsHeld DEF HandsOf, MatchShape, AskRecords
      <4>2. who[i] = u
        BY <1>2, <4>1
      <4>3. i = 1 \/ i = 2
        OBVIOUS
      <4> QED
        BY <1>2, <3>6, <4>1, <4>2, <4>3 DEF StateFits
    <3>10. WaiterFound(u)' /\ Started(u)' /\ Stands(u)'
      BY <1>2, <1>4, <3>2, <3>3, <3>6, <3>7 DEF WaiterFound, Started, Stands
    <3> QED
      BY <3>4, <3>8, <3>9, <3>10 DEF UserInv
  <2> QED
    BY <2>1, <2>2
<1>12. PairsMatch' /\ Crowd'
  <2>1. ask'[r].at \in {"play", "done"}
    BY <1>2
  <2> QED
    BY <1>2, <1>4, <1>9, <2>1, NoRequeueStep
<1>13. PairsAreTwo'
  BY <1>1, <1>4, SamePairs
<1> QED
  BY <1>10, <1>11, <1>12, <1>13 DEF MatchIInv

-----------------------------------------------------------------------------
(* Around the requests.                                                      *)

\* A failure only takes away.
LEMMA LostKeeps ==
    ASSUME MatchShape, MatchShape', NEW u \in Users, UserInv(u), failures' # 0, expiries' = expiries,
           status' = status, waiting' \subseteq waiting, game' = game,
           \A q \in Asks : u \in HandsOf(q)' => ask'[q] = ask[q] /\ u \in HandsOf(q)
    PROVE  UserInv(u)'
<1>1. GamesOf(u)' = GamesOf(u)
  BY SameGames
<1>2. HandsApart(u)' /\ Claimed(u)'
  BY <1>1 DEF UserInv, HandsApart, Claimed
<1>3. StatesFit(u)'
  <2> SUFFICES ASSUME NEW q \in Asks, NEW i \in {1, 2}, i <= Len(ask'[q].popped), ask'[q].popped[i] = u
               PROVE  StateFits(ask'[q], i, status'[u])
    BY DEF StatesFit
  <2>1. u \in HandsOf(q)'
    BY PoppedIsHeld DEF HandsOf, MatchShape, AskRecords
  <2> QED
    BY <2>1 DEF UserInv, StatesFit
<1>4. expiries' = 0 => Stands(u)'
  BY DEF UserInv, Stands
<1> QED
  BY <1>2, <1>3, <1>4 DEF UserInv

\* A request that fails takes from the invariant only what it says without failures.
LEMMA FailAskKeeps == ASSUME MatchIInv, NEW r \in Asks, FailAsk(r) PROVE MatchIInv'
<1>1. MatchShape /\ PairsAreTwo
  BY DEF MatchIInv
<1>2. /\ AskShapes' /\ OnlyAsk(r) /\ HandsOf(r)' = {} /\ ask'[r].at = "done"
      /\ ask[r].at \notin {"none", "done"}
  BY <1>1, FailAskStep
<1>3. /\ game' = game /\ status' = status /\ waiting' = waiting /\ old' = old
      /\ failures' = failures + 1 /\ expiries' = expiries /\ touched' = touched /\ overlap' = overlap
  BY DEF FailAsk
<1>4. History /\ failures' # 0
  BY <1>1, <1>3 DEF History, MatchShape
<1>5. MatchShape'
  BY <1>1, <1>2, <1>3, <1>4, ShapeStep DEF MatchShape
<1>6. ASSUME NEW u \in Users \ touched' PROVE UserInv(u)'
  <2>1. UserInv(u)
    BY <1>3 DEF MatchIInv
  <2>2. \A q \in Asks : u \in HandsOf(q)' => ask'[q] = ask[q] /\ u \in HandsOf(q)
    BY <1>2 DEF OnlyAsk
  <2> QED
    BY <1>1, <1>3, <1>4, <1>5, <2>1, <2>2, LostKeeps
<1>7. PairsMatch'
  BY <1>2, <1>3 DEF MatchIInv, PairsMatch, OnlyAsk
<1>8. Crowd'
  BY <1>4 DEF Crowd
<1>9. PairsAreTwo'
  BY <1>1, <1>3, SamePairs
<1> QED
  BY <1>5, <1>6, <1>7, <1>8, <1>9 DEF MatchIInv

\* So does a pop whose answer is lost.
LEMMA PopLostKeeps == ASSUME MatchIInv, NEW r \in Asks, NEW two \in Pops, PopLost(r, two) PROVE MatchIInv'
<1>1. MatchShape /\ PairsAreTwo
  BY DEF MatchIInv
<1>2. /\ game' = game /\ status' = status /\ ask' = ask
      /\ waiting' = waiting \ Range(two) /\ old' = old \ Range(two)
      /\ failures' = failures + 1 /\ expiries' = expiries /\ touched' = touched /\ overlap' = overlap
  BY DEF PopLost
<1>3. failures' \in Nat /\ failures' # 0
  BY <1>1, <1>2 DEF MatchShape
<1>4. \A q : HandsOf(q)' = HandsOf(q)
  BY <1>2 DEF HandsOf
<1>5. MatchShape'
  <2>1. IsFiniteSet(waiting') /\ waiting' \in SUBSET Users /\ old' \subseteq waiting'
    BY <1>1, <1>2, FS_Subset DEF MatchShape
  <2> QED
    BY <1>1, <1>2, <1>3, <2>1 DEF MatchShape
<1>6. ASSUME NEW u \in Users \ touched' PROVE UserInv(u)'
  <2>1. UserInv(u)
    BY <1>2 DEF MatchIInv
  <2> QED
    BY <1>1, <1>2, <1>3, <1>4, <1>5, <2>1, LostKeeps
<1>7. PairsMatch'
  BY <1>2 DEF MatchIInv, PairsMatch
<1>8. Crowd'
  BY <1>3 DEF Crowd
<1>9. PairsAreTwo'
  BY <1>1, <1>2, SamePairs
<1> QED
  BY <1>5, <1>6, <1>7, <1>8, <1>9 DEF MatchIInv

\* A step that leaves the requests, the queue and its users as they are.
LEMMA StillStep ==
    ASSUME MatchIInv, ask' = ask, waiting' = waiting, History
    PROVE  /\ \A q : HandsOf(q)' = HandsOf(q)
           /\ PairsMatch' /\ Crowd'
<1>1. \A q : HandsOf(q)' = HandsOf(q)
  BY DEF HandsOf
<1>2. PairsMatch'
  BY DEF MatchIInv, PairsMatch, History
<1>3. Line' = Line
  BY <1>1 DEF Line
<1>4. Crowd'
  BY <1>3 DEF MatchIInv, Crowd, History, Alone
<1> QED
  BY <1>1, <1>2, <1>4

\* It keeps what holds of a user whose state stays and who gets no new match.
LEMMA StillKeeps ==
    ASSUME MatchIInv, MatchShape', ask' = ask, waiting' = waiting, History,
           NEW u \in Users \ touched', status'[u] = status[u], GamesOf(u)' \subseteq GamesOf(u)
    PROVE  UserInv(u)'
<1>1. UserInv(u) /\ MatchShape
  BY DEF MatchIInv, History
<1>2. Aside(u)
  BY DEF Aside, History, HandsOf
<1> QED
  BY <1>1, <1>2, AsideKeeps

\* A match that is over has nobody any more.
LEMMA ReportResultKeeps == ASSUME MatchIInv, NEW m \in Asks, ReportResult(m) PROVE MatchIInv'
<1>1. MatchShape /\ PairsAreTwo
  BY DEF MatchIInv
<1> DEFINE over == [players |-> game[m].players, left |-> game[m].players, over |-> TRUE]
<1>2. /\ game' = [game EXCEPT ![m] = over] /\ ask[m].at = "done"
      /\ status' = status /\ ask' = ask /\ waiting' = waiting /\ old' = old
      /\ failures' = failures /\ expiries' = expiries /\ touched' = touched /\ overlap' = overlap
  BY DEF ReportResult
<1>3. History
  BY <1>1, <1>2 DEF History, MatchShape
<1>4. /\ over \in [players : SUBSET Users, left : SUBSET Users, over : BOOLEAN]
      /\ over.players = game[m].players /\ over.over
  BY <1>1 DEF MatchShape
<1> HIDE DEF over
<1>5. /\ game' \in [Asks -> [players : SUBSET Users, left : SUBSET Users, over : BOOLEAN]]
      /\ game'[m] = over /\ \A q \in Asks \ {m} : game'[q] = game[q]
  BY <1>1, <1>2, <1>4 DEF MatchShape
<1>6. MatchShape'
  BY <1>1, <1>2, <1>5 DEF MatchShape
<1>7. ASSUME NEW u \in Users \ touched' PROVE UserInv(u)'
  <2>1. GamesOf(u)' \subseteq GamesOf(u)
    BY <1>4, <1>5 DEF GamesOf, Matches
  <2> QED
    BY <1>2, <1>3, <1>6, <2>1, StillKeeps
<1>8. PairsMatch' /\ Crowd'
  BY <1>2, <1>3, StillStep
<1>9. PairsAreTwo'
  BY <1>1, <1>4, <1>5, SamePairs
<1> QED
  BY <1>6, <1>7, <1>8, <1>9 DEF MatchIInv

\* An entry that gets old stays in the queue.
LEMMA AgeEntryKeeps == ASSUME MatchIInv, NEW x \in Users, AgeEntry(x) PROVE MatchIInv'
<1>1. MatchShape /\ PairsAreTwo
  BY DEF MatchIInv
<1>2. /\ game' = game /\ old' = old \cup {x} /\ x \in waiting
      /\ status' = status /\ ask' = ask /\ waiting' = waiting
      /\ failures' = failures /\ expiries' = expiries /\ touched' = touched /\ overlap' = overlap
  BY DEF AgeEntry
<1>3. History
  BY <1>1, <1>2 DEF History, MatchShape
<1>4. MatchShape'
  BY <1>1, <1>2 DEF MatchShape
<1>5. ASSUME NEW u \in Users \ touched' PROVE UserInv(u)'
  BY <1>2, <1>3, <1>4, SameGames, StillKeeps
<1>6. PairsMatch' /\ Crowd'
  BY <1>2, <1>3, StillStep
<1>7. PairsAreTwo'
  BY <1>1, <1>2, SamePairs
<1> QED
  BY <1>4, <1>5, <1>6, <1>7 DEF MatchIInv

\* A state is dropped after its match, and no other match or request has the user.
LEMMA DropStateKeeps == ASSUME MatchIInv, NEW m \in Asks, NEW x \in Users, DropState(m, x) PROVE MatchIInv'
<1>1. MatchShape /\ PairsAreTwo
  BY DEF MatchIInv
<1>2. /\ x \in game[m].left /\ game' = [game EXCEPT ![m].left = @ \ {x}]
      /\ status' = [status EXCEPT ![x] = "none"] /\ ask' = ask /\ waiting' = waiting /\ old' = old
      /\ failures' = failures /\ expiries' = expiries /\ overlap' = overlap
      /\ touched' = IF \/ status[x] # "playing" \/ GamesOf(x) # {}
                       \/ \E q \in UnderWay : ask[q].user = x \/ x \in HandsOf(q)
                    THEN touched \cup {x} ELSE touched
  BY DEF DropState
<1>3. History
  BY <1>1, <1>2 DEF History, MatchShape
<1>4. status' \in [Users -> Statuses] /\ status'[x] = "none" /\ \A u \in Users \ {x} : status'[u] = status[u]
  BY <1>1, <1>2 DEF MatchShape, Statuses
<1>5. /\ game' \in [Asks -> [players : SUBSET Users, left : SUBSET Users, over : BOOLEAN]]
      /\ \A q \in Asks : game'[q].players = game[q].players /\ game'[q].over = game[q].over
      /\ \A q \in Asks \ {m} : game'[q] = game[q]
  BY <1>1, <1>2 DEF MatchShape
<1>6. MatchShape'
  <2>1. ask[m].at \in {"play", "done"}
    BY <1>1, <1>2 DEF MatchShape, NoGame
  <2>2. \A q \in Asks : ask'[q].at \notin {"play", "done"} => game'[q] = NoGame
    BY <1>1, <1>2, <1>5, <2>1 DEF MatchShape
  <2> QED
    BY <1>1, <1>2, <1>3, <1>4, <1>5, <2>2 DEF MatchShape, History
<1>7. \A u : GamesOf(u)' = GamesOf(u)
  BY <1>5 DEF GamesOf, Matches
<1>8. ASSUME NEW u \in Users \ touched' PROVE UserInv(u)'
  <2>1. CASE u # x
    BY <1>2, <1>3, <1>4, <1>6, <1>7, <2>1, StillKeeps
  <2>2. CASE u = x
    <3>1. UserInv(x) /\ status[x] = "playing" /\ GamesOf(x) = {} /\ \A q \in UnderWay : x \notin HandsOf(q)
      BY <1>2, <1>3, <2>2 DEF MatchIInv, History
    <3>2. \A q \in Asks : x \notin HandsOf(q)'
      BY <1>1, <1>2, <3>1, HandsUnderWay DEF HandsOf
    <3>3. StatesFit(x)'
      BY <1>6, <3>2, PoppedIsHeld DEF StatesFit, HandsOf, MatchShape, AskRecords
    <3>4. HandsApart(x)' /\ Claimed(x)'
      BY <1>7, <3>1, <3>2 DEF HandsApart, Claimed
    <3>5. WaiterFound(x)' /\ Started(x)'
      BY <1>4 DEF WaiterFound, Started
    <3>6. expiries' = 0 => Stands(x)'
      BY <1>2, <3>1, <3>2 DEF UserInv, Stands
    <3> QED
      BY <2>2, <3>3, <3>4, <3>5, <3>6 DEF UserInv
  <2> QED
    BY <2>1, <2>2
<1>9. PairsMatch' /\ Crowd'
  BY <1>2, <1>3, StillStep
<1>10. PairsAreTwo'
  BY <1>1, <1>5, SamePairs
<1> QED
  BY <1>6, <1>8, <1>9, <1>10 DEF MatchIInv

\* A state expires when no request is under way, and its match with it.
LEMMA ExpireStateKeeps == ASSUME MatchIInv, NEW x \in Users, ExpireState(x) PROVE MatchIInv'
<1>1. MatchShape /\ PairsAreTwo
  BY DEF MatchIInv
<1>2. /\ UnderWay = {} /\ expiries' = expiries + 1
      /\ game' = [m \in Asks |-> IF x \in game[m].players THEN [game[m] EXCEPT !.over = TRUE] ELSE game[m]]
      /\ status' = [status EXCEPT ![x] = "none"] /\ ask' = ask /\ waiting' = waiting /\ old' = old
      /\ failures' = failures /\ touched' = touched /\ overlap' = overlap
  BY DEF ExpireState, Matches
<1>3. History /\ expiries' # 0
  BY <1>1, <1>2 DEF History, MatchShape
<1>4. status' \in [Users -> Statuses] /\ status'[x] = "none" /\ \A u \in Users \ {x} : status'[u] = status[u]
  BY <1>1, <1>2 DEF MatchShape, Statuses
<1>5. /\ game' \in [Asks -> [players : SUBSET Users, left : SUBSET Users, over : BOOLEAN]]
      /\ \A m \in Asks : /\ game'[m].players = game[m].players
                         /\ game'[m].over = (game[m].over \/ x \in game[m].players)
                         /\ game[m].players = {} => game'[m] = game[m]
  <2> SUFFICES ASSUME NEW m \in Asks
               PROVE  /\ game'[m] \in [players : SUBSET Users, left : SUBSET Users, over : BOOLEAN]
                      /\ game'[m].players = game[m].players
                      /\ game'[m].over = (game[m].over \/ x \in game[m].players)
                      /\ game[m].players = {} => game'[m] = game[m]
    BY <1>2
  <2>1. game[m] \in [players : SUBSET Users, left : SUBSET Users, over : BOOLEAN]
    BY <1>1 DEF MatchShape
  <2>2. CASE x \in game[m].players
    <3>1. game'[m] = [game[m] EXCEPT !.over = TRUE]
      BY <1>2, <2>2
    <3> QED
      BY <2>1, <2>2, <3>1
  <2>3. CASE x \notin game[m].players
    <3>1. game'[m] = game[m]
      BY <1>2, <2>3
    <3> QED
      BY <2>1, <2>3, <3>1
  <2> QED
    BY <2>2, <2>3
<1>6. MatchShape'
  <2> NoGame.players = {}
    BY DEF NoGame
  <2>1. \A q \in Asks : ask'[q].at \notin {"play", "done"} => game'[q] = NoGame
    BY <1>1, <1>2, <1>5 DEF MatchShape
  <2> QED
    BY <1>1, <1>2, <1>3, <1>4, <1>5, <2>1 DEF MatchShape, History
<1>7. \A u : GamesOf(u)' \subseteq GamesOf(u)
  BY <1>5 DEF GamesOf, Matches
<1>8. GamesOf(x)' = {}
  BY <1>5 DEF GamesOf, Matches
<1>9. ASSUME NEW u \in Users \ touched' PROVE UserInv(u)'
  <2>1. CASE u # x
    BY <1>2, <1>3, <1>4, <1>6, <1>7, <2>1, StillKeeps
  <2>2. CASE u = x
    <3>1. \A q \in Asks : x \notin HandsOf(q)'
      BY <1>1, <1>2, HandsUnderWay DEF HandsOf
    <3>2. StatesFit(x)'
      BY <1>6, <3>1, PoppedIsHeld DEF StatesFit, HandsOf, MatchShape, AskRecords
    <3>3. HandsApart(x)' /\ Claimed(x)'
      BY <1>8, <3>1 DEF HandsApart, Claimed
    <3>4. WaiterFound(x)' /\ Started(x)'
      BY <1>4 DEF WaiterFound, Started
    <3> QED
      BY <1>3, <2>2, <3>2, <3>3, <3>4 DEF UserInv
  <2> QED
    BY <2>1, <2>2
<1>10. PairsMatch' /\ Crowd'
  BY <1>2, <1>3, StillStep
<1>11. PairsAreTwo'
  BY <1>1, <1>5, SamePairs
<1> QED
  BY <1>6, <1>9, <1>10, <1>11 DEF MatchIInv

-----------------------------------------------------------------------------
(* The specification.                                                        *)

\* A step that changes nothing keeps the invariant.
LEMMA MatchStutters == ASSUME MatchIInv, UNCHANGED matchVars PROVE MatchIInv'
<1>1. MatchShape /\ PairsAreTwo
  BY DEF MatchIInv
<1>2. /\ game' = game /\ old' = old /\ status' = status /\ ask' = ask /\ waiting' = waiting
      /\ failures' = failures /\ expiries' = expiries /\ touched' = touched /\ overlap' = overlap
  BY DEF matchVars
<1>3. History /\ MatchShape'
  BY <1>1, <1>2 DEF History, MatchShape
<1>4. ASSUME NEW u \in Users \ touched' PROVE UserInv(u)'
  BY <1>2, <1>3, SameGames, StillKeeps
<1>5. PairsMatch' /\ Crowd' /\ PairsAreTwo'
  BY <1>1, <1>2, <1>3, StillStep, SamePairs
<1> QED
  BY <1>3, <1>4, <1>5 DEF MatchIInv

\* Every step keeps the invariant.
LEMMA MatchSteps == ASSUME MatchIInv, MatchNext PROVE MatchIInv'
<1>1. \/ \E r \in Asks :
           \/ \E u \in Users : Arrive(r, u) \/ RemoveOld(r, u) \/ DropState(r, u)
           \/ ForgetOld(r) \/ Look(r) \/ LeaveQueue(r) \/ RemoveEntry(r) \/ DeleteState(r)
           \/ Enter(r) \/ WriteState(r) \/ AddEntry(r) \/ ReadState(r) \/ Requeue(r)
           \/ MarkMatched(r) \/ BeginMatch(r) \/ MarkPlaying(r)
           \/ FailAsk(r) \/ ReportResult(r)
           \/ \E two \in Pops : PopMatch(r, two) \/ PopLost(r, two)
      \/ \E u \in Users : AgeEntry(u) \/ ExpireState(u)
  BY DEF MatchNext
<1>2. ASSUME NEW r \in Asks, NEW u \in Users, Arrive(r, u) \/ RemoveOld(r, u) \/ DropState(r, u)
      PROVE  MatchIInv'
  BY <1>2, ArriveKeeps, RemoveOldKeeps, DropStateKeeps
<1>3. ASSUME NEW r \in Asks, \/ ForgetOld(r) \/ Look(r) \/ LeaveQueue(r) \/ RemoveEntry(r) \/ DeleteState(r)
                             \/ Enter(r) \/ WriteState(r) \/ AddEntry(r)
      PROVE  MatchIInv'
  BY <1>3, ForgetOldKeeps, LookKeeps, RemoveEntryKeeps, DeleteStateKeeps, WriteStateKeeps, AddEntryKeeps
<1>4. ASSUME NEW r \in Asks, \/ ReadState(r) \/ Requeue(r) \/ MarkMatched(r) \/ BeginMatch(r)
                             \/ MarkPlaying(r) \/ FailAsk(r) \/ ReportResult(r)
      PROVE  MatchIInv'
  BY <1>4, ReadStateKeeps, RequeueKeeps, MarkMatchedKeeps, BeginMatchKeeps, MarkPlayingKeeps,
     FailAskKeeps, ReportResultKeeps
<1>5. ASSUME NEW r \in Asks, NEW two \in Pops, PopMatch(r, two) \/ PopLost(r, two)
      PROVE  MatchIInv'
  BY <1>5, PopMatchKeeps, PopLostKeeps
<1>6. ASSUME NEW u \in Users, AgeEntry(u) \/ ExpireState(u)
      PROVE  MatchIInv'
  BY <1>6, AgeEntryKeeps, ExpireStateKeeps
<1> QED
  BY <1>1, <1>2, <1>3, <1>4, <1>5, <1>6

\* A set of at most one element.
LEMMA AtMostOne == ASSUME NEW S, Alone(S) PROVE Cardinality(S) <= 1
<1>1. CASE S = {}
  BY <1>1, FS_EmptySet
<1>2. CASE S # {}
  <2>1. PICK x \in S : S = {x}
    BY <1>2 DEF Alone
  <2> QED
    BY <2>1, FS_Singleton
<1> QED
  BY <1>1, <1>2

\* The invariant gives the property.
LEMMA MatchIInvIsStronger == ASSUME MatchIInv PROVE MatchInv
<1>1. MatchShape /\ PairsAreTwo /\ Crowd
  BY DEF MatchIInv
<1>2. /\ \A r \in Asks : \A u : u \in HandsOf(r) => r \in UnderWay
      /\ \A u : u \in InHands <=> \E r \in Asks : u \in HandsOf(r)
  BY <1>1, HandsUnderWay
<1>3. OneMatchPerUser
  <2> SUFFICES ASSUME NEW u \in Users \ touched
               PROVE  /\ Cardinality(GamesOf(u)) <= 1
                      /\ Cardinality({r \in UnderWay : u \in HandsOf(r)}) <= 1
    BY DEF OneMatchPerUser
  <2>1. UserInv(u)
    BY DEF MatchIInv
  <2>2. Alone(GamesOf(u))
    BY <2>1 DEF Alone, UserInv, Claimed
  <2>3. Alone({r \in UnderWay : u \in HandsOf(r)})
    BY <2>1 DEF Alone, UserInv, HandsApart, UnderWay
  <2> QED
    BY <2>2, <2>3, AtMostOne
<1>4. WaitingIsQueued
  BY <1>2 DEF WaitingIsQueued, MatchIInv, UserInv, WaiterFound, UnderWay
<1>5. MatchedGetsGame
  BY <1>2 DEF MatchedGetsGame, MatchIInv, UserInv, Started
<1>6. TwoWaitersMeet
  <2> SUFFICES ASSUME UnderWay = {}, failures = 0, ~overlap, touched = {}, expiries = 0
               PROVE  Cardinality({u \in waiting : status[u] = "queued"}) <= 1
    BY DEF TwoWaitersMeet
  <2>1. \A r \in Asks : ask[r].at # "pop"
    BY DEF UnderWay
  <2>2. Alone(Line)
    BY <1>1, <2>1 DEF Crowd
  <2>3. Alone({u \in waiting : status[u] = "queued"})
    BY <2>2 DEF Alone, Line
  <2> QED
    BY <2>3, AtMostOne
<1> QED
  BY <1>1, <1>3, <1>4, <1>5, <1>6 DEF MatchInv

\* Whatever requests interleave, and with pops repeated, states expired and
\* requests failed, a user is in one match at most, a match is of two, nobody
\* is forgotten and two who wait meet.
THEOREM MatchesAreSound == MatchSpec => []MatchInv
<1>1. MatchInit => MatchIInv
  BY MatchBegins
<1>2. MatchIInv /\ [MatchNext]_matchVars => MatchIInv'
  BY MatchSteps, MatchStutters
<1>3. MatchIInv => MatchInv
  BY MatchIInvIsStronger
<1> QED
  BY <1>1, <1>2, <1>3, PTL DEF MatchSpec

=============================================================================
