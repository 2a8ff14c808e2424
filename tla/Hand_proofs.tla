---------------------------- MODULE Hand_proofs -----------------------------
(***************************************************************************)
(* Proofs about the hand, for every number of seats, every wallet, raise   *)
(* and rank of cards.                                                      *)
(*                                                                         *)
(*   PlayKeepsTypes     type correctness: no wallet, bet or pot is ever    *)
(*                      negative                                           *)
(*   StakesStayEven     EvenStakes, from RoundInv                          *)
(*   ChipsStayInPlay    ChipsInPlay, where game_service is bound           *)
(*   TurnStaysPlayable  TurnIsPlayable, where the lowest seats are taken,  *)
(*                      from InTurn                                        *)
(*   ChipsAreKept       OnlyBlindsAreLost, under both                      *)
(*   PayoutIsFair       FairPayout, where the lowest seats are taken       *)
(*                                                                         *)
(* The settlement adds up pots, shares and payouts with a fold over a      *)
(* finite set: SumTheorems has the laws of such sums.                      *)
(*                                                                         *)
(* Each player action is first shown to do to the game what Moved says;    *)
(* the invariants follow from that, and from what _process_playing does    *)
(* with the game: TurnPasses, StreetDealt, HandSettled or NotServed.       *)
(***************************************************************************)
EXTENDS Hand, SumTheorems

-----------------------------------------------------------------------------
(* Ranks.                                                                  *)

\* How many of a set of numbers are smaller.
Before(W, s) == Cardinality({q \in W : q < s})

\* The r smallest of a set are r, or all of it.
LEMMA SumRank ==
    ASSUME NEW W, W \subseteq Nat, IsFiniteSet(W), NEW r \in Nat,
           NEW f, \A s \in W : f[s] = IF Before(W, s) < r THEN 1 ELSE 0
    PROVE  Sum(f, W) = IF r <= Cardinality(W) THEN r ELSE Cardinality(W)
<1> DEFINE ranks(w) == [s \in w |-> IF Before(w, s) < r THEN 1 ELSE 0]
           F == {w \in SUBSET W :
                   Sum(ranks(w), w) # IF r <= Cardinality(w) THEN r ELSE Cardinality(w)}
<1>1. ASSUME NEW w \in SUBSET W, \A x \in w : w \ {x} \notin F
      PROVE  w \notin F
  <2>1. IsFiniteSet(w) /\ Cardinality(w) \in Nat
    BY FS_Subset, FS_CardinalityType
  <2>2. CASE w = {}
    BY <2>2, SumEmpty, FS_EmptySet
  <2>3. CASE w # {}
    <3>1. PICK m \in w : \A y \in w : y <= m
      BY <2>1, <2>3, MaxIsGreatest
    <3> DEFINE v == w \ {m}
    <3>2. IsFiniteSet(v) /\ Cardinality(v) = Cardinality(w) - 1 /\ v \in SUBSET W /\ v \notin F
      BY <1>1, <2>1, FS_RemoveElement
    <3>3. Sum(ranks(v), v) = IF r <= Cardinality(v) THEN r ELSE Cardinality(v)
      BY <3>2
    <3>4. \A s \in v : Before(v, s) = Before(w, s)
      <4> TAKE s \in v
      <4>1. s <= m /\ s \in Nat /\ m \in Nat
        BY <3>1
      <4>2. {q \in w : q < s} = {q \in v : q < s}
        BY <4>1
      <4> QED
        BY <4>2 DEF Before
    <3>5. {q \in w : q < m} = v
      <4>1. \A q \in w : q \in Nat /\ m \in Nat /\ q <= m
        BY <3>1
      <4>2. \A q \in w : q < m <=> q # m
        BY <4>1
      <4> QED
        BY <4>2
    <3>6. ranks(w)[m] = IF Cardinality(v) < r THEN 1 ELSE 0
      BY <3>5 DEF Before
    <3>7. \A s \in v : ranks(w)[s] = ranks(v)[s]
      BY <3>4
    <3>8. \A s \in w : ranks(w)[s] \in Int
      OBVIOUS
    <3>9. Sum(ranks(w), w) = ranks(w)[m] + Sum(ranks(w), v)
      <4> DEFINE h == ranks(w)
      <4>1. (\A s \in w : h[s] \in Int) /\ IsFiniteSet(w) /\ m \in w
        BY <2>1, <3>8
      <4> HIDE DEF h, F
      <4>2. Sum(h, w) = h[m] + Sum(h, w \ {m})
        BY ONLY <4>1, SumTake
      <4> QED
        BY <4>2 DEF h
    <3> HIDE DEF ranks, v
    <3>10. Sum(ranks(w), v) = Sum(ranks(v), v)
      BY <3>2, <3>7, SumSame
    <3> QED
      BY <2>1, <3>2, <3>3, <3>6, <3>9, <3>10
  <2> QED
    BY <2>2, <2>3
<1>2. F = {}
  <2>1. F \in SUBSET SUBSET W
    OBVIOUS
  <2> HIDE DEF F
  <2> QED
    BY <1>1, <2>1, NoLeastSet
<1>3. Sum(ranks(W), W) = IF r <= Cardinality(W) THEN r ELSE Cardinality(W)
  BY <1>2
<1>4. Sum(ranks(W), W) = Sum(f, W)
  <2>1. \A s \in W : ranks(W)[s] = f[s]
    OBVIOUS
  <2> HIDE DEF ranks
  <2> QED
    BY <2>1, SumSame
<1> QED
  BY <1>3, <1>4

-----------------------------------------------------------------------------
(* Seats.                                                                  *)

USE HandAssumption

\* The table's seats are finitely many.
LEMMA SeatsFinite ==
    /\ IsFiniteSet(Seats) /\ Cardinality(Seats) = MaxPlayers
    /\ \A S \in SUBSET Seats : /\ IsFiniteSet(S) /\ Cardinality(S) \in Nat
                               /\ Cardinality(S) <= MaxPlayers
<1>1. IsFiniteSet(Seats) /\ Cardinality(Seats) = MaxPlayers
  BY FS_Interval DEF Seats
<1> QED
  BY <1>1, FS_Subset, FS_CardinalityType

\* The next occupied seat is one.
LEMMA NextOccupiedSeat ==
    ASSUME NEW S \in SUBSET Seats, S # {}, NEW start \in Seats
    PROVE  NextOccupied(S, start) \in S
<1> DEFINE steps == {i \in 1 .. MaxPlayers : (start + i) % MaxPlayers \in S}
<1>1. PICK s \in S : s \in 0 .. MaxPlayers - 1
  BY DEF Seats
<1>2. start \in 0 .. MaxPlayers - 1
  BY DEF Seats
<1>3. steps # {}
  <2>1. CASE s > start
    <3>1. s - start \in 1 .. MaxPlayers /\ start + (s - start) = s
      BY <1>1, <1>2, <2>1
    <3>2. (start + (s - start)) % MaxPlayers = s
      BY <1>1, <3>1, ModOnce
    <3> QED
      BY <3>1, <3>2
  <2>2. CASE s <= start
    <3>1. /\ s - start + MaxPlayers \in 1 .. MaxPlayers
          /\ start + (s - start + MaxPlayers) = s + MaxPlayers
      BY <1>1, <1>2, <2>2
    <3>2. (start + (s - start + MaxPlayers)) % MaxPlayers = s
      BY <1>1, <3>1, ModOnce
    <3> QED
      BY <3>1, <3>2
  <2> QED
    BY <1>1, <1>2, <2>1, <2>2
<1>4. Min(steps) \in steps
  <2>1. steps \in SUBSET Nat
    OBVIOUS
  <2> HIDE DEF steps
  <2> QED
    BY <1>3, <2>1, MinIsLeast
<1> QED
  BY <1>4 DEF NextOccupied

-----------------------------------------------------------------------------
(* Types.                                                                  *)

\* The games the table can be.
Games == [street : Streets, seated : SUBSET Seats, pot : Nat,
          maxRate : Nat, turn : Seats \cup {NoSeat}, dealer : Seats,
          state : [Seats -> {"active", "allin", "fold"}],
          roundRate : [Seats -> Nat], totalBet : [Seats -> Nat],
          hasActed : [Seats -> BOOLEAN]]

\* Whoever the turn comes to, it is a seat or nobody.
LEMMA NextActiveSeat ==
    ASSUME NEW g \in Games, NEW start \in Seats \cup {NoSeat}
    PROVE  NextActive(g, start) \in Seats \cup {NoSeat}
<1> DEFINE n == Cardinality(g.seated)
           steps == {i \in 1 .. n : PlayerAt(g, (start + i) % n) \in Active(g)}
<1>1. n \in Nat /\ n <= MaxPlayers
  BY SeatsFinite DEF Games
<1>2. CASE steps = {}
  BY <1>2 DEF NextActive
<1>3. CASE steps # {}
  <2>1. Min(steps) \in 1 .. n
    <3>1. steps \in SUBSET Nat /\ steps \in SUBSET (1 .. n)
      OBVIOUS
    <3> HIDE DEF steps
    <3> QED
      BY <1>3, <3>1, MinIsLeast
  <2>2. n \in Nat \ {0} /\ start + Min(steps) \in Int
    <3> HIDE DEF steps, n
    <3> QED
      BY <1>1, <2>1 DEF Seats, NoSeat
  <2>3. (start + Min(steps)) % n \in 0 .. n - 1
    <3> HIDE DEF steps, n
    <3> QED
      BY <2>2, ModRange
  <2>4. NextActive(g, start) = (start + Min(steps)) % n
    BY <1>3 DEF NextActive
  <2> HIDE DEF steps, n
  <2> QED
    BY <1>1, <2>3, <2>4 DEF Seats
<1> QED
  BY <1>2, <1>3

\* What is missing to the round's rate is a number of chips.
LEMMA CallNat ==
    ASSUME TypeOK, NEW s \in Seats
    PROVE  /\ CallAmount(s) \in Nat
           /\ CallAmount(s) = IF table.maxRate > table.roundRate[s]
                              THEN table.maxRate - table.roundRate[s] ELSE 0
<1>1. table.maxRate \in Nat /\ table.roundRate[s] \in Nat
  BY DEF TypeOK
<1> QED
  BY <1>1, MaxOrZero DEF CallAmount

-----------------------------------------------------------------------------
(* The settlement.                                                         *)

\* What the tiers of the pot are made of.
LEMMA GameParts ==
    ASSUME NEW g \in Games
    PROVE  /\ g.seated \in SUBSET Seats /\ IsFiniteSet(g.seated)
           /\ Contenders(g) \in SUBSET g.seated /\ IsFiniteSet(Contenders(g))
           /\ \A s \in Seats : g.totalBet[s] \in Nat
           /\ g.pot \in Nat
           /\ Tiers(g) \in SUBSET Nat /\ 0 \notin Tiers(g) /\ IsFiniteSet(Tiers(g))
           /\ \A s \in Contenders(g) : g.totalBet[s] \in Tiers(g) \cup {0}
<1>1. g.seated \in SUBSET Seats /\ IsFiniteSet(g.seated)
  BY SeatsFinite DEF Games
<1>2. Contenders(g) \in SUBSET g.seated /\ IsFiniteSet(Contenders(g))
  BY <1>1, FS_Subset DEF Contenders, InState
<1>3. g.pot \in Nat /\ \A s \in Seats : g.totalBet[s] \in Nat
  BY DEF Games
<1>4. IsFiniteSet({g.totalBet[s] : s \in Contenders(g)})
  BY <1>2, FiniteImage
<1>5. Tiers(g) \in SUBSET {g.totalBet[s] : s \in Contenders(g)}
  BY DEF Tiers
<1>6. IsFiniteSet(Tiers(g))
  BY <1>4, <1>5, FS_Subset
<1>7. Tiers(g) \in SUBSET Nat /\ 0 \notin Tiers(g)
  BY <1>1, <1>2, <1>3 DEF Tiers
<1>8. \A s \in Contenders(g) : g.totalBet[s] \in Tiers(g) \cup {0}
  BY DEF Tiers
<1> QED
  BY <1>1, <1>2, <1>3, <1>6, <1>7, <1>8

\* Each tier stands on the next one below.
LEMMA Below ==
    ASSUME NEW g \in Games, NEW t \in Tiers(g)
    PROVE  /\ TierBelow(g, t) \in Tiers(g) \cup {0} /\ TierBelow(g, t) \in Nat
           /\ t \in Nat /\ TierBelow(g, t) < t
           /\ \A u \in Tiers(g) : u < t => u <= TierBelow(g, t)
<1> DEFINE L == {0} \cup {u \in Tiers(g) : u < t}
<1>1. Tiers(g) \in SUBSET Nat /\ IsFiniteSet(Tiers(g)) /\ 0 \notin Tiers(g) /\ t \in Nat
  BY GameParts
<1>2. IsFiniteSet(L)
  <2>1. IsFiniteSet({u \in Tiers(g) : u < t})
    BY <1>1, FS_Subset
  <2>2. IsFiniteSet({u \in Tiers(g) : u < t} \cup {0})
    BY <2>1, FS_AddElement
  <2>3. L = {u \in Tiers(g) : u < t} \cup {0}
    OBVIOUS
  <2> QED
    BY <2>2, <2>3
<1>3. L \in SUBSET Nat /\ L # {}
  BY <1>1
<1>4. Max(L) \in L /\ \A m \in L : m <= Max(L)
  <2> HIDE DEF L
  <2> QED
    BY <1>2, <1>3, MaxIsGreatest
<1>5. TierBelow(g, t) = Max(L)
  BY DEF TierBelow
<1>6. t # 0
  BY <1>1
<1> QED
  BY <1>1, <1>4, <1>5, <1>6

\* The tiers up to one, each less the one below, add up to that tier.
Height(g, v) == [t \in Tiers(g) |-> IF t <= v THEN t - TierBelow(g, t) ELSE 0]

\* Those differences are numbers of chips.
LEMMA HeightInt ==
    ASSUME NEW g \in Games, NEW v \in Nat
    PROVE  \A t \in Tiers(g) : Height(g, v)[t] \in Nat /\ Height(g, v)[t] \in Int
BY Below DEF Height

\* They add up to it: all but the top cancels.
LEMMA Telescope ==
    ASSUME NEW g \in Games, NEW v \in Tiers(g) \cup {0}
    PROVE  Sum(Height(g, v), Tiers(g)) = v
<1> DEFINE T == Tiers(g)
           F == {u \in T \cup {0} : Sum(Height(g, u), T) # u}
<1>1. T \in SUBSET Nat /\ IsFiniteSet(T) /\ 0 \notin T
  BY GameParts
<1>2. 0 \notin F
  <2>1. \A t \in T : Height(g, 0)[t] = 0
    BY <1>1 DEF Height
  <2>2. Sum(Height(g, 0), T) = 0
    <3> HIDE DEF T
    <3> QED
      BY <1>1, <2>1, SumZero
  <2> QED
    BY <2>2
<1>3. ASSUME F # {} PROVE FALSE
  <2>0. F \in SUBSET Nat
    BY <1>1
  <2>1. PICK u \in F : \A w \in F : u <= w
    <3> HIDE DEF F
    <3> QED
      BY <1>3, <2>0, LeastNat
  <2>2. u \in T /\ u \in Nat
    BY <1>1, <1>2
  <2> DEFINE w == TierBelow(g, u)
  <2>3. w \in T \cup {0} /\ w \in Nat /\ w < u /\ \A t \in T : t < u => t <= w
    BY <2>2, Below
  <2>4. Sum(Height(g, w), T) = w
    BY <2>1, <2>2, <2>3
  <2>5. \A t \in T \ {u} : Height(g, u)[t] = Height(g, w)[t]
    <3> TAKE t \in T \ {u}
    <3>1. t \in Nat /\ t # u
      BY <1>1
    <3>2. t <= u <=> t <= w
      BY <2>2, <2>3, <3>1
    <3> QED
      BY <3>2 DEF Height
  <2>6. Height(g, u)[u] = u - w /\ Height(g, w)[u] = 0
    BY <2>2, <2>3 DEF Height
  <2>7. \A t \in T : Height(g, u)[t] \in Int /\ Height(g, w)[t] \in Int
    BY <2>2, <2>3, HeightInt
  <2>8. Sum(Height(g, u), T) = Sum(Height(g, w), T) + (Height(g, u)[u] - Height(g, w)[u])
    <3> DEFINE hu == Height(g, u)
               hw == Height(g, w)
    <3>1. /\ IsFiniteSet(T) /\ u \in T /\ \A t \in T \ {u} : hu[t] = hw[t]
          /\ \A t \in T : hw[t] \in Int /\ hu[t] \in Int
      BY <1>1, <2>2, <2>5, <2>7
    <3> HIDE DEF T, F, w, hu, hw
    <3>2. Sum(hu, T) = Sum(hw, T) + (hu[u] - hw[u])
      BY ONLY <3>1, SumChange
    <3> QED
      BY <3>2 DEF hu, hw
  <2>9. Sum(Height(g, u), T) = u
    BY <2>2, <2>3, <2>4, <2>6, <2>8
  <2> QED
    BY <2>9
<1> QED
  BY <1>3

\* What stands on a tier, up to a height: what its players matched of it.
Capped(g, v) ==
    [s \in Contenders(g) |-> IF g.totalBet[s] < v THEN g.totalBet[s] ELSE v]
Lowest(g, v) == [t \in Tiers(g) |-> IF t <= v THEN TierSize(g)[t] ELSE 0]

\* The parts of a tier are a number of players and a number of chips.
LEMMA TierSizeNat ==
    ASSUME NEW g \in Games
    PROVE  \A t \in Tiers(g) : /\ TierSize(g)[t] \in Nat /\ TierSize(g)[t] \in Int
                               /\ Eligible(g, t) \in SUBSET Contenders(g)
                               /\ IsFiniteSet(Eligible(g, t))
                               /\ Cardinality(Eligible(g, t)) \in Nat
<1> TAKE t \in Tiers(g)
<1>1. Eligible(g, t) \in SUBSET Contenders(g)
  BY DEF Eligible
<1>2. IsFiniteSet(Eligible(g, t)) /\ Cardinality(Eligible(g, t)) \in Nat
  BY <1>1, GameParts, FS_Subset, FS_CardinalityType
<1>3. t - TierBelow(g, t) \in Nat
  BY Below
<1>4. TierSize(g)[t] = (t - TierBelow(g, t)) * Cardinality(Eligible(g, t))
  BY DEF TierSize
<1>5. (t - TierBelow(g, t)) * Cardinality(Eligible(g, t)) \in Nat
  BY <1>2, <1>3
<1> QED
  BY <1>1, <1>2, <1>4, <1>5

\* Added up by tier or by player, it is the same.
LEMMA CappedTiers ==
    ASSUME NEW g \in Games, NEW v \in Tiers(g) \cup {0}
    PROVE  Sum(Lowest(g, v), Tiers(g)) = Sum(Capped(g, v), Contenders(g))
<1> DEFINE T == Tiers(g)
           C == Contenders(g)
           low(s) == IF g.totalBet[s] < v THEN g.totalBet[s] ELSE v
           f == [t \in T |-> [s \in C |-> IF t <= low(s) THEN t - TierBelow(g, t) ELSE 0]]
           cell == [s \in C |-> Height(g, low(s))]
<1>1. /\ T \in SUBSET Nat /\ IsFiniteSet(T) /\ IsFiniteSet(C) /\ v \in Nat
      /\ C \in SUBSET Seats /\ \A s \in C : g.totalBet[s] \in Nat
  BY GameParts
<1>2. \A s \in C : low(s) \in T \cup {0} /\ low(s) \in Nat
  BY <1>1, GameParts
<1>3. \A t \in T, s \in C : f[t][s] \in Int /\ cell[s][t] = f[t][s]
  BY <1>1, <1>2, Below DEF Height
<1>4. \A t \in T : Lowest(g, v)[t] = Sum(f[t], C)
  <2> TAKE t \in T
  <2>1. /\ t \in Nat /\ Eligible(g, t) \in SUBSET C /\ IsFiniteSet(Eligible(g, t))
        /\ t - TierBelow(g, t) \in Int
    BY <1>1, TierSizeNat, Below
  <2>2. CASE t <= v
    <3>1. \A s \in Eligible(g, t) : f[t][s] = t - TierBelow(g, t)
      BY <1>1, <2>1, <2>2 DEF Eligible
    <3>2. \A s \in C \ Eligible(g, t) : f[t][s] = 0
      BY <1>1, <2>1, <2>2 DEF Eligible
    <3>3. \A s \in C : f[t][s] \in Int
      BY <1>3
    <3> DEFINE h == f[t]
               d == t - TierBelow(g, t)
    <3> HIDE DEF f, C, T, h, d
    <3>4. Sum(h, C) = Sum(h, Eligible(g, t))
      BY <1>1, <2>1, <3>2, <3>3, SumPart DEF h
    <3>5. Sum(h, Eligible(g, t)) = d * Cardinality(Eligible(g, t))
      BY <2>1, <3>1, SumConst DEF h, d
    <3> QED
      BY <2>2, <3>4, <3>5 DEF Lowest, TierSize, h, d, T
  <2>3. CASE ~ (t <= v)
    <3>1. \A s \in C : f[t][s] = 0
      BY <1>1, <2>1, <2>3
    <3>2. Sum(f[t], C) = 0
      <4> HIDE DEF f, C
      <4> QED
        BY <1>1, <3>1, SumZero
    <3> QED
      BY <2>3, <3>2 DEF Lowest
  <2> QED
    BY <2>2, <2>3
<1>5. \A s \in C : Capped(g, v)[s] = Sum(cell[s], T)
  <2> TAKE s \in C
  <2>1. Sum(Height(g, low(s)), T) = low(s)
    BY <1>2, Telescope
  <2> QED
    BY <2>1 DEF Capped
<1> QED
  <2> DEFINE lowest == Lowest(g, v)
             capped == Capped(g, v)
  <2>0. /\ IsFiniteSet(T) /\ IsFiniteSet(C)
        /\ \A t \in T : lowest[t] = Sum(f[t], C)
        /\ \A s \in C : capped[s] = Sum(cell[s], T)
    BY <1>1, <1>4, <1>5
  <2>1. Sum(lowest, T) = Sum(capped, C)
    <3> HIDE DEF T, C, f, cell, lowest, capped
    <3> QED
      BY ONLY <1>3, <2>0, SumExchange
  <2> QED
    BY <2>1 DEF T, C

\* All the tiers together hold what the contenders bet.
LEMMA TiersTotal ==
    ASSUME NEW g \in Games
    PROVE  Sum(TierSize(g), Tiers(g)) = Sum(g.totalBet, Contenders(g))
<1> DEFINE T == Tiers(g)
           C == Contenders(g)
           v == IF T = {} THEN 0 ELSE Max(T)
           lowest == Lowest(g, v)
           capped == Capped(g, v)
           sizes == TierSize(g)
           bets == g.totalBet
<1>1. /\ T \in SUBSET Nat /\ IsFiniteSet(T) /\ IsFiniteSet(C) /\ C \in SUBSET Seats
      /\ \A s \in C : g.totalBet[s] \in Nat /\ g.totalBet[s] \in T \cup {0}
  BY GameParts
<1>2. v \in T \cup {0} /\ v \in Nat /\ \A t \in T : t <= v
  <2> HIDE DEF T
  <2>1. CASE T = {}
    BY <2>1
  <2>2. CASE T # {}
    BY <1>1, <2>2, MaxIsGreatest
  <2> QED
    BY <2>1, <2>2
<1>3. Sum(lowest, T) = Sum(capped, C)
  BY <1>2, CappedTiers
<1>4. \A t \in T : lowest[t] = sizes[t]
  BY <1>2 DEF Lowest
<1>5. \A s \in C : capped[s] = bets[s]
  <2> TAKE s \in C
  <2>1. g.totalBet[s] <= v /\ g.totalBet[s] \in Nat
    BY <1>1, <1>2
  <2> QED
    BY <1>2, <2>1 DEF Capped
<1>6. IsFiniteSet(T) /\ IsFiniteSet(C)
  BY <1>1
<1> HIDE DEF T, C, v, lowest, capped, sizes, bets
<1>7. Sum(lowest, T) = Sum(sizes, T) /\ Sum(capped, C) = Sum(bets, C)
  BY ONLY <1>4, <1>5, <1>6, SumSame
<1>8. Sum(sizes, T) = Sum(bets, C)
  BY <1>3, <1>7
<1> QED
  BY <1>8 DEF sizes, T, bets, C

\* The chips beyond the tiers are those of the others, and the pots of all tiers
\* are the whole pot.
Beyond(g) == g.pot - Sum(TierSize(g), Tiers(g))

\* They are what the seated who do not contend have bet.
LEMMA BeyondNat ==
    ASSUME NEW g \in Games, g.pot = Sum(g.totalBet, g.seated)
    PROVE  /\ Beyond(g) = Sum(g.totalBet, g.seated \ Contenders(g))
           /\ Beyond(g) \in Nat
<1> DEFINE bets == g.totalBet
           U == g.seated
           C == Contenders(g)
<1>1. /\ IsFiniteSet(U) /\ C \in SUBSET U /\ IsFiniteSet(U \ C) /\ IsFiniteSet(C)
      /\ \A s \in U : bets[s] \in Int /\ bets[s] \in Nat
  BY GameParts, FS_Subset
<1>2. Beyond(g) = Sum(bets, U) - Sum(bets, C)
  BY TiersTotal DEF Beyond
<1> HIDE DEF bets, U, C
<1>3. Sum(bets, U) = Sum(bets, C) + Sum(bets, U \ C)
  BY <1>1, SumSplit
<1>4. Sum(bets, U \ C) \in Nat /\ Sum(bets, C) \in Nat
  BY <1>1, SumNat
<1> QED
  BY <1>2, <1>3, <1>4 DEF bets, U, C

\* The pot of a tier holds at least what stands on the tier.
LEMMA PotNat ==
    ASSUME NEW g \in Games, NEW t \in Tiers(g)
    PROVE  /\ PotSize(g, t) \in Nat
           /\ PotSize(g, t) >= TierSize(g)[t]
           /\ PotSize(g, t) = TierSize(g)[t]
                  + IF t = Min(Tiers(g)) /\ Beyond(g) > 0 THEN Beyond(g) ELSE 0
<1> DEFINE sizes == TierSize(g)
           T == Tiers(g)
<1>1. IsFiniteSet(T) /\ \A u \in T : sizes[u] \in Int /\ sizes[u] \in Nat
  BY GameParts, TierSizeNat
<1>2. Sum(sizes, T) \in Int
  <2> HIDE DEF sizes, T
  <2> QED
    BY <1>1, SumInt
<1>3. Beyond(g) \in Int
  <2>1. g.pot \in Nat
    BY GameParts
  <2> QED
    BY <1>2, <2>1 DEF Beyond
<1>4. PotSize(g, t) = sizes[t] + IF t = Min(T) /\ Beyond(g) > 0 THEN Beyond(g) ELSE 0
  BY DEF PotSize, Beyond
<1>5. sizes[t] \in Nat
  BY <1>1
<1> HIDE DEF sizes, T
<1>6. PotSize(g, t) \in Nat /\ PotSize(g, t) >= sizes[t]
  BY <1>3, <1>4, <1>5
<1> QED
  BY <1>4, <1>6 DEF sizes, T

Pots(g) == [t \in Tiers(g) |-> PotSize(g, t)]

\* So the pots are the pot.
LEMMA PotsTotal ==
    ASSUME NEW g \in Games, g.pot = Sum(g.totalBet, g.seated), Tiers(g) # {}
    PROVE  Sum(Pots(g), Tiers(g)) = g.pot
<1> DEFINE T == Tiers(g)
           m == Min(T)
           sizes == TierSize(g)
           pots == Pots(g)
<1>1. m \in T
  <2>1. T \in SUBSET Nat
    BY GameParts
  <2> HIDE DEF T
  <2> QED
    BY <2>1, MinIsLeast DEF T
<1>2. \A t \in T : sizes[t] \in Int /\ pots[t] \in Int
  BY TierSizeNat, PotNat DEF Pots
<1>3. Beyond(g) \in Nat
  BY BeyondNat
<1>4. pots[m] - sizes[m] = Beyond(g)
  <2>1. pots[m] = sizes[m] + IF Beyond(g) > 0 THEN Beyond(g) ELSE 0
    BY <1>1, PotNat DEF Pots
  <2>2. sizes[m] \in Int
    BY <1>1, <1>2
  <2> HIDE DEF sizes, pots, m
  <2> QED
    BY <1>3, <2>1, <2>2
<1>5. \A t \in T \ {m} : pots[t] = sizes[t]
  BY <1>2, PotNat DEF Pots
<1>6. IsFiniteSet(T)
  BY GameParts
<1>7. g.pot \in Int /\ Sum(sizes, T) \in Int /\ Beyond(g) = g.pot - Sum(sizes, T)
  <2>1. g.pot \in Nat
    BY GameParts
  <2>2. Beyond(g) = g.pot - Sum(sizes, T)
    BY DEF Beyond
  <2> HIDE DEF sizes, T, pots, m
  <2>3. Sum(sizes, T) \in Int
    BY ONLY <1>2, <1>6, SumInt
  <2> QED
    BY <2>1, <2>2, <2>3
<1> HIDE DEF sizes, pots, T, m
<1>8. Sum(pots, T) = Sum(sizes, T) + (pots[m] - sizes[m])
  BY ONLY <1>1, <1>2, <1>5, <1>6, SumChange
<1>9. Sum(pots, T) = g.pot
  BY <1>4, <1>7, <1>8
<1> QED
  BY <1>9 DEF pots, T

\* Every tier has winners.
LEMMA WinnersExist ==
    ASSUME NEW g \in Games, NEW t \in Tiers(g), NEW score \in [Contenders(g) -> Scores]
    PROVE  /\ Winners(g, score, t) \in SUBSET Eligible(g, t)
           /\ Winners(g, score, t) # {} /\ IsFiniteSet(Winners(g, score, t))
           /\ Cardinality(Winners(g, score, t)) \in Nat \ {0}
<1> DEFINE E == Eligible(g, t)
           R == {score[s] : s \in E}
<1>1. E \in SUBSET Contenders(g) /\ IsFiniteSet(E)
  BY TierSizeNat
<1>2. E # {}
  <2>1. PICK s \in Contenders(g) : t = g.totalBet[s]
    BY DEF Tiers
  <2>2. t \in Nat
    BY GameParts
  <2> QED
    BY <2>1, <2>2 DEF Eligible
<1>3. R \in SUBSET Nat /\ IsFiniteSet(R) /\ R # {}
  <2>1. IsFiniteSet(R)
    <3> HIDE DEF E
    <3> QED
      BY <1>1, FiniteImage
  <2>2. R \in SUBSET Nat
    BY <1>1
  <2> QED
    BY <1>2, <2>1, <2>2
<1>4. Max(R) \in R /\ \A x \in R : x <= Max(R)
  <2> HIDE DEF R
  <2> QED
    BY <1>3, MaxIsGreatest
<1>5. PICK s \in E : score[s] = Max(R)
  BY <1>4
<1>6. s \in Winners(g, score, t)
  BY <1>4, <1>5 DEF Winners
<1>7. Winners(g, score, t) \in SUBSET E
  BY DEF Winners
<1>8. IsFiniteSet(Winners(g, score, t))
  BY <1>1, <1>7, FS_Subset
<1> QED
  BY <1>6, <1>7, <1>8, FS_CardinalityType, FS_EmptySet

\* A whole number, divided.
LEMMA DivNat ==
    ASSUME NEW a \in Nat, NEW n \in Nat \ {0}
    PROVE  /\ a \div n \in Nat /\ a % n \in Nat /\ a % n < n
           /\ (n * (a \div n)) + (a % n) = a
<1>1. /\ a \div n \in Int /\ a % n \in 0 .. n - 1
      /\ a = (n * (a \div n)) + (a % n)
  OBVIOUS
<1>2. ASSUME NEW q \in Int, q < 0 PROVE n * q <= 0 - n
  BY <1>2
<1>3. ~ (a \div n < 0)
  BY <1>1, <1>2
<1> QED
  BY <1>1, <1>3

\* Its winners share the pot of a tier, the odd chips included.
Shares(g, score, t) == [s \in Seats |-> Share(g, score, t, s)]

\* A share is a number of chips, and none for who does not win.
LEMMA ShareNat ==
    ASSUME NEW g \in Games, NEW t \in Tiers(g), NEW score \in [Contenders(g) -> Scores]
    PROVE  \A s \in Seats : /\ Share(g, score, t, s) \in Nat /\ Share(g, score, t, s) \in Int
                            /\ s \notin Winners(g, score, t) => Share(g, score, t, s) = 0
<1> TAKE s \in Seats
<1> DEFINE n == Cardinality(Winners(g, score, t))
           p == PotSize(g, t)
<1>1. n \in Nat \ {0} /\ p \in Nat
  BY WinnersExist, PotNat
<1>2. p \div n \in Nat
  <2> HIDE DEF n, p
  <2> QED
    BY <1>1, DivNat
<1>3. CASE s \in Winners(g, score, t)
  <2>1. Share(g, score, t, s) = p \div n
            + IF Cardinality({q \in Winners(g, score, t) : q < s}) < p % n THEN 1 ELSE 0
    BY <1>3 DEF Share
  <2> HIDE DEF n, p
  <2> QED
    BY <1>2, <1>3, <2>1
<1>4. CASE s \notin Winners(g, score, t)
  BY <1>4 DEF Share
<1> QED
  BY <1>3, <1>4

\* The shares of a tier are its pot.
LEMMA SharesTotal ==
    ASSUME NEW g \in Games, NEW t \in Tiers(g), NEW score \in [Contenders(g) -> Scores]
    PROVE  Sum(Shares(g, score, t), Seats) = PotSize(g, t)
<1> DEFINE W == Winners(g, score, t)
           n == Cardinality(W)
           p == PotSize(g, t)
           each == [s \in W |-> p \div n]
           odd == [s \in W |-> IF Before(W, s) < p % n THEN 1 ELSE 0]
           shares == Shares(g, score, t)
<1>1. /\ W \in SUBSET Seats /\ W \subseteq Nat /\ IsFiniteSet(W) /\ n \in Nat \ {0}
      /\ p \in Nat
  <2>1. W \in SUBSET Eligible(g, t) /\ IsFiniteSet(W) /\ n \in Nat \ {0}
    BY WinnersExist
  <2>2. Eligible(g, t) \subseteq g.seated /\ g.seated \subseteq Seats
    BY DEF Eligible, Contenders, InState, Games
  <2>3. Seats \subseteq Nat
    BY DEF Seats
  <2>4. p \in Nat
    BY PotNat
  <2> QED
    BY <2>1, <2>2, <2>3, <2>4
<1>2. p \div n \in Nat /\ p % n \in Nat /\ p % n < n /\ (n * (p \div n)) + (p % n) = p
  <2> HIDE DEF n, p
  <2> QED
    BY <1>1, DivNat
<1>3. /\ \A s \in Seats : shares[s] \in Int
      /\ \A s \in Seats \ W : shares[s] = 0
  BY ShareNat DEF Shares
<1>4. \A s \in W : shares[s] = each[s] + odd[s]
  BY <1>1 DEF Share, Before, Shares
<1>5. \A s \in W : each[s] = p \div n /\ each[s] \in Int /\ odd[s] \in Int
  BY <1>2
<1>6. \A s \in W : odd[s] = IF Before(W, s) < p % n THEN 1 ELSE 0
  OBVIOUS
<1>7. IsFiniteSet(W) /\ W \in SUBSET Seats /\ IsFiniteSet(Seats)
  BY <1>1, SeatsFinite
<1> HIDE DEF W, p, each, odd, shares
<1>8. Sum(shares, Seats) = Sum(shares, W)
  BY ONLY <1>3, <1>7, SumPart
<1>9. Sum(shares, W) = Sum(each, W) + Sum(odd, W)
  BY ONLY <1>4, <1>5, <1>7, SumPlus
<1>10. Sum(each, W) = (p \div n) * n
  <2>1. p \div n \in Int
    BY <1>2
  <2> QED
    BY ONLY <1>5, <1>7, <2>1, SumConst
<1>11. Sum(odd, W) = p % n
  <2>1. Sum(odd, W) = IF p % n <= n THEN p % n ELSE n
    BY ONLY <1>1, <1>2, <1>6, SumRank
  <2> QED
    BY <1>1, <1>2, <2>1
<1>12. Sum(shares, Seats) = p
  <2> HIDE DEF n
  <2> QED
    BY <1>1, <1>2, <1>8, <1>9, <1>10, <1>11
<1> QED
  BY <1>12 DEF shares, p

\* Whoever wins, the pot is paid out whole.
LEMMA PaidNat ==
    ASSUME NEW g \in Games, NEW score \in [Contenders(g) -> Scores]
    PROVE  \A s \in Seats : Payout(g, score)[s] \in Nat
<1> TAKE s \in Seats
<1> DEFINE T == Tiers(g)
           f == [t \in T |-> Share(g, score, t, s)]
<1>1. IsFiniteSet(T) /\ \A t \in T : f[t] \in Nat
  BY GameParts, ShareNat
<1>2. Payout(g, score)[s] = Sum(f, T)
  BY DEF Payout
<1> HIDE DEF T, f
<1> QED
  BY <1>1, <1>2, SumNat

\* In all, the pot.
LEMMA PaidWhole ==
    ASSUME NEW g \in Games, NEW score \in [Contenders(g) -> Scores],
           g.pot = Sum(g.totalBet, g.seated), Tiers(g) # {}
    PROVE  Sum(Payout(g, score), Seats) = g.pot
<1> DEFINE T == Tiers(g)
           U == Seats
           f == [s \in Seats |-> [t \in T |-> Share(g, score, t, s)]]
           cell == [t \in T |-> Shares(g, score, t)]
           pots == Pots(g)
           paid == Payout(g, score)
<1>1. IsFiniteSet(T) /\ IsFiniteSet(U)
  BY GameParts, SeatsFinite
<1>2. \A s \in U, t \in T : f[s][t] \in Int /\ cell[t][s] = f[s][t]
  BY ShareNat DEF Shares
<1>3. \A s \in U : paid[s] = Sum(f[s], T)
  BY DEF Payout
<1>4. \A t \in T : pots[t] = Sum(cell[t], U)
  BY SharesTotal DEF Pots
<1>5. Sum(pots, T) = g.pot
  BY PotsTotal
<1> HIDE DEF T, U, f, cell, pots, paid
<1>6. Sum(paid, U) = Sum(pots, T)
  <2>1. Sum(RowSums(f, U, T), U) = Sum(RowSums(Exchanged(f, U, T), T, U), T)
    <3>1. \A s \in U : \A t \in T : f[s][t] \in Int
      BY <1>2
    <3> QED
      BY ONLY <1>1, <3>1, SumTable
  <2>2. Sum(RowSums(f, U, T), U) = Sum(paid, U)
    <3>1. \A s \in U : RowSums(f, U, T)[s] = paid[s]
      BY <1>3 DEF RowSums
    <3> QED
      BY ONLY <1>1, <3>1, SumSame
  <2>3. \A t \in T : Sum(Exchanged(f, U, T)[t], U) = Sum(cell[t], U)
    <3> TAKE t \in T
    <3> DEFINE c == Exchanged(f, U, T)[t]
               d == cell[t]
    <3>1. \A s \in U : c[s] = d[s]
      BY <1>2 DEF Exchanged
    <3> HIDE DEF c, d
    <3>2. Sum(c, U) = Sum(d, U)
      BY ONLY <1>1, <3>1, SumSame
    <3> QED
      BY <3>2 DEF c, d
  <2>4. Sum(RowSums(Exchanged(f, U, T), T, U), T) = Sum(pots, T)
    <3> DEFINE c == RowSums(Exchanged(f, U, T), T, U)
    <3>1. \A t \in T : c[t] = pots[t]
      BY <1>4, <2>3 DEF RowSums
    <3> HIDE DEF c
    <3>2. Sum(c, T) = Sum(pots, T)
      BY ONLY <1>1, <3>1, SumSame
    <3> QED
      BY <3>2 DEF c
  <2> QED
    BY <2>1, <2>2, <2>4
<1> QED
  BY <1>5, <1>6 DEF paid, U

-----------------------------------------------------------------------------
(* What a player action does before the turn moves on.                     *)

\* The action of s puts a more chips into the game g: the rate of the round
\* never falls, who has to act again is not marked as having acted, and whoever
\* can still bet has put in what the round asks for.
Moved(s, a, g) ==
    /\ table.turn = s /\ s \in table.seated /\ InHand
    /\ g.street = table.street /\ g.seated = table.seated
    /\ g.turn = table.turn /\ g.dealer = table.dealer
    /\ g.pot = table.pot + a
    /\ g.totalBet[s] = table.totalBet[s] + a
    /\ g.roundRate[s] = table.roundRate[s] + a
    /\ \A q \in Seats \ {s} :
          /\ g.totalBet[q] = table.totalBet[q]
          /\ g.roundRate[q] = table.roundRate[q]
          /\ g.state[q] = table.state[q]
          /\ g.hasActed[q] => table.hasActed[q]
          /\ q \in Active(table) /\ g.hasActed[q] => g.maxRate = table.maxRate
    /\ table.maxRate <= g.maxRate
    /\ table.roundRate[s] <= table.maxRate => g.roundRate[s] <= g.maxRate
    /\ \/ g.state[s] \in {"fold", "allin"}
       \/ /\ g.state[s] = table.state[s]
          /\ table.roundRate[s] <= table.maxRate => g.roundRate[s] = g.maxRate
    /\ g.state[s] = "fold" \/ a > 0 \/ table.roundRate[s] >= table.maxRate

\* What the wallet and the reservations are then.
Left(s, a) == [wallet EXCEPT ![s] = @ - a]
Held(s, a) == [reserved EXCEPT ![s] = @ + a]

\* A bet is recorded in the player's rate, their total and the pot.
LEMMA BetGame ==
    ASSUME NEW g \in Games, NEW s \in Seats, NEW a \in Nat
    PROVE  /\ Bet(g, s, a) \in Games
           /\ Bet(g, s, a).street = g.street /\ Bet(g, s, a).seated = g.seated
           /\ Bet(g, s, a).turn = g.turn /\ Bet(g, s, a).dealer = g.dealer
           /\ Bet(g, s, a).pot = g.pot + a /\ Bet(g, s, a).maxRate = g.maxRate
           /\ Bet(g, s, a).state = g.state
           /\ Bet(g, s, a).totalBet = [g.totalBet EXCEPT ![s] = @ + a]
           /\ Bet(g, s, a).roundRate = [g.roundRate EXCEPT ![s] = @ + a]
           /\ Bet(g, s, a).hasActed = [g.hasActed EXCEPT ![s] = TRUE]
<1>1. /\ g.totalBet[s] + a \in Nat /\ g.roundRate[s] + a \in Nat /\ g.pot + a \in Nat
  BY DEF Games
<1>2. /\ [g.totalBet EXCEPT ![s] = @ + a] \in [Seats -> Nat]
      /\ [g.roundRate EXCEPT ![s] = @ + a] \in [Seats -> Nat]
      /\ [g.hasActed EXCEPT ![s] = TRUE] \in [Seats -> BOOLEAN]
  BY <1>1 DEF Games
<1> DEFINE bets == [g.totalBet EXCEPT ![s] = @ + a]
           rates == [g.roundRate EXCEPT ![s] = @ + a]
           acted == [g.hasActed EXCEPT ![s] = TRUE]
           pot == g.pot + a
<1>3. Bet(g, s, a) = [g EXCEPT !.roundRate = rates, !.totalBet = bets, !.pot = pot,
                              !.hasActed = acted]
  BY DEF Bet, Games
<1> HIDE DEF bets, rates, acted, pot
<1>4. /\ bets \in [Seats -> Nat] /\ rates \in [Seats -> Nat] /\ pot \in Nat
      /\ acted \in [Seats -> BOOLEAN]
  BY <1>1, <1>2 DEF bets, rates, acted, pot
<1>5. /\ Bet(g, s, a) \in Games
      /\ Bet(g, s, a).street = g.street /\ Bet(g, s, a).seated = g.seated
      /\ Bet(g, s, a).turn = g.turn /\ Bet(g, s, a).dealer = g.dealer
      /\ Bet(g, s, a).pot = pot /\ Bet(g, s, a).maxRate = g.maxRate
      /\ Bet(g, s, a).state = g.state /\ Bet(g, s, a).totalBet = bets
      /\ Bet(g, s, a).roundRate = rates /\ Bet(g, s, a).hasActed = acted
  BY <1>3, <1>4 DEF Games
<1> QED
  BY <1>5 DEF bets, rates, acted, pot

\* A raise asks the others again.
LEMMA RaisedGame ==
    ASSUME NEW g \in Games, NEW s \in Seats
    PROVE  /\ Raised(g, s) \in Games
           /\ Raised(g, s).street = g.street /\ Raised(g, s).seated = g.seated
           /\ Raised(g, s).turn = g.turn /\ Raised(g, s).dealer = g.dealer
           /\ Raised(g, s).pot = g.pot /\ Raised(g, s).maxRate = g.roundRate[s]
           /\ Raised(g, s).state = g.state /\ Raised(g, s).totalBet = g.totalBet
           /\ Raised(g, s).roundRate = g.roundRate
           /\ \A q \in Seats : Raised(g, s).hasActed[q]
                                  <=> g.hasActed[q] /\ (q = s \/ q \notin Active(g))
<1>1. [q \in Seats |-> g.hasActed[q] /\ (q = s \/ q \notin Active(g))] \in [Seats -> BOOLEAN]
  OBVIOUS
<1>2. g.roundRate[s] \in Nat
  BY DEF Games
<1> QED
  BY <1>1, <1>2 DEF Raised, Games

\* Every action moves the game in that way and leaves the rest to
\* _process_playing.
LEMMA PlayMoves ==
    ASSUME TypeOK, NEW s \in Seats, Play(s)
    PROVE  \E a \in Nat, g \in Games :
              /\ a <= wallet[s] /\ Moved(s, a, g)
              /\ ProcessPlaying(g, Left(s, a), Held(s, a))
<1>1. /\ table \in Games /\ wallet \in [Seats -> Nat] /\ reserved \in [Seats -> Nat]
  BY DEF TypeOK, Games
<1>2. CallAmount(s) \in Nat
  BY CallNat
<1>3. /\ table.maxRate \in Nat /\ table.pot \in Nat
      /\ \A q \in Seats : /\ table.roundRate[q] \in Nat /\ table.totalBet[q] \in Nat
                          /\ table.hasActed[q] \in BOOLEAN
  BY <1>1 DEF Games
<1>4. wallet[s] \in Nat /\ reserved[s] \in Nat
  BY <1>1
<1>a. \A x \in Nat :
         /\ Bet(table, s, x).street = table.street /\ Bet(table, s, x).seated = table.seated
         /\ Bet(table, s, x).turn = table.turn /\ Bet(table, s, x).dealer = table.dealer
         /\ Bet(table, s, x).pot = table.pot + x /\ Bet(table, s, x).state = table.state
         /\ Bet(table, s, x).totalBet = [table.totalBet EXCEPT ![s] = @ + x]
         /\ Bet(table, s, x).roundRate = [table.roundRate EXCEPT ![s] = @ + x]
         /\ Bet(table, s, x).hasActed = [table.hasActed EXCEPT ![s] = TRUE]
  BY <1>1, BetGame
<1>5. CASE Fold(s)
  <2> DEFINE g == [table EXCEPT !.state[s] = "fold", !.hasActed[s] = TRUE]
  <2>1. /\ g \in Games
        /\ g.street = table.street /\ g.seated = table.seated /\ g.turn = table.turn
        /\ g.dealer = table.dealer /\ g.pot = table.pot /\ g.maxRate = table.maxRate
        /\ g.totalBet = table.totalBet /\ g.roundRate = table.roundRate
        /\ g.state = [table.state EXCEPT ![s] = "fold"]
        /\ g.hasActed = [table.hasActed EXCEPT ![s] = TRUE]
    BY <1>1 DEF Games
  <2>2. Left(s, 0) = wallet /\ Held(s, 0) = reserved
    BY <1>1, <1>4 DEF Left, Held
  <2>3. MayAct(s) /\ ProcessPlaying(g, wallet, reserved)
    BY <1>5 DEF Fold
  <2> HIDE DEF g
  <2>4. Moved(s, 0, g)
    BY <1>1, <1>3, <2>1, <2>3 DEF Moved, MayAct, InHand, Games
  <2>5. ProcessPlaying(g, Left(s, 0), Held(s, 0))
    BY <2>2, <2>3
  <2> QED
    BY <1>4, <2>1, <2>4, <2>5
<1>6. CASE Call(s)
  <2> DEFINE a == CallAmount(s)
             g == Bet(table, s, a)
  <2>1. /\ MayAct(s) /\ a <= wallet[s]
        /\ ProcessPlaying(g, Left(s, a), Held(s, a))
    BY <1>2, <1>4, <1>6 DEF Call, Pay, Left, Held
  <2>2. a = IF table.maxRate > table.roundRate[s]
            THEN table.maxRate - table.roundRate[s] ELSE 0
    BY CallNat
  <2>a. a \in Nat
    BY <1>2
  <2> HIDE DEF a
  <2>3. g \in Games
    BY <1>1, <2>a, BetGame
  <2>4. Moved(s, a, g)
    <3>1. /\ g.street = table.street /\ g.seated = table.seated
          /\ g.turn = table.turn /\ g.dealer = table.dealer
          /\ g.pot = table.pot + a /\ g.maxRate = table.maxRate /\ g.state = table.state
          /\ g.totalBet = [table.totalBet EXCEPT ![s] = @ + a]
          /\ g.roundRate = [table.roundRate EXCEPT ![s] = @ + a]
          /\ g.hasActed = [table.hasActed EXCEPT ![s] = TRUE]
      BY <1>1, <2>a, BetGame
    <3> HIDE DEF g
    <3> QED
      BY <1>1, <1>3, <2>1, <2>2, <3>1 DEF Moved, MayAct, InHand, Games
  <2> HIDE DEF g
  <2> QED
    BY <2>a, <2>1, <2>3, <2>4
<1>7. CASE \E amount \in Raises : Raise(s, amount)
  <2>1. PICK amount \in Raises : Raise(s, amount)
    BY <1>7
  <2> DEFINE a == CallAmount(s) + amount
             b == Bet(table, s, a)
             g == Raised(b, s)
  <2>2. /\ MayAct(s) /\ a <= wallet[s]
        /\ ProcessPlaying(g, Left(s, a), Held(s, a))
    BY <1>2, <1>4, <2>1 DEF Raise, Pay, Left, Held
  <2>3. amount \in Nat \ {0} /\ a \in Nat
    BY <1>2
  <2>4. /\ a > 0
        /\ table.roundRate[s] + a >= table.maxRate
    BY <1>2, <1>3, <2>3, CallNat
  <2> HIDE DEF a
  <2>5. b \in Games /\ g \in Games
    <3>1. b \in Games
      BY <1>1, <2>3, BetGame
    <3> HIDE DEF b
    <3> QED
      BY <3>1, RaisedGame
  <2>6. Moved(s, a, g)
    <3>1. /\ b.street = table.street /\ b.seated = table.seated
          /\ b.turn = table.turn /\ b.dealer = table.dealer
          /\ b.pot = table.pot + a /\ b.state = table.state
          /\ b.totalBet = [table.totalBet EXCEPT ![s] = @ + a]
          /\ b.roundRate = [table.roundRate EXCEPT ![s] = @ + a]
          /\ b.hasActed = [table.hasActed EXCEPT ![s] = TRUE]
      BY <1>a, <2>3
    <3>2. /\ g.street = b.street /\ g.seated = b.seated
          /\ g.turn = b.turn /\ g.dealer = b.dealer
          /\ g.pot = b.pot /\ g.maxRate = b.roundRate[s]
          /\ g.state = b.state /\ g.totalBet = b.totalBet
          /\ g.roundRate = b.roundRate
          /\ \A q \in Seats : g.hasActed[q]
                                 <=> b.hasActed[q] /\ (q = s \/ q \notin Active(b))
      BY <2>5, RaisedGame
    <3>3. Active(b) = Active(table)
      BY <3>1 DEF Active, InState
    <3> HIDE DEF g, b
    <3> QED
      BY <1>1, <1>3, <2>2, <2>3, <2>4, <3>1, <3>2, <3>3 DEF Moved, MayAct, InHand, Games
  <2> HIDE DEF g, b
  <2> QED
    BY <2>2, <2>3, <2>5, <2>6
<1>8. CASE AllIn(s)
  <2> DEFINE a == wallet[s]
             b == Bet(table, s, a)
             c == IF b.roundRate[s] > table.maxRate THEN Raised(b, s) ELSE b
             g == [c EXCEPT !.state[s] = "allin"]
  <2>1. /\ MayAct(s) /\ a > 0
        /\ ProcessPlaying(g, Left(s, a), Held(s, a))
    BY <1>8 DEF AllIn, Pay, Left, Held
  <2>2. b \in Games /\ c \in Games
    BY <1>1, <1>4, BetGame, RaisedGame
  <2>3. /\ b.street = table.street /\ b.seated = table.seated
        /\ b.turn = table.turn /\ b.dealer = table.dealer
        /\ b.pot = table.pot + a /\ b.state = table.state /\ b.maxRate = table.maxRate
        /\ b.totalBet = [table.totalBet EXCEPT ![s] = @ + a]
        /\ b.roundRate = [table.roundRate EXCEPT ![s] = @ + a]
        /\ b.hasActed = [table.hasActed EXCEPT ![s] = TRUE]
    BY <1>1, <1>4, BetGame
  <2>4. Active(b) = Active(table)
    BY <2>3 DEF Active, InState
  <2>5. /\ c.street = b.street /\ c.seated = b.seated /\ c.turn = b.turn
        /\ c.dealer = b.dealer /\ c.pot = b.pot /\ c.state = b.state
        /\ c.totalBet = b.totalBet /\ c.roundRate = b.roundRate
        /\ b.roundRate[s] > table.maxRate =>
              /\ c.maxRate = b.roundRate[s]
              /\ \A q \in Seats : c.hasActed[q]
                                     <=> b.hasActed[q] /\ (q = s \/ q \notin Active(b))
        /\ ~ (b.roundRate[s] > table.maxRate) =>
              c.maxRate = table.maxRate /\ c.hasActed = b.hasActed
    <3> HIDE DEF b
    <3>1. CASE b.roundRate[s] > table.maxRate
      <4>1. c = Raised(b, s)
        BY <3>1
      <4> HIDE DEF c
      <4> QED
        BY <2>2, <3>1, <4>1, RaisedGame
    <3>2. CASE ~ (b.roundRate[s] > table.maxRate)
      <4>1. c = b
        BY <3>2
      <4> HIDE DEF c
      <4> QED
        BY <2>3, <3>2, <4>1
    <3> QED
      BY <3>1, <3>2
  <2> HIDE DEF b, c
  <2>6. /\ g \in Games
        /\ g.street = c.street /\ g.seated = c.seated /\ g.turn = c.turn
        /\ g.dealer = c.dealer /\ g.pot = c.pot /\ g.maxRate = c.maxRate
        /\ g.totalBet = c.totalBet /\ g.roundRate = c.roundRate
        /\ g.hasActed = c.hasActed
        /\ g.state = [c.state EXCEPT ![s] = "allin"]
    BY <2>2 DEF Games
  <2> HIDE DEF g, a
  <2>7. b.roundRate[s] = table.roundRate[s] + a /\ a \in Nat
    BY <1>1, <1>4, <2>3 DEF Games, a
  <2>8. table.maxRate <= g.maxRate
    BY <1>3, <2>5, <2>6, <2>7
  <2>9. g.roundRate[s] <= g.maxRate
    BY <1>3, <2>5, <2>6, <2>7
  <2>10. \A q \in Seats \ {s} :
            /\ g.totalBet[q] = table.totalBet[q]
            /\ g.roundRate[q] = table.roundRate[q]
            /\ g.state[q] = table.state[q]
            /\ b.hasActed[q] = table.hasActed[q]
    BY <1>1, <2>3, <2>5, <2>6 DEF Games
  <2>11. \A q \in Seats \ {s} :
            /\ g.hasActed[q] => table.hasActed[q]
            /\ q \in Active(table) /\ g.hasActed[q] => g.maxRate = table.maxRate
    BY <2>4, <2>5, <2>6, <2>10
  <2>12. g.totalBet[s] = table.totalBet[s] + a /\ g.roundRate[s] = table.roundRate[s] + a
         /\ g.state[s] = "allin"
    BY <1>1, <2>2, <2>3, <2>5, <2>6 DEF Games
  <2>13. Moved(s, a, g)
    BY <2>1, <2>3, <2>5, <2>6, <2>8, <2>9, <2>10, <2>11, <2>12
       DEF Moved, MayAct, InHand
  <2> QED
    BY <1>4, <2>1, <2>6, <2>13 DEF a
<1> QED
  BY <1>5, <1>6, <1>7, <1>8 DEF Play

-----------------------------------------------------------------------------
(* Type correctness.                                                       *)

\* The table between two hands.
LEMMA EmptyGame ==
    ASSUME NEW d \in Seats
    PROVE  /\ EmptyTable(d) \in Games
           /\ EmptyTable(d).street = "initial" /\ EmptyTable(d).seated = {}
           /\ EmptyTable(d).pot = 0 /\ EmptyTable(d).maxRate = 0
           /\ EmptyTable(d).totalBet = [s \in Seats |-> 0]
           /\ EmptyTable(d).roundRate = [s \in Seats |-> 0]
           /\ EmptyTable(d).state = [s \in Seats |-> "active"]
           /\ EmptyTable(d).hasActed = [s \in Seats |-> FALSE]
  BY DEF EmptyTable, Games, Streets

\* Whoever starts a hand can pay the blinds, so nobody is all-in by them: the
\* small and the big blind are in the pot and nothing else.
Posted(small, big) == [s \in Seats |-> IF s = small THEN SmallBlind
                                       ELSE IF s = big THEN 2 * SmallBlind ELSE 0]

Blinds(seated, dealer, small, big, first) ==
    /\ small \in seated /\ big \in seated /\ first \in seated
    /\ Cardinality(seated) = 2 => small = dealer /\ first = small
    /\ Cardinality(seated) # 2 => /\ small = NextOccupied(seated, dealer)
                                  /\ first = NextOccupied(seated, big)
    /\ big = NextOccupied(seated, small)
    /\ table' \in Games
    /\ table'.street = "preflop" /\ table'.seated = seated
    /\ table'.dealer = dealer /\ table'.turn = first
    /\ table'.maxRate = 2 * SmallBlind
    /\ table'.state = [s \in Seats |-> "active"]
    /\ table'.hasActed = [s \in Seats |-> FALSE]
    /\ table'.roundRate = Posted(small, big)
    /\ table'.totalBet = Posted(small, big)
    /\ table'.pot = Sum(Posted(small, big), seated)
    /\ wallet' = [s \in Seats |-> wallet[s] - Posted(small, big)[s]]
    /\ \A s \in Seats : Posted(small, big)[s] <= wallet[s]

\* SetBlinds does that.
LEMMA BlindsSet ==
    ASSUME TypeOK, NEW seated \in SUBSET Seats, StartHand(seated)
    PROVE  \E dealer, small, big, first \in seated :
              Blinds(seated, dealer, small, big, first)
<1>1. /\ wallet \in [Seats -> Nat] /\ table.dealer \in Seats
      /\ \A s \in Seats : wallet[s] \in Nat
  BY DEF TypeOK
<1>2. seated # {} /\ \A s \in seated : wallet[s] >= 2 * SmallBlind
  <2>1. seated # {}
    <3>1. Cardinality(seated) >= 2
      BY DEF StartHand
    <3>2. \E s : s \in seated
      BY <3>1, SomeMember
    <3> QED
      BY <3>2
  <2> QED
    BY <2>1 DEF StartHand
<1> DEFINE dealer == NextOccupied(seated, table.dealer)
           headsUp == Cardinality(seated) = 2
           small == IF headsUp THEN dealer ELSE NextOccupied(seated, dealer)
           big == NextOccupied(seated, small)
           first == IF headsUp THEN small ELSE NextOccupied(seated, big)
           due == [s \in Seats |-> IF s = small THEN SmallBlind
                                   ELSE IF s = big THEN 2 * SmallBlind ELSE 0]
           paid == [s \in Seats |-> Blind(due[s], s)]
<1>3. dealer \in seated
  BY <1>1, <1>2, NextOccupiedSeat
<1>4. small \in seated
  <2> HIDE DEF dealer
  <2> QED
    BY <1>2, <1>3, NextOccupiedSeat
<1>5. big \in seated
  <2> HIDE DEF small
  <2> QED
    BY <1>2, <1>4, NextOccupiedSeat
<1>6. first \in seated
  <2> HIDE DEF small, big
  <2> QED
    BY <1>2, <1>4, <1>5, NextOccupiedSeat
<1>7. /\ table' = [EmptyTable(dealer) EXCEPT
                     !.street = "preflop", !.seated = seated,
                     !.state = [s \in Seats |-> IF paid[s] < due[s]
                                                THEN "allin" ELSE "active"],
                     !.roundRate = paid, !.totalBet = paid,
                     !.pot = Sum(paid, seated),
                     !.maxRate = 2 * SmallBlind, !.turn = first]
      /\ wallet' = [s \in Seats |-> wallet[s] - paid[s]]
  BY DEF StartHand, SetBlinds
<1>8. /\ Cardinality(seated) = 2 => small = dealer /\ first = small
      /\ Cardinality(seated) # 2 => /\ small = NextOccupied(seated, dealer)
                                    /\ first = NextOccupied(seated, big)
      /\ big = NextOccupied(seated, small)
  OBVIOUS
<1> HIDE DEF dealer, small, big, first
<1> DEFINE posted == Posted(small, big)
<1>9. /\ due = posted
      /\ \A s \in Seats : posted[s] \in Nat /\ posted[s] <= wallet[s]
  <2>1. \A s \in Seats : due[s] = posted[s]
    BY DEF Posted
  <2>2. due = posted
    BY <2>1 DEF Posted
  <2>3. \A s \in Seats : posted[s] \in Nat
    BY DEF Posted
  <2>4. \A s \in Seats : posted[s] <= 2 * SmallBlind /\ (s \notin seated => posted[s] = 0)
    BY <1>4, <1>5 DEF Posted
  <2> HIDE DEF posted
  <2>5. \A s \in Seats : posted[s] <= wallet[s]
    BY <1>1, <1>2, <2>3, <2>4
  <2> QED
    BY <2>2, <2>3, <2>5
<1>10. paid = posted
  BY <1>1, <1>9 DEF Blind, Posted
<1>11. [s \in Seats |-> IF paid[s] < due[s] THEN "allin" ELSE "active"]
          = [s \in Seats |-> "active"]
  <2> HIDE DEF paid, due, posted
  <2> QED
    BY <1>9, <1>10
<1>12. posted \in [Seats -> Nat] /\ Sum(posted, seated) \in Nat
  <2>1. posted \in [Seats -> Nat]
    BY <1>9 DEF Posted
  <2>2. IsFiniteSet(seated) /\ \A s \in seated : posted[s] \in Nat
    BY <1>9, SeatsFinite
  <2> HIDE DEF posted
  <2> QED
    BY <2>1, <2>2, SumNat
<1> HIDE DEF paid, due, posted
<1>13. dealer \in Seats /\ first \in Seats
  BY <1>3, <1>6
<1> DEFINE empty == EmptyTable(dealer)
           chips == Sum(posted, seated)
           active == [s \in Seats |-> "active"]
           nobody == [s \in Seats |-> FALSE]
<1>14. table' = [empty EXCEPT !.street = "preflop", !.seated = seated,
                   !.state = active, !.roundRate = posted, !.totalBet = posted,
                   !.pot = chips, !.maxRate = 2 * SmallBlind, !.turn = first]
  BY <1>7, <1>10, <1>11
<1>15. /\ empty \in Games /\ empty.dealer = dealer /\ empty.hasActed = nobody
  BY <1>13, EmptyGame DEF EmptyTable
<1>16. active \in [Seats -> {"active", "allin", "fold"}] /\ 2 * SmallBlind \in Nat
       /\ chips \in Nat
  BY <1>12
<1> HIDE DEF empty, chips, active, nobody
<1>17. /\ table' \in Games
       /\ table'.street = "preflop" /\ table'.seated = seated
       /\ table'.dealer = dealer /\ table'.turn = first
       /\ table'.maxRate = 2 * SmallBlind
       /\ table'.state = active /\ table'.hasActed = nobody
       /\ table'.roundRate = posted /\ table'.totalBet = posted
       /\ table'.pot = chips
  BY <1>12, <1>13, <1>14, <1>15, <1>16 DEF Games, Streets
<1>18. wallet' = [s \in Seats |-> wallet[s] - posted[s]]
  BY <1>7, <1>10
<1>19. Blinds(seated, dealer, small, big, first)
  BY <1>4, <1>5, <1>6, <1>8, <1>9, <1>17, <1>18
     DEF Blinds, active, nobody, posted, chips
<1> QED
  BY <1>3, <1>4, <1>5, <1>6, <1>19

\* The turn moves on, nothing else.
LEMMA TurnMoved ==
    ASSUME NEW g \in Games, NEW t \in Seats \cup {NoSeat}
    PROVE  LET h == [g EXCEPT !.turn = t]
           IN  /\ h \in Games /\ h.turn = t
               /\ h.street = g.street /\ h.seated = g.seated /\ h.pot = g.pot
               /\ h.maxRate = g.maxRate /\ h.dealer = g.dealer /\ h.state = g.state
               /\ h.roundRate = g.roundRate /\ h.totalBet = g.totalBet
               /\ h.hasActed = g.hasActed
  BY DEF Games

\* The next street: the round's rates and marks start again.
NewRound(g) == [g EXCEPT !.street = NextStreet[g.street], !.maxRate = 0,
                         !.roundRate = [s \in Seats |-> 0],
                         !.hasActed = [s \in Seats |-> FALSE]]

\* What the next street keeps and what it resets.
LEMMA NewRoundGame ==
    ASSUME NEW g \in Games, g.street \in {"preflop", "flop", "turn"}
    PROVE  /\ NewRound(g) \in Games
           /\ NewRound(g).street \in {"flop", "turn", "river"}
           /\ NewRound(g).maxRate = 0
           /\ NewRound(g).roundRate = [s \in Seats |-> 0]
           /\ NewRound(g).hasActed = [s \in Seats |-> FALSE]
           /\ NewRound(g).seated = g.seated /\ NewRound(g).pot = g.pot
           /\ NewRound(g).turn = g.turn
           /\ NewRound(g).dealer = g.dealer /\ NewRound(g).state = g.state
           /\ NewRound(g).totalBet = g.totalBet
<1>1. NextStreet[g.street] \in {"flop", "turn", "river"}
  BY DEF NextStreet
<1>2. /\ [s \in Seats |-> 0] \in [Seats -> Nat]
      /\ [s \in Seats |-> FALSE] \in [Seats -> BOOLEAN]
  OBVIOUS
<1> DEFINE rates == [s \in Seats |-> 0]
           acted == [s \in Seats |-> FALSE]
           street == NextStreet[g.street]
<1>3. NewRound(g) = [g EXCEPT !.street = street, !.maxRate = 0,
                              !.roundRate = rates, !.hasActed = acted]
  BY DEF NewRound
<1>4. /\ street \in Streets /\ rates \in [Seats -> Nat] /\ acted \in [Seats -> BOOLEAN]
  BY <1>1, <1>2 DEF Streets
<1> HIDE DEF rates, acted, street
<1> DEFINE h == [g EXCEPT !.street = street, !.maxRate = 0,
                          !.roundRate = rates, !.hasActed = acted]
<1>5. /\ h \in Games
      /\ h.street = street /\ h.maxRate = 0 /\ h.roundRate = rates
      /\ h.hasActed = acted /\ h.seated = g.seated /\ h.pot = g.pot
      /\ h.turn = g.turn /\ h.dealer = g.dealer /\ h.state = g.state
      /\ h.totalBet = g.totalBet
  BY <1>4 DEF Games
<1>6. NewRound(g) = h
  BY <1>3
<1> HIDE DEF h
<1> QED
  BY <1>1, <1>5, <1>6 DEF rates, acted, street

\* What _process_playing makes of the game: the turn moves on, the next street
\* is dealt, the hand ends, or the missing service leaves the table as it was.
TurnPasses(g, w, r) ==
    /\ ~StageNeeded(g)
    /\ table' = [g EXCEPT !.turn = NextActive(g, g.turn)]
    /\ wallet' = w /\ reserved' = r /\ vote' = vote
StreetDealt(g, w, r) ==
    /\ StageNeeded(g) /\ ~HandOver(g) /\ ServiceBound
    /\ table' = [NewRound(g) EXCEPT
                    !.turn = NextActive(NewRound(g), NextActive(NewRound(g), g.dealer))]
    /\ wallet' = w /\ reserved' = r /\ vote' = vote
HandSettled(g, w) ==
    /\ HandOver(g) /\ ServiceBound
    /\ table' = EmptyTable(g.dealer)
    /\ reserved' = [s \in Seats |-> 0] /\ vote' = NoVote
    /\ \E score \in [Contenders(g) -> Scores] :
          wallet' = [s \in Seats |-> w[s] + Payout(g, score)[s]]
NotServed(w, r) ==
    ~ServiceBound /\ wallet' = w /\ reserved' = r /\ table' = table /\ vote' = vote

\* One of the four happens.
LEMMA Processed ==
    ASSUME NEW g, NEW w, NEW r, ProcessPlaying(g, w, r)
    PROVE  /\ stake' = stake /\ hands' = hands
           /\ \/ TurnPasses(g, w, r) \/ StreetDealt(g, w, r)
              \/ HandSettled(g, w) \/ NotServed(w, r)
<1>1. stake' = stake /\ hands' = hands
  BY DEF ProcessPlaying
<1>2. \/ /\ ~StageNeeded(g)
         /\ table' = [g EXCEPT !.turn = NextActive(g, g.turn)]
         /\ wallet' = w /\ reserved' = r
         /\ UNCHANGED vote
      \/ /\ StageNeeded(g) /\ ServiceBound /\ ~HandOver(g)
         /\ table' = Dealt(g)
         /\ wallet' = w /\ reserved' = r
         /\ UNCHANGED vote
      \/ /\ StageNeeded(g) /\ ServiceBound /\ HandOver(g)
         /\ Finalize(g, w)
      \/ /\ StageNeeded(g) /\ ~ServiceBound
         /\ wallet' = w /\ reserved' = r
         /\ UNCHANGED <<table, vote>>
  BY DEF ProcessPlaying
<1>3. Dealt(g) = [NewRound(g) EXCEPT
                    !.turn = NextActive(NewRound(g), NextActive(NewRound(g), g.dealer))]
  BY DEF Dealt, NewRound
<1> QED
  BY <1>1, <1>2, <1>3 DEF TurnPasses, StreetDealt, HandSettled, NotServed, Finalize

\* The games that may follow.
LEMMA ProcessedGame ==
    ASSUME table \in Games, NEW g \in Games, g.street # "initial", NEW w, NEW r,
           ProcessPlaying(g, w, r)
    PROVE  table' \in Games
<1>1. CASE TurnPasses(g, w, r)
  <2>1. g.turn \in Seats \cup {NoSeat}
    BY DEF Games
  <2>2. NextActive(g, g.turn) \in Seats \cup {NoSeat}
    BY <2>1, NextActiveSeat
  <2> QED
    BY <1>1, <2>2, TurnMoved DEF TurnPasses
<1>2. CASE StreetDealt(g, w, r)
  <2>1. NewRound(g) \in Games
    BY <1>2, NewRoundGame DEF StreetDealt, HandOver, Games, Streets
  <2>2. NextActive(NewRound(g), g.dealer) \in Seats \cup {NoSeat}
    <3>1. g.dealer \in Seats
      BY DEF Games
    <3> QED
      BY <2>1, <3>1, NextActiveSeat
  <2> DEFINE h == NewRound(g)
             t == NextActive(h, NextActive(h, g.dealer))
  <2>3. t \in Seats \cup {NoSeat}
    <3> HIDE DEF h
    <3> QED
      BY <2>1, <2>2, NextActiveSeat DEF h
  <2>4. table' = [h EXCEPT !.turn = t]
    BY <1>2 DEF StreetDealt
  <2> HIDE DEF h, t
  <2> QED
    BY <2>1, <2>3, <2>4, TurnMoved DEF h
<1>3. CASE HandSettled(g, w)
  <2>1. g.dealer \in Seats
    BY DEF Games
  <2> QED
    BY <1>3, <2>1, EmptyGame DEF HandSettled
<1>4. CASE NotServed(w, r)
  BY <1>4 DEF NotServed
<1> QED
  BY <1>1, <1>2, <1>3, <1>4, Processed

\* And the wallets, reservations and votes.
LEMMA ProcessedTypes ==
    ASSUME TypeOK, NEW g \in Games, g.street # "initial",
           NEW w \in [Seats -> Nat], NEW r \in [Seats -> Nat],
           ProcessPlaying(g, w, r)
    PROVE  TypeOK'
<1>1. table' \in Games
  BY ProcessedGame DEF TypeOK, Games
<1>2. /\ wallet' \in [Seats -> Nat] /\ reserved' \in [Seats -> Nat]
      /\ vote' \in [active : SUBSET Seats, votes : SUBSET Seats]
  <2>1. CASE TurnPasses(g, w, r) \/ StreetDealt(g, w, r) \/ NotServed(w, r)
    BY <2>1 DEF TurnPasses, StreetDealt, NotServed, TypeOK
  <2>2. CASE HandSettled(g, w)
    <3>1. PICK score \in [Contenders(g) -> Scores] :
             wallet' = [s \in Seats |-> w[s] + Payout(g, score)[s]]
      BY <2>2 DEF HandSettled
    <3>2. \A s \in Seats : Payout(g, score)[s] \in Nat
      BY PaidNat
    <3>3. wallet' \in [Seats -> Nat]
      BY <3>1, <3>2
    <3> QED
      BY <2>2, <3>3 DEF HandSettled, NoVote
  <2> QED
    BY <2>1, <2>2, Processed
<1>3. stake' \in [Seats -> Nat] /\ hands' \in 0 .. MaxHands
  BY Processed DEF TypeOK
<1> QED
  BY <1>1, <1>2, <1>3 DEF TypeOK, Games

\* Type correctness, kept by every step.
LEMMA TypeStep ==
    ASSUME TypeOK, [Next]_vars
    PROVE  TypeOK'
<1>1. /\ table \in Games /\ wallet \in [Seats -> Nat] /\ reserved \in [Seats -> Nat]
      /\ vote \in [active : SUBSET Seats, votes : SUBSET Seats]
      /\ stake \in [Seats -> Nat] /\ hands \in 0 .. MaxHands
  BY DEF TypeOK, Games
<1>2. ASSUME NEW seated \in Seatings, StartHand(seated)
      PROVE  TypeOK'
  <2>1. PICK dealer, small, big, first \in seated :
           Blinds(seated, dealer, small, big, first)
    BY <1>2, BlindsSet
  <2>2. \A s \in Seats : Posted(small, big)[s] \in Nat
    BY DEF Posted
  <2>3. wallet' \in [Seats -> Nat]
    <3>1. \A s \in Seats : wallet[s] - Posted(small, big)[s] \in Nat
      BY <1>1, <2>1, <2>2 DEF Blinds
    <3> QED
      BY <2>1, <3>1 DEF Blinds
  <2>4. table' \in Games
    BY <2>1 DEF Blinds
  <2>5. /\ reserved' = reserved /\ vote' = vote /\ stake' = wallet /\ hands' \in 0 .. MaxHands
    BY <1>1, <1>2 DEF StartHand
  <2> QED
    BY <1>1, <2>3, <2>4, <2>5 DEF TypeOK, Games
<1>3. ASSUME NEW s \in Seats, Play(s)
      PROVE  TypeOK'
  <2>1. PICK a \in Nat, g \in Games :
           a <= wallet[s] /\ Moved(s, a, g) /\ ProcessPlaying(g, Left(s, a), Held(s, a))
    BY <1>3, PlayMoves
  <2>2. g.street # "initial"
    BY <2>1 DEF Moved, InHand
  <2>3. Left(s, a) \in [Seats -> Nat] /\ Held(s, a) \in [Seats -> Nat]
    BY <1>1, <2>1 DEF Left, Held
  <2> QED
    BY <2>1, <2>2, <2>3, ProcessedTypes
<1>4. ASSUME NEW s \in Seats, RequestStop(s) \/ ConfirmStop(s)
      PROVE  TypeOK'
  <2>1. Contenders(table) \in SUBSET Seats
    BY <1>1 DEF Contenders, InState, Games
  <2>2. vote' \in [active : SUBSET Seats, votes : SUBSET Seats]
    BY <1>1, <1>4, <2>1 DEF RequestStop, ConfirmStop
  <2> QED
    BY <1>4, <2>2 DEF RequestStop, ConfirmStop, TypeOK
<1>5. ASSUME NEW s \in Seats, CancelHand(s)
      PROVE  TypeOK'
  <2>1. table' \in Games
    <3>1. table.dealer \in Seats /\ table' = EmptyTable(table.dealer)
      BY <1>1, <1>5 DEF CancelHand, Games
    <3> QED
      BY <3>1, EmptyGame
  <2>2. wallet' \in [Seats -> Nat]
    BY <1>1, <1>5 DEF CancelHand
  <2>3. /\ reserved' \in [Seats -> Nat] /\ stake' = stake /\ hands' = hands
        /\ vote' \in [active : SUBSET Seats, votes : SUBSET Seats]
    BY <1>5 DEF CancelHand, NoVote
  <2> QED
    BY <1>1, <2>1, <2>2, <2>3 DEF TypeOK, Games
<1>6. CASE ResumePlay
  BY <1>6 DEF ResumePlay, TypeOK, NoVote
<1>7. CASE UNCHANGED vars
  BY <1>7 DEF vars, TypeOK
<1> QED
  BY <1>2, <1>3, <1>4, <1>5, <1>6, <1>7 DEF Next

\* The start of the program.
LEMMA InitTypes ==
    ASSUME Init
    PROVE  TypeOK
<1>1. 0 \in Seats
  BY DEF Seats
<1>2. table \in Games
  BY <1>1, EmptyGame DEF Init
<1>3. wallet \in [Seats -> Nat] /\ reserved \in [Seats -> Nat]
  BY DEF Init
<1> QED
  BY <1>2, <1>3 DEF Init, TypeOK, Games, NoVote

\* Whatever the wallets, the raises and the cards, and with or without the
\* service: no wallet, bet or pot is ever negative, every raise, all-in, street,
\* settlement and stop vote leaves a table of the same shape.
THEOREM PlayKeepsTypes == Spec => []TypeOK
<1>1. Init => TypeOK
  BY InitTypes
<1> QED
  BY <1>1, TypeStep, PTL DEF Spec

-----------------------------------------------------------------------------
(* The betting rounds.                                                     *)

\* Between any two actions: the pot is what the bets of the seated add up to;
\* nobody has put in more than the round asks for, and whoever has acted and
\* can still bet, exactly that; and whoever can still bet has put in as much on
\* the closed streets as anybody.  The last conjunct is EvenStakes for every
\* seat, since a player who folded may come back by an all-in where the list of
\* players has gaps; the others make it inductive.
RoundInv(g) ==
    /\ g.street = "initial" => g.seated = {} /\ g.pot = 0
    /\ g.pot = Sum(g.totalBet, g.seated)
    /\ \A s \in Seats : g.roundRate[s] <= g.maxRate /\ g.roundRate[s] <= g.totalBet[s]
    /\ \A s \in Active(g) : g.hasActed[s] => g.roundRate[s] = g.maxRate
    /\ \A s \in Active(g), q \in Seats :
          g.totalBet[q] - g.roundRate[q] <= g.totalBet[s] - g.roundRate[s]

\* The fields a game is made of are numbers and marks.
LEMMA GameFields ==
    ASSUME NEW g \in Games
    PROVE  /\ g.pot \in Nat /\ g.maxRate \in Nat /\ g.dealer \in Seats
           /\ g.seated \in SUBSET Seats /\ IsFiniteSet(g.seated)
           /\ \A s \in Seats : /\ g.roundRate[s] \in Nat /\ g.totalBet[s] \in Nat
                               /\ g.totalBet[s] \in Int
                               /\ g.hasActed[s] \in BOOLEAN
           /\ Active(g) \in SUBSET g.seated /\ Active(g) \in SUBSET Seats
           /\ Contenders(g) \in SUBSET Seats
  BY SeatsFinite DEF Games, Active, Contenders, InState

\* A player's action keeps it.
LEMMA MovedRound ==
    ASSUME TypeOK, RoundInv(table), NEW s \in Seats, NEW a \in Nat, NEW g \in Games,
           Moved(s, a, g)
    PROVE  RoundInv(g)
<1>1. table \in Games
  BY DEF TypeOK, Games
<1>2. /\ table.maxRate \in Nat /\ g.maxRate \in Nat /\ g.seated = table.seated
      /\ table.maxRate <= g.maxRate
      /\ \A q \in Seats : /\ table.roundRate[q] \in Nat /\ table.totalBet[q] \in Nat
                          /\ g.roundRate[q] \in Nat /\ g.totalBet[q] \in Nat
  BY <1>1, GameFields DEF Moved
<1>3. \A q \in Seats : /\ table.roundRate[q] <= table.maxRate
                       /\ table.roundRate[q] <= table.totalBet[q]
  BY DEF RoundInv
<1>4. \A q \in Seats \ {s} : /\ g.totalBet[q] = table.totalBet[q]
                             /\ g.roundRate[q] = table.roundRate[q]
  BY DEF Moved
<1>5. /\ g.totalBet[s] = table.totalBet[s] + a
      /\ g.roundRate[s] = table.roundRate[s] + a
  BY DEF Moved
<1>6. g.roundRate[s] <= g.maxRate
  BY <1>3 DEF Moved
<1>7. \A q \in Seats : g.roundRate[q] <= g.maxRate /\ g.roundRate[q] <= g.totalBet[q]
  BY <1>2, <1>3, <1>4, <1>5, <1>6
<1>8. \A q \in Seats : g.totalBet[q] - g.roundRate[q] = table.totalBet[q] - table.roundRate[q]
  BY <1>2, <1>4, <1>5
<1>9. \A q \in Active(g) : /\ q \in Active(table)
                           /\ q = s => g.roundRate[q] = g.maxRate
                           /\ q # s /\ g.hasActed[q] => g.roundRate[q] = g.maxRate
  <2> TAKE q \in Active(g)
  <2>1. q \in Seats /\ q \in g.seated /\ g.state[q] = "active"
    BY GameFields DEF Active, InState
  <2>2. CASE q = s
    <3>1. g.state[s] = table.state[s] /\ g.roundRate[s] = g.maxRate
      BY <1>3, <2>1, <2>2 DEF Moved
    <3> QED
      BY <1>2, <2>1, <2>2, <3>1 DEF Active, InState
  <2>3. CASE q # s
    <3>1. q \in Active(table)
      BY <1>2, <2>1, <2>3 DEF Moved, Active, InState
    <3>2. g.hasActed[q] => table.hasActed[q] /\ g.maxRate = table.maxRate
      BY <2>1, <2>3, <3>1 DEF Moved
    <3>3. table.hasActed[q] => table.roundRate[q] = table.maxRate
      BY <3>1 DEF RoundInv
    <3> QED
      BY <1>4, <2>1, <2>3, <3>1, <3>2, <3>3
  <2> QED
    BY <2>2, <2>3
<1>10. \A x \in Active(g), q \in Seats :
          g.totalBet[q] - g.roundRate[q] <= g.totalBet[x] - g.roundRate[x]
  <2> TAKE x \in Active(g), q \in Seats
  <2>1. x \in Seats /\ x \in Active(table)
    BY <1>9, GameFields
  <2>2. table.totalBet[q] - table.roundRate[q] <= table.totalBet[x] - table.roundRate[x]
    BY <2>1 DEF RoundInv
  <2> QED
    BY <1>8, <2>1, <2>2
<1>11. g.pot = Sum(g.totalBet, g.seated)
  <2> DEFINE f == table.totalBet
             h == g.totalBet
             S == table.seated
  <2>1. IsFiniteSet(S) /\ s \in S /\ \A q \in S : f[q] \in Int /\ h[q] \in Int
    BY <1>1, <1>2, GameFields DEF Moved
  <2>2. \A q \in S \ {s} : h[q] = f[q]
    BY <1>1, <1>4, GameFields
  <2>3. h[s] - f[s] = a /\ Sum(f, S) = table.pot /\ table.pot \in Nat
    BY <1>1, <1>2, <1>5, GameFields DEF RoundInv
  <2> HIDE DEF f, h, S
  <2>4. Sum(h, S) = Sum(f, S) + (h[s] - f[s])
    BY ONLY <2>1, <2>2, SumChange
  <2>5. Sum(h, S) = table.pot + a
    BY <2>3, <2>4
  <2> QED
    BY <1>2, <2>5 DEF Moved, h, S
<1>12. g.street # "initial"
  BY DEF Moved, InHand
<1> QED
  BY <1>7, <1>9, <1>10, <1>11, <1>12 DEF RoundInv

\* The blinds are the first bets.
LEMMA BlindsRound ==
    ASSUME NEW seated \in SUBSET Seats, NEW dealer \in seated, NEW small \in seated,
           NEW big \in seated, NEW first \in seated,
           Blinds(seated, dealer, small, big, first)
    PROVE  RoundInv(table')
<1> DEFINE h == table'
<1>1. /\ h \in Games /\ h.street = "preflop" /\ h.seated = seated
      /\ h.pot = Sum(Posted(small, big), seated)
      /\ h.totalBet = Posted(small, big) /\ h.roundRate = Posted(small, big)
      /\ h.maxRate = 2 * SmallBlind /\ h.hasActed = [s \in Seats |-> FALSE]
  BY DEF Blinds
<1>2. \A s \in Seats : Posted(small, big)[s] \in Nat /\ Posted(small, big)[s] <= 2 * SmallBlind
  BY DEF Posted
<1> HIDE DEF h
<1>3. Active(h) \in SUBSET Seats
  BY <1>1, GameFields
<1>4. RoundInv(h)
  BY <1>1, <1>2, <1>3 DEF RoundInv
<1> QED
  BY <1>4 DEF h

\* Between hands there are no bets.
LEMMA EmptyRound ==
    ASSUME NEW d \in Seats
    PROVE  RoundInv(EmptyTable(d))
<1> DEFINE h == EmptyTable(d)
<1>1. /\ h \in Games /\ h.street = "initial" /\ h.seated = {} /\ h.pot = 0
      /\ h.totalBet = [s \in Seats |-> 0] /\ h.roundRate = [s \in Seats |-> 0]
      /\ h.maxRate = 0
  BY EmptyGame
<1> HIDE DEF h
<1>2. Active(h) = {}
  BY <1>1 DEF Active, InState
<1>3. Sum(h.totalBet, h.seated) = 0
  BY <1>1, SumEmpty
<1>4. RoundInv(h)
  BY <1>1, <1>2, <1>3 DEF RoundInv
<1> QED
  BY <1>4 DEF h

\* A street that ends leaves those who can still bet even.
LEMMA NewRoundInv ==
    ASSUME NEW g \in Games, RoundInv(g), g.street \in {"preflop", "flop", "turn"},
           IsBettingRoundOver(g)
    PROVE  RoundInv(NewRound(g))
<1> DEFINE h == NewRound(g)
<1>1. /\ h \in Games /\ h.street # "initial" /\ h.maxRate = 0
      /\ h.roundRate = [s \in Seats |-> 0] /\ h.hasActed = [s \in Seats |-> FALSE]
      /\ h.seated = g.seated /\ h.pot = g.pot /\ h.state = g.state
      /\ h.totalBet = g.totalBet
  BY NewRoundGame
<1> HIDE DEF h
<1>2. Active(h) = Active(g)
  BY <1>1 DEF Active, InState
<1>3. \A s \in Active(g), q \in Seats : g.totalBet[q] <= g.totalBet[s]
  <2> TAKE s \in Active(g), q \in Seats
  <2>1. s \in Seats
    BY GameFields
  <2>2. /\ g.totalBet[s] \in Nat /\ g.totalBet[q] \in Nat /\ g.roundRate[s] \in Nat
        /\ g.roundRate[q] \in Nat /\ g.maxRate \in Nat
    BY <2>1, GameFields
  <2>3. g.roundRate[s] = g.maxRate /\ g.roundRate[q] <= g.maxRate
    BY DEF RoundInv, IsBettingRoundOver
  <2>4. g.totalBet[q] - g.roundRate[q] <= g.totalBet[s] - g.roundRate[s]
    BY DEF RoundInv
  <2> QED
    BY <2>2, <2>3, <2>4
<1>4. \A s \in Seats : g.totalBet[s] \in Nat
  BY GameFields
<1>5. Active(g) \in SUBSET Seats
  BY GameFields
<1>6. h.pot = Sum(h.totalBet, h.seated)
  BY <1>1 DEF RoundInv
<1>7. \A s \in Seats : h.roundRate[s] <= h.maxRate /\ h.roundRate[s] <= h.totalBet[s]
  BY <1>1, <1>4
<1>8. \A s \in Active(h) : h.hasActed[s] => h.roundRate[s] = h.maxRate
  BY <1>1, <1>2, <1>5
<1>9. \A s \in Active(h), q \in Seats :
         h.totalBet[q] - h.roundRate[q] <= h.totalBet[s] - h.roundRate[s]
  BY <1>1, <1>2, <1>3, <1>4, <1>5
<1>10. RoundInv(h)
  BY <1>1, <1>6, <1>7, <1>8, <1>9 DEF RoundInv
<1> QED
  BY <1>10 DEF h

\* The turn has no part in it.
LEMMA TurnRound ==
    ASSUME NEW g \in Games, RoundInv(g), NEW t \in Seats \cup {NoSeat}
    PROVE  RoundInv([g EXCEPT !.turn = t])
<1> DEFINE h == [g EXCEPT !.turn = t]
<1>1. /\ h.street = g.street /\ h.seated = g.seated /\ h.pot = g.pot
      /\ h.maxRate = g.maxRate /\ h.state = g.state
      /\ h.roundRate = g.roundRate /\ h.totalBet = g.totalBet
      /\ h.hasActed = g.hasActed
  BY TurnMoved
<1> HIDE DEF h
<1>2. Active(h) = Active(g)
  BY <1>1 DEF Active, InState
<1>3. RoundInv(h)
  BY <1>1, <1>2 DEF RoundInv
<1> QED
  BY <1>3 DEF h

\* A street is dealt only when several players are left, some of whom can bet.
LEMMA DealtWhen ==
    ASSUME NEW g \in Games, g.street # "initial", NEW w, NEW r, StreetDealt(g, w, r)
    PROVE  /\ g.street \in {"preflop", "flop", "turn"}
           /\ IsBettingRoundOver(g) /\ Active(g) # {}
           /\ ~ (Cardinality(Contenders(g)) <= 1)
           /\ NewRound(g) \in Games
           /\ \E t \in Seats \cup {NoSeat} :
                 /\ t = NextActive(NewRound(g), NextActive(NewRound(g), g.dealer))
                 /\ table' = [NewRound(g) EXCEPT !.turn = t]
<1>1. /\ g.street \in {"preflop", "flop", "turn"}
      /\ IsBettingRoundOver(g) /\ Active(g) # {}
      /\ ~ (Cardinality(Contenders(g)) <= 1)
  BY DEF StreetDealt, HandOver, StageNeeded, Games, Streets
<1> DEFINE h == NewRound(g)
           t == NextActive(h, NextActive(h, g.dealer))
<1>2. h \in Games
  BY <1>1, NewRoundGame
<1>3. NextActive(h, g.dealer) \in Seats \cup {NoSeat}
  <2>1. g.dealer \in Seats
    BY DEF Games
  <2> HIDE DEF h
  <2> QED
    BY <1>2, <2>1, NextActiveSeat
<1>4. t \in Seats \cup {NoSeat}
  <2> HIDE DEF h
  <2> QED
    BY <1>2, <1>3, NextActiveSeat
<1>5. table' = [h EXCEPT !.turn = t]
  BY DEF StreetDealt
<1> HIDE DEF t
<1>6. \E x \in Seats \cup {NoSeat} : x = t /\ table' = [h EXCEPT !.turn = x]
  BY <1>4, <1>5
<1> QED
  BY <1>1, <1>2, <1>6 DEF t

\* Whatever follows an action keeps the round's invariant.
LEMMA ProcessedRound ==
    ASSUME RoundInv(table), NEW g \in Games, g.street # "initial", RoundInv(g),
           NEW w, NEW r, ProcessPlaying(g, w, r)
    PROVE  RoundInv(table')
<1>1. CASE TurnPasses(g, w, r)
  <2>1. g.turn \in Seats \cup {NoSeat}
    BY DEF Games
  <2>2. NextActive(g, g.turn) \in Seats \cup {NoSeat}
    BY <2>1, NextActiveSeat
  <2> QED
    BY <1>1, <2>2, TurnRound DEF TurnPasses
<1>2. CASE StreetDealt(g, w, r)
  <2>1. NewRound(g) \in Games /\ RoundInv(NewRound(g))
    BY <1>2, DealtWhen, NewRoundInv
  <2>2. PICK t \in Seats \cup {NoSeat} : table' = [NewRound(g) EXCEPT !.turn = t]
    BY <1>2, DealtWhen
  <2> QED
    BY <2>1, <2>2, TurnRound
<1>3. CASE HandSettled(g, w)
  <2>1. g.dealer \in Seats
    BY DEF Games
  <2> QED
    BY <1>3, <2>1, EmptyRound DEF HandSettled
<1>4. CASE NotServed(w, r)
  BY <1>4 DEF NotServed
<1> QED
  BY <1>1, <1>2, <1>3, <1>4, Processed

\* Every step keeps it.
LEMMA RoundStep ==
    ASSUME TypeOK, RoundInv(table), [Next]_vars
    PROVE  RoundInv(table')
<1>1. ASSUME NEW seated \in Seatings, StartHand(seated)
      PROVE  RoundInv(table')
  <2>1. seated \in SUBSET Seats
    OBVIOUS
  <2> QED
    BY <1>1, <2>1, BlindsSet, BlindsRound
<1>2. ASSUME NEW s \in Seats, Play(s)
      PROVE  RoundInv(table')
  <2>1. PICK a \in Nat, g \in Games :
           Moved(s, a, g) /\ ProcessPlaying(g, Left(s, a), Held(s, a))
    BY <1>2, PlayMoves
  <2>2. RoundInv(g) /\ g.street # "initial"
    BY <2>1, MovedRound DEF Moved, InHand
  <2> QED
    BY <2>1, <2>2, ProcessedRound
<1>3. ASSUME NEW s \in Seats, CancelHand(s)
      PROVE  RoundInv(table')
  <2>1. table.dealer \in Seats /\ table' = EmptyTable(table.dealer)
    BY <1>3 DEF CancelHand, TypeOK
  <2> QED
    BY <2>1, EmptyRound
<1>4. CASE table' = table
  BY <1>4
<1> QED
  BY <1>1, <1>2, <1>3, <1>4 DEF Next, RequestStop, ConfirmStop, ResumePlay, vars

\* No betting round closes on uneven stakes, at any table, for any wallets and
\* raises: whoever can still bet has put in as much on the closed streets as any
\* other contender (IsBettingRoundOver, collect_bets_for_pot).
THEOREM StakesStayEven == Spec => []EvenStakes
<1>1. Init => TypeOK /\ RoundInv(table)
  <2> SUFFICES ASSUME Init PROVE TypeOK /\ RoundInv(table)
    OBVIOUS
  <2>1. 0 \in Seats /\ table = EmptyTable(0)
    BY DEF Seats, Init
  <2> QED
    BY <2>1, InitTypes, EmptyRound
<1>2. TypeOK /\ RoundInv(table) /\ [Next]_vars => TypeOK' /\ RoundInv(table)'
  BY TypeStep, RoundStep
<1>3. TypeOK /\ RoundInv(table) => EvenStakes
  <2> SUFFICES ASSUME TypeOK, RoundInv(table),
                      NEW s \in Active(table), NEW q \in Contenders(table)
               PROVE  EarlierBets(s) >= EarlierBets(q)
    BY DEF EvenStakes
  <2>1. table \in Games
    BY DEF TypeOK, Games
  <2>2. s \in Seats /\ q \in Seats
    BY <2>1, GameFields
  <2>3. /\ table.totalBet[s] \in Nat /\ table.totalBet[q] \in Nat
        /\ table.roundRate[s] \in Nat /\ table.roundRate[q] \in Nat
    BY <2>1, <2>2, GameFields
  <2>4. table.totalBet[q] - table.roundRate[q] <= table.totalBet[s] - table.roundRate[s]
    BY <2>2 DEF RoundInv
  <2> QED
    BY <2>3, <2>4 DEF EarlierBets
<1> QED
  BY <1>1, <1>2, <1>3, PTL DEF Spec

-----------------------------------------------------------------------------
(* The turn, at a table whose lowest seats are taken: only there is the     *)
(* index of a player in the list of players the player's seat.             *)

\* What joining players are given.
NoGaps == Seatings \subseteq {0 .. n - 1 : n \in 2 .. MaxPlayers}

\* The seat after x, going round n seats.
After(n, x) == IF x + 1 = n THEN 0 ELSE x + 1

\* Counting on from a seat, once round at most.
LEMMA CountOn ==
    ASSUME NEW n \in Nat \ {0}, NEW x \in 0 .. n - 1, NEW i \in 1 .. n
    PROVE  (x + i) % n = IF x + i < n THEN x + i ELSE x + i - n
<1>1. CASE x + i < n
  <2>1. x + i \in 0 .. n - 1
    BY <1>1
  <2> QED
    BY <1>1, <2>1, ModOnce
<1>2. CASE ~ (x + i < n)
  <2>1. x + i - n \in 0 .. n - 1 /\ (x + i - n) + n = x + i
    BY <1>2
  <2>2. ((x + i - n) + n) % n = x + i - n
    BY <2>1, ModOnce
  <2> QED
    BY <1>2, <2>1, <2>2
<1> QED
  BY <1>1, <1>2

\* The least of a set that has 1 and no 0.
LEMMA MinOne ==
    ASSUME NEW T \in SUBSET (Nat \ {0}), 1 \in T
    PROVE  Min(T) = 1
<1>1. T \in SUBSET Nat /\ T # {}
  OBVIOUS
<1>2. Min(T) \in T /\ \A m \in T : Min(T) <= m
  BY <1>1, MinIsLeast
<1> DEFINE m == Min(T)
<1> HIDE DEF m
<1>3. m \in T /\ m <= 1
  BY <1>2 DEF m
<1>4. m \in Nat \ {0}
  BY <1>3
<1>5. m = 1
  BY <1>3, <1>4
<1> QED
  BY <1>5 DEF m

\* The next occupied seat is the next one.
LEMMA NextOccupiedAfter ==
    ASSUME NEW n \in 1 .. MaxPlayers, NEW x \in 0 .. n - 1
    PROVE  NextOccupied(0 .. n - 1, x) = After(n, x)
<1> DEFINE steps == {i \in 1 .. MaxPlayers : (x + i) % MaxPlayers \in 0 .. n - 1}
<1>1. /\ n \in Nat /\ n <= MaxPlayers /\ n > 0
      /\ x \in 0 .. MaxPlayers - 1 /\ x \in Nat /\ MaxPlayers \in Nat \ {0}
  OBVIOUS
<1>2. \A i \in 1 .. MaxPlayers :
         (x + i) % MaxPlayers = IF x + i < MaxPlayers THEN x + i ELSE x + i - MaxPlayers
  BY <1>1, CountOn
<1>3. NextOccupied(0 .. n - 1, x) = (x + Min(steps)) % MaxPlayers
  BY DEF NextOccupied
<1>4. steps \in SUBSET (Nat \ {0})
  OBVIOUS
<1>5. CASE x + 1 < n \/ n = MaxPlayers
  <2>1. 1 \in 1 .. MaxPlayers
    BY <1>1
  <2>2. (x + 1) % MaxPlayers = After(n, x)
    BY <1>1, <1>2, <1>5, <2>1 DEF After
  <2>3. After(n, x) \in 0 .. n - 1
    BY <1>1 DEF After
  <2>4. 1 \in steps
    BY <2>1, <2>2, <2>3
  <2>5. Min(steps) = 1
    <3> HIDE DEF steps
    <3> QED
      BY <1>4, <2>4, MinOne
  <2> QED
    BY <1>3, <2>2, <2>5
<1>6. CASE x + 1 = n /\ n < MaxPlayers
  <2> DEFINE m == MaxPlayers - x
  <2>1. m \in 1 .. MaxPlayers /\ x + m = MaxPlayers /\ m \in Nat
    BY <1>1
  <2>2. (x + m) % MaxPlayers = 0
    BY <1>1, <1>2, <2>1
  <2>3. m \in steps
    BY <1>1, <2>1, <2>2
  <2>4. \A i \in 1 .. MaxPlayers : i < m => (x + i) % MaxPlayers = x + i
    BY <1>1, <1>2
  <2>5. \A i \in steps : ~ (i < m)
    BY <1>1, <1>6, <2>4
  <2>6. Min(steps) = m
    <3>1. \A i \in steps : i \in Nat
      OBVIOUS
    <3> HIDE DEF steps, m
    <3>2. Min(steps) \in steps /\ Min(steps) <= m
      <4>1. steps \in SUBSET Nat /\ steps # {}
        BY <1>4, <2>3
      <4> QED
        BY <2>3, <4>1, MinIsLeast
    <3> QED
      BY <2>1, <2>5, <3>1, <3>2
  <2>7. After(n, x) = 0
    BY <1>6 DEF After
  <2> HIDE DEF m, steps
  <2> QED
    BY <1>3, <2>2, <2>6, <2>7
<1> QED
  BY <1>1, <1>5, <1>6

\* Without gaps, the i-th player sits on seat i.
LEMMA PlayerAtSeat ==
    ASSUME NEW g \in Games, NEW n \in Nat, g.seated = 0 .. n - 1, NEW i \in 0 .. n - 1
    PROVE  PlayerAt(g, i) = i
<1>1. \A s \in 0 .. n - 1 : Cardinality({q \in 0 .. n - 1 : q < s}) = s
  <2> TAKE s \in 0 .. n - 1
  <2>1. {q \in 0 .. n - 1 : q < s} = 0 .. s - 1
    OBVIOUS
  <2>2. s \in Int /\ s - 1 \in Int /\ s >= 0
    OBVIOUS
  <2>3. Cardinality(0 .. s - 1) = IF 0 > s - 1 THEN 0 ELSE s - 1 - 0 + 1
    BY <2>2, FS_Interval
  <2>4. Cardinality(0 .. s - 1) = s
    BY <2>2, <2>3
  <2> QED
    BY <2>1, <2>4
<1>2. i \in g.seated /\ Cardinality({q \in g.seated : q < i}) = i
  BY <1>1
<1>3. \A s \in g.seated : Cardinality({q \in g.seated : q < s}) = i => s = i
  BY <1>1
<1> QED
  BY <1>2, <1>3 DEF PlayerAt

\* So the turn comes to a player who can act, and to the next seat when its
\* player can.
LEMMA NextActivePlays ==
    ASSUME NEW g \in Games, NEW n \in Nat \ {0}, g.seated = 0 .. n - 1,
           NEW x \in 0 .. n - 1, Active(g) # {}
    PROVE  /\ NextActive(g, x) \in Active(g)
           /\ After(n, x) \in Active(g) => NextActive(g, x) = After(n, x)
<1> DEFINE steps == {i \in 1 .. n : PlayerAt(g, (x + i) % n) \in Active(g)}
<1>1. Cardinality(g.seated) = n
  <2>1. Cardinality(0 .. n - 1) = IF 0 > n - 1 THEN 0 ELSE n - 1 - 0 + 1
    <3>1. 0 \in Int /\ n - 1 \in Int
      OBVIOUS
    <3> QED
      BY <3>1, FS_Interval
  <2> QED
    BY <2>1
<1>2. NextActive(g, x) = IF steps = {} THEN NoSeat ELSE (x + Min(steps)) % n
  BY <1>1 DEF NextActive
<1>3. \A i \in 1 .. n : /\ (x + i) % n = IF x + i < n THEN x + i ELSE x + i - n
                        /\ (x + i) % n \in 0 .. n - 1
  <2> TAKE i \in 1 .. n
  <2>1. (x + i) % n = IF x + i < n THEN x + i ELSE x + i - n
    BY CountOn
  <2> QED
    BY <2>1
<1>4. \A i \in 1 .. n : PlayerAt(g, (x + i) % n) = (x + i) % n
  BY <1>3, PlayerAtSeat
<1>5. steps = {i \in 1 .. n : (x + i) % n \in Active(g)}
  BY <1>4
<1>6. steps # {}
  <2>1. PICK a \in Active(g) : a \in 0 .. n - 1
    BY DEF Active, InState
  <2> DEFINE i == IF a > x THEN a - x ELSE a - x + n
  <2>2. i \in 1 .. n /\ (x + i < n => x + i = a) /\ (~ (x + i < n) => x + i - n = a)
    BY <2>1
  <2>3. (x + i) % n = a
    BY <1>3, <2>2
  <2> QED
    BY <1>5, <2>2, <2>3
<1>7. steps \in SUBSET (Nat \ {0}) /\ steps \in SUBSET Nat
  OBVIOUS
<1>8. Min(steps) \in steps
  <2> HIDE DEF steps
  <2> QED
    BY <1>6, <1>7, MinIsLeast
<1>9. NextActive(g, x) \in Active(g)
  <2>1. NextActive(g, x) = (x + Min(steps)) % n
    BY <1>2, <1>6
  <2>2. (x + Min(steps)) % n \in Active(g)
    BY <1>5, <1>8
  <2> QED
    BY <2>1, <2>2
<1>10. ASSUME After(n, x) \in Active(g)
       PROVE  NextActive(g, x) = After(n, x)
  <2>1. 1 \in 1 .. n /\ (x + 1) % n = After(n, x)
    BY <1>3 DEF After
  <2>2. 1 \in steps
    BY <1>5, <1>10, <2>1
  <2>3. Min(steps) = 1
    <3> HIDE DEF steps
    <3> QED
      BY <1>7, <2>2, MinOne
  <2> QED
    BY <1>2, <1>6, <2>1, <2>3
<1> QED
  BY <1>9, <1>10

\* How many turns away from the one on turn t a seat is, going round n seats.
Distance(n, t, s) == IF s >= t THEN s - t ELSE s - t + n

\* The contenders who have nothing in the pot, and whether anyone has.
Unpaid(g) == {s \in Contenders(g) : g.totalBet[s] = 0}
HasBets(g) == \E s \in Contenders(g) : g.totalBet[s] > 0

\* While a hand is played, the turn is with a player who can act, at least two
\* contend for the pot and one of them has chips in it.  The last part is not
\* inductive by itself: the contenders who have not paid yet are the next k to
\* act, so none of those who have paid can fold before them.
InTurn(g, n, k) ==
    /\ g.seated = 0 .. n - 1 /\ g.dealer \in g.seated
    /\ g.turn \in Active(g)
    /\ Cardinality(Contenders(g)) >= 2
    /\ HasBets(g)
    /\ Unpaid(g) \subseteq Active(g)
    /\ Unpaid(g) # {} => g.maxRate > 0
    /\ Unpaid(g) = {s \in g.seated : Distance(n, g.turn, s) < k}

TurnInv(g) == g.street # "initial" => \E n \in 2 .. MaxPlayers, k \in 0 .. MaxPlayers :
                                          k <= n /\ InTurn(g, n, k)

\* Of two, one is another.
LEMMA SomeOther ==
    ASSUME NEW S, IsFiniteSet(S), Cardinality(S) >= 2, NEW x
    PROVE  \E y \in S : y # x
<1> SUFFICES ASSUME S \ {x} = {} PROVE FALSE
  OBVIOUS
<1>1. Cardinality(S \ {x}) = IF x \in S THEN Cardinality(S) - 1 ELSE Cardinality(S)
  BY FS_RemoveElement
<1>2. Cardinality(S \ {x}) = 0
  BY FS_EmptySet
<1>3. Cardinality(S) \in Nat
  BY FS_CardinalityType
<1> QED
  BY <1>1, <1>2, <1>3

\* After an action, only its player can have stopped contending, and has paid.
LEMMA MovedTurn ==
    ASSUME TypeOK, RoundInv(table), NEW n \in 2 .. MaxPlayers, NEW k \in 0 .. MaxPlayers,
           k <= n, InTurn(table, n, k), NEW s \in Seats, NEW a \in Nat, NEW g \in Games,
           Moved(s, a, g)
    PROVE  /\ g.seated = 0 .. n - 1 /\ g.dealer \in g.seated /\ g.turn = s
           /\ s \in 0 .. n - 1
           /\ HasBets(g) /\ Unpaid(g) \subseteq Active(g)
           /\ Unpaid(g) = Unpaid(table) \ {s}
           /\ Unpaid(g) # {} => g.maxRate > 0
<1>1. table \in Games
  BY DEF TypeOK, Games
<1>2. /\ g.seated = table.seated /\ g.seated = 0 .. n - 1 /\ g.dealer \in g.seated
      /\ g.turn = s /\ table.turn = s /\ s \in g.seated
  BY DEF Moved, InTurn
<1>3. s \in Active(table) /\ s \in Contenders(table)
  BY <1>2 DEF InTurn, Active, Contenders, InState
<1>4. /\ \A q \in Seats : /\ g.totalBet[q] \in Nat /\ table.totalBet[q] \in Nat
                          /\ table.roundRate[q] \in Nat
                          /\ table.roundRate[q] <= table.totalBet[q]
      /\ table.maxRate \in Nat /\ g.maxRate \in Nat
      /\ Contenders(table) \in SUBSET Seats /\ Contenders(g) \in SUBSET Seats
      /\ IsFiniteSet(Contenders(table))
  BY <1>1, GameFields, SeatsFinite DEF RoundInv
<1>5. \A q \in Seats \ {s} :
         /\ q \in Contenders(g) <=> q \in Contenders(table)
         /\ q \in Active(g) <=> q \in Active(table)
         /\ g.totalBet[q] = table.totalBet[q]
  BY <1>2 DEF Moved, Active, Contenders, InState
<1>6. s \in Contenders(g) => g.totalBet[s] > 0
  <2> SUFFICES ASSUME s \in Contenders(g), g.totalBet[s] = 0 PROVE FALSE
    BY <1>4
  <2>1. g.totalBet[s] = table.totalBet[s] + a
    BY DEF Moved
  <2>2. a = 0 /\ table.totalBet[s] = 0
    BY <1>4, <2>1
  <2>3. s \in Unpaid(table) /\ table.roundRate[s] = 0
    BY <1>3, <1>4, <2>2 DEF Unpaid
  <2>4. table.maxRate > 0
    BY <2>3 DEF InTurn
  <2>5. g.state[s] # "fold"
    BY DEF Contenders, InState
  <2>6. table.roundRate[s] >= table.maxRate
    BY <2>2, <2>5 DEF Moved
  <2> QED
    BY <1>4, <2>3, <2>4, <2>6
<1>7. Unpaid(g) = Unpaid(table) \ {s}
  <2>1. \A q \in Unpaid(g) : q \in Unpaid(table) \ {s}
    <3> TAKE q \in Unpaid(g)
    <3>1. q \in Contenders(g) /\ g.totalBet[q] = 0 /\ q \in Seats
      BY <1>4 DEF Unpaid
    <3>2. q # s
      BY <1>6, <3>1
    <3> QED
      BY <1>5, <3>1, <3>2 DEF Unpaid
  <2>2. \A q \in Unpaid(table) \ {s} : q \in Unpaid(g)
    <3> TAKE q \in Unpaid(table) \ {s}
    <3>1. q \in Contenders(table) /\ table.totalBet[q] = 0 /\ q \in Seats \ {s}
      BY <1>4 DEF Unpaid
    <3> QED
      BY <1>5, <3>1 DEF Unpaid
  <2> QED
    BY <2>1, <2>2
<1>8. Unpaid(g) \subseteq Active(g)
  <2> SUFFICES ASSUME NEW q \in Unpaid(g) PROVE q \in Active(g)
    OBVIOUS
  <2>1. q \in Unpaid(table) /\ q # s
    BY <1>7
  <2>2. q \in Active(table) /\ q \in Seats
    BY <1>4, <2>1 DEF InTurn, Unpaid
  <2> QED
    BY <1>5, <2>1, <2>2
<1>9. Unpaid(g) # {} => g.maxRate > 0
  <2> SUFFICES ASSUME NEW q \in Unpaid(g) PROVE g.maxRate > 0
    OBVIOUS
  <2>1. q \in Unpaid(table)
    BY <1>7
  <2>2. table.maxRate > 0
    BY <2>1 DEF InTurn
  <2>3. table.maxRate <= g.maxRate
    BY DEF Moved
  <2> QED
    BY <1>4, <2>2, <2>3
<1>10. HasBets(g)
  <2>1. CASE s \in Unpaid(table)
    <3>1. PICK q \in Contenders(table) : table.totalBet[q] > 0
      BY DEF InTurn, HasBets
    <3>2. q # s /\ q \in Seats
      BY <1>4, <2>1, <3>1 DEF Unpaid
    <3> QED
      BY <1>5, <3>1, <3>2 DEF HasBets
  <2>2. CASE s \notin Unpaid(table)
    <3>1. Unpaid(table) = {}
      <4> SUFFICES ASSUME NEW q \in Unpaid(table) PROVE FALSE
        OBVIOUS
      <4>1. q \in 0 .. n - 1 /\ Distance(n, s, q) < k
        BY <1>2 DEF InTurn
      <4>2. s \in 0 .. n - 1
        BY <1>2
      <4>3. 0 < k
        BY <4>1, <4>2 DEF Distance
      <4>4. Distance(n, s, s) = 0
        BY <4>2 DEF Distance
      <4>5. s \in Unpaid(table)
        BY <1>2, <4>3, <4>4 DEF InTurn
      <4> QED
        BY <2>2, <4>5
    <3> DEFINE C == Contenders(table)
    <3>a. IsFiniteSet(C) /\ Cardinality(C) >= 2
      BY <1>4 DEF InTurn
    <3>b. \E q \in C : q # s
      <4> HIDE DEF C
      <4> QED
        BY ONLY <3>a, SomeOther
    <3>2. PICK q \in Contenders(table) : q # s
      BY <3>b
    <3>3. q \in Seats /\ q \in Contenders(g)
      BY <1>4, <1>5, <3>2
    <3>4. q \notin Unpaid(g)
      BY <1>7, <3>1
    <3>5. g.totalBet[q] > 0
      BY <1>4, <3>3, <3>4 DEF Unpaid
    <3> QED
      BY <3>3, <3>5 DEF HasBets
  <2> QED
    BY <2>1, <2>2
<1> QED
  BY <1>2, <1>7, <1>8, <1>9, <1>10

\* The players and bets of two games are the same but for the turn and the round.
LEMMA SamePlayers ==
    ASSUME NEW g, NEW h, h.seated = g.seated, h.state = g.state, h.totalBet = g.totalBet
    PROVE  /\ Active(h) = Active(g) /\ Contenders(h) = Contenders(g)
           /\ Unpaid(h) = Unpaid(g) /\ HasBets(h) <=> HasBets(g)
  BY DEF Active, Contenders, InState, Unpaid, HasBets

\* Then the turn passes to the next of those who have not paid, if any is left.
LEMMA TurnPassed ==
    ASSUME TypeOK, RoundInv(table), NEW n \in 2 .. MaxPlayers, NEW k \in 0 .. MaxPlayers,
           k <= n, InTurn(table, n, k), NEW s \in Seats, NEW a \in Nat, NEW g \in Games,
           Moved(s, a, g), NEW w, NEW r, TurnPasses(g, w, r)
    PROVE  TurnInv(table')
<1>1. /\ g.seated = 0 .. n - 1 /\ g.dealer \in g.seated /\ g.turn = s
      /\ s \in 0 .. n - 1
      /\ HasBets(g) /\ Unpaid(g) \subseteq Active(g)
      /\ Unpaid(g) = Unpaid(table) \ {s}
      /\ Unpaid(g) # {} => g.maxRate > 0
  BY MovedTurn
<1>2. n \in Nat \ {0} /\ k \in Nat /\ n >= 2
  OBVIOUS
<1>3. Unpaid(table) = {q \in 0 .. n - 1 : Distance(n, s, q) < k}
  BY DEF InTurn, Moved
<1>4. Active(g) # {} /\ Cardinality(Contenders(g)) >= 2
  <2>1. ~ (Cardinality(Contenders(g)) <= 1) /\ ~ IsBettingRoundOver(g)
    BY DEF TurnPasses, StageNeeded
  <2>2. Contenders(g) \in SUBSET Seats
    BY GameFields
  <2>3. Cardinality(Contenders(g)) \in Nat
    BY <2>2, SeatsFinite
  <2> QED
    BY <2>1, <2>3 DEF IsBettingRoundOver
<1> DEFINE t == NextActive(g, s)
           h == [g EXCEPT !.turn = t]
<1>5. t \in Active(g) /\ (After(n, s) \in Active(g) => t = After(n, s))
  BY <1>1, <1>2, <1>4, NextActivePlays
<1>6. t \in Seats /\ t \in 0 .. n - 1
  BY <1>1, <1>5, GameFields
<1> HIDE DEF t
<1>7. /\ h.turn = t /\ h.street = g.street /\ h.seated = g.seated
      /\ h.maxRate = g.maxRate /\ h.dealer = g.dealer /\ h.state = g.state
      /\ h.totalBet = g.totalBet
  BY <1>6, TurnMoved
<1>8. table' = h
  BY <1>1 DEF TurnPasses, t
<1> HIDE DEF h
<1>9. /\ Active(h) = Active(g) /\ Contenders(h) = Contenders(g)
      /\ Unpaid(h) = Unpaid(g) /\ HasBets(h)
  BY <1>1, <1>7, SamePlayers
<1>10. \E j \in 0 .. MaxPlayers :
          j <= n /\ Unpaid(g) = {q \in 0 .. n - 1 : Distance(n, t, q) < j}
  <2>1. CASE k <= 1
    <3>1. \A q \in 0 .. n - 1 : Distance(n, s, q) < k => q = s
      BY <1>1, <1>2, <2>1 DEF Distance
    <3>2. Unpaid(g) = {}
      BY <1>1, <1>3, <3>1
    <3>3. \A q \in 0 .. n - 1 : ~ (Distance(n, t, q) < 0)
      BY <1>2, <1>6 DEF Distance
    <3>4. 0 \in 0 .. MaxPlayers /\ 0 <= n
      BY <1>2
    <3> QED
      BY <3>2, <3>3, <3>4
  <2>2. CASE k >= 2
    <3>1. After(n, s) \in 0 .. n - 1 /\ After(n, s) # s
          /\ Distance(n, s, After(n, s)) = 1
      BY <1>1, <1>2 DEF After, Distance
    <3>2. After(n, s) \in Unpaid(g)
      BY <1>1, <1>3, <2>2, <3>1
    <3>3. t = After(n, s)
      BY <1>1, <1>5, <3>2
    <3>4. \A q \in 0 .. n - 1 : Distance(n, t, q) < k - 1
                                   <=> Distance(n, s, q) < k /\ q # s
      BY <1>1, <1>2, <2>2, <3>3 DEF After, Distance
    <3>5. Unpaid(g) = {q \in 0 .. n - 1 : Distance(n, t, q) < k - 1}
      BY <1>1, <1>3, <3>4
    <3>6. k - 1 \in 0 .. MaxPlayers /\ k - 1 <= n
      BY <1>2, <2>2
    <3> QED
      BY <3>5, <3>6
  <2> QED
    BY <1>2, <2>1, <2>2
<1>11. PICK j \in 0 .. MaxPlayers :
          j <= n /\ Unpaid(g) = {q \in 0 .. n - 1 : Distance(n, t, q) < j}
  BY <1>10
<1>12. InTurn(h, n, j)
  BY <1>1, <1>4, <1>5, <1>7, <1>9, <1>11 DEF InTurn
<1> QED
  BY <1>8, <1>11, <1>12 DEF TurnInv

\* When a street is dealt, everyone left has paid.
LEMMA DealtPaid ==
    ASSUME NEW g \in Games, RoundInv(g), IsBettingRoundOver(g),
           Unpaid(g) \subseteq Active(g), Unpaid(g) # {} => g.maxRate > 0
    PROVE  Unpaid(g) = {}
<1> SUFFICES ASSUME NEW q \in Unpaid(g) PROVE FALSE
  OBVIOUS
<1>1. q \in Active(g) /\ q \in Seats /\ g.totalBet[q] = 0 /\ g.maxRate > 0
  BY GameFields DEF Unpaid
<1>2. g.roundRate[q] = g.maxRate
  BY <1>1 DEF IsBettingRoundOver, RoundInv
<1>3. g.roundRate[q] <= g.totalBet[q]
  BY <1>1 DEF RoundInv
<1>4. g.maxRate \in Nat
  BY GameFields
<1> QED
  BY <1>1, <1>2, <1>3, <1>4

\* Then the first to act on the new street can.
LEMMA StreetPassed ==
    ASSUME TypeOK, RoundInv(table), NEW n \in 2 .. MaxPlayers, NEW k \in 0 .. MaxPlayers,
           k <= n, InTurn(table, n, k), NEW s \in Seats, NEW a \in Nat, NEW g \in Games,
           Moved(s, a, g), NEW w, NEW r, StreetDealt(g, w, r)
    PROVE  TurnInv(table')
<1>1. /\ g.seated = 0 .. n - 1 /\ g.dealer \in g.seated
      /\ HasBets(g) /\ Unpaid(g) \subseteq Active(g)
      /\ Unpaid(g) # {} => g.maxRate > 0
  BY MovedTurn
<1>2. n \in Nat \ {0} /\ 0 <= n /\ 0 \in 0 .. MaxPlayers
  OBVIOUS
<1>3. g.street # "initial"
  BY DEF Moved, InHand
<1>4. /\ g.street \in {"preflop", "flop", "turn"}
      /\ IsBettingRoundOver(g) /\ Active(g) # {}
      /\ ~ (Cardinality(Contenders(g)) <= 1)
      /\ NewRound(g) \in Games
  BY <1>3, DealtWhen
<1>5. PICK t \in Seats \cup {NoSeat} :
         /\ t = NextActive(NewRound(g), NextActive(NewRound(g), g.dealer))
         /\ table' = [NewRound(g) EXCEPT !.turn = t]
  BY <1>3, DealtWhen
<1> DEFINE m == NewRound(g)
           h == [m EXCEPT !.turn = t]
<1>6. /\ m \in Games /\ m.seated = g.seated /\ m.state = g.state /\ m.totalBet = g.totalBet
      /\ m.dealer = g.dealer
  BY <1>4, NewRoundGame
<1>7. table' = h /\ t = NextActive(m, NextActive(m, g.dealer))
  BY <1>5
<1> HIDE DEF m
<1>8. /\ h.turn = t /\ h.seated = m.seated /\ h.maxRate = m.maxRate
      /\ h.dealer = m.dealer /\ h.state = m.state /\ h.totalBet = m.totalBet
  BY <1>6, TurnMoved
<1> HIDE DEF h
<1>9. Unpaid(g) = {}
  <2>1. RoundInv(g)
    BY MovedRound
  <2> QED
    BY <1>1, <1>4, <2>1, DealtPaid
<1>10. /\ Active(m) = Active(g) /\ Active(h) = Active(g) /\ Contenders(h) = Contenders(g)
       /\ Unpaid(h) = {} /\ HasBets(h)
  <2>1. /\ Active(m) = Active(g) /\ Contenders(m) = Contenders(g)
        /\ Unpaid(m) = Unpaid(g) /\ HasBets(m)
    BY <1>1, <1>6, SamePlayers
  <2>2. /\ Active(h) = Active(m) /\ Contenders(h) = Contenders(m)
        /\ Unpaid(h) = Unpaid(m) /\ HasBets(h)
    BY <1>8, <2>1, SamePlayers
  <2> QED
    BY <1>9, <2>1, <2>2
<1>11. t \in Active(g)
  <2> DEFINE x == NextActive(m, g.dealer)
  <2>1. g.dealer \in 0 .. n - 1 /\ m.seated = 0 .. n - 1 /\ Active(m) # {}
    BY <1>1, <1>4, <1>6, <1>10
  <2>2. x \in Active(m)
    BY <1>2, <1>6, <2>1, NextActivePlays
  <2>3. x \in 0 .. n - 1
    BY <1>6, <2>1, <2>2, GameFields
  <2>4. t = NextActive(m, x)
    BY <1>7
  <2> HIDE DEF x
  <2>5. NextActive(m, x) \in Active(m)
    BY <1>2, <1>6, <2>1, <2>3, NextActivePlays
  <2> QED
    BY <1>10, <2>4, <2>5
<1>12. Cardinality(Contenders(g)) >= 2
  <2>1. Contenders(g) \in SUBSET Seats
    BY GameFields
  <2>2. Cardinality(Contenders(g)) \in Nat
    BY <2>1, SeatsFinite
  <2> QED
    BY <1>4, <2>2
<1>13. {q \in 0 .. n - 1 : Distance(n, t, q) < 0} = {}
  <2>1. t \in 0 .. n - 1
    BY <1>1, <1>11, GameFields
  <2> QED
    BY <1>2, <2>1 DEF Distance
<1>14. InTurn(h, n, 0)
  BY <1>1, <1>6, <1>8, <1>10, <1>11, <1>12, <1>13 DEF InTurn
<1> QED
  BY <1>2, <1>7, <1>14 DEF TurnInv

\* A hand starts with the turn after the big blind: all but the blinds are next.
LEMMA BlindsTurn ==
    ASSUME NEW n \in 2 .. MaxPlayers, NEW dealer \in 0 .. n - 1, NEW small \in 0 .. n - 1,
           NEW big \in 0 .. n - 1, NEW first \in 0 .. n - 1,
           Blinds(0 .. n - 1, dealer, small, big, first)
    PROVE  TurnInv(table')
<1> DEFINE h == table'
           S == 0 .. n - 1
<1>1. n \in 1 .. MaxPlayers /\ n \in Nat /\ n >= 2 /\ Cardinality(S) = n
  <2>1. 0 \in Int /\ n - 1 \in Int
    OBVIOUS
  <2>2. Cardinality(S) = IF 0 > n - 1 THEN 0 ELSE n - 1 - 0 + 1
    BY <2>1, FS_Interval
  <2> QED
    BY <2>2
<1>2. /\ h \in Games /\ h.seated = S /\ h.dealer = dealer /\ h.turn = first
      /\ h.maxRate = 2 * SmallBlind /\ h.state = [s \in Seats |-> "active"]
      /\ h.totalBet = Posted(small, big)
  BY DEF Blinds
<1>3. big = After(n, small) /\ (n = 2 => first = small)
      /\ (n # 2 => first = After(n, big))
  <2>1. big = NextOccupied(S, small)
    BY DEF Blinds
  <2>2. n = 2 => first = small
    BY <1>1 DEF Blinds
  <2>3. n # 2 => first = NextOccupied(S, big)
    BY <1>1 DEF Blinds
  <2> QED
    BY <1>1, <2>1, <2>2, <2>3, NextOccupiedAfter
<1> HIDE DEF h
<1>4. S \in SUBSET Seats
  BY DEF Seats
<1>5. Active(h) = S /\ Contenders(h) = S
  BY <1>2, <1>4 DEF Active, Contenders, InState
<1>6. HasBets(h)
  <2>1. Posted(small, big)[small] = SmallBlind
    BY <1>4 DEF Posted
  <2> QED
    BY <1>2, <1>5, <2>1 DEF HasBets
<1>7. Unpaid(h) = S \ {small, big}
  BY <1>2, <1>4, <1>5 DEF Unpaid, Posted
<1>8. \A q \in S : q \notin {small, big} <=> Distance(n, first, q) < n - 2
  BY <1>1, <1>3 DEF After, Distance
<1>9. Unpaid(h) = {q \in S : Distance(n, h.turn, q) < n - 2}
  BY <1>2, <1>7, <1>8
<1>10. h.maxRate > 0
  BY <1>2
<1>11. InTurn(h, n, n - 2)
  BY <1>1, <1>2, <1>5, <1>6, <1>9, <1>10 DEF InTurn
<1>12. n - 2 \in 0 .. MaxPlayers /\ n - 2 <= n
  BY <1>1
<1> QED
  BY <1>11, <1>12 DEF TurnInv, h

\* Every step keeps the turn with a player who can act.
LEMMA TurnStep ==
    ASSUME NoGaps, TypeOK, RoundInv(table), TurnInv(table), [Next]_vars
    PROVE  TurnInv(table')
<1>1. ASSUME NEW seated \in Seatings, StartHand(seated)
      PROVE  TurnInv(table')
  <2>1. PICK n \in 2 .. MaxPlayers : seated = 0 .. n - 1
    BY DEF NoGaps
  <2>2. PICK dealer, small, big, first \in seated :
           Blinds(seated, dealer, small, big, first)
    BY <1>1, BlindsSet
  <2> QED
    BY <2>1, <2>2, BlindsTurn
<1>2. ASSUME NEW s \in Seats, Play(s)
      PROVE  TurnInv(table')
  <2>1. PICK a \in Nat, g \in Games :
           Moved(s, a, g) /\ ProcessPlaying(g, Left(s, a), Held(s, a))
    BY <1>2, PlayMoves
  <2>2. PICK n \in 2 .. MaxPlayers, k \in 0 .. MaxPlayers : k <= n /\ InTurn(table, n, k)
    BY <2>1 DEF TurnInv, Moved, InHand
  <2>3. CASE TurnPasses(g, Left(s, a), Held(s, a))
    BY <2>1, <2>2, <2>3, TurnPassed
  <2>4. CASE StreetDealt(g, Left(s, a), Held(s, a))
    BY <2>1, <2>2, <2>4, StreetPassed
  <2>5. CASE HandSettled(g, Left(s, a))
    <3>1. g.dealer \in Seats
      BY GameFields
    <3> QED
      BY <2>5, <3>1, EmptyGame DEF HandSettled, TurnInv
  <2>6. CASE NotServed(Left(s, a), Held(s, a))
    BY <2>6 DEF NotServed
  <2> QED
    BY <2>1, <2>3, <2>4, <2>5, <2>6, Processed
<1>3. ASSUME NEW s \in Seats, CancelHand(s)
      PROVE  TurnInv(table')
  <2>1. table.dealer \in Seats /\ table' = EmptyTable(table.dealer)
    BY <1>3 DEF CancelHand, TypeOK
  <2> QED
    BY <2>1, EmptyGame DEF TurnInv
<1>4. CASE table' = table
  BY <1>4
<1> QED
  BY <1>1, <1>2, <1>3, <1>4 DEF Next, RequestStop, ConfirmStop, ResumePlay, vars

\* What the theorems on a table without gaps rest on.
LEMMA InitHand ==
    ASSUME Init
    PROVE  TypeOK /\ RoundInv(table) /\ TurnInv(table)
<1>1. 0 \in Seats /\ table = EmptyTable(0)
  BY DEF Seats, Init
<1> QED
  BY <1>1, InitTypes, EmptyRound, EmptyGame DEF TurnInv

\* The three invariants together.
LEMMA HandInvariant == NoGaps => (Spec => [](TypeOK /\ RoundInv(table) /\ TurnInv(table)))
<1> SUFFICES ASSUME NoGaps PROVE Spec => [](TypeOK /\ RoundInv(table) /\ TurnInv(table))
  OBVIOUS
<1>1. TypeOK /\ RoundInv(table) /\ TurnInv(table) /\ [Next]_vars
         => TypeOK' /\ RoundInv(table)' /\ TurnInv(table)'
  BY TypeStep, RoundStep, TurnStep
<1> QED
  BY <1>1, InitHand, PTL DEF Spec

\* Where the lowest seats are taken, the turn is always with a player who can
\* act: a hand never waits for an empty seat, for someone who folded or for
\* someone who is all-in (_find_next_active_player_index, progress_stage).
THEOREM TurnStaysPlayable == ASSUME NoGaps PROVE Spec => []TurnIsPlayable
<1>1. TypeOK /\ RoundInv(table) /\ TurnInv(table) => TurnIsPlayable
  BY DEF TurnInv, InTurn, TurnIsPlayable, InHand
<1> QED
  BY <1>1, HandInvariant, PTL

-----------------------------------------------------------------------------
(* The chips, where the service is bound.                                  *)

\* What left a wallet since the hand started is recorded as that player's bet.
Accounts == InHand => \A s \in Seats : wallet[s] + table.totalBet[s] = stake[s]

\* A game that follows the action in the same hand has its bets and its pot.
LEMMA ProcessedBets ==
    ASSUME NEW g \in Games, g.street # "initial", NEW w, NEW r,
           TurnPasses(g, w, r) \/ StreetDealt(g, w, r)
    PROVE  /\ table'.totalBet = g.totalBet /\ table'.pot = g.pot
           /\ table'.street # "initial" /\ wallet' = w /\ reserved' = r /\ vote' = vote
<1>1. CASE TurnPasses(g, w, r)
  <2>1. g.turn \in Seats \cup {NoSeat}
    BY DEF Games
  <2>2. NextActive(g, g.turn) \in Seats \cup {NoSeat}
    BY <2>1, NextActiveSeat
  <2> QED
    BY <1>1, <2>2, TurnMoved DEF TurnPasses
<1>2. CASE StreetDealt(g, w, r)
  <2>1. /\ g.street \in {"preflop", "flop", "turn"}
        /\ NewRound(g) \in Games
        /\ \E t \in Seats \cup {NoSeat} : table' = [NewRound(g) EXCEPT !.turn = t]
    BY <1>2, DealtWhen
  <2>2. PICK t \in Seats \cup {NoSeat} : table' = [NewRound(g) EXCEPT !.turn = t]
    BY <2>1
  <2> DEFINE h == NewRound(g)
  <2>3. /\ h \in Games /\ h.totalBet = g.totalBet /\ h.pot = g.pot /\ h.street # "initial"
    BY <2>1, NewRoundGame
  <2>4. table' = [h EXCEPT !.turn = t]
    BY <2>2
  <2> HIDE DEF h
  <2>5. /\ table'.totalBet = h.totalBet /\ table'.pot = h.pot
        /\ table'.street = h.street
    BY <2>3, <2>4, TurnMoved
  <2>6. wallet' = w /\ reserved' = r /\ vote' = vote
    BY <1>2 DEF StreetDealt
  <2> QED
    BY <2>3, <2>5, <2>6
<1> QED
  BY <1>1, <1>2

\* Every step keeps the accounts.
LEMMA AccountStep ==
    ASSUME ServiceBound, TypeOK, Accounts, [Next]_vars
    PROVE  Accounts'
<1>1. ASSUME NEW seated \in Seatings, StartHand(seated)
      PROVE  Accounts'
  <2>1. PICK dealer, small, big, first \in seated :
           Blinds(seated, dealer, small, big, first)
    BY <1>1, BlindsSet
  <2>2. /\ wallet' = [s \in Seats |-> wallet[s] - Posted(small, big)[s]]
        /\ table'.totalBet = Posted(small, big) /\ stake' = wallet
    BY <1>1, <2>1 DEF Blinds, StartHand
  <2>3. \A s \in Seats : wallet[s] \in Nat /\ Posted(small, big)[s] \in Nat
    BY DEF TypeOK, Posted
  <2> QED
    BY <2>2, <2>3 DEF Accounts
<1>2. ASSUME NEW s \in Seats, Play(s)
      PROVE  Accounts'
  <2>1. PICK a \in Nat, g \in Games :
           /\ a <= wallet[s] /\ Moved(s, a, g)
           /\ ProcessPlaying(g, Left(s, a), Held(s, a))
    BY <1>2, PlayMoves
  <2>2. \A q \in Seats : wallet[q] + table.totalBet[q] = stake[q]
    BY <2>1 DEF Accounts, Moved
  <2>3. \A q \in Seats : Left(s, a)[q] + g.totalBet[q] = stake[q]
    <3> TAKE q \in Seats
    <3>1. wallet \in [Seats -> Nat] /\ table.totalBet[q] \in Nat /\ wallet[q] \in Nat
      BY DEF TypeOK
    <3>2. CASE q = s
      <4>1. Left(s, a)[q] = wallet[q] - a /\ g.totalBet[q] = table.totalBet[q] + a
        BY <2>1, <3>1, <3>2 DEF Left, Moved
      <4> QED
        BY <2>2, <3>1, <4>1
    <3>3. CASE q # s
      <4>1. Left(s, a)[q] = wallet[q] /\ g.totalBet[q] = table.totalBet[q]
        BY <2>1, <3>1, <3>3 DEF Left, Moved
      <4> QED
        BY <2>2, <4>1
    <3> QED
      BY <3>2, <3>3
  <2>4. g.street # "initial" /\ stake' = stake
    BY <2>1, Processed DEF Moved, InHand
  <2>5. CASE TurnPasses(g, Left(s, a), Held(s, a)) \/ StreetDealt(g, Left(s, a), Held(s, a))
    <3>1. wallet' = Left(s, a) /\ table'.totalBet = g.totalBet
      BY <2>4, <2>5, ProcessedBets
    <3> QED
      BY <2>3, <2>4, <3>1 DEF Accounts
  <2>6. CASE HandSettled(g, Left(s, a))
    <3>1. g.dealer \in Seats
      BY GameFields
    <3> QED
      BY <2>6, <3>1, EmptyGame DEF HandSettled, Accounts, InHand
  <2> QED
    BY <2>1, <2>5, <2>6, Processed DEF NotServed
<1>3. ASSUME NEW s \in Seats, CancelHand(s)
      PROVE  Accounts'
  <2>1. table.dealer \in Seats /\ table' = EmptyTable(table.dealer)
    BY <1>3 DEF CancelHand, TypeOK
  <2> QED
    BY <2>1, EmptyGame DEF Accounts, InHand
<1>4. CASE table' = table /\ wallet' = wallet /\ stake' = stake
  BY <1>4 DEF Accounts, InHand
<1> QED
  BY <1>1, <1>2, <1>3, <1>4 DEF Next, RequestStop, ConfirmStop, ResumePlay, vars

\* With the service bound, every chip that left a wallet since the hand started
\* is recorded as a bet of that player, and the pot is what the bets add up to.
\* (Without it, _process_playing raises after the chips were taken and before
\* the table is saved, and this fails.)
THEOREM ChipsStayInPlay == ASSUME ServiceBound PROVE Spec => []ChipsInPlay
<1>1. Init => TypeOK /\ RoundInv(table) /\ Accounts
  <2> SUFFICES ASSUME Init PROVE TypeOK /\ RoundInv(table) /\ Accounts
    OBVIOUS
  <2>1. 0 \in Seats /\ table = EmptyTable(0)
    BY DEF Seats, Init
  <2> QED
    BY <2>1, InitHand, EmptyGame DEF Accounts, InHand
<1>2. TypeOK /\ RoundInv(table) /\ Accounts /\ [Next]_vars
         => TypeOK' /\ RoundInv(table)' /\ Accounts'
  BY TypeStep, RoundStep, AccountStep
<1>3. TypeOK /\ RoundInv(table) /\ Accounts => ChipsInPlay
  BY DEF RoundInv, Accounts, ChipsInPlay
<1> QED
  BY <1>1, <1>2, <1>3, PTL DEF Spec

\* A vote is open only while a hand is played.
VoteInv == vote # NoVote => InHand

\* Every step keeps that.
LEMMA VoteStep ==
    ASSUME TypeOK, VoteInv, [Next]_vars
    PROVE  VoteInv'
<1>1. ASSUME NEW seated \in Seatings, StartHand(seated)
      PROVE  VoteInv'
  <2>1. table'.street = "preflop"
    BY <1>1, BlindsSet DEF Blinds
  <2> QED
    BY <2>1 DEF VoteInv, InHand
<1>2. ASSUME NEW s \in Seats, Play(s)
      PROVE  VoteInv'
  <2>1. PICK a \in Nat, g \in Games :
           Moved(s, a, g) /\ ProcessPlaying(g, Left(s, a), Held(s, a))
    BY <1>2, PlayMoves
  <2>2. g.street # "initial" /\ InHand
    BY <2>1 DEF Moved, InHand
  <2>3. CASE TurnPasses(g, Left(s, a), Held(s, a)) \/ StreetDealt(g, Left(s, a), Held(s, a))
    BY <2>2, <2>3, ProcessedBets DEF VoteInv, InHand
  <2>4. CASE HandSettled(g, Left(s, a))
    BY <2>4 DEF HandSettled, VoteInv, NoVote
  <2>5. CASE NotServed(Left(s, a), Held(s, a))
    BY <2>2, <2>5 DEF NotServed, VoteInv, InHand
  <2> QED
    BY <2>1, <2>3, <2>4, <2>5, Processed
<1>3. ASSUME NEW s \in Seats, RequestStop(s) \/ ConfirmStop(s) \/ CancelHand(s)
      PROVE  VoteInv'
  BY <1>3 DEF RequestStop, ConfirmStop, CancelHand, MayVote, VoteInv, InHand, NoVote
<1>4. CASE ResumePlay
  BY <1>4 DEF ResumePlay, VoteInv, NoVote
<1>5. CASE UNCHANGED vars
  BY <1>5 DEF vars, VoteInv, InHand, NoVote
<1> QED
  BY <1>1, <1>2, <1>3, <1>4, <1>5 DEF Next

\* The chips of the wallets, when one changes by an amount.
LEMMA WalletSum ==
    ASSUME NEW w \in [Seats -> Nat], NEW s \in Seats, NEW a \in Nat, a <= w[s]
    PROVE  /\ Sum([w EXCEPT ![s] = @ - a], Seats) = Sum(w, Seats) - a
           /\ Sum(w, Seats) \in Nat
<1> DEFINE U == Seats
           v == [w EXCEPT ![s] = @ - a]
<1>1. /\ IsFiniteSet(U) /\ s \in U
      /\ \A q \in U : w[q] \in Int /\ w[q] \in Nat /\ v[q] \in Int
      /\ \A q \in U \ {s} : v[q] = w[q]
      /\ v[s] - w[s] = 0 - a
  BY SeatsFinite
<1> HIDE DEF U, v
<1>2. Sum(v, U) = Sum(w, U) + (v[s] - w[s])
  <2>1. /\ \A q \in U : w[q] \in Int /\ v[q] \in Int
        /\ \A q \in U \ {s} : v[q] = w[q]
    BY <1>1
  <2> QED
    BY ONLY <1>1, <2>1, SumChange
<1>3. Sum(w, U) \in Nat
  BY <1>1, SumNat
<1>4. Sum(v, U) = Sum(w, U) - a
  BY <1>1, <1>2, <1>3
<1> QED
  BY <1>3, <1>4 DEF U, v

\* The blinds go from the wallets into the pot.
LEMMA BlindsChips ==
    ASSUME TypeOK, RoundInv(table), NEW seated \in SUBSET Seats, StartHand(seated)
    PROVE  Chips' = Chips
<1>1. PICK dealer, small, big, first \in seated :
         Blinds(seated, dealer, small, big, first)
  BY BlindsSet
<1> DEFINE U == Seats
           S == seated
           posted == Posted(small, big)
           w == wallet
           v == wallet'
<1>2. /\ table.pot = 0 /\ table'.pot = Sum(posted, S)
  BY <1>1 DEF RoundInv, StartHand, Blinds
<1>3. \A s \in U : /\ w[s] \in Int /\ w[s] \in Nat /\ v[s] \in Int /\ posted[s] \in Int
                   /\ w[s] = v[s] + posted[s]
  <2>1. wallet \in [Seats -> Nat] /\ \A s \in Seats : posted[s] \in Nat
    BY DEF TypeOK, Posted
  <2>2. wallet' = [s \in Seats |-> wallet[s] - Posted(small, big)[s]]
    BY <1>1 DEF Blinds
  <2> QED
    BY <2>1, <2>2
<1>4. IsFiniteSet(U) /\ S \in SUBSET U /\ \A s \in U \ S : posted[s] = 0
  BY SeatsFinite DEF Posted
<1> HIDE DEF U, S, posted, w, v
<1>5. Sum(w, U) = Sum(v, U) + Sum(posted, U)
  <2>1. \A s \in U : v[s] \in Int /\ posted[s] \in Int /\ w[s] = v[s] + posted[s]
    BY <1>3
  <2> QED
    BY ONLY <1>4, <2>1, SumPlus
<1>6. Sum(posted, U) = Sum(posted, S)
  <2>1. \A s \in U : posted[s] \in Int
    BY <1>3
  <2> QED
    BY ONLY <1>4, <2>1, SumPart
<1>7. Sum(v, U) \in Int /\ Sum(posted, S) \in Int
  <2>1. Sum(v, U) \in Int /\ Sum(posted, U) \in Int
    <3>1. \A s \in U : v[s] \in Int /\ posted[s] \in Int
      BY <1>3
    <3> QED
      BY ONLY <1>4, <3>1, SumInt
  <2> QED
    BY <1>6, <2>1
<1>8. Chips = Sum(w, U) + table.pot /\ Chips' = Sum(v, U) + table'.pot
  BY DEF Chips, U, w, v
<1> QED
  BY <1>2, <1>5, <1>6, <1>7, <1>8

\* A settlement pays the pot back to the wallets, whole.
LEMMA SettledChips ==
    ASSUME NEW g \in Games, g.pot = Sum(g.totalBet, g.seated), HasBets(g),
           NEW w \in [Seats -> Nat], HandSettled(g, w)
    PROVE  Chips' = Sum(w, Seats) + g.pot
<1>1. PICK score \in [Contenders(g) -> Scores] :
         wallet' = [s \in Seats |-> w[s] + Payout(g, score)[s]]
  BY DEF HandSettled
<1>2. Tiers(g) # {}
  <2>1. PICK s \in Contenders(g) : g.totalBet[s] > 0
    BY DEF HasBets
  <2>2. g.totalBet[s] \in Tiers(g)
    BY <2>1 DEF Tiers
  <2> QED
    BY <2>2
<1> DEFINE U == Seats
           paid == Payout(g, score)
           v == wallet'
<1>3. Sum(paid, U) = g.pot
  BY <1>2, PaidWhole
<1>4. \A s \in U : w[s] \in Int /\ paid[s] \in Int /\ v[s] = w[s] + paid[s]
  BY <1>1, PaidNat
<1>5. IsFiniteSet(U)
  BY SeatsFinite
<1>6. table'.pot = 0
  <2>1. g.dealer \in Seats
    BY GameFields
  <2> QED
    BY <2>1, EmptyGame DEF HandSettled
<1> HIDE DEF U, paid, v
<1>7. Sum(v, U) = Sum(w, U) + Sum(paid, U)
  BY ONLY <1>4, <1>5, SumPlus
<1>8. Sum(w, U) \in Int
  BY <1>4, <1>5, SumInt
<1>9. g.pot \in Nat
  BY GameFields
<1>10. Chips' = Sum(v, U) + table'.pot
  BY DEF Chips, U, v
<1>11. Chips' = Sum(w, U) + g.pot
  BY <1>3, <1>6, <1>7, <1>8, <1>9, <1>10
<1> QED
  BY <1>11 DEF U

\* A player's action, and all that follows it, moves chips between the wallets
\* and the pot.
LEMMA PlayChips ==
    ASSUME ServiceBound, TypeOK, RoundInv(table), TurnInv(table),
           NEW s \in Seats, Play(s)
    PROVE  Chips' = Chips
<1>1. PICK a \in Nat, g \in Games :
         /\ a <= wallet[s] /\ Moved(s, a, g)
         /\ ProcessPlaying(g, Left(s, a), Held(s, a))
  BY PlayMoves
<1>2. PICK n \in 2 .. MaxPlayers, k \in 0 .. MaxPlayers : k <= n /\ InTurn(table, n, k)
  BY <1>1 DEF TurnInv, Moved, InHand
<1>3. wallet \in [Seats -> Nat] /\ table.pot \in Nat
  BY DEF TypeOK
<1> DEFINE w == Left(s, a)
<1>4. /\ Sum(w, Seats) = Sum(wallet, Seats) - a
      /\ Sum(wallet, Seats) \in Nat
  BY <1>1, <1>3, WalletSum DEF Left
<1>5. w \in [Seats -> Nat]
  BY <1>1, <1>3 DEF Left
<1>6. g.pot = table.pot + a /\ g.street # "initial"
  BY <1>1 DEF Moved, InHand
<1>7. g.pot = Sum(g.totalBet, g.seated) /\ HasBets(g)
  BY <1>1, <1>2, MovedRound, MovedTurn DEF RoundInv
<1>8. Chips = Sum(wallet, Seats) + table.pot /\ Chips' = Sum(wallet', Seats) + table'.pot
  BY DEF Chips
<1> HIDE DEF w
<1>9. CASE TurnPasses(g, w, Held(s, a)) \/ StreetDealt(g, w, Held(s, a))
  <2>1. wallet' = w /\ table'.pot = g.pot
    BY <1>6, <1>9, ProcessedBets
  <2> QED
    BY <1>3, <1>4, <1>6, <1>8, <2>1
<1>10. CASE HandSettled(g, w)
  <2>1. Chips' = Sum(w, Seats) + g.pot
    BY <1>5, <1>7, <1>10, SettledChips
  <2> QED
    BY <1>3, <1>4, <1>6, <1>8, <2>1
<1>11. ProcessPlaying(g, w, Held(s, a))
  BY <1>1 DEF w
<1> QED
  BY <1>9, <1>10, <1>11, Processed DEF NotServed

\* A stop vote returns what is reserved under the hand's id, and no blind.
LEMMA CancelChips ==
    ASSUME TypeOK, RoundInv(table), NEW s \in Seats, CancelHand(s)
    PROVE  Chips' = Chips - BlindsPaid
<1> DEFINE U == Seats
           S == table.seated
           w == wallet
           v == wallet'
           bets == table.totalBet
           held == reserved
           back == [q \in Seats |-> IF q \in table.seated THEN reserved[q] ELSE 0]
           lost == [q \in table.seated |-> table.totalBet[q] - reserved[q]]
<1>0. /\ wallet \in [Seats -> Nat] /\ reserved \in [Seats -> Nat] /\ table \in Games
  BY DEF TypeOK, Games
<1>1. IsFiniteSet(U) /\ S \in SUBSET U /\ IsFiniteSet(S)
  BY <1>0, SeatsFinite, GameFields
<1>2. \A q \in U : w[q] \in Int /\ back[q] \in Int /\ v[q] = w[q] + back[q]
  BY <1>0 DEF CancelHand
<1>3. \A q \in S : /\ held[q] \in Int /\ lost[q] \in Int /\ back[q] = held[q]
                   /\ bets[q] = held[q] + lost[q]
  <2> TAKE q \in S
  <2>1. q \in Seats
    BY <1>1
  <2>2. bets[q] \in Nat /\ held[q] \in Nat
    BY <1>0, <2>1, GameFields
  <2> QED
    BY <2>1, <2>2
<1>4. \A q \in U \ S : back[q] = 0
  OBVIOUS
<1>5. /\ Chips = Sum(w, U) + table.pot /\ Chips' = Sum(v, U) + table'.pot
      /\ BlindsPaid = Sum(lost, S) /\ table.pot = Sum(bets, S)
  BY DEF Chips, BlindsPaid, RoundInv
<1>6. table'.pot = 0
  <2>1. table.dealer \in Seats
    BY <1>0, GameFields
  <2> QED
    BY <2>1, EmptyGame DEF CancelHand
<1> HIDE DEF U, S, w, v, bets, held, back, lost
<1>7. Sum(v, U) = Sum(w, U) + Sum(back, U)
  BY ONLY <1>1, <1>2, SumPlus
<1>8. Sum(back, U) = Sum(back, S)
  <2>1. \A q \in U : back[q] \in Int
    BY <1>2
  <2> QED
    BY ONLY <1>1, <1>4, <2>1, SumPart
<1>9. Sum(back, S) = Sum(held, S)
  <2>1. \A q \in S : back[q] = held[q]
    BY <1>3
  <2> QED
    BY ONLY <1>1, <2>1, SumSame
<1>10. Sum(bets, S) = Sum(held, S) + Sum(lost, S)
  <2>1. \A q \in S : held[q] \in Int /\ lost[q] \in Int /\ bets[q] = held[q] + lost[q]
    BY <1>3
  <2> QED
    BY ONLY <1>1, <2>1, SumPlus
<1>11. Sum(w, U) \in Int /\ Sum(held, S) \in Int /\ Sum(lost, S) \in Int
  <2>1. \A q \in U : w[q] \in Int
    BY <1>2
  <2>2. \A q \in S : held[q] \in Int /\ lost[q] \in Int
    BY <1>3
  <2> QED
    BY ONLY <1>1, <2>1, <2>2, SumInt
<1> QED
  BY <1>5, <1>6, <1>7, <1>8, <1>9, <1>10, <1>11

\* Where the lowest seats are taken and the service is bound, no action creates
\* or loses a chip: all the settlements pay the pot out whole, side pots and odd
\* chips included.  Only a stop vote does, and exactly the blinds
\* (_process_showdown_results, cancel_hand).
THEOREM ChipsAreKept == ASSUME NoGaps, ServiceBound PROVE Spec => OnlyBlindsAreLost
<1>1. TypeOK /\ RoundInv(table) /\ TurnInv(table) /\ VoteInv /\ [Next]_vars
         => [ \/ Chips' = Chips
              \/ /\ vote # NoVote /\ InHand /\ ~InHand'
                 /\ Chips' = Chips - BlindsPaid ]_vars
  <2> SUFFICES ASSUME TypeOK, RoundInv(table), TurnInv(table), VoteInv, Next
               PROVE  \/ Chips' = Chips
                      \/ /\ vote # NoVote /\ InHand /\ ~InHand'
                         /\ Chips' = Chips - BlindsPaid
    OBVIOUS
  <2>1. ASSUME NEW seated \in Seatings, StartHand(seated)
        PROVE  Chips' = Chips
    BY <2>1, BlindsChips
  <2>2. ASSUME NEW s \in Seats, Play(s)
        PROVE  Chips' = Chips
    BY <2>2, PlayChips
  <2>3. ASSUME NEW s \in Seats, CancelHand(s)
        PROVE  /\ vote # NoVote /\ InHand /\ ~InHand'
               /\ Chips' = Chips - BlindsPaid
    <3>1. vote # NoVote /\ InHand
      BY <2>3 DEF CancelHand, MayVote, VoteInv
    <3>2. table.dealer \in Seats /\ table' = EmptyTable(table.dealer)
      BY <2>3 DEF CancelHand, TypeOK
    <3>3. ~InHand'
      BY <3>2, EmptyGame DEF InHand
    <3> QED
      BY <2>3, <3>1, <3>3, CancelChips
  <2>4. CASE table' = table /\ wallet' = wallet
    BY <2>4 DEF Chips
  <2> QED
    BY <2>1, <2>2, <2>3, <2>4 DEF Next, RequestStop, ConfirmStop, ResumePlay
<1>2. TypeOK /\ VoteInv /\ [Next]_vars => VoteInv'
  BY VoteStep
<1>3. Init => VoteInv
  BY DEF Init, VoteInv
<1>4. Spec => [](TypeOK /\ RoundInv(table) /\ TurnInv(table))
  BY HandInvariant
<1> QED
  BY <1>1, <1>2, <1>3, <1>4, PTL DEF Spec, OnlyBlindsAreLost

-----------------------------------------------------------------------------
(* What the settlement gives to whom.                                      *)

\* The only winner of a tier gets its pot.
LEMMA SoleWinner ==
    ASSUME NEW g \in Games, NEW t \in Tiers(g), NEW score \in [Contenders(g) -> Scores],
           NEW s \in Seats, Winners(g, score, t) = {s}
    PROVE  Share(g, score, t, s) = PotSize(g, t)
<1> DEFINE p == PotSize(g, t)
           W == Winners(g, score, t)
<1>1. p \in Nat
  BY PotNat
<1>2. Cardinality(W) = 1
  BY FS_Singleton
<1>3. {q \in W : q < s} = {}
  BY DEF Seats
<1>4. Cardinality({q \in W : q < s}) = 0
  BY <1>3, FS_EmptySet
<1>5. p \div 1 = p /\ p % 1 = 0
  <2> HIDE DEF p
  <2> QED
    BY <1>1
<1>6. Share(g, score, t, s) = (p \div Cardinality(W))
         + IF Cardinality({q \in W : q < s}) < p % Cardinality(W) THEN 1 ELSE 0
  BY DEF Share
<1>7. Share(g, score, t, s) = (p \div 1) + IF 0 < p % 1 THEN 1 ELSE 0
  <2> HIDE DEF p, W
  <2> QED
    BY <1>2, <1>4, <1>6
<1> HIDE DEF p
<1>8. Share(g, score, t, s) = p
  BY <1>1, <1>5, <1>7
<1> QED
  BY <1>8 DEF p

\* What the others put in up to the bet of s.
MatchedBy(g, s) == [q \in g.seated |-> IF g.totalBet[q] < g.totalBet[s]
                                       THEN g.totalBet[q] ELSE g.totalBet[s]]

\* The pots of the tiers up to a bet hold all that matched it: what stands on
\* them, and the chips of those who folded, which go to the first.
LEMMA MatchedInPots ==
    ASSUME NEW g \in Games, g.pot = Sum(g.totalBet, g.seated),
           NEW s \in Contenders(g), g.totalBet[s] > 0
    PROVE  Sum(MatchedBy(g, s), g.seated)
              <= Sum(Lowest(g, g.totalBet[s]), Tiers(g)) + Beyond(g)
<1> DEFINE v == g.totalBet[s]
           U == g.seated
           C == Contenders(g)
           bets == g.totalBet
           m == MatchedBy(g, s)
           capped == Capped(g, v)
<1>1. /\ IsFiniteSet(U) /\ C \in SUBSET U /\ IsFiniteSet(C) /\ IsFiniteSet(U \ C)
      /\ \A q \in U : bets[q] \in Nat /\ bets[q] \in Int
      /\ v \in Nat /\ v \in Tiers(g) \cup {0}
  BY GameParts, FS_Subset
<1>2. \A q \in U : m[q] = IF bets[q] < v THEN bets[q] ELSE v
  BY DEF MatchedBy
<1>3. \A q \in C : capped[q] = IF bets[q] < v THEN bets[q] ELSE v
  BY DEF Capped
<1>4. Sum(Lowest(g, v), Tiers(g)) = Sum(capped, C)
  BY <1>1, CappedTiers
<1>5. Beyond(g) = Sum(bets, U \ C)
  BY BeyondNat
<1> HIDE DEF v, U, C, bets, m, capped
<1>6. \A q \in U : m[q] \in Int /\ m[q] <= bets[q]
  BY <1>1, <1>2
<1>7. Sum(m, U) = Sum(m, C) + Sum(m, U \ C)
  <2>1. \A q \in U : m[q] \in Int
    BY <1>6
  <2> QED
    BY ONLY <1>1, <2>1, SumSplit
<1>8. Sum(m, C) = Sum(capped, C)
  <2>1. \A q \in C : m[q] = capped[q]
    BY <1>1, <1>2, <1>3
  <2> QED
    BY ONLY <1>1, <2>1, SumSame
<1>9. Sum(m, U \ C) <= Sum(bets, U \ C)
  <2>1. \A q \in U \ C : m[q] \in Int /\ bets[q] \in Int /\ m[q] <= bets[q]
    BY <1>1, <1>6
  <2> QED
    BY ONLY <1>1, <2>1, SumMono
<1>10. Sum(m, C) \in Int /\ Sum(m, U \ C) \in Int /\ Sum(bets, U \ C) \in Int
  <2>1. /\ \A q \in C : m[q] \in Int
        /\ \A q \in U \ C : m[q] \in Int /\ bets[q] \in Int
    BY <1>1, <1>6
  <2> QED
    BY ONLY <1>1, <2>1, SumInt
<1>11. Sum(m, U) <= Sum(Lowest(g, v), Tiers(g)) + Beyond(g)
  BY <1>4, <1>5, <1>7, <1>8, <1>9, <1>10
<1> QED
  BY <1>11 DEF m, U, v

\* The best hand gets all of it.
LEMMA BestHandPaid ==
    ASSUME NEW g \in Games, g.pot = Sum(g.totalBet, g.seated),
           NEW score \in [Contenders(g) -> Scores], NEW s \in Contenders(g),
           \A q \in Contenders(g) \ {s} : score[q] < score[s]
    PROVE  Payout(g, score)[s] >= Sum(MatchedBy(g, s), g.seated)
<1> DEFINE v == g.totalBet[s]
           T == Tiers(g)
           f == [t \in T |-> Share(g, score, t, s)]
           low == Lowest(g, v)
           b == [t \in T |-> IF t = Min(T) THEN Beyond(g) ELSE 0]
           both == [t \in T |-> low[t] + b[t]]
<1>1. /\ IsFiniteSet(T) /\ T \in SUBSET Nat /\ v \in Nat /\ v \in T \cup {0}
      /\ s \in Seats /\ s \in g.seated
      /\ IsFiniteSet(g.seated) /\ \A q \in g.seated : g.totalBet[q] \in Nat
  BY GameParts
<1>2. Payout(g, score)[s] = Sum(f, T) /\ Payout(g, score)[s] \in Nat
  BY <1>1, PaidNat DEF Payout
<1>3. CASE v = 0
  <2> DEFINE m == MatchedBy(g, s)
             U == g.seated
  <2>1. \A q \in U : m[q] = 0
    BY <1>1, <1>3 DEF MatchedBy
  <2>2. IsFiniteSet(U)
    BY <1>1
  <2> HIDE DEF m, U
  <2>3. Sum(m, U) = 0
    BY ONLY <2>1, <2>2, SumZero
  <2> QED
    BY <1>2, <2>3 DEF m, U
<1>4. CASE v # 0
  <2>1. v \in T /\ v > 0 /\ T # {}
    BY <1>1, <1>4
  <2>2. Beyond(g) \in Nat
    BY BeyondNat
  <2>3. Min(T) \in T /\ \A t \in T : Min(T) <= t
    <3> HIDE DEF T
    <3> QED
      BY <1>1, <2>1, MinIsLeast
  <2>4. \A t \in T : t <= v => f[t] = PotSize(g, t)
    <3> TAKE t \in T
    <3> SUFFICES ASSUME t <= v PROVE f[t] = PotSize(g, t)
      OBVIOUS
    <3>1. s \in Eligible(g, t)
      BY DEF Eligible
    <3>2. Eligible(g, t) \in SUBSET Contenders(g)
      BY DEF Eligible
    <3>3. \A q \in Contenders(g) : score[q] \in Nat
      OBVIOUS
    <3>4. Winners(g, score, t) = {s}
      <4>1. s \in Winners(g, score, t)
        BY <3>1, <3>2, <3>3 DEF Winners
      <4>2. \A q \in Winners(g, score, t) : q = s
        BY <3>1, <3>2, <3>3 DEF Winners
      <4> QED
        BY <4>1, <4>2
    <3> QED
      BY <1>1, <3>4, SoleWinner
  <2>5. \A t \in T : /\ low[t] \in Int /\ b[t] \in Int /\ f[t] \in Int
                     /\ low[t] + b[t] <= f[t]
    <3> TAKE t \in T
    <3>1. f[t] \in Nat /\ TierSize(g)[t] \in Nat
      BY <1>1, ShareNat, TierSizeNat
    <3>2. t \in Nat /\ Min(T) \in Nat
      BY <1>1, <2>3
    <3>3. PotSize(g, t) = TierSize(g)[t]
              + IF t = Min(T) /\ Beyond(g) > 0 THEN Beyond(g) ELSE 0
      BY PotNat
    <3>4. low[t] = IF t <= v THEN TierSize(g)[t] ELSE 0
      BY DEF Lowest
    <3>5. b[t] = IF t = Min(T) THEN Beyond(g) ELSE 0
      OBVIOUS
    <3>6. t <= v => f[t] = PotSize(g, t)
      BY <2>4
    <3>7. Min(T) <= v
      BY <2>1, <2>3
    <3> HIDE DEF f, low, b, T
    <3>8. CASE t <= v
      BY <2>2, <3>1, <3>3, <3>4, <3>5, <3>6, <3>8
    <3>9. CASE ~ (t <= v)
      BY <1>1, <2>2, <3>1, <3>2, <3>4, <3>5, <3>7, <3>9
    <3> QED
      BY <3>8, <3>9
  <2>6. \A t \in T \ {Min(T)} : b[t] = 0
    OBVIOUS
  <2>7. b[Min(T)] = Beyond(g)
    BY <2>3
  <2>8. \A t \in T : both[t] = low[t] + b[t]
    OBVIOUS
  <2> DEFINE x == Min(T)
  <2>9. x \in T
    BY <2>3
  <2> HIDE DEF T, f, low, b, both, x
  <2>10. Sum(both, T) = Sum(low, T) + Sum(b, T)
    <3>1. \A t \in T : low[t] \in Int /\ b[t] \in Int /\ both[t] = low[t] + b[t]
      BY <2>5, <2>8
    <3>2. IsFiniteSet(T)
      BY <1>1
    <3> QED
      BY ONLY <3>1, <3>2, SumPlus
  <2>11. Sum(both, T) <= Sum(f, T)
    <3>1. \A t \in T : both[t] \in Int /\ f[t] \in Int /\ both[t] <= f[t]
      BY <2>5, <2>8
    <3>2. IsFiniteSet(T)
      BY <1>1
    <3> QED
      BY ONLY <3>1, <3>2, SumMono
  <2>12. Sum(b, T) = Beyond(g)
    <3>1. /\ IsFiniteSet(T) /\ \A t \in T : b[t] \in Int
      BY <1>1, <2>5
    <3>2. Sum(b, T) = b[x] + Sum(b, T \ {x})
      BY ONLY <2>9, <3>1, SumTake
    <3>3. Sum(b, T \ {x}) = 0
      <4>1. IsFiniteSet(T \ {x}) /\ \A t \in T \ {x} : b[t] = 0
        BY <2>6, <3>1, FS_RemoveElement DEF x
      <4> QED
        BY ONLY <4>1, SumZero
    <3>4. b[x] = Beyond(g)
      BY <2>7 DEF x
    <3> QED
      BY <2>2, <3>2, <3>3, <3>4
  <2>13. Sum(MatchedBy(g, s), g.seated) <= Sum(low, T) + Beyond(g)
    BY <2>1, MatchedInPots DEF low, T
  <2>14. Sum(low, T) \in Int /\ Sum(f, T) \in Int
    <3>1. IsFiniteSet(T) /\ \A t \in T : low[t] \in Int /\ f[t] \in Int
      BY <1>1, <2>5
    <3> QED
      BY ONLY <3>1, SumInt
  <2>15. Sum(MatchedBy(g, s), g.seated) \in Int
    <3> DEFINE m == MatchedBy(g, s)
               U == g.seated
    <3>1. IsFiniteSet(U) /\ \A q \in U : m[q] \in Int
      BY <1>1 DEF MatchedBy
    <3> HIDE DEF m, U
    <3>2. Sum(m, U) \in Int
      BY ONLY <3>1, SumInt
    <3> QED
      BY <3>2 DEF m, U
  <2> QED
    BY <1>2, <2>2, <2>10, <2>11, <2>12, <2>13, <2>14, <2>15
<1> QED
  BY <1>3, <1>4

\* And what nobody else could match goes back.
LEMMA UnmatchedReturned ==
    ASSUME NEW g \in Games, NEW score \in [Contenders(g) -> Scores],
           NEW s \in Contenders(g)
    PROVE  Payout(g, score)[s]
              >= g.totalBet[s] - Max({0} \cup {g.totalBet[q] : q \in Contenders(g) \ {s}})
<1> DEFINE v == g.totalBet[s]
           T == Tiers(g)
           f == [t \in T |-> Share(g, score, t, s)]
           B == {g.totalBet[q] : q \in Contenders(g) \ {s}}
           L == {0} \cup B
           M == Max(L)
<1>1. /\ IsFiniteSet(T) /\ T \in SUBSET Nat /\ v \in Nat /\ v \in T \cup {0}
      /\ s \in Seats /\ IsFiniteSet(Contenders(g))
      /\ \A q \in Contenders(g) : g.totalBet[q] \in Nat
  BY GameParts
<1>2. Payout(g, score)[s] = Sum(f, T) /\ Payout(g, score)[s] \in Nat
  BY <1>1, PaidNat DEF Payout
<1>3. M \in L /\ M \in Nat /\ \A x \in L : x <= M
  <2>1. IsFiniteSet(B)
    <3>1. IsFiniteSet(Contenders(g) \ {s})
      BY <1>1, FS_Subset
    <3> QED
      BY <3>1, FiniteImage
  <2>2. IsFiniteSet(L) /\ L \in SUBSET Nat /\ L # {}
    <3>1. IsFiniteSet(B \cup {0})
      <4> HIDE DEF B
      <4> QED
        BY <2>1, FS_AddElement
    <3>2. L = B \cup {0}
      OBVIOUS
    <3>3. IsFiniteSet(L)
      BY <3>1, <3>2
    <3> QED
      BY <1>1, <3>3
  <2> HIDE DEF L
  <2> QED
    BY <2>2, MaxIsGreatest
<1>4. \A q \in Contenders(g) \ {s} : g.totalBet[q] <= M
  BY <1>3
<1> HIDE DEF M, L, B
<1>5. CASE v <= M
  BY <1>1, <1>2, <1>3, <1>5 DEF M, L, B
<1>6. CASE ~ (v <= M)
  <2>1. v \in T /\ v > M
    BY <1>1, <1>3, <1>6
  <2>2. Eligible(g, v) = {s}
    <3>1. s \in Eligible(g, v)
      BY <1>1 DEF Eligible
    <3>2. \A q \in Eligible(g, v) : q = s
      <4> SUFFICES ASSUME NEW q \in Contenders(g) \ {s}, g.totalBet[q] >= v PROVE FALSE
        BY DEF Eligible
      <4>1. g.totalBet[q] <= M /\ g.totalBet[q] \in Nat
        BY <1>1, <1>4
      <4> QED
        BY <1>1, <1>3, <2>1, <4>1
    <3> QED
      BY <3>1, <3>2
  <2>3. Winners(g, score, v) = {s}
    BY <2>1, <2>2, WinnersExist
  <2>4. f[v] = PotSize(g, v)
    BY <1>1, <2>1, <2>3, SoleWinner
  <2>5. TierBelow(g, v) \in Nat /\ TierBelow(g, v) <= M
    <3>1. TierBelow(g, v) \in T \cup {0} /\ TierBelow(g, v) \in Nat /\ TierBelow(g, v) < v
      BY <2>1, Below
    <3>2. CASE TierBelow(g, v) = 0
      BY <1>3, <3>2
    <3>3. CASE TierBelow(g, v) \in T
      <4>1. PICK q \in Contenders(g) : TierBelow(g, v) = g.totalBet[q]
        BY <3>3 DEF Tiers
      <4>2. q # s
        BY <1>1, <3>1, <4>1
      <4> QED
        BY <1>4, <3>1, <4>1, <4>2
    <3> QED
      BY <3>1, <3>2, <3>3
  <2>6. TierSize(g)[v] = v - TierBelow(g, v)
    <3>1. TierSize(g)[v] = (v - TierBelow(g, v)) * Cardinality(Eligible(g, v))
      BY <2>1 DEF TierSize
    <3>2. Cardinality(Eligible(g, v)) = 1
      BY <2>2, FS_Singleton
    <3> HIDE DEF v
    <3> QED
      BY <1>1, <2>5, <3>1, <3>2
  <2>7. f[v] >= v - M
    <3>1. PotSize(g, v) \in Nat /\ PotSize(g, v) >= TierSize(g)[v]
      BY <2>1, PotNat
    <3> HIDE DEF v, f
    <3> QED
      BY <1>1, <1>3, <2>4, <2>5, <2>6, <3>1
  <2>8. Sum(f, T) >= f[v] /\ f[v] \in Nat
    <3>1. \A t \in T : f[t] \in Nat /\ f[t] \in Int
      BY <1>1, ShareNat
    <3> HIDE DEF f, T, v
    <3>2. IsFiniteSet(T) /\ \A t \in T : f[t] \in Int
      BY <1>1, <3>1
    <3>3. Sum(f, T) = f[v] + Sum(f, T \ {v})
      BY ONLY <2>1, <3>2, SumTake
    <3>4. Sum(f, T \ {v}) \in Nat
      <4>1. IsFiniteSet(T \ {v}) /\ \A t \in T \ {v} : f[t] \in Nat
        BY <3>1, <3>2, FS_RemoveElement
      <4> QED
        BY ONLY <4>1, SumNat
    <3> QED
      BY <2>1, <3>1, <3>3, <3>4
  <2> HIDE DEF f, T, v
  <2> QED
    BY <1>1, <1>2, <1>3, <2>7, <2>8 DEF M, L, B, v
<1> QED
  BY <1>5, <1>6

\* Where the lowest seats are taken: were the pot settled at any moment of a
\* hand, whatever the cards, it would be paid out whole, the best hand would get
\* every chip it matched, and nobody would lose more than the largest bet some
\* other player stood to match (_determine_pot_winners, _process_showdown_results).
THEOREM PayoutIsFair == ASSUME NoGaps PROVE Spec => []FairPayout
<1>1. TypeOK /\ RoundInv(table) /\ TurnInv(table) => FairPayout
  <2> SUFFICES ASSUME TypeOK, RoundInv(table), TurnInv(table), InHand,
                      NEW score \in [Contenders(table) -> Scores]
               PROVE  LET paid == Payout(table, score)
                          bet == table.totalBet
                          Matched(s, q) == IF bet[q] < bet[s] THEN bet[q] ELSE bet[s]
                      IN  /\ Sum(paid, Seats) = table.pot
                          /\ \A s \in Contenders(table) :
                                (\A q \in Contenders(table) \ {s} : score[q] < score[s])
                                    => paid[s] >= Sum([q \in table.seated |-> Matched(s, q)],
                                                      table.seated)
                          /\ \A s \in Contenders(table) :
                                paid[s] >= bet[s] - Max({0} \cup {bet[q] :
                                                        q \in Contenders(table) \ {s}})
    BY DEF FairPayout
  <2>1. table \in Games /\ table.pot = Sum(table.totalBet, table.seated)
    BY DEF TypeOK, Games, RoundInv
  <2>2. Tiers(table) # {}
    <3>1. HasBets(table)
      BY DEF TurnInv, InHand, InTurn
    <3>2. PICK s \in Contenders(table) : table.totalBet[s] > 0
      BY <3>1 DEF HasBets
    <3>3. table.totalBet[s] \in Tiers(table)
      BY <3>2 DEF Tiers
    <3> QED
      BY <3>3
  <2>3. Sum(Payout(table, score), Seats) = table.pot
    BY <2>1, <2>2, PaidWhole
  <2>4. ASSUME NEW s \in Contenders(table),
               \A q \in Contenders(table) \ {s} : score[q] < score[s]
        PROVE  Payout(table, score)[s] >= Sum(MatchedBy(table, s), table.seated)
    BY <2>1, <2>4, BestHandPaid
  <2>5. ASSUME NEW s \in Contenders(table)
        PROVE  Payout(table, score)[s] >= table.totalBet[s]
                  - Max({0} \cup {table.totalBet[q] : q \in Contenders(table) \ {s}})
    BY <2>1, UnmatchedReturned
  <2> QED
    BY <2>3, <2>4, <2>5 DEF MatchedBy
<1> QED
  BY <1>1, HandInvariant, PTL
=============================================================================
