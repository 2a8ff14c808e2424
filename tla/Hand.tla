-------------------------------- MODULE Hand --------------------------------
(***************************************************************************)
(* One hand of Texas Hold'em at one table: the blinds, the four player     *)
(* actions, the turn, the streets, the settlement of the pot and the vote  *)
(* that stops a hand.                                                      *)
(*                                                                         *)
(* pokerbotmodel.py holds the actions and the turn (_process_playing,      *)
(* RoundRateModel), matchmaking_service.py the start of a hand and the     *)
(* streets, game_engine.py the settlement and the stop vote, entities.py   *)
(* the table itself.  A player is named by the seat it takes, cards are    *)
(* the rank they give each contender when the pot is settled.  Each        *)
(* handler is one step: it runs under the table's write lock and saves     *)
(* with a version check (TableRWLock and PlayerActions model those).       *)
(*                                                                         *)
(* _process_playing asks self.game_service for the next street.  Nothing   *)
(* in the program assigns that attribute (the tests do), so the code as it *)
(* stands is ServiceBound = FALSE; with ServiceBound = TRUE the attribute  *)
(* is the service docs/game_flow.md names, MatchmakingService, working on  *)
(* the game the handler holds.                                             *)
(***************************************************************************)
EXTENDS Integers, FiniteSets, FiniteSetsExt, Sums

CONSTANTS
    MaxPlayers,     \* seats at the table
    SmallBlind,     \* the small blind; the big blind is twice that
    Raises,         \* the amounts a raise button offers
    Wallets,        \* the wallets the players may bring to the first hand
    Scores,         \* ranks a hand of cards can have
    Seatings,       \* the sets of seats that may be taken when a hand starts
    Manager,        \* the seat of the table's manager
    MaxHands,       \* bound: hands played in a behaviour
    ServiceBound    \* whether game_service is assigned

Seats == 0 .. MaxPlayers - 1

NoSeat == -1

ASSUME HandAssumption ==
    /\ MaxPlayers \in Nat \ {0}
    /\ SmallBlind \in Nat \ {0}
    /\ Raises \subseteq Nat \ {0}
    /\ Wallets \subseteq [Seats -> Nat]
    /\ Scores # {} /\ Scores \subseteq Nat
    /\ Seatings \subseteq SUBSET Seats
    /\ MaxHands \in Nat
    /\ ServiceBound \in BOOLEAN

VARIABLES
    table,      \* the Game: seats, players and pot
    wallet,     \* u_m: each player's balance
    reserved,   \* u_am: what is reserved under the running hand's game id
    vote,       \* the stop request in chat_data
    stake,      \* history: the wallets when the hand started
    hands       \* hands started

vars == <<table, wallet, reserved, vote, stake, hands>>

NoVote == [active |-> {}, votes |-> {}]

\* Game.reset(): every seat empties, the dealer's seat is kept.
EmptyTable(dealer) ==
    [street |-> "initial", seated |-> {}, pot |-> 0, maxRate |-> 0,
     turn |-> NoSeat, dealer |-> dealer,
     state |-> [s \in Seats |-> "active"],
     roundRate |-> [s \in Seats |-> 0],
     totalBet |-> [s \in Seats |-> 0],
     hasActed |-> [s \in Seats |-> FALSE]]

Init ==
    /\ table = EmptyTable(0)
    /\ wallet \in Wallets
    /\ reserved = [s \in Seats |-> 0]
    /\ vote = NoVote
    /\ stake = wallet
    /\ hands = 0

-----------------------------------------------------------------------------
(* Seats and turns.                                                        *)

InState(g, states) == {s \in g.seated : g.state[s] \in states}
Active(g) == InState(g, {"active"})
Contenders(g) == InState(g, {"active", "allin"})

\* Game.next_occupied_seat: the first occupied seat after start, going round.
NextOccupied(seated, start) ==
    LET steps == {i \in 1 .. MaxPlayers : (start + i) % MaxPlayers \in seated}
    IN  (start + Min(steps)) % MaxPlayers

\* game.players[i]: the list of players has no gaps where seats are empty.
PlayerAt(g, i) ==
    CHOOSE s \in g.seated : Cardinality({q \in g.seated : q < s}) = i

\* Mutant of NextActive: the next player, whether or not they can act.
NextPlayer(g, start) == (start + 1) % Cardinality(g.seated)

\* _find_next_active_player_index: counts through the list of players, not
\* through the seats, although start and the result are used as seats.
NextActive(g, start) ==
    LET n == Cardinality(g.seated)
        steps == {i \in 1 .. n :
                     PlayerAt(g, (start + i) % n) \in Active(g)}
    IN  IF steps = {} THEN NoSeat ELSE (start + Min(steps)) % n

-----------------------------------------------------------------------------
(* The start of a hand.                                                    *)

\* _set_player_blind: pays what the wallet holds and goes all-in when that is
\* less than the blind.
Blind(amount, s) == IF wallet[s] >= amount THEN amount ELSE wallet[s]

\* set_blinds.  The chips are reserved under the chat's id, not the game's,
\* so `reserved` does not see them.
SetBlinds(seated, dealer) ==
    LET headsUp == Cardinality(seated) = 2
        small == IF headsUp THEN dealer ELSE NextOccupied(seated, dealer)
        big == NextOccupied(seated, small)
        first == IF headsUp THEN small ELSE NextOccupied(seated, big)
        due == [s \in Seats |-> IF s = small THEN SmallBlind
                                ELSE IF s = big THEN 2 * SmallBlind ELSE 0]
        paid == [s \in Seats |-> Blind(due[s], s)]
    IN  /\ table' = [EmptyTable(dealer) EXCEPT
                        !.street = "preflop", !.seated = seated,
                        !.state = [s \in Seats |-> IF paid[s] < due[s]
                                                   THEN "allin" ELSE "active"],
                        !.roundRate = paid, !.totalBet = paid,
                        !.pot = Sum(paid, seated),
                        !.maxRate = 2 * SmallBlind, !.turn = first]
        /\ wallet' = [s \in Seats |-> wallet[s] - paid[s]]

\* start_game, once enough players who can pay the big blind are ready.
StartHand(seated) ==
    /\ table.street = "initial" /\ hands < MaxHands
    /\ Cardinality(seated) >= 2
    /\ \A s \in seated : wallet[s] >= 2 * SmallBlind
    /\ SetBlinds(seated, NextOccupied(seated, table.dealer))
    /\ stake' = wallet
    /\ hands' = hands + 1
    /\ UNCHANGED <<reserved, vote>>

-----------------------------------------------------------------------------
(* The settlement of the pot.                                              *)

Tiers(g) == {g.totalBet[s] : s \in Contenders(g)} \ {0}
Eligible(g, t) == {s \in Contenders(g) : g.totalBet[s] >= t}
TierBelow(g, t) == Max({0} \cup {u \in Tiers(g) : u < t})

TierSize(g) ==
    [t \in Tiers(g) |-> (t - TierBelow(g, t)) * Cardinality(Eligible(g, t))]

\* Mutant of PotSize: the chips of those who folded go to nobody.
PotOfContenders(g, t) == TierSize(g)[t]

\* _determine_pot_winners: one pot per tier of the contenders' bets; what is
\* in game.pot beyond them, the chips of those who folded, goes to the first.
PotSize(g, t) ==
    LET beyond == g.pot - Sum(TierSize(g), Tiers(g))
    IN  TierSize(g)[t]
            + IF t = Min(Tiers(g)) /\ beyond > 0 THEN beyond ELSE 0

Winners(g, score, t) ==
    {s \in Eligible(g, t) : \A q \in Eligible(g, t) : score[q] <= score[s]}

\* Mutant of Share: the odd chips stay behind.
ShareRoundedDown(g, score, t, s) ==
    IF s \in Winners(g, score, t)
    THEN PotSize(g, t) \div Cardinality(Winners(g, score, t)) ELSE 0

\* _process_showdown_results: equal shares, the odd chips to the first seats.
Share(g, score, t, s) ==
    LET winners == Winners(g, score, t)
        n == Cardinality(winners)
        before == Cardinality({q \in winners : q < s})
    IN  IF s \notin winners THEN 0
        ELSE PotSize(g, t) \div n
                 + IF before < PotSize(g, t) % n THEN 1 ELSE 0

Payout(g, score) ==
    [s \in Seats |-> Sum([t \in Tiers(g) |-> Share(g, score, t, s)], Tiers(g))]

\* finalize_game: _determine_winners, _distribute_payouts and the reset.  The
\* new game has a new id, under which nothing is reserved or voted on.
Finalize(g, w) ==
    /\ table' = EmptyTable(g.dealer)
    /\ reserved' = [s \in Seats |-> 0]
    /\ vote' = NoVote
    /\ \E score \in [Contenders(g) -> Scores] :
          wallet' = [s \in Seats |-> w[s] + Payout(g, score)[s]]

-----------------------------------------------------------------------------
(* What follows an action: _process_playing and progress_stage.            *)

IsBettingRoundOver(g) ==
    /\ \A s \in Active(g) : g.hasActed[s]
    /\ \A s, q \in Active(g) : g.roundRate[s] = g.roundRate[q]

NextStreet == [preflop |-> "flop", flop |-> "turn", turn |-> "river"]

\* The street is over when one player is left or the bets are even.
StageNeeded(g) == Cardinality(Contenders(g)) <= 1 \/ IsBettingRoundOver(g)

\* progress_stage has nothing left to bet on: one contender, the river, or
\* everyone all-in, when it deals the remaining streets in its loop.
HandOver(g) ==
    Cardinality(Contenders(g)) <= 1 \/ g.street = "river" \/ Active(g) = {}

\* collect_bets_for_pot and the next street.  progress_stage gives the turn
\* to the first active player after the dealer, then _process_playing, which
\* called it, moves the turn on once more.
Dealt(g) ==
    LET next == [g EXCEPT !.street = NextStreet[g.street], !.maxRate = 0,
                          !.roundRate = [s \in Seats |-> 0],
                          !.hasActed = [s \in Seats |-> FALSE]]
    IN  [next EXCEPT !.turn = NextActive(next, NextActive(next, g.dealer))]

\* The game g, the wallets w and the reservations r are what the action left;
\* the table is saved only when _process_playing returns.
ProcessPlaying(g, w, r) ==
    /\ UNCHANGED <<stake, hands>>
    /\ \/ /\ ~StageNeeded(g)
          /\ table' = [g EXCEPT !.turn = NextActive(g, g.turn)]
          /\ wallet' = w /\ reserved' = r
          /\ UNCHANGED vote
       \/ /\ StageNeeded(g) /\ ServiceBound /\ ~HandOver(g)
          /\ table' = Dealt(g)
          /\ wallet' = w /\ reserved' = r
          /\ UNCHANGED vote
       \/ /\ StageNeeded(g) /\ ServiceBound /\ HandOver(g)
          /\ Finalize(g, w)
       \/ /\ StageNeeded(g) /\ ~ServiceBound    \* AttributeError: not saved
          /\ wallet' = w /\ reserved' = r
          /\ UNCHANGED <<table, vote>>

-----------------------------------------------------------------------------
(* The player actions.  Only the turn is checked, against the seat.        *)

MayAct(s) == table.street # "initial" /\ table.turn = s /\ s \in table.seated

\* player_action_fold
Fold(s) ==
    /\ MayAct(s)
    /\ ProcessPlaying([table EXCEPT !.state[s] = "fold", !.hasActed[s] = TRUE],
                      wallet, reserved)

\* Mutants of Bet: the player's total is not kept; the action does not count
\* as the player's turn in this round.
BetUnrecorded(g, s, amount) ==
    [g EXCEPT !.roundRate[s] = @ + amount, !.pot = @ + amount, !.hasActed[s] = TRUE]
BetUnmarked(g, s, amount) ==
    [g EXCEPT !.roundRate[s] = @ + amount, !.totalBet[s] = @ + amount,
              !.pot = @ + amount]

\* What authorize() reserves and the action adds to the bets and the pot.
Bet(g, s, amount) ==
    [g EXCEPT !.roundRate[s] = @ + amount, !.totalBet[s] = @ + amount,
              !.pot = @ + amount, !.hasActed[s] = TRUE]

Pay(s, amount, g) ==
    ProcessPlaying(g, [wallet EXCEPT ![s] = @ - amount],
                      [reserved EXCEPT ![s] = @ + amount])

CallAmount(s) == Max({0, table.maxRate - table.roundRate[s]})

\* Mutant of Call: dec() without its check of the balance.
CallOnCredit(s) ==
    /\ MayAct(s)
    /\ Pay(s, CallAmount(s), Bet(table, s, CallAmount(s)))

\* player_action_call_check: rejected when the wallet cannot pay.
Call(s) ==
    /\ MayAct(s)
    /\ wallet[s] >= CallAmount(s)
    /\ Pay(s, CallAmount(s), Bet(table, s, CallAmount(s)))

\* Mutant of Raised: those who already acted are not asked again.
RaisedQuietly(g, s) == [g EXCEPT !.maxRate = g.roundRate[s]]

\* A raise: the round's rate is the player's, everyone else must act again.
Raised(g, s) ==
    [g EXCEPT !.maxRate = g.roundRate[s],
              !.hasActed = [q \in Seats |-> g.hasActed[q]
                                            /\ (q = s \/ q \notin Active(g))]]

\* player_action_raise_bet
Raise(s, amount) ==
    LET total == CallAmount(s) + amount
    IN  /\ MayAct(s)
        /\ wallet[s] >= total
        /\ Pay(s, total, Raised(Bet(table, s, total), s))

\* player_action_all_in: the whole wallet, a raise only if it tops the rate.
AllIn(s) ==
    LET bet == Bet(table, s, wallet[s])
        g == IF bet.roundRate[s] > table.maxRate THEN Raised(bet, s) ELSE bet
    IN  /\ MayAct(s)
        /\ wallet[s] > 0
        /\ Pay(s, wallet[s], [g EXCEPT !.state[s] = "allin"])

Play(s) ==
    \/ Fold(s)
    \/ Call(s)
    \/ \E amount \in Raises : Raise(s, amount)
    \/ AllIn(s)

-----------------------------------------------------------------------------
(* The vote to stop the hand.                                              *)

\* stop_game / request_stop: opens the request or refreshes its voters.
RequestStop(s) ==
    /\ table.street # "initial" /\ s \in table.seated
    /\ vote' = [active |-> Contenders(table),
                votes |-> vote.votes \cup ({s} \cap Contenders(table))]
    /\ UNCHANGED <<table, wallet, reserved, stake, hands>>

\* confirm_stop_vote up to the decision: the voters are those the request
\* listed, even if they folded since; the manager decides alone.
MayVote(s) == vote # NoVote /\ (s \in vote.active \/ s = Manager)

StopPasses(s) ==
    \/ s = Manager
    \/ Cardinality((vote.votes \cup {s}) \cap vote.active)
           >= Cardinality(vote.active) \div 2 + 1

ConfirmStop(s) ==
    /\ MayVote(s) /\ ~StopPasses(s)
    /\ vote' = [vote EXCEPT !.votes = @ \cup {s}]
    /\ UNCHANGED <<table, wallet, reserved, stake, hands>>

\* cancel_hand: wallet.cancel(game.id) for everyone seated, then the reset.
CancelHand(s) ==
    /\ MayVote(s) /\ StopPasses(s)
    /\ wallet' = [q \in Seats |-> wallet[q]
                                  + IF q \in table.seated THEN reserved[q] ELSE 0]
    /\ reserved' = [q \in Seats |-> 0]
    /\ table' = EmptyTable(table.dealer)
    /\ vote' = NoVote
    /\ UNCHANGED <<stake, hands>>

\* resume_stop_vote
ResumePlay ==
    /\ vote # NoVote
    /\ vote' = NoVote
    /\ UNCHANGED <<table, wallet, reserved, stake, hands>>

-----------------------------------------------------------------------------
Next ==
    \/ \E seated \in Seatings : StartHand(seated)
    \/ \E s \in Seats : Play(s) \/ RequestStop(s) \/ ConfirmStop(s) \/ CancelHand(s)
    \/ ResumePlay

Spec == Init /\ [][Next]_vars

\* The player on turn acts: no timer does it for them.
FairSpec == Spec /\ WF_vars(\E s \in Seats : Play(s))

-----------------------------------------------------------------------------
(* Properties.                                                             *)

Streets == {"initial", "preflop", "flop", "turn", "river"}

\* Type correctness.
TypeOK ==
    /\ table \in [street : Streets, seated : SUBSET Seats, pot : Nat,
                  maxRate : Nat, turn : Seats \cup {NoSeat}, dealer : Seats,
                  state : [Seats -> {"active", "allin", "fold"}],
                  roundRate : [Seats -> Nat], totalBet : [Seats -> Nat],
                  hasActed : [Seats -> BOOLEAN]]
    /\ wallet \in [Seats -> Nat] /\ reserved \in [Seats -> Nat]
    /\ stake \in [Seats -> Nat]
    /\ vote \in [active : SUBSET Seats, votes : SUBSET Seats]
    /\ hands \in 0 .. MaxHands

InHand == table.street # "initial"

\* Every chip that left a wallet since the hand started is recorded as a bet
\* of that player, and the pot is what the bets add up to.
ChipsInPlay ==
    InHand => /\ \A s \in Seats : wallet[s] + table.totalBet[s] = stake[s]
              /\ table.pot = Sum(table.totalBet, table.seated)

\* What was put in on the streets already closed.
EarlierBets(s) == table.totalBet[s] - table.roundRate[s]

\* No betting round closes on uneven stakes: whoever can still bet has put in
\* as much on the closed streets as any other contender.
EvenStakes ==
    \A s \in Active(table), q \in Contenders(table) :
        EarlierBets(s) >= EarlierBets(q)

\* The turn is always with a player who can act, so a hand never waits for an
\* empty seat, for someone who folded or for someone who is all-in.
TurnIsPlayable == InHand => table.turn \in Active(table)

\* Were the pot settled now, whatever the cards, it would be paid out whole,
\* the best hand would get every chip it matched, and nobody would lose more
\* than the largest bet that some other player stood to match.
FairPayout ==
    InHand =>
        \A score \in [Contenders(table) -> Scores] :
            LET paid == Payout(table, score)
                bet == table.totalBet
                Matched(s, q) == IF bet[q] < bet[s] THEN bet[q] ELSE bet[s]
            IN  /\ Sum(paid, Seats) = table.pot
                /\ \A s \in Contenders(table) :
                      (\A q \in Contenders(table) \ {s} : score[q] < score[s])
                          => paid[s] >= Sum([q \in table.seated |-> Matched(s, q)],
                                            table.seated)
                /\ \A s \in Contenders(table) :
                      paid[s] >= bet[s] - Max({0} \cup {bet[q] :
                                              q \in Contenders(table) \ {s}})

\* The chips of wallets and pot together change in one way only: a hand that
\* a vote cancels keeps the blinds, which were not reserved under its id.
Chips == Sum(wallet, Seats) + table.pot
BlindsPaid ==
    Sum([s \in table.seated |-> table.totalBet[s] - reserved[s]], table.seated)

OnlyBlindsAreLost ==
    [][ \/ Chips' = Chips
        \/ /\ vote # NoVote /\ InHand /\ ~InHand'
           /\ Chips' = Chips - BlindsPaid ]_vars

\* docs/game_flow.md:50: cancel_hand() refunds wallets.
StopRefunds ==
    [][ \A s \in Seats :
          CancelHand(s) => \A q \in table.seated : wallet'[q] = stake[q] ]_vars

\* Every hand ends: betting cannot go round for ever.
HandEnds == InHand ~> ~InHand
=============================================================================
