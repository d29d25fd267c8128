-------------------------------- MODULE Tracker -------------------------------
(***************************************************************************)
(* The scoring of past recommendations against the prices that followed    *)
(* (performance/tracker.py), asked again every day: `track`, the daily     *)
(* snapshot and the advisor's performance tool.                            *)
(*                                                                         *)
(* A day has at most one bar of the symbol.  While the day lasts its bar   *)
(* is live: it appears with the first trade and its close moves with every *)
(* other (the gap scan of risk/evaluators.py:28-35 relies on it).  A       *)
(* snapshot sees the newest Window bars, the ones get_candles was asked    *)
(* for.                                                                    *)
(***************************************************************************)
EXTENDS Integers, FiniteSets, Sequences

CONSTANTS
    Closes,    \* the closing prices, by day; 0 is a day without a bar
    Quotes,    \* what the bar of a day may show before it is final
    Records,   \* the ledger: [date, action]
    Horizons,  \* the forward bars that are scored
    Primary,   \* the horizon of the summary
    Window     \* the bars of a snapshot

VARIABLES
    prices,    \* the closing prices, as the days bring them
    today,     \* the day of the snapshot
    quote,     \* what the bar of today shows, 0 while there is none
    scores,    \* record -> horizon -> its score, or Unscored
    summary,   \* of the last snapshot: [scored, pending]
    seen, stood  \* history: the closes of the last whole snapshot, its scores

trackerVars == <<prices, today, quote, scores, summary, seen, stood>>

ASSUME TrackerAssumption ==
    /\ Primary \in Horizons /\ Horizons \subseteq Nat \ {0}
    /\ Window \in Nat /\ Closes \subseteq Seq(Nat) \ {<<>>}
    /\ Quotes \subseteq Nat \ {0}
    /\ IsFiniteSet(Records) /\ \A r \in Records : r.date \in Nat

Unscored == <<>>
NoScore == [h \in Horizons |-> Unscored]

(* BUY and ADD are for a rise, SELL and TRIM for a fall, HOLD for nothing. *)
Direction == [BUY |-> 1, ADD |-> 1, SELL |-> -1, TRIM |-> -1]
Directional == {r \in Records : r.action \in DOMAIN Direction}

NothingScored ==
    /\ quote = 0 /\ seen = <<>>
    /\ scores = [r \in Directional |-> NoScore] /\ stood = scores
    /\ summary = [scored |-> 0, pending |-> 0]

TrackerIdle == prices = <<>> /\ today = 0 /\ NothingScored
TrackerInit == prices \in Closes /\ today = 1 /\ NothingScored

-----------------------------------------------------------------------------
(* The closes a snapshot may see now, the days that have a bar among them, *)
(* and the bars it gets when some of those days answer.                    *)
Tape == [d \in 1 .. today |-> IF d = today THEN quote ELSE prices[d]]
Traded(tape) == {d \in DOMAIN tape : tape[d] > 0}
Bars(days) == {d \in days : Cardinality({u \in days : u > d}) < Window}

(* Of the bars on or after a date the one with n of them before it, or     *)
(* none; n = 0 is the entry of a recommendation of that date.              *)
NthFrom(bars, date, n) ==
    {d \in bars : d >= date /\ Cardinality({u \in bars : date <= u /\ u < d}) = n}

PriceAt(tape, bar) == tape[CHOOSE d \in bar : TRUE]

(* Mutant: a horizon not reached yet is scored at the last bar.            *)
MutantForwardReturnSoFar(tape, bars, date, h, action) ==
    LET from == {d \in bars : d >= date}
        reached == NthFrom(bars, date, h)
        newest == {d \in from : \A u \in from : u <= d}
    IN  IF from = {} THEN Unscored
        ELSE <<Direction[action], PriceAt(tape, NthFrom(bars, date, 0)),
               PriceAt(tape, IF reached = {} THEN newest ELSE reached)>>

(* The return from the entry to the bar a horizon later, with the sign of  *)
(* the call.  It is kept as the pair of prices, and the sign.              *)
ForwardReturn(tape, bars, date, h, action) ==
    IF NthFrom(bars, date, h) = {} THEN Unscored
    ELSE <<Direction[action], PriceAt(tape, NthFrom(bars, date, 0)),
           PriceAt(tape, NthFrom(bars, date, h))>>

ScoreOf(tape, bars, r) ==
    [h \in Horizons |-> ForwardReturn(tape, bars, r.date, h, r.action)]

Snapshot(bars) ==
    /\ today > 0
    /\ scores' = [r \in Directional |->
                    IF r.date <= today THEN ScoreOf(Tape, bars, r) ELSE NoScore]
    /\ LET logged == {r \in Directional : r.date <= today}
           scored == {r \in logged : scores'[r][Primary] # Unscored}
       IN  summary' = [scored |-> Cardinality(scored),
                       pending |-> Cardinality(logged \ scored)]
    /\ UNCHANGED <<prices, today, quote>>

Track ==
    /\ Snapshot(Bars(Traded(Tape)))
    /\ seen' = Tape /\ stood' = scores'

(* A bar that does not validate is skipped and older ones take its place;  *)
(* candles that cannot be fetched leave every record pending.              *)
TrackDamaged ==
    /\ \E got \in SUBSET Traded(Tape) : got # Traded(Tape) /\ Snapshot(Bars(got))
    /\ UNCHANGED <<seen, stood>>

(* The bar of today appears, or moves.                                     *)
Trade ==
    /\ today > 0 /\ prices[today] > 0
    /\ quote' \in Quotes
    /\ UNCHANGED <<prices, today, scores, summary, seen, stood>>

NextDay ==
    /\ today > 0 /\ today < Len(prices)
    /\ today' = today + 1 /\ quote' = 0
    /\ UNCHANGED <<prices, scores, summary, seen, stood>>

TrackerNext == Track \/ TrackDamaged \/ Trade \/ NextDay
=============================================================================
