-------------------------------- MODULE Backtest ------------------------------
(***************************************************************************)
(* The walk-forward backtest (backtest/engine.py): the strategies are run  *)
(* again at bars of the past, and a paper portfolio follows them.          *)
(* Histories are aligned by position, from their last bars, as in the      *)
(* code; the dates of their bars are not modelled.                         *)
(*                                                                         *)
(* A bar of this model stands for a hundred of the code's: a year is two   *)
(* bars, the trend average three.  Weights count in twelfths and costs in  *)
(* weight traded; equal weights, no volatility target.                     *)
(***************************************************************************)
EXTENDS Screening

CONSTANTS
    BtUniverse,     \* the symbols of universe.yaml, in its order, each once
    Worlds,         \* price histories: symbol -> its closes, if they were fetched
    VixHistories,   \* the VIX of every bar of an aligned history
    BtNames,        \* STRATEGY of the backtest
    RebalanceBars,  \* --rebalance
    TopN            \* --top

VARIABLES
    history, vixes,   \* the world this backtest looks back on
    trendFilter,      \* --trend-filter
    bar,              \* the bar of the next step, 0 when there is none
    weights,          \* of the holdings
    pendingCost, benchPending,  \* turnover not charged yet
    charged,          \* turnover charged, bar by bar
    benchCharged,     \* and to the benchmark
    rebalances,       \* [bar, weights], one for each rebalance
    invested          \* the holdings not in cash, bar by bar

backtestVars == <<history, vixes, trendFilter, bar, weights, pendingCost, benchPending,
                  charged, benchCharged, rebalances, invested>>

WUnit == 12
TrendBars == 3

(* The strategies whose indicators a bar of a hundred shows.               *)
Readable == {"dual_momentum", "canslim", "meb_faber", "relative_strength",
             "graham", "magic_formula", "buffett_quality", "piotroski"}

ASSUME BacktestAssumption ==
    /\ RebalanceBars \in Nat \ {0} /\ TopN \in 1 .. 4
    /\ BtNames \in Seq(Readable) \ {<<>>}
    /\ BtUniverse \in Seq(Symbols)
    /\ \A i, j \in DOMAIN BtUniverse : BtUniverse[i] = BtUniverse[j] => i = j
    /\ \A w \in Worlds :
          /\ DOMAIN w \subseteq ToSet(BtUniverse) /\ DOMAIN w # {}
          /\ \A s \in DOMAIN w : w[s] \in Seq(Price) \ {<<>>}

-----------------------------------------------------------------------------
(* What a strategy reads from the closes it is given.                      *)

Mean(series, n) ==
    SumFunctionOnSet(series, Len(series) - n + 1 .. Len(series)) \div n

ReturnOver(series, n) ==
    LET then == series[Len(series) - n]
    IN  RoundEven(100 * (series[Len(series)] - then), then)

ReadingOf(series) ==
    LET n == Len(series)
        year == {series[i] : i \in n - TrendBars + 1 .. n}
        high == Max(year)
        low == Min(year)
    IN  IF n < TrendBars THEN [bars |-> 100 * n]
        ELSE [bars |-> 100 * n, last |-> series[n],
              ma50 |-> Mean(series, 2), trendMa |-> Mean(series, TrendBars),
              yearHigh |-> high,
              yearPosition |-> IF high = low THEN 0
                               ELSE RoundEven(100 * (series[n] - low), high - low),
              yearReturn |-> ReturnOver(series, 2), halfReturn |-> ReturnOver(series, 1),
              volumeRatio |-> 200]

(* The closes of a world, cut to the length of its shortest history.       *)
Length(world) == Min({Len(world[s]) : s \in DOMAIN world})
Aligned(world) ==
    [s \in DOMAIN world |->
        SubSeq(world[s], Len(world[s]) - Length(world) + 1, Len(world[s]))]

(* The candle_map keeps the order in which the symbols were fetched.       *)
InMap(world) == Only(BtUniverse, {i \in DOMAIN BtUniverse : BtUniverse[i] \in DOMAIN world})

ReadAt(world, s, k) == [symbol |-> s, x |-> ReadingOf(SubSeq(Aligned(world)[s], 1, k))]

(* Mutant: the slice is one bar too long.                                  *)
MutantCandlesAndOneMore(world, k) ==
    [i \in DOMAIN InMap(world) |-> ReadAt(world, InMap(world)[i], k + 1)]

(* What the strategies are given at bar k: the candles up to k.            *)
CandlesUpTo(world, k) ==
    [i \in DOMAIN InMap(world) |-> ReadAt(world, InMap(world)[i], k)]

(* The VIX is the one of the day the backtest is run.                      *)
Now(vs) == vs[Len(vs)]

Picked(world, vs, k) ==
    ToSet(SymbolsOf(Cut(Diversify(
        ScreenUniverse(BtNames, CandlesUpTo(world, k), Now(vs), DOMAIN Figures)), TopN)))

EqualWeights(held) == [s \in held |-> WUnit \div Cardinality(held)]

(* A holding at or below its trailing average sits in cash, and so does    *)
(* one without a history.                                                  *)
Invested(world, held, k, filter) ==
    {s \in held \cap DOMAIN world :
        LET seen == SubSeq(Aligned(world)[s], 1, k)
        IN  filter => k >= TrendBars /\ seen[k] > Mean(seen, TrendBars)}

-----------------------------------------------------------------------------
(* The first bar is that of the longest history a strategy asks for: the   *)
(* loop starts at index `required`, one bar later than it could.           *)
FirstBar == TrendBars + 1

Books ==
    /\ weights = <<>> /\ pendingCost = 0
    /\ charged = <<>> /\ benchCharged = <<>> /\ rebalances = <<>> /\ invested = <<>>

BacktestIdle ==
    /\ history = <<>> /\ vixes = <<>> /\ trendFilter = FALSE /\ bar = 0
    /\ benchPending = 0
    /\ Books

(* A world too short is a flat line.                                       *)
BacktestInit ==
    /\ history \in Worlds /\ vixes \in VixHistories /\ trendFilter \in BOOLEAN
    /\ bar = IF Length(history) > FirstBar THEN FirstBar ELSE 0
    /\ benchPending = 1
    /\ Books

Rebalance == (bar - FirstBar) % RebalanceBars = 0

WeightOf(w, s) == IF s \in DOMAIN w THEN w[s] ELSE 0

Turnover(from, to) ==
    SumFunction([s \in DOMAIN from \cup DOMAIN to |->
                    LET d == WeightOf(to, s) - WeightOf(from, s)
                    IN  IF d < 0 THEN -d ELSE d])

(* Mutant: what is pending is charged and stays pending.                   *)
MutantStepChargesAgain ==
    /\ bar > 0
    /\ weights' = IF Rebalance THEN EqualWeights(Picked(history, vixes, bar)) ELSE weights
    /\ rebalances' = IF Rebalance
                     THEN Append(rebalances, [bar |-> bar, weights |-> weights'])
                     ELSE rebalances
    /\ invested' = Append(invested, Invested(history, DOMAIN weights', bar, trendFilter))
    /\ pendingCost' = pendingCost + Turnover(weights, weights')
    /\ charged' = Append(charged, pendingCost')
    /\ benchCharged' = Append(benchCharged, benchPending)
    /\ benchPending' = 0
    /\ bar' = IF bar + 1 < Length(history) THEN bar + 1 ELSE 0
    /\ UNCHANGED <<history, vixes, trendFilter>>

(* One round of the loop: rebalance when it is time, earn bar -> bar + 1,  *)
(* pay what is pending.                                                    *)
Step ==
    /\ bar > 0
    /\ weights' = IF Rebalance THEN EqualWeights(Picked(history, vixes, bar)) ELSE weights
    /\ rebalances' = IF Rebalance
                     THEN Append(rebalances, [bar |-> bar, weights |-> weights'])
                     ELSE rebalances
    /\ invested' = Append(invested, Invested(history, DOMAIN weights', bar, trendFilter))
    /\ charged' = Append(charged, pendingCost + Turnover(weights, weights'))
    /\ benchCharged' = Append(benchCharged, benchPending)
    /\ pendingCost' = 0 /\ benchPending' = 0
    /\ bar' = IF bar + 1 < Length(history) THEN bar + 1 ELSE 0
    /\ UNCHANGED <<history, vixes, trendFilter>>

-----------------------------------------------------------------------------
(* The worlds that could have followed what was known at bar k.            *)
SamePrices(w, v, k) ==
    /\ DOMAIN w = DOMAIN v
    /\ \A s \in DOMAIN w : SubSeq(Aligned(w)[s], 1, k) = SubSeq(Aligned(v)[s], 1, k)

(* SAFETY.  No look-ahead in prices: every rebalance, and every bar's      *)
(* split between stocks and cash, would have been the same in any other    *)
(* continuation of the prices up to its bar.                               *)
NoLookAhead ==
    bar = 0 =>
    /\ \A i \in DOMAIN rebalances :
          LET k == rebalances[i].bar
          IN  \A w \in {v \in Worlds : SamePrices(v, history, k)} :
                 Picked(w, vixes, k) = DOMAIN rebalances[i].weights
    /\ \A i \in DOMAIN invested :
          LET k == FirstBar + i - 1
              last == Max({j \in DOMAIN rebalances : rebalances[j].bar <= k})
          IN  \A w \in {v \in Worlds : SamePrices(v, history, k)} :
                 Invested(w, DOMAIN rebalances[last].weights, k, trendFilter) = invested[i]

(* SAFETY.  Every unit of weight traded is charged once: what was charged  *)
(* and what is pending is the turnover of the rebalances so far, however   *)
(* many bars they are apart, and the benchmark pays one purchase.          *)
CostsChargedOnce ==
    LET at(i) == IF i = 0 THEN <<>> ELSE rebalances[i].weights
        traded == [i \in DOMAIN rebalances |-> Turnover(at(i - 1), at(i))]
    IN  /\ SumFunction(charged) + pendingCost = SumFunction(traded)
        /\ history # <<>> => SumFunction(benchCharged) + benchPending = 1

(* What the documents say of the backtest: the strategies see nothing that *)
(* was not known at the bar they are run for, the VIX of the bar included. *)
KnowsOnlyThePast ==
    bar = 0 =>
    \A i \in DOMAIN rebalances :
        LET k == rebalances[i].bar
        IN  \A vs \in {us \in VixHistories : SubSeq(us, 1, k) = SubSeq(vixes, 1, k)} :
               Picked(history, vs, k) = DOMAIN rebalances[i].weights
=============================================================================
