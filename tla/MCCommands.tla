------------------------------- MODULE MCCommands -----------------------------
(* Two Korean stocks of one sector and an American one without a label.    *)
EXTENDS Commands

Base == [
    bars |-> 300, last |-> 110, ma50 |-> 105, trendMa |-> 100,
    yearHigh |-> 112, yearPosition |-> 90, yearReturn |-> 40, halfReturn |-> 20,
    skipReturn |-> 30, upDays |-> 60, downDays |-> 38,
    smaFast |-> 108, smaSlow |-> 104, goldenCross |-> FALSE, rsi |-> 60,
    volumeRatio |-> 160, momentum |-> 5, monthPosition |-> 70, priorHigh |-> 108,
    dailyVol |-> 2]

MCReading == [
    a |-> Base,
    b |-> [Base EXCEPT !.last = 103, !.rsi = 21, !.volumeRatio = 80, !.momentum = -4,
                       !.monthPosition = 10, !.halfReturn = 8, !.dailyVol = 1],
    c |-> [Base EXCEPT !.bars = 210, !.last = 108, !.goldenCross = TRUE, !.rsi = 55,
                       !.halfReturn = 12, !.dailyVol = 3]]

(* b lacks what was never published; its debt is high.                     *)
MCFigures == [
    a |-> [per |-> 10, pbr |-> 120, eps |-> 11, bps |-> 90, roe |-> 20, debt |-> 60],
    b |-> [per |-> 8, pbr |-> 100, eps |-> 13, bps |-> NoFigure, roe |-> 9, debt |-> 240],
    c |-> [per |-> 24, pbr |-> 300, eps |-> -1, bps |-> 36, roe |-> 30, debt |-> 10]]

MCMarketOf == [a |-> "KRX", b |-> "KRX", c |-> "US"]
MCSectorOf == [a |-> "chips", b |-> "chips"]

MCUniverse == <<"a", "b", "c">>
MCHoldings == <<[symbol |-> "c", quantity |-> 0], [symbol |-> "b", quantity |-> 3]>>

(* The last minute of a Korean session, and the minute after the last one  *)
(* in New York on a Korean holiday.                                        *)
MCMoments == <<
    [KRX |-> [weekday |-> 4, holiday |-> FALSE, minute |-> 930],
     US  |-> [weekday |-> 4, holiday |-> FALSE, minute |-> 90]],
    [KRX |-> [weekday |-> 4, holiday |-> TRUE, minute |-> 601],
     US  |-> [weekday |-> 3, holiday |-> FALSE, minute |-> 961]] >>

EveryStrategy == <<
    "technical_swing", "dual_momentum", "canslim", "mean_reversion", "trend_breakout",
    "meb_faber", "momentum_quality", "low_volatility", "relative_strength",
    "graham", "magic_formula", "buffett_quality", "piotroski">>

MCStrategySettings == {
    EveryStrategy, <<"no_such_strategy">>,
    <<"dual_momentum", "technical_swing", "low_volatility">>}
MCVixReadings == {NoFigure, 15, 30}

MCVerdict == {[action |-> "BUY", confidence |-> 80], [action |-> "HOLD", confidence |-> 60]}

(* Histories of seven bars, one of them with an eighth in front of it.     *)
Tails == [4 .. 7 -> {60, 72}]
Closes7(rise) == [i \in 1 .. 7 |-> IF i > 3 THEN rise[i] ELSE 60]
MCWorlds == {
    [a |-> Closes7(rise), b |-> <<60>> \o Closes7(fall), c |-> <<60, 60, 72, 72, 60, 72, 72>>] :
    rise \in Tails, fall \in {f \in Tails : f[7] = 60}}
MCVixHistories == {[i \in 1 .. 7 |-> 15], [i \in 1 .. 7 |-> 30]}
MCVixTurns == MCVixHistories \cup {[i \in 1 .. 7 |-> IF i = 7 THEN 30 ELSE 15]}
MCBtNames == <<"dual_momentum", "relative_strength", "canslim", "graham">>

(* Five days, the third of them perhaps without a bar.                     *)
MCCloses == {p \in [1 .. 5 -> {0, 60, 72}] : p[1] = 60 /\ \A d \in {2, 4, 5} : p[d] > 0}
MCRecords == {[date |-> 1, action |-> "BUY"], [date |-> 2, action |-> "SELL"],
              [date |-> 3, action |-> "TRIM"], [date |-> 2, action |-> "HOLD"]}
=============================================================================
