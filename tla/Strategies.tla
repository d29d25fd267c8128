------------------------------ MODULE Strategies ------------------------------
(***************************************************************************)
(* The strategies of src/src/tossai/screening/strategies, as the decision  *)
(* each takes about one symbol: does it pass, and with what score.          *)
(*                                                                         *)
(* A strategy reads a few indicators of a price history.  Here a history   *)
(* is a Reading: the values of those indicators on the last bar.  Prices   *)
(* are integers, ratios and returns percentages, and a score counts in     *)
(* Unit-ths, the four decimals the code rounds to.  A strategy is an       *)
(* operator from readings to scores that is only asked where its gate      *)
(* holds, so that "insufficient history", "failed: trend" and a raised     *)
(* ZeroDivisionError are one thing: the symbol is not flagged.             *)
(***************************************************************************)
EXTENDS Integers, FiniteSets, Sequences

Unit == 10000        \* round(score, 4)
NoFigure == -100000  \* None or NaN

(* What is read of a price history.  A price is above zero: the code reads  *)
(* any number, and relies on the market for that.                          *)
Price == Nat \ {0}
Indicators == [
    bars : Nat, last : Price, ma50 : Price, trendMa : Price, yearHigh : Price,
    yearPosition : Int, yearReturn : Int, halfReturn : Int, skipReturn : Int,
    upDays : Nat, downDays : Nat, smaFast : Int, smaSlow : Int, goldenCross : BOOLEAN,
    rsi : Int, volumeRatio : Int, momentum : Int, monthPosition : Int,
    priorHigh : Price \cup {NoFigure}, dailyVol : Int]

(* And of a company's accounts.                                            *)
Accounts == [per : Int, pbr : Int, eps : Int, bps : Int, roe : Int, debt : Int]

(* The knobs of config.py the strategies compare with, in percent.         *)
Settings == [
    rsiOverbought |-> 70, volumeRatioMin |-> 120,
    dmAbsThreshold |-> 0, dmScoreCap |-> 50,
    canslimProximity |-> 15, canslimRsMin |-> 70, canslimVolMin |-> 150,
    canslimMaxVix |-> 25,
    meanRevRsiLow |-> 35, meanRevSupportPos |-> 25,
    breakoutVolMin |-> 150,
    momqScoreCap |-> 50, lowvolVolCap |-> 3, rsScoreCap |-> 30, rsMinRel |-> 0,
    grahamMaxPe |-> 15, grahamMaxPb |-> 150,
    buffettMinRoe |-> 15, buffettMaxPe |-> 25, piotroskiMinScore |-> 5]

(* The bars a strategy must have before it looks at a symbol.              *)
RequiredHistory == [
    technical_swing   |-> 62,  dual_momentum    |-> 254, canslim        |-> 254,
    mean_reversion    |-> 202, trend_breakout   |-> 254, meb_faber      |-> 202,
    momentum_quality  |-> 275, low_volatility   |-> 202,
    relative_strength |-> 128,
    graham |-> 2, magic_formula |-> 2, buffett_quality |-> 2, piotroski |-> 2]

StrategyNames == DOMAIN RequiredHistory

Bucket == [st \in StrategyNames |->
    CASE st \in {"technical_swing", "canslim", "mean_reversion"} -> "swing"
      [] st \in {"graham", "magic_formula", "buffett_quality", "piotroski"} -> "value"
      [] OTHER -> "long"]

-----------------------------------------------------------------------------
(* Arithmetic.                                                             *)

(* Python's round of a / b: to the nearest, and a half to the even side.   *)
RoundEven(a, b) ==
    LET q == a \div b
        r == a % b
    IN  IF 2 * r > b \/ (2 * r = b /\ q % 2 = 1) THEN q + 1 ELSE q

Ratio(a, b) == RoundEven(a * Unit, b)

Within(x, lo, hi) == IF x < lo THEN lo ELSE IF x > hi THEN hi ELSE x
Clip(x) == Within(x, 0, Unit)

(* How far a price stands above an average: 10% is a full score.           *)
TrendMargin(x, ma) == Clip(Ratio(10 * (x.last - ma), ma))

(* A volume of twice the average is a full score.                          *)
VolumeConviction(ratio) == Clip(100 * (ratio - 100))

-----------------------------------------------------------------------------
(* Strategies that read prices: the gate and the score of a reading x.     *)

SwingGate(x) ==
    /\ x.smaFast > x.smaSlow \/ x.goldenCross
    /\ x.rsi < Settings.rsiOverbought
    /\ x.volumeRatio >= Settings.volumeRatioMin
    /\ x.momentum > 0

SwingScore(x) ==
    LET fromMiddle == IF x.rsi < 50 THEN 50 - x.rsi ELSE x.rsi - 50
    IN  RoundEven(4 * (IF x.goldenCross THEN 2500 ELSE 1000)
                  + VolumeConviction(x.volumeRatio)
                  + 500 * Within(x.momentum, 0, 20)
                  + 200 * (50 - fromMiddle), 4)

DualMomentumGate(x) ==
    /\ x.yearReturn # NoFigure
    /\ x.yearReturn > Settings.dmAbsThreshold
    /\ x.last > x.trendMa

DualMomentumScore(x) == Clip(Ratio(x.yearReturn, Settings.dmScoreCap))

(* The VIX gate lets a symbol through when there is no VIX.                *)
CanSlimGate(x, vix) ==
    /\ 100 * x.last >= (100 - Settings.canslimProximity) * x.yearHigh
    /\ x.yearPosition >= Settings.canslimRsMin
    /\ x.yearReturn > 0
    /\ x.volumeRatio >= Settings.canslimVolMin
    /\ x.last > x.ma50 /\ x.ma50 > x.trendMa
    /\ vix = NoFigure \/ vix <= Settings.canslimMaxVix

CanSlimScore(x) ==
    LET proximity == Clip(Unit - Ratio(100 * (x.yearHigh - x.last),
                                       Settings.canslimProximity * x.yearHigh))
    IN  RoundEven(3000 * x.yearPosition + 25 * proximity
                  + 25 * VolumeConviction(x.volumeRatio)
                  + 20 * TrendMargin(x, x.trendMa), 100)

MeanReversionGate(x) ==
    /\ x.last > x.trendMa
    /\ x.rsi < Settings.meanRevRsiLow
    /\ x.monthPosition <= Settings.meanRevSupportPos

MeanReversionScore(x) ==
    LET low == Settings.meanRevRsiLow
    IN  RoundEven(50 * Clip(Ratio(low - x.rsi, low)) + 2500 * (100 - x.monthPosition)
                  + 25 * TrendMargin(x, x.trendMa), 100)

(* The prior high leaves out the bar that may break it.                    *)
TrendBreakoutGate(x) ==
    /\ x.priorHigh # NoFigure
    /\ x.last > x.priorHigh
    /\ x.volumeRatio >= Settings.breakoutVolMin
    /\ x.last > x.trendMa

TrendBreakoutScore(x) ==
    RoundEven(45 * Clip(Ratio(20 * (x.last - x.priorHigh), x.priorHigh))
              + 35 * VolumeConviction(x.volumeRatio)
              + 20 * TrendMargin(x, x.trendMa), 100)

MebFaberGate(x) == x.last > x.trendMa
MebFaberScore(x) == TrendMargin(x, x.trendMa)

MomentumQualityGate(x) ==
    /\ x.skipReturn # NoFigure
    /\ x.skipReturn > 0
    /\ x.last > x.trendMa

(* The frog in the pan: many small rises beat a few jumps.                 *)
MomentumQualityScore(x) ==
    LET fip == x.downDays - x.upDays
        smoothness == Clip(50 * (100 - fip))
    IN  RoundEven(7 * Clip(Ratio(x.skipReturn, Settings.momqScoreCap))
                  + 3 * smoothness, 10)

LowVolatilityGate(x) == x.last > x.trendMa /\ x.dailyVol > 0
LowVolatilityScore(x) == Clip(Unit - Ratio(x.dailyVol, Settings.lowvolVolCap))

-----------------------------------------------------------------------------
(* Strategies that read fundamentals f: any figure may be missing.         *)

EarningsYield(f) == IF f.per > 0 THEN Ratio(1, f.per) ELSE NoFigure

GrahamGate(x, f) ==
    /\ f.per > 0 /\ f.pbr > 0
    /\ f.per <= Settings.grahamMaxPe
    /\ f.pbr <= Settings.grahamMaxPb
    /\ f.per * f.pbr <= 2250
    /\ (f.eps > 0 /\ f.bps > 0 /\ x.last > 0) => 2 * x.last * x.last <= 45 * f.eps * f.bps

GrahamScore(f) == Clip(Unit - Ratio(f.per * f.pbr, 2250))

(* No debt figure is no debt.                                              *)
BuffettGate(f) ==
    /\ f.roe # NoFigure /\ f.per > 0
    /\ f.roe >= Settings.buffettMinRoe
    /\ f.per <= Settings.buffettMaxPe
    /\ f.debt <= 200

BuffettScore(f) ==
    RoundEven(6 * Clip(Ratio(f.roe, 30)) + 4 * Clip(10 * EarningsYield(f)), 10)

(* The checks that the figures at hand allow, and those that hold.         *)
PiotroskiChecks(f) ==
    (IF f.eps # NoFigure THEN {"positive_eps"} ELSE {})
    \cup (IF f.roe # NoFigure THEN {"positive_roe", "strong_roe"} ELSE {})
    \cup (IF f.per # NoFigure THEN {"positive_earnings"} ELSE {})

PiotroskiPoints(f) == Cardinality({c \in PiotroskiChecks(f) :
    CASE c = "positive_eps" -> f.eps > 0
      [] c = "positive_roe" -> f.roe > 0
      [] c = "strong_roe" -> f.roe >= 10
      [] OTHER -> f.per > 0})

PiotroskiGate(f) ==
    LET checks == Cardinality(PiotroskiChecks(f))
    IN  /\ checks > 0
        /\ RoundEven(9 * PiotroskiPoints(f), checks) >= Settings.piotroskiMinScore

PiotroskiScore(f) == Clip(Ratio(PiotroskiPoints(f), 4))

-----------------------------------------------------------------------------
(* What a strategy makes of one symbol.  The two cross-sectional ones are  *)
(* not here: they compare the symbols of a pass with each other.           *)

Gate(st, x, f, vix) ==
    CASE st = "technical_swing"  -> SwingGate(x)
      [] st = "dual_momentum"    -> DualMomentumGate(x)
      [] st = "canslim"          -> CanSlimGate(x, vix)
      [] st = "mean_reversion"   -> MeanReversionGate(x)
      [] st = "trend_breakout"   -> TrendBreakoutGate(x)
      [] st = "meb_faber"        -> MebFaberGate(x)
      [] st = "momentum_quality" -> MomentumQualityGate(x)
      [] st = "low_volatility"   -> LowVolatilityGate(x)
      [] st = "graham"           -> GrahamGate(x, f)
      [] st = "buffett_quality"  -> BuffettGate(f)
      [] st = "piotroski"        -> PiotroskiGate(f)

Score(st, x, f) ==
    CASE st = "technical_swing"  -> SwingScore(x)
      [] st = "dual_momentum"    -> DualMomentumScore(x)
      [] st = "canslim"          -> CanSlimScore(x)
      [] st = "mean_reversion"   -> MeanReversionScore(x)
      [] st = "trend_breakout"   -> TrendBreakoutScore(x)
      [] st = "meb_faber"        -> MebFaberScore(x)
      [] st = "momentum_quality" -> MomentumQualityScore(x)
      [] st = "low_volatility"   -> LowVolatilityScore(x)
      [] st = "graham"           -> GrahamScore(f)
      [] st = "buffett_quality"  -> BuffettScore(f)
      [] st = "piotroski"        -> PiotroskiScore(f)
=============================================================================
