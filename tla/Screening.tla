------------------------------- MODULE Screening ------------------------------
(***************************************************************************)
(* From the candles of a universe to the ranked candidates of a pass: the  *)
(* strategies run over every symbol, their verdicts are merged symbol by   *)
(* symbol, ranked, cut and diversified, and weights are suggested          *)
(* (ensemble.py, base.py, regime.py, selection.py, allocation.py,          *)
(* calendar.py).                                                           *)
(*                                                                         *)
(* `candles` is the candle_map of a pass: the symbols that have candles, in *)
(* the order of the universe file (a dict keeps it), each with the Reading *)
(* x of its candles; `known` is the set of symbols the source of           *)
(* fundamentals answered for; `names` is the STRATEGY setting.             *)
(***************************************************************************)
EXTENDS Strategies, SequencesExt

CONSTANTS
    Figures,        \* symbol -> its fundamentals
    MarketOf,       \* symbol -> "KRX" or "US"
    SectorOf,       \* symbol -> its sector label, where the file has one
    MaxCandidates,  \* CLAUDE_MAX_CANDIDATES
    MaxPerSector,   \* MAX_PER_SECTOR, 0 is no cap
    MinScore        \* SCREEN_MIN_SCORE, in Unit-ths

Symbols == DOMAIN MarketOf

ASSUME ScreeningAssumption ==
    /\ MaxCandidates \in Nat /\ MaxPerSector \in Nat /\ MinScore \in Nat
    /\ DOMAIN Figures \subseteq Symbols /\ \A s \in DOMAIN Figures : Figures[s] \in Accounts
    /\ DOMAIN SectorOf \subseteq Symbols

-----------------------------------------------------------------------------
(* The elements of a finite set, each at the place it has in an order.     *)
InOrder(S, before(_, _)) ==
    [k \in 1 .. Cardinality(S) |->
        CHOOSE m \in S : Cardinality({l \in S : before(l, m)}) = k - 1]

(* What a sequence has at some of its indices.                             *)
Only(seq, indices) ==
    LET order == InOrder(indices, <)
    IN  [k \in DOMAIN order |-> seq[order[k]]]

-----------------------------------------------------------------------------
(* The market's mood: no VIX is NEUTRAL.                                   *)

NeutralVix == 20
RiskOffVix == 28

Regime(vix) ==
    CASE vix = NoFigure -> "neutral"
      [] vix >= RiskOffVix -> "risk_off"
      [] vix \in NeutralVix .. RiskOffVix - 1 -> "neutral"
      [] OTHER -> "risk_on"

-----------------------------------------------------------------------------
(* One strategy over every symbol: evaluate_all.  It flags symbols, each   *)
(* with a score.                                                           *)

Fundamental == {"graham", "buffett_quality", "piotroski"}

Flag(s, score) == [symbol |-> s, score |-> score]
FigureOf(s) == IF s \in DOMAIN Figures THEN Figures[s] ELSE NoFigure

(* 126 days of return against the average of the same market; outside the  *)
(* average are the symbols too short to have one.                          *)
RelativeStrength(candles) ==
    LET comparable == {c \in ToSet(candles) :
            /\ c.x.bars >= RequiredHistory["relative_strength"]
            /\ c.x.halfReturn # NoFigure}
        peers(c) == {d \in comparable : MarketOf[d.symbol] = MarketOf[c.symbol]}
        lead(c) == c.x.halfReturn * Cardinality(peers(c))
                   - SumFunction([d \in peers(c) |-> d.x.halfReturn])
    IN  {Flag(c.symbol, Clip(Ratio(lead(c), Settings.rsScoreCap * Cardinality(peers(c))))) :
            c \in {d \in comparable : lead(d) > Settings.rsMinRel}}

(* The place of a row among the rows, best figure first and equal ones in  *)
(* the order of the rows; a high earnings yield is a low PER.              *)
MagicFormula(candles, known) ==
    LET figures(i) == Figures[candles[i].symbol]
        rows == Only(candles, {i \in DOMAIN candles :
                    /\ candles[i].symbol \in known
                    /\ figures(i).per > 0 /\ figures(i).roe # NoFigure})
        n == Len(rows)
        of(i) == Figures[rows[i].symbol]
        before(i, figure(_)) == Cardinality({j \in 1 .. n :
            \/ figure(of(j)) > figure(of(i))
            \/ figure(of(j)) = figure(of(i)) /\ j < i})
        place(i) == before(i, LAMBDA f : -f.per) + before(i, LAMBDA f : f.roe)
    IN  {Flag(rows[i].symbol, IF n = 1 THEN Clip(10 * EarningsYield(of(i)))
                              ELSE Clip(Unit - Ratio(place(i), 2 * (n - 1)))) : i \in 1 .. n}

PerSymbol(st, candles, vix, known) ==
    LET asked == {c \in ToSet(candles) :
            IF st \in Fundamental THEN c.symbol \in known
            ELSE c.x.bars >= RequiredHistory[st]}
        passed == {c \in asked : Gate(st, c.x, FigureOf(c.symbol), vix)}
    IN  {v \in {Flag(c.symbol, Score(st, c.x, FigureOf(c.symbol))) : c \in passed} :
            v.score >= MinScore}

EvaluateAll(st, candles, vix, known) ==
    CASE st = "relative_strength" -> RelativeStrength(candles)
      [] st = "magic_formula" -> MagicFormula(candles, known)
      [] OTHER -> PerSymbol(st, candles, vix, known)

-----------------------------------------------------------------------------
(* The ensemble.  Effective scores count in halves of a Unit-th, so that   *)
(* the half weight of RISK_OFF stays exact.                                *)

Weight(st, vix) == IF Regime(vix) = "risk_off" /\ Bucket[st] = "long" THEN 1 ELSE 2

Verdicts(names, candles, vix, known) ==
    UNION {{[symbol |-> v.symbol, by |-> i, strategy |-> names[i],
             score |-> Weight(names[i], vix) * v.score] :
                v \in EvaluateAll(names[i], candles, vix, known)} : i \in DOMAIN names}

(* Mutant: the last strategy decides.                                      *)
MutantMergeLast(verdicts) ==
    LET last == CHOOSE v \in verdicts : \A w \in verdicts : v.by >= w.by
    IN  [symbol |-> last.symbol, score |-> last.score, strategy |-> last.strategy,
         flaggedBy |-> {v.by : v \in verdicts}]

(* What the verdicts on one symbol make together: the best effective       *)
(* score, the first strategy that reached it and all that flagged it.      *)
Merge(verdicts) ==
    LET best == CHOOSE v \in verdicts : \A w \in verdicts :
            \/ v.score > w.score
            \/ v.score = w.score /\ v.by <= w.by
    IN  [symbol |-> best.symbol, score |-> best.score, strategy |-> best.strategy,
         flaggedBy |-> {v.by : v \in verdicts}]

Merged(verdicts) ==
    {Merge({v \in verdicts : v.symbol = s}) : s \in {v.symbol : v \in verdicts}}

(* A stable sort, best first: score, then how many strategies agree, then  *)
(* the order in which the symbols entered the merge.                       *)
Ahead(a, b) ==
    \/ a.score > b.score
    \/ a.score = b.score /\ Cardinality(a.flaggedBy) > Cardinality(b.flaggedBy)

EnteredBefore(a, b, candles) ==
    LET at(m) == CHOOSE i \in DOMAIN candles : candles[i].symbol = m.symbol
    IN  \/ Min(a.flaggedBy) < Min(b.flaggedBy)
        \/ Min(a.flaggedBy) = Min(b.flaggedBy) /\ at(a) < at(b)

Ranked(merged, candles) ==
    InOrder(merged, LAMBDA a, b :
        \/ Ahead(a, b)
        \/ ~Ahead(b, a) /\ EnteredBefore(a, b, candles))

Cut(seq, n) == IF Len(seq) > n THEN SubSeq(seq, 1, n) ELSE seq

RankAll(names, candles, vix, known) ==
    Ranked(Merged(Verdicts(names, candles, vix, known)), candles)

Rounded(ranked) == [i \in DOMAIN ranked |-> [ranked[i] EXCEPT !.score = RoundEven(@, 2)]]

EnsembleScreen(names, candles, vix, known) ==
    Rounded(Cut(RankAll(names, candles, vix, known), MaxCandidates))

(* A strategy alone ranks by its own score: no regime, no agreement.       *)
LoneScreen(st, candles) ==
    LET entries == {[symbol |-> v.symbol, score |-> v.score, strategy |-> st,
                     flaggedBy |-> {1}] : v \in EvaluateAll(st, candles, NoFigure, {})}
    IN  Cut(Ranked(entries, candles), MaxCandidates)

(* build_strategy: unknown names are skipped, and nothing valid is the     *)
(* technical swing; a lone strategy stays alone unless it must be handed   *)
(* the VIX or the fundamentals.                                            *)
Configured(names) ==
    LET valid == Only(names, {i \in DOMAIN names : names[i] \in StrategyNames})
    IN  IF valid = <<>> THEN <<"technical_swing">> ELSE valid

Injected == {"canslim", "magic_formula"} \cup Fundamental

ScreenUniverse(names, candles, vix, known) ==
    LET strats == Configured(names)
    IN  IF Len(strats) = 1 /\ strats[1] \notin Injected
        THEN LoneScreen(strats[1], candles)
        ELSE EnsembleScreen(strats, candles, vix, known)

SymbolsOf(ranked) == [i \in DOMAIN ranked |-> ranked[i].symbol]

-----------------------------------------------------------------------------
(* What happens to the candidates afterwards.                              *)

(* At most MaxPerSector candidates of a sector; one without a label is a   *)
(* sector of its own.  Without any label in the file the cap is off.       *)
Diversify(cands) ==
    LET sameSector(i, j) ==
            LET s == cands[i].symbol
                t == cands[j].symbol
            IN  {s, t} \subseteq DOMAIN SectorOf /\ SectorOf[s] = SectorOf[t]
        kept == {i \in DOMAIN cands :
            Cardinality({j \in 1 .. i - 1 : sameSector(i, j)}) < MaxPerSector}
    IN  IF MaxPerSector = 0 \/ DOMAIN SectorOf = {} THEN cands
        ELSE Only(cands, kept)

(* Inverse-volatility weights in Unit-ths: 1/v over the sum of them, each  *)
(* rounded by itself.                                                      *)
RiskParityLookback == 63

InverseVolWeights(candles) ==
    LET usable == {c \in ToSet(candles) :
            c.x.bars >= RiskParityLookback + 1 /\ c.x.dailyVol > 0}
        vol == [c \in usable |-> c.x.dailyVol]
        others == [c \in usable |->
                      FoldFunctionOnSet(LAMBDA v, rest : v * rest, 1, vol, usable \ {c})]
    IN  {[symbol |-> c.symbol, weight |-> RoundEven(others[c] * Unit, SumFunction(others))] :
            c \in usable}

-----------------------------------------------------------------------------
(* Regular sessions in minutes of the local day, both ends included, on    *)
(* weekdays that are not holidays.                                         *)
Session == [KRX |-> [open |-> 9 * 60, close |-> 15 * 60 + 30],
            US  |-> [open |-> 9 * 60 + 30, close |-> 16 * 60]]

IsMarketOpen(market, local) ==
    /\ local.weekday < 5
    /\ ~local.holiday
    /\ local.minute \in Session[market].open .. Session[market].close

MarketsFor(market) == IF market = "BOTH" THEN {"KRX", "US"} ELSE {market}

AnyMarketOpen(market, localOf) ==
    \E m \in MarketsFor(market) : IsMarketOpen(m, localOf[m])
=============================================================================
