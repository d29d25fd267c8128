-------------------------------- MODULE Commands ------------------------------
(***************************************************************************)
(* The commands of cli.py, one process each: a pass over the universe or   *)
(* over the held positions (Pipeline), the fetch of one history (Candles), *)
(* a backtest (Backtest) and the daily scoring of past recommendations     *)
(* (Tracker).  A process runs one of them; what the passes and the         *)
(* backtest share is Screening, with the same universe and the same knobs. *)
(***************************************************************************)
EXTENDS Pipeline, Candles, Backtest, Tracker

allVars == <<passVars, candlesVars, backtestVars, trackerVars>>

Init ==
    \/ PassInit /\ CandlesIdle /\ BacktestIdle /\ TrackerIdle
    \/ PassIdle /\ CandlesInit /\ BacktestIdle /\ TrackerIdle
    \/ PassIdle /\ CandlesIdle /\ BacktestInit /\ TrackerIdle
    \/ PassIdle /\ CandlesIdle /\ BacktestIdle /\ TrackerInit

-----------------------------------------------------------------------------
(* A step of one of them leaves the others alone.                          *)

PassOnly == UNCHANGED <<candlesVars, backtestVars, trackerVars>>
CandlesOnly == UNCHANGED <<passVars, backtestVars, trackerVars>>
BacktestOnly == UNCHANGED <<passVars, candlesVars, trackerVars>>
TrackerOnly == UNCHANGED <<passVars, candlesVars, backtestVars>>

Next ==
    \/ Tick /\ PassOnly
    \/ LoopFindsClosed /\ PassOnly
    \/ LoopFindsOpen /\ PassOnly
    \/ StartPicks /\ PassOnly
    \/ StartFails /\ PassOnly
    \/ FetchCandles /\ PassOnly
    \/ Screen /\ PassOnly
    \/ GatherContext /\ PassOnly
    \/ AskHiccup /\ PassOnly
    \/ AskRefused /\ PassOnly
    \/ AskMalformed /\ PassOnly
    \/ AskAnswered /\ PassOnly
    \/ JobReport /\ PassOnly
    \/ SaveReport /\ PassOnly
    \/ SaveFails /\ PassOnly
    \/ AppendLedger /\ PassOnly
    \/ Dispatch /\ PassOnly
    \/ Notify /\ PassOnly
    \/ EndPass /\ PassOnly
    \/ Wake /\ PassOnly
    \/ HoldingsFetched /\ PassOnly
    \/ NoAccount /\ PassOnly
    \/ FetchPage /\ CandlesOnly
    \/ FetchPageFails /\ CandlesOnly
    \/ Step /\ BacktestOnly
    \/ Track /\ TrackerOnly
    \/ TrackDamaged /\ TrackerOnly
    \/ Trade /\ TrackerOnly
    \/ NextDay /\ TrackerOnly

Spec == Init /\ [][Next]_allVars /\ PassFairness

-----------------------------------------------------------------------------
(* Types.  The scheduled job posts with the Slack client of the server,    *)
(* whatever channels are configured.                                       *)
TypeOK ==
    /\ command \in CommandsRun \cup {"none"}
    /\ at \in {"idle", "start", "opening", "fetch", "analyze", "ask", "saved", "gate", "notify",
               "asleep", "holdings", "done", "dead"}
    /\ ToSet(cands) \subseteq Symbols
    /\ Len(results) <= Len(cands)
    /\ tries \in 0 .. MaxTries
    /\ macro \in {"unfetched", "some", "empty"}
    /\ tried \subseteq Channels \cup {"console"} \cup
                      (IF command = "portfolio_job" THEN {"slack"} ELSE {})
    /\ candlesAt \in {"idle", "paging", "returned", "raised"}
    /\ collected \subseteq DOMAIN rows
    /\ page <= MaxPages
    /\ bar \in 0 .. (IF history = <<>> THEN 0 ELSE Length(history))
    /\ DOMAIN weights \subseteq Symbols
    /\ today \in 0 .. Len(prices)
    /\ quote \in Quotes \cup {0} /\ Len(seen) <= today
    /\ summary.scored + summary.pending <= Cardinality(Directional)

(* SAFETY.  A saved report adds up, however many calls failed before it:   *)
(* it has one verdict for every candidate, in the order of the screening;  *)
(* the spend it reports is what its verdicts cost, plus what the picks of  *)
(* the same `daily` cost, and never more than Claude billed (analyze_all,  *)
(* estimated_cost_usd); the weights it suggests are of its candidates and  *)
(* make one, up to the rounding of each (inverse_vol_weights).             *)
ReportAddsUp ==
    disk.saved =>
    LET own == Valid(disk.results)
        sum == SumFunction([w \in disk.weights |-> w.weight])
        gap == IF sum > Unit THEN sum - Unit ELSE Unit - sum
    IN  /\ [i \in DOMAIN disk.results |-> disk.results[i].symbol] = cands
        /\ disk.cost <= tokens.billed
        /\ disk.cost - own \in 0 .. IF command = "daily_picks" /\ ~onPicks
                                  THEN MaxCandidates ELSE 0
        /\ {w.symbol : w \in disk.weights} \subseteq ToSet(cands)
        /\ disk.weights # {} => 2 * gap <= Cardinality(disk.weights)

(* SAFETY.  What a command pushes out is on disk first: an alert never     *)
(* speaks of a verdict no report holds (run_once, portfolio, daily).  The  *)
(* scheduled job on positions is the exception: it saves no report.        *)
PushedIsOnDisk ==
    command # "portfolio_job" =>
        \A p \in pushed : disk.saved /\ p[2] \in ToSet(disk.results)

(* SAFETY.  When a pass of recommendations is over, the channels that were *)
(* called are the ones its own report accounts for: all of them if it says *)
(* the market was open or the user forced it, the console otherwise, even  *)
(* when the market opened or closed on the way and whichever failed.       *)
ChannelsMatchTheReport ==
    (onPicks /\ disk.saved /\ at \in {"done", "asleep", "holdings"}) =>
        tried = IF disk.open \/ command \in Forced THEN ToSet(Notifiers) ELSE {"console"}

(* LIVENESS.  A pass ends whatever fails in it, and the loop begins a new  *)
(* one for ever: an exception of one iteration does not stop it.           *)
EveryPassEnds ==
    /\ command = "run_loop" => []<>(at = "start")
    /\ command \notin {"run_loop", "none"} => <>(at \in {"done", "dead"})

(* SAFETY.  Agreement never hurts: a strategy that is added to STRATEGY    *)
(* and flags a symbol never moves it behind one that it does not flag and  *)
(* that it was ahead of (StrategyEnsemble._merge and its sort).            *)
NeverBehind(fewer, all, added) ==
    LET place(ranking, s) == CHOOSE i \in DOMAIN ranking : ranking[i].symbol = s
        were == ToSet(SymbolsOf(fewer))
        flagged == {s \in were : added \in all[place(all, s)].flaggedBy}
    IN  \A s \in flagged, t \in were \ flagged :
            place(fewer, s) < place(fewer, t) => place(all, s) < place(all, t)

AgreementNeverHurts ==
    (command = "screen_only" /\ at = "fetch" /\ todo = <<>>) =>
    LET names == Configured(setting)
        rank(strats, vix) == RankAll(strats, CandlesOf(fetched), vix, DOMAIN Figures)
    IN  \A vix \in VixReadings, i \in DOMAIN names :
            NeverBehind(rank(RemoveAt(names, i), vix), rank(names, vix), i)

(* SAFETY.  What get_candles returns are valid bars, no more than were     *)
(* asked for, and no bar is missing between two of them; of an undamaged   *)
(* history they are exactly the newest, of any number if a page does not   *)
(* repeat the bar of the cursor, and up to PerCall * PerCall if it does,   *)
(* the 40,000 bars for which max_pages is sure to be enough.               *)
FetchesTheNewest ==
    candlesAt = "returned" =>
    LET valid == {t \in DOMAIN rows : rows[t] = "ok"}
        pagesLast == ~inclusive \/ want <= PerCall * PerCall
    IN  /\ Cardinality(Returned) <= want
        /\ \A t \in Returned : \A u \in valid : u > t => u \in Returned
        /\ Returned \subseteq valid
        /\ valid = DOMAIN rows /\ pagesLast => Returned = Newest(valid, want)

(* ACTION.  A score stands: what a snapshot that had every bar scored is   *)
(* scored the same by every later one that has, whatever the damaged ones  *)
(* in between made of it, as long as the window holds the bar it entered   *)
(* at.  Only the live bar takes a score back: the last bar of the earlier  *)
(* snapshot, if the horizon fell on it and its close has moved since       *)
(* (tracker.evaluate, called in market hours by the advisor and `track`).  *)
EntryHeld(r) == NthFrom(Traded(Tape), r.date, 0) \cap Bars(Traded(Tape)) # {}
WasLive(r, h) ==
    /\ Len(seen) \in NthFrom(Bars(Traded(seen)), r.date, h)
    /\ seen[Len(seen)] # Tape[Len(seen)]

ScoresStand ==
    [][Track =>
        \A r \in Directional, h \in Horizons :
            \/ stood[r][h] = Unscored
            \/ ~EntryHeld(r) \/ WasLive(r, h)
            \/ scores'[r][h] = stood[r][h]]_trackerVars

(* What tracker.py:19 says of the entry: it is the first bar on or after   *)
(* the date of the recommendation.                                         *)
EntryIsFirstBar ==
    [][Track =>
        \A r \in Directional, h \in Horizons :
            scores'[r][h] # Unscored =>
                \E d \in NthFrom(Traded(Tape), r.date, 0) : scores'[r][h][2] = Tape[d]]_trackerVars
=============================================================================
