-------------------------------- MODULE Pipeline ------------------------------
(***************************************************************************)
(* One process that runs one command of the system: a pass of              *)
(* recommendations (run-once, run-once --force and /recommend, run-loop,   *)
(* daily --picks), a pass over the held positions (portfolio, daily, the   *)
(* scheduled job), a screening without Claude, or a briefing               *)
(* (orchestrator.py, analyzer.py, claude_engine.py, alerts.py,             *)
(* briefings.py, cli.py).                                                  *)
(*                                                                         *)
(* What the process calls may fail at every call: Toss, the sources of     *)
(* context, Claude, the disk and every channel.  The market opens and      *)
(* closes while a pass runs.                                               *)
(***************************************************************************)
EXTENDS Screening

CONSTANTS
    Reading,           \* symbol -> the indicators of its candles
    Universe,          \* the symbols of universe.yaml, in its order
    Holdings,          \* the positions of the account: [symbol, quantity]
    Moments,           \* the times of day a run meets: [KRX, US], local times
    StrategySettings,  \* the values STRATEGY may have
    VixReadings,       \* what get_vix may return
    Verdict,           \* what Claude may answer: [action, confidence]
    Channels,          \* the channels ALERT_CHANNELS names, set up; {}: it names none
    CommandsRun        \* the commands a process may run

VARIABLES
    command, setting,  \* what the process was started with
    moment,            \* the time of day, an index of Moments
    at,                \* where the command is
    onPicks,           \* recommendations, not advice on positions
    openAtStart,       \* market_open, read when the pass starts
    todo, fetched,     \* symbols to fetch candles of, and those that have them
    cands, results,    \* what Claude is asked about, and the verdicts so far
    tries,             \* failed attempts for the current symbol
    tokens,            \* of the engine: billed by Claude, counted by the code
    macro,             \* MarketContextProvider._macro
    disk,              \* the report this pass saved
    inLedger,          \* its recommendations are in the ledger
    left, tried,       \* notifiers to call, and those that were called
    pushed             \* <<channel, result>> pairs that left the machine

passVars == <<command, setting, moment, at, onPicks, openAtStart, todo, fetched, cands,
              results, tries, tokens, macro, disk, inLedger, left, tried, pushed>>
worldVars == <<command, setting>>
fetchVars == <<todo, fetched>>
claudeVars == <<cands, results, tries, tokens, macro>>
outVars == <<disk, inLedger, left, tried, pushed>>

Picks == {"run_once", "run_force", "run_loop", "daily_picks"}
Positions == {"portfolio", "daily", "portfolio_job"}
Forced == {"run_force", "daily_picks"}
NoReport == [saved |-> FALSE, open |-> FALSE, results |-> <<>>, cost |-> 0,
             weights |-> {}]
Failed == [action |-> "ANALYSIS_FAILED", confidence |-> 0]
MaxTries == 3
AlertMinConfidence == 60

ASSUME PipelineAssumption ==
    /\ Universe \in Seq(Symbols) /\ Reading \in [Symbols -> Indicators]
    /\ Holdings \in Seq([symbol : Symbols, quantity : Int])
    /\ StrategySettings \subseteq Seq(STRING)
    /\ Moments # <<>>
    /\ Failed \notin Verdict
    /\ Channels \subseteq {"console", "webhook", "smtp", "slack"}
    /\ CommandsRun \subseteq Picks \cup Positions \cup {"screen_only", "briefing"}

-----------------------------------------------------------------------------
NothingDone ==
    /\ onPicks = FALSE /\ openAtStart = FALSE
    /\ todo = <<>> /\ fetched = <<>>
    /\ cands = <<>> /\ results = <<>> /\ tries = 0
    /\ tokens = [billed |-> 0, counted |-> 0]
    /\ macro = "unfetched"
    /\ disk = NoReport /\ inLedger = FALSE
    /\ left = <<>> /\ tried = {} /\ pushed = {}

PassInit ==
    /\ command \in CommandsRun
    /\ setting \in StrategySettings
    /\ moment \in DOMAIN Moments
    /\ at = "start"
    /\ NothingDone

PassIdle == command = "none" /\ setting = <<>> /\ moment = 1 /\ at = "idle" /\ NothingDone

(* Every pass has a report, a context and a set of notifiers of its own.   *)
FreshPass ==
    /\ results' = <<>> /\ macro' = "unfetched"
    /\ disk' = NoReport /\ inLedger' = FALSE
    /\ tried' = {} /\ pushed' = {}

MarketOpen == AnyMarketOpen("BOTH", Moments[moment])

(* The day goes on, whatever the command does.                             *)
Tick ==
    /\ at # "idle"
    /\ moment' = (moment % Len(Moments)) + 1
    /\ UNCHANGED <<worldVars, onPicks, at, openAtStart, fetchVars, claudeVars, outVars>>

SlackOnly == IF "slack" \in Channels THEN <<"slack">> ELSE <<>>

(* Mutant: the loop lets an exception end it.                              *)
MutantRaiseEndsTheLoop == at' = "dead"

(* An exception leaves the pass: the loop logs it and sleeps, any other    *)
(* command ends with it.                                                   *)
Raise == at' = IF command = "run_loop" THEN "asleep" ELSE "dead"

-----------------------------------------------------------------------------
(* A pass of recommendations.                                              *)

LoopFindsClosed ==
    /\ at = "start" /\ command = "run_loop" /\ ~MarketOpen
    /\ at' = "asleep"
    /\ UNCHANGED <<worldVars, onPicks, moment, openAtStart, fetchVars, claudeVars,
                   outVars>>

(* The loop asks whether a market is open before it builds the pass ...    *)
LoopFindsOpen ==
    /\ at = "start" /\ command = "run_loop" /\ MarketOpen
    /\ at' = "opening"
    /\ UNCHANGED <<worldVars, onPicks, moment, openAtStart, fetchVars, claudeVars,
                   outVars>>

Starting ==
    /\ command \in Picks \cup {"screen_only", "briefing"}
    /\ at = IF command = "run_loop" THEN "opening" ELSE "start"

(* ... and the pass asks again, when it may have closed.  A universe file  *)
(* that is missing is an empty universe.                                   *)
StartPicks ==
    /\ Starting
    /\ FreshPass
    /\ cands' = <<>>
    /\ tokens' = [billed |-> 0, counted |-> 0]
    /\ onPicks' = TRUE
    /\ openAtStart' = MarketOpen
    /\ todo' \in {Universe, <<>>}
    /\ at' = "fetch"
    /\ UNCHANGED <<worldVars, moment, fetched, tries, left>>

(* A universe that cannot be parsed, or a Toss that gives no token.  The   *)
(* briefing goes on without candidates.                                    *)
StartFails ==
    /\ Starting
    /\ IF command = "briefing"
       THEN at' = "notify" /\ left' = SlackOnly
       ELSE Raise /\ UNCHANGED left
    /\ UNCHANGED <<worldVars, onPicks, moment, openAtStart, fetchVars, claudeVars,
                   disk, inLedger, tried, pushed>>

(* A symbol whose candles cannot be fetched is left out.                   *)
FetchCandles ==
    /\ at = "fetch" /\ todo # <<>>
    /\ todo' = Tail(todo)
    /\ fetched' \in {fetched, Append(fetched, Head(todo))}
    /\ UNCHANGED <<worldVars, onPicks, moment, at, openAtStart, claudeVars, outVars>>

CandlesOf(symbols) ==
    [i \in DOMAIN symbols |-> [symbol |-> symbols[i], x |-> Reading[symbols[i]]]]

(* The sector cap is part of an analysis, not of a screening.              *)
Selected(screened) == IF command \in Picks THEN Diversify(screened) ELSE screened

(* The fundamentals answer for every symbol or, their library missing or   *)
(* their site down, for none.                                              *)
Screen ==
    /\ at = "fetch" /\ todo = <<>>
    /\ \E vix \in VixReadings, known \in {{}, DOMAIN Figures} :
          cands' = SymbolsOf(Selected(
                        ScreenUniverse(setting, CandlesOf(fetched), vix, known)))
    /\ fetched' = <<>>
    /\ at' = CASE command = "screen_only" -> "done"
               [] command = "briefing" -> "notify"
               [] OTHER -> "analyze"
    /\ left' = IF command = "briefing" THEN SlackOnly ELSE <<>>
    /\ UNCHANGED <<worldVars, onPicks, moment, openAtStart, todo, results, tries,
                   tokens, macro, disk, inLedger, tried, pushed>>

-----------------------------------------------------------------------------
(* Claude's judgement, one symbol after the other.                         *)

Current == cands[Len(results) + 1]

(* The macro snapshot is fetched by the first that asks for it and shared  *)
(* from then on, an empty one after a failure too.                         *)
Macro == IF macro = "unfetched" THEN {"some", "empty"} ELSE {macro}

(* For a position its candles come first; without them Claude is asked all *)
(* the same.  News and earnings fail into nothing.                         *)
GatherContext ==
    /\ at = "analyze" /\ Len(results) < Len(cands)
    /\ macro' \in Macro
    /\ tries' = 0
    /\ at' = "ask"
    /\ UNCHANGED <<worldVars, onPicks, moment, openAtStart, fetchVars, cands, results,
                   tokens, outVars>>

Judge(verdict) ==
    /\ results' = Append(results, [symbol |-> Current, verdict |-> verdict])
    /\ at' = "analyze"

(* Mutant: a transient failure is tried again without end.                 *)
MutantAskHiccupForEver ==
    /\ at = "ask"
    /\ tries' = tries + 1
    /\ UNCHANGED <<worldVars, onPicks, moment, at, openAtStart, fetchVars, cands, results,
                   tokens, macro, outVars>>

(* Timeouts, dropped connections, rate limits and 5xx are tried again.     *)
AskHiccup ==
    /\ at = "ask"
    /\ tries' = tries + 1
    /\ IF tries' < MaxTries THEN UNCHANGED <<results, at>> ELSE Judge(Failed)
    /\ UNCHANGED <<worldVars, onPicks, moment, openAtStart, fetchVars, cands, tokens, macro,
                   outVars>>

AskRefused ==
    /\ at = "ask"
    /\ Judge(Failed)
    /\ UNCHANGED <<worldVars, onPicks, moment, openAtStart, fetchVars, cands, tries, tokens,
                   macro, outVars>>

(* Mutant: the tokens are counted before the answer is validated.          *)
MutantAskMalformedCounted ==
    /\ at = "ask"
    /\ Judge(Failed)
    /\ tokens' = [billed |-> tokens.billed + 1, counted |-> tokens.counted + 1]
    /\ UNCHANGED <<worldVars, onPicks, moment, openAtStart, fetchVars, cands, tries, macro,
                   outVars>>

(* An answer without a valid tool call is paid for and not counted.        *)
AskMalformed ==
    /\ at = "ask"
    /\ Judge(Failed)
    /\ tokens' = [tokens EXCEPT !.billed = @ + 1]
    /\ UNCHANGED <<worldVars, onPicks, moment, openAtStart, fetchVars, cands, tries, macro,
                   outVars>>

AskAnswered ==
    /\ at = "ask"
    /\ \E v \in Verdict : Judge(v)
    /\ tokens' = [billed |-> tokens.billed + 1, counted |-> tokens.counted + 1]
    /\ UNCHANGED <<worldVars, onPicks, moment, openAtStart, fetchVars, cands, tries, macro,
                   outVars>>

-----------------------------------------------------------------------------
(* The report, the ledger and the channels.                                *)

Valid(rs) == Cardinality({i \in DOMAIN rs : rs[i].verdict # Failed})
Actionable(rs) == {r \in ToSet(rs) :
    r.verdict.action \in {"BUY", "SELL"} /\ r.verdict.confidence >= AlertMinConfidence}

Analyzed == at = "analyze" /\ Len(results) = Len(cands)

(* The scheduled job builds the report and never saves it.                 *)
JobReport ==
    /\ Analyzed /\ command = "portfolio_job"
    /\ macro' \in Macro
    /\ left' = IF results = <<>> THEN <<>> ELSE <<"slack">>
    /\ at' = "notify"
    /\ UNCHANGED <<worldVars, onPicks, moment, openAtStart, fetchVars, cands, results, tries,
                   tokens, disk, inLedger, tried, pushed>>

SaveReport ==
    /\ Analyzed /\ command # "portfolio_job"
    /\ macro' \in Macro
    /\ disk' = [saved |-> TRUE, open |-> openAtStart, results |-> results,
                cost |-> tokens.counted,
                weights |-> IF onPicks THEN InverseVolWeights(CandlesOf(cands)) ELSE {}]
    /\ at' = "saved"
    /\ UNCHANGED <<worldVars, onPicks, moment, openAtStart, fetchVars, cands, results, tries,
                   tokens, inLedger, left, tried, pushed>>

(* Mutant: a report that cannot be written is passed over.                 *)
MutantSaveFailsQuietly ==
    /\ Analyzed /\ command # "portfolio_job"
    /\ macro' \in Macro
    /\ at' = "saved"
    /\ UNCHANGED <<worldVars, onPicks, moment, openAtStart, fetchVars, cands, results, tries,
                   tokens, outVars>>

SaveFails ==
    /\ Analyzed /\ command # "portfolio_job"
    /\ macro' \in Macro
    /\ Raise
    /\ UNCHANGED <<worldVars, onPicks, moment, openAtStart, fetchVars, cands, results, tries,
                   tokens, outVars>>

(* A ledger that cannot be written is passed over.  The advice on          *)
(* positions waits for the next backfill of its own ledger.                *)
AppendLedger ==
    /\ at = "saved"
    /\ inLedger' \in IF onPicks THEN BOOLEAN ELSE {FALSE}
    /\ at' = "gate"
    /\ UNCHANGED <<worldVars, onPicks, moment, openAtStart, fetchVars, claudeVars,
                   disk, left, tried, pushed>>

(* build_notifiers, in the order of the code; no channel is the console.   *)
Notifiers ==
    LET named(channel) == IF channel \in Channels THEN <<channel>> ELSE <<>>
    IN  IF Channels = {} THEN <<"console">>
        ELSE named("console") \o named("webhook") \o named("smtp") \o named("slack")

(* Recommendations go to every channel if the market was open when the     *)
(* pass began or the user insists; advice on positions goes to Slack, from *)
(* `portfolio`; `daily` keeps it without --slack.                          *)
ChannelsFor(open) ==
    CASE ~onPicks -> IF command = "portfolio" THEN SlackOnly ELSE <<>>
      [] onPicks /\ (open \/ command \in Forced) -> Notifiers
      [] OTHER -> <<"console">>

(* Mutant: the gate reads the clock again.                                 *)
MutantDispatchByTheClock ==
    /\ at = "gate"
    /\ left' = ChannelsFor(MarketOpen)
    /\ at' = "notify"
    /\ UNCHANGED <<worldVars, onPicks, moment, openAtStart, fetchVars, claudeVars,
                   disk, inLedger, tried, pushed>>

Dispatch ==
    /\ at = "gate"
    /\ left' = ChannelsFor(openAtStart)
    /\ at' = "notify"
    /\ UNCHANGED <<worldVars, onPicks, moment, openAtStart, fetchVars, claudeVars,
                   disk, inLedger, tried, pushed>>

(* What a channel carries: the webhook what is actionable; mail and Slack  *)
(* the table of every result, of the picks only once one is actionable.     *)
Carried(channel) ==
    IF channel = "console" \/ command = "briefing" \/ (onPicks /\ Actionable(results) = {})
    THEN {}
    ELSE IF channel = "webhook" THEN Actionable(results) ELSE ToSet(results)

(* It arrives or it does not; an exception stays with its channel.         *)
Notify ==
    /\ at = "notify" /\ left # <<>>
    /\ left' = Tail(left)
    /\ tried' = tried \cup {Head(left)}
    /\ \E carried \in {{}, Carried(Head(left))} :
          pushed' = pushed \cup ({Head(left)} \X carried)
    /\ UNCHANGED <<worldVars, onPicks, moment, at, openAtStart, fetchVars, claudeVars,
                   disk, inLedger>>

EndPass ==
    /\ at = "notify" /\ left = <<>>
    /\ at' = CASE command = "run_loop" -> "asleep"
               [] command = "daily_picks" /\ onPicks -> "holdings"
               [] OTHER -> "done"
    /\ UNCHANGED <<worldVars, onPicks, moment, openAtStart, fetchVars, claudeVars,
                   outVars>>

Wake ==
    /\ at = "asleep"
    /\ at' = "start"
    /\ UNCHANGED <<worldVars, onPicks, moment, openAtStart, fetchVars, claudeVars,
                   outVars>>

-----------------------------------------------------------------------------
(* A pass over the held positions.                                         *)

(* A daily pass after its picks keeps their engine and what it counted.    *)
HoldingsFetched ==
    /\ \/ at = "start" /\ command \in Positions
       \/ at = "holdings"
    /\ FreshPass
    /\ onPicks' = FALSE
    /\ LET held == Only(Holdings, {i \in DOMAIN Holdings : Holdings[i].quantity > 0})
       IN  cands' \in {[i \in DOMAIN held |-> held[i].symbol], <<>>}
    /\ at' = "analyze"
    /\ UNCHANGED <<worldVars, moment, openAtStart, fetchVars, tries, tokens, left>>

(* Without an account the daily command has no positions to look at.       *)
NoAccount ==
    /\ \/ at = "start" /\ command = "daily"
       \/ at = "holdings"
    /\ at' = "done"
    /\ UNCHANGED <<worldVars, onPicks, moment, openAtStart, fetchVars, claudeVars,
                   outVars>>

-----------------------------------------------------------------------------
CallStep ==
    \/ LoopFindsClosed \/ LoopFindsOpen \/ StartPicks \/ StartFails \/ FetchCandles
    \/ GatherContext \/ AskHiccup \/ AskRefused \/ AskMalformed \/ AskAnswered
    \/ JobReport \/ SaveReport \/ SaveFails \/ AppendLedger \/ Dispatch \/ Notify
    \/ EndPass \/ Wake \/ HoldingsFetched \/ NoAccount

PassStep == CallStep \/ Screen

(* Screen, as far as `at` shows it: nothing else moves a pass there.       *)
ScreeningEnds ==
    /\ at = "fetch" /\ todo = <<>>
    /\ at' \in {"done", "notify", "analyze"}

(* A process that is not stopped takes its next step: the loop sleeps a    *)
(* finite time, and the calls of the code have a timeout, all but the one  *)
(* of the fundamentals: pykrx is given none (pykrx_provider.py:49), and    *)
(* that it returns or raises is an assumption.  Nothing is assumed of the  *)
(* clock: the market may stay closed for ever.                             *)
PassFairness == WF_passVars(CallStep) /\ WF_at(ScreeningEnds)
=============================================================================
