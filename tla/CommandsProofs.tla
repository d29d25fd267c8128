---------------------------- MODULE CommandsProofs ----------------------------
(***************************************************************************)
(* The processes of Commands, for every universe, account, configuration,  *)
(* history of prices and of bars: a pass saves before it pushes, calls its *)
(* channels and writes reports that add up; get_candles returns the newest *)
(* bars; agreement of strategies never hurts a symbol; a backtest looks at *)
(* nothing later and charges its costs once; scores stand; types.          *)
(***************************************************************************)
EXTENDS Commands, SeqFacts, FiniteSetTheorems

-----------------------------------------------------------------------------
(* A pass.                                                                 *)

Names == {"console", "webhook", "smtp", "slack"}
Advising == Picks \cup Positions

\* Nothing of this pass is saved or sent yet.
NothingOut == ~disk.saved /\ tried = {} /\ pushed = {}

\* The channels that were called and those that will be are those of the report.
Reaching == tried \cup ToSet(left) = ToSet(ChannelsFor(openAtStart))

PassTypes ==
  /\ left \in Seq(Names)
  /\ results \in Seq(ToSet(results))
  /\ tokens \in [billed : Nat, counted : Nat]
  /\ disk \in [saved : BOOLEAN, open : BOOLEAN, results : {disk.results}, cost : {disk.cost},
               weights : {disk.weights}]
  /\ onPicks \in BOOLEAN /\ openAtStart \in BOOLEAN

\* Where a pass is, and what is out by then.
PassControl ==
  /\ at = "asleep" => command = "run_loop"
  /\ at = "holdings" => command = "daily_picks"
  /\ at = "opening" => command = "run_loop"
  /\ at = "start" /\ command # "run_loop" => ~disk.saved /\ results = <<>> /\ tokens.counted = 0
  /\ at = "fetch" => /\ command \in Picks \cup {"screen_only", "briefing"}
                     /\ onPicks /\ NothingOut /\ results = <<>>
  /\ at \in {"analyze", "ask"} => command \in Advising /\ NothingOut
  /\ at \in {"saved", "gate"} => disk.saved /\ tried = {} /\ pushed = {}
  /\ at = "notify" /\ command \notin {"briefing", "portfolio_job"} => disk.saved /\ Reaching
  /\ at \in {"start", "opening", "done", "asleep", "holdings"} /\ onPicks /\ disk.saved =>
       tried = ToSet(ChannelsFor(disk.open))

\* What is saved, and what left the machine, are the verdicts of this pass.
PassReport ==
  /\ disk.saved => /\ command \in Advising \ {"portfolio_job"}
                   /\ disk.open = openAtStart /\ disk.results = results
                   /\ disk.cost = tokens.counted /\ Len(results) = Len(cands)
  /\ command # "portfolio_job" => \A p \in pushed : disk.saved /\ p[2] \in ToSet(disk.results)

PassInv == PassTypes /\ PassControl /\ PassReport

\* The channels are sequences of names.
LEMMA ChannelsType ==
  ASSUME NEW open
  PROVE  Notifiers \in Seq(Names) /\ SlackOnly \in Seq(Names)
         /\ ChannelsFor(open) \in Seq(Names)
<1> DEFINE named(channel) == IF channel \in Channels THEN <<channel>> ELSE <<>>
<1>0. "console" \in Names /\ "webhook" \in Names /\ "smtp" \in Names /\ "slack" \in Names
  BY DEF Names
<1>a. \A c \in Names : <<c>> \in Seq(Names)
  OBVIOUS
<1>b. <<>> \in Seq(Names)
  OBVIOUS
<1>1. /\ named("console") \in Seq(Names) /\ named("webhook") \in Seq(Names)
      /\ named("smtp") \in Seq(Names) /\ named("slack") \in Seq(Names)
      /\ <<"console">> \in Seq(Names) /\ <<>> \in Seq(Names)
  BY <1>0, <1>a, <1>b
<1>2. Notifiers = IF Channels = {} THEN <<"console">>
                  ELSE named("console") \o named("webhook") \o named("smtp") \o named("slack")
  BY DEF Notifiers
<1>3. SlackOnly \in Seq(Names)
  BY <1>0, <1>a, <1>b DEF SlackOnly
<1> HIDE DEF named
<1>4. Notifiers \in Seq(Names)
  BY <1>1, <1>2
<1> HIDE DEF Names
<1>5. ChannelsFor(open) \in Seq(Names)
  BY <1>1, <1>3, <1>4 DEF ChannelsFor
<1> QED
  BY <1>3, <1>4, <1>5

\* The first of a sequence and the rest of it.
LEMMA ToSetTail ==
  ASSUME NEW S, NEW s \in Seq(S), s # <<>>
  PROVE  /\ Tail(s) \in Seq(S) /\ Head(s) \in S
         /\ ToSet(s) = {Head(s)} \cup ToSet(Tail(s))
<1> DEFINE t == Tail(s)
<1>1. t \in Seq(S) /\ Len(t) = Len(s) - 1 /\ (\A i \in 1..Len(t) : t[i] = s[i + 1])
      /\ Head(s) = s[1] /\ s[1] \in S /\ Len(s) \in Nat /\ Len(s) >= 1
  OBVIOUS
<1>2. DOMAIN t = 1..Len(t) /\ DOMAIN s = 1..Len(s)
  OBVIOUS
<1> HIDE DEF t
<1>3. ToSet(s) \subseteq {s[1]} \cup ToSet(t)
  <2> SUFFICES ASSUME NEW i \in 1..Len(s), i # 1 PROVE s[i] \in ToSet(t)
    BY <1>2 DEF ToSet
  <2>1. i - 1 \in 1..Len(t) /\ s[(i - 1) + 1] = s[i]
    BY <1>1
  <2>2. t[i - 1] = s[i]
    BY <1>1, <2>1
  <2> QED
    BY <1>2, <2>1, <2>2 DEF ToSet
<1>4. {s[1]} \cup ToSet(t) \subseteq ToSet(s)
  <2>1. s[1] \in ToSet(s)
    BY <1>1, <1>2 DEF ToSet
  <2>2. ASSUME NEW i \in 1..Len(t) PROVE t[i] \in ToSet(s)
    <3>1. i + 1 \in 1..Len(s) /\ t[i] = s[i + 1]
      BY <1>1
    <3> QED
      BY <1>2, <3>1 DEF ToSet
  <2> QED
    BY <1>2, <2>1, <2>2 DEF ToSet
<1> QED
  BY <1>1, <1>3, <1>4 DEF t

\* One more verdict.
LEMMA AppendIsSeq ==
  ASSUME NEW s, s \in Seq(ToSet(s)), NEW x
  PROVE  /\ Append(s, x) \in Seq(ToSet(Append(s, x))) /\ Len(Append(s, x)) = Len(s) + 1
         /\ Append(s, x)[Len(s) + 1] = x /\ \A i \in 1..Len(s) : Append(s, x)[i] = s[i]
<1> DEFINE S == ToSet(s)
           t == Append(s, x)
<1>0. s \in Seq(S)
  OBVIOUS
<1> HIDE DEF S
<1>1. t \in Seq(S \cup {x}) /\ Len(t) = Len(s) + 1 /\ t[Len(s) + 1] = x
      /\ \A i \in 1..Len(s) : t[i] = s[i]
  BY <1>0
<1> HIDE DEF t
<1>2. t \in Seq(ToSet(t))
  <2>1. DOMAIN t = 1..Len(t) /\ Len(t) \in Nat
    BY <1>1
  <2>2. \A i \in 1..Len(t) : t[i] \in ToSet(t)
    BY <2>1 DEF ToSet
  <2>3. t = [i \in 1..Len(t) |-> t[i]]
    BY <1>1
  <2> QED
    BY <2>1, <2>2, <2>3
<1> QED
  BY <1>1, <1>2 DEF t

\* The empty sequence.
LEMMA EmptyIsSeq == <<>> \in Seq(ToSet(<<>>)) /\ ToSet(<<>>) = {}
<1> DEFINE none == <<>>
<1>1. DOMAIN none = {} /\ none = <<>>
  OBVIOUS
<1>2. \A S : none \in Seq(S)
  OBVIOUS
<1> HIDE DEF none
<1>3. ToSet(none) = {}
  BY <1>1 DEF ToSet
<1> QED
  BY <1>1, <1>2, <1>3

\* A pass begins with nothing done.
LEMMA PassStarts ==
  ASSUME NothingDone, at # "fetch" /\ at \notin {"opening", "analyze", "ask", "saved", "gate",
                                                "asleep", "holdings", "notify"}
  PROVE  PassInv
<1> USE DEF NothingDone, NoReport
<1>1. <<>> \in Seq(Names)
  OBVIOUS
<1>2. PassTypes
  BY <1>1, EmptyIsSeq DEF PassTypes
<1>3. PassControl
  BY DEF PassControl
<1>4. PassReport
  BY DEF PassReport
<1> QED
  BY <1>2, <1>3, <1>4 DEF PassInv

\* A step that leaves what is out alone.
LEMMA QuietKeeps ==
  ASSUME PassInv, UNCHANGED <<command, onPicks, openAtStart, results, cands, disk, tried, pushed>>,
         tokens' = tokens, left' \in Seq(Names),
         \/ /\ at \in {"start", "opening"} /\ at' \in {"asleep", "dead", "done"}
            /\ at' = "asleep" => command = "run_loop"
         \/ at = "start" /\ at' = "opening" /\ command = "run_loop"
         \/ at' = at /\ left' = left
         \/ at = "fetch" /\ command = "briefing" /\ at' = "notify"
         \/ at = "start" /\ command = "briefing" /\ at' = "notify"
         \/ at = "analyze" /\ at' = "ask"
         \/ at = "analyze" /\ at' \in {"asleep", "dead"} /\ (at' = "asleep" => command = "run_loop")
         \/ at = "analyze" /\ command = "portfolio_job" /\ at' = "notify"
         \/ at = "saved" /\ at' = "gate"
         \/ at = "gate" /\ at' = "notify" /\ left' = ChannelsFor(openAtStart)
         \/ at = "asleep" /\ at' = "start"
         \/ at = "holdings" /\ at' = "done"
  PROVE  PassInv'
<1> USE DEF PassInv
<1>1. PassTypes'
  BY DEF PassTypes
<1>2. PassReport'
  BY DEF PassReport
<1>3. \A open : ChannelsFor(open)' = ChannelsFor(open)
  BY DEF ChannelsFor, SlackOnly, Notifiers
<1>4. PassControl'
  BY <1>3 DEF PassControl, PassReport, NothingOut, Reaching, Advising, Picks, Positions
<1> QED
  BY <1>1, <1>2, <1>4

\* The steps that leave what is out alone.
LEMMA QuietSteps ==
  ASSUME PassInv,
         \/ Tick \/ LoopFindsClosed \/ LoopFindsOpen \/ StartFails \/ FetchCandles \/ GatherContext
         \/ JobReport \/ SaveFails \/ AppendLedger \/ Dispatch \/ Wake \/ NoAccount
  PROVE  PassInv'
<1> USE DEF worldVars, fetchVars, claudeVars, outVars
<1>0. left \in Seq(Names) /\ SlackOnly \in Seq(Names) /\ ChannelsFor(openAtStart) \in Seq(Names)
      /\ <<>> \in Seq(Names) /\ <<"slack">> \in Seq(Names)
  <2>1. "slack" \in Names
    BY DEF Names
  <2>2. <<>> \in Seq(Names) /\ <<"slack">> \in Seq(Names)
    BY <2>1
  <2> QED
    BY <2>2, ChannelsType DEF PassInv, PassTypes
<1>1. CASE Tick
  BY <1>0, <1>1, QuietKeeps DEF Tick
<1>2. CASE LoopFindsClosed \/ LoopFindsOpen
  BY <1>0, <1>2, QuietKeeps DEF LoopFindsClosed, LoopFindsOpen
<1>3. CASE StartFails
  BY <1>0, <1>3, QuietKeeps DEF StartFails, Starting, Raise
<1>4. CASE FetchCandles
  BY <1>0, <1>4, QuietKeeps DEF FetchCandles
<1>5. CASE GatherContext
  BY <1>0, <1>5, QuietKeeps DEF GatherContext
<1>6. CASE JobReport
  BY <1>0, <1>6, QuietKeeps DEF JobReport, Analyzed
<1>7. CASE SaveFails
  BY <1>0, <1>7, QuietKeeps DEF SaveFails, Analyzed, Raise
<1>8. CASE AppendLedger
  BY <1>0, <1>8, QuietKeeps DEF AppendLedger
<1>9. CASE Dispatch
  BY <1>0, <1>9, QuietKeeps DEF Dispatch
<1>10. CASE Wake
  BY <1>0, <1>10, QuietKeeps DEF Wake
<1>11. CASE NoAccount
  BY <1>0, <1>11, QuietKeeps DEF NoAccount
<1> QED
  BY <1>1, <1>2, <1>3, <1>4, <1>5, <1>6, <1>7, <1>8, <1>9, <1>10, <1>11

\* A pass begins, or the held positions are fetched: everything is fresh.
LEMMA FreshKeeps ==
  ASSUME PassInv, FreshPass, UNCHANGED <<command, left>>, onPicks' \in BOOLEAN,
         openAtStart' \in BOOLEAN,
         \/ /\ at' = "fetch" /\ onPicks' /\ tokens' = [billed |-> 0, counted |-> 0]
            /\ command \in Picks \cup {"screen_only", "briefing"}
         \/ at' = "analyze" /\ tokens' = tokens /\ command \in Advising
  PROVE  PassInv'
<1> USE DEF PassInv, FreshPass, NoReport
<1>1. PassTypes'
  BY EmptyIsSeq DEF PassTypes
<1>2. PassControl'
  BY DEF PassControl, NothingOut
<1>3. PassReport'
  BY DEF PassReport
<1> QED
  BY <1>1, <1>2, <1>3

\* A pass begins, or the held positions are fetched.
LEMMA FreshSteps ==
  ASSUME PassInv, StartPicks \/ HoldingsFetched
  PROVE  PassInv'
<1> USE DEF worldVars, fetchVars
<1>1. CASE StartPicks
  BY <1>1, FreshKeeps DEF StartPicks, Starting, MarketOpen, AnyMarketOpen, Picks
<1>2. CASE HoldingsFetched
  <2>1. command \in Advising
    BY <1>2 DEF HoldingsFetched, PassInv, PassControl, Advising, Picks
  <2> QED
    BY <1>2, <2>1, FreshKeeps DEF HoldingsFetched, PassInv, PassTypes
<1> QED
  BY <1>1, <1>2

\* The candidates are known.
LEMMA ScreenKeeps ==
  ASSUME PassInv, Screen
  PROVE  PassInv'
<1> USE DEF PassInv, Screen, worldVars
<1>0. at = "fetch" /\ ~disk.saved /\ tried = {} /\ pushed = {}
      /\ command \in Picks \cup {"screen_only", "briefing"}
  BY DEF PassControl, NothingOut
<1>1. PassTypes'
  <2>1. left' \in Seq(Names)
    BY ChannelsType, <1>0 DEF SlackOnly
  <2> QED
    BY <2>1 DEF PassTypes
<1>2. PassControl'
  <2>1. at' = CASE command = "screen_only" -> "done"
               [] command = "briefing" -> "notify"
               [] OTHER -> "analyze"
    OBVIOUS
  <2>2. \/ command = "screen_only" /\ at' = "done"
        \/ command = "briefing" /\ at' = "notify"
        \/ command \in Picks /\ at' = "analyze"
    BY <1>0, <2>1
  <2> QED
    BY <1>0, <2>2 DEF PassControl, NothingOut, Advising
<1>3. PassReport'
  BY <1>0 DEF PassReport
<1> QED
  BY <1>1, <1>2, <1>3

\* A verdict.
LEMMA JudgeKeeps ==
  ASSUME PassInv, at = "ask", NEW v, Judge(v),
         tokens' \in [billed : Nat, counted : Nat],
         UNCHANGED <<command, onPicks, openAtStart, cands, disk, left, tried, pushed>>
  PROVE  PassInv'
<1> USE DEF PassInv, Judge
<1>1. PassTypes'
  <2>1. results' \in Seq(ToSet(results'))
    BY AppendIsSeq DEF PassTypes
  <2> QED
    BY <2>1 DEF PassTypes
<1>2. PassControl'
  BY DEF PassControl, NothingOut
<1>3. PassReport'
  BY DEF PassControl, PassReport, NothingOut
<1> QED
  BY <1>1, <1>2, <1>3

\* Claude is asked.
LEMMA AskSteps ==
  ASSUME PassInv, AskHiccup \/ AskRefused \/ AskMalformed \/ AskAnswered
  PROVE  PassInv'
<1> USE DEF worldVars, fetchVars, outVars
<1>0. tokens \in [billed : Nat, counted : Nat] /\ left \in Seq(Names)
  BY DEF PassInv, PassTypes
<1>1. CASE AskHiccup
  <2>1. CASE tries' < MaxTries
    BY <1>0, <1>1, <2>1, QuietKeeps DEF AskHiccup
  <2>2. CASE ~(tries' < MaxTries)
    BY <1>0, <1>1, <2>2, JudgeKeeps DEF AskHiccup
  <2> QED
    BY <2>1, <2>2
<1>2. CASE AskRefused
  BY <1>0, <1>2, JudgeKeeps DEF AskRefused
<1>3. CASE AskMalformed
  BY <1>0, <1>3, JudgeKeeps DEF AskMalformed
<1>4. CASE AskAnswered
  <2>1. PICK v \in Verdict : Judge(v)
    BY <1>4 DEF AskAnswered
  <2> QED
    BY <1>0, <1>4, <2>1, JudgeKeeps DEF AskAnswered
<1> QED
  BY <1>1, <1>2, <1>3, <1>4

\* The report is saved.
LEMMA SaveKeeps ==
  ASSUME PassInv, SaveReport
  PROVE  PassInv'
<1> USE DEF PassInv, SaveReport, Analyzed, worldVars, fetchVars
<1>0. at = "analyze" /\ command \in Advising \ {"portfolio_job"} /\ tried = {} /\ pushed = {}
  BY DEF PassControl, NothingOut
<1>1. PassTypes'
  BY DEF PassTypes
<1>2. disk'.saved /\ disk'.open = openAtStart /\ disk'.results = results
      /\ disk'.cost = tokens.counted
  OBVIOUS
<1>3. PassControl'
  BY <1>0, <1>2 DEF PassControl
<1>4. PassReport'
  BY <1>0, <1>2 DEF PassReport
<1> QED
  BY <1>1, <1>3, <1>4

\* A channel carries verdicts of the pass, and those of a report only if it is
\* not a briefing.
LEMMA CarriedIs ==
  ASSUME NEW channel
  PROVE  Carried(channel) \subseteq ToSet(results) /\ (command = "briefing" => Carried(channel) = {})
<1>1. Actionable(results) \subseteq ToSet(results)
  BY DEF Actionable
<1> QED
  BY <1>1 DEF Carried

\* A channel is called.
LEMMA NotifyKeeps ==
  ASSUME PassInv, Notify
  PROVE  PassInv'
<1> USE DEF PassInv, worldVars, fetchVars, claudeVars
<1>1. at = "notify" /\ left # <<>> /\ left' = Tail(left) /\ tried' = tried \cup {Head(left)}
      /\ UNCHANGED <<command, onPicks, at, openAtStart, cands, results, tokens, disk>>
  BY DEF Notify
<1>2. left' \in Seq(Names) /\ ToSet(left) = {Head(left)} \cup ToSet(left')
  BY <1>1, ToSetTail DEF PassTypes
<1>3. PICK carried \in {{}, Carried(Head(left))} :
        pushed' = pushed \cup ({Head(left)} \X carried)
  BY DEF Notify
<1>4. PassTypes'
  BY <1>1, <1>2 DEF PassTypes
<1>5. ChannelsFor(openAtStart)' = ChannelsFor(openAtStart)
  BY <1>1 DEF ChannelsFor, SlackOnly, Notifiers
<1>6. PassControl'
  BY <1>1, <1>2, <1>5 DEF PassControl, Reaching
<1>7. ASSUME command # "portfolio_job", NEW p \in pushed'
      PROVE  disk.saved /\ p[2] \in ToSet(disk.results)
  <2>1. CASE p \in pushed
    BY <1>7, <2>1 DEF PassReport
  <2>2. CASE p \notin pushed
    <3>1. p[2] \in Carried(Head(left))
      BY <1>3, <1>7, <2>2
    <3>2. p[2] \in ToSet(results) /\ command # "briefing"
      BY <3>1, CarriedIs
    <3> QED
      BY <1>1, <1>7, <3>2 DEF PassControl, PassReport
  <2> QED
    BY <2>1, <2>2
<1>8. PassReport'
  BY <1>1, <1>7 DEF PassReport
<1> QED
  BY <1>4, <1>6, <1>8

\* A pass is over.
LEMMA EndKeeps ==
  ASSUME PassInv, EndPass
  PROVE  PassInv'
<1> USE DEF PassInv, worldVars, fetchVars, claudeVars, outVars
<1>1. at = "notify" /\ left = <<>>
      /\ UNCHANGED <<command, onPicks, openAtStart, cands, results, tokens, disk, left, tried,
                     pushed>>
  BY DEF EndPass
<1>2. at' = CASE command = "run_loop" -> "asleep"
               [] command = "daily_picks" /\ onPicks -> "holdings"
               [] OTHER -> "done"
  BY DEF EndPass
<1>3. \/ at' = "asleep" /\ command = "run_loop"
      \/ at' = "holdings" /\ command = "daily_picks"
      \/ at' = "done"
  BY <1>2
<1>4. \A open : ChannelsFor(open)' = ChannelsFor(open)
  BY <1>1 DEF ChannelsFor, SlackOnly, Notifiers
<1>5. disk.saved => tried = ToSet(ChannelsFor(openAtStart)) /\ disk.open = openAtStart
  <2>1. disk.saved => command \notin {"briefing", "portfolio_job"}
    BY DEF PassReport, Advising, Picks, Positions
  <2>2. ToSet(left) = {}
    BY <1>1, EmptyIsSeq
  <2> QED
    BY <1>1, <2>1, <2>2 DEF PassControl, PassReport, Reaching
<1>6. PassTypes'
  BY <1>1 DEF PassTypes
<1>7. PassControl'
  BY <1>1, <1>3, <1>4, <1>5 DEF PassControl
<1>8. PassReport'
  BY <1>1 DEF PassReport
<1> QED
  BY <1>6, <1>7, <1>8

\* Every step of every process keeps what is known of a pass.
LEMMA PassInvariant == Spec => []PassInv
<1>1. Init => PassInv
  <2> SUFFICES ASSUME Init PROVE PassInv
    OBVIOUS
  <2>1. PassInit \/ PassIdle
    BY DEF Init
  <2> QED
    BY <2>1, PassStarts DEF PassInit, PassIdle
<1>2. PassInv /\ UNCHANGED passVars => PassInv'
  <2> SUFFICES ASSUME PassInv, UNCHANGED passVars PROVE PassInv'
    OBVIOUS
  <2>1. UNCHANGED <<command, onPicks, at, openAtStart, cands, results, tokens, disk, left,
                    tried, pushed>>
    BY DEF passVars
  <2>2. left' \in Seq(Names)
    BY <2>1 DEF PassInv, PassTypes
  <2> QED
    BY <2>1, <2>2, QuietKeeps
<1>3. PassInv /\ [Next]_allVars => PassInv'
  <2> SUFFICES ASSUME PassInv, [Next]_allVars PROVE PassInv'
    OBVIOUS
  <2>1. CASE UNCHANGED allVars
    BY <1>2, <2>1 DEF allVars
  <2>2. CASE CandlesOnly \/ BacktestOnly \/ TrackerOnly
    BY <1>2, <2>2 DEF CandlesOnly, BacktestOnly, TrackerOnly
  <2>3. CASE \/ Tick \/ LoopFindsClosed \/ LoopFindsOpen \/ StartFails \/ FetchCandles \/ GatherContext
             \/ JobReport \/ SaveFails \/ AppendLedger \/ Dispatch \/ Wake \/ NoAccount
    BY <2>3, QuietSteps
  <2>4. CASE StartPicks \/ HoldingsFetched
    BY <2>4, FreshSteps
  <2>5. CASE Screen
    BY <2>5, ScreenKeeps
  <2>6. CASE AskHiccup \/ AskRefused \/ AskMalformed \/ AskAnswered
    BY <2>6, AskSteps
  <2>7. CASE SaveReport
    BY <2>7, SaveKeeps
  <2>8. CASE Notify
    BY <2>8, NotifyKeeps
  <2>9. CASE EndPass
    BY <2>9, EndKeeps
  <2> QED
    BY <2>1, <2>2, <2>3, <2>4, <2>5, <2>6, <2>7, <2>8, <2>9 DEF Next
<1> QED
  BY <1>1, <1>3, PTL DEF Spec

\* SAFETY.  What a command pushes out is on disk first: an alert never speaks of
\* a verdict no report holds (run_once, portfolio, daily), for every universe,
\* set of channels and answer of Claude.
THEOREM SavedFirst == Spec => []PushedIsOnDisk
<1>1. PassInv => PushedIsOnDisk
  BY DEF PassInv, PassReport, PushedIsOnDisk
<1> QED
  BY <1>1, PassInvariant, PTL

\* SAFETY.  When a pass of recommendations is over, the channels that were called
\* are the ones its own report accounts for, whatever the clock did on the way
\* and whichever of them failed (run_once, notifiers_for).
THEOREM ReachesItsChannels == Spec => []ChannelsMatchTheReport
<1>1. ToSet(<<"console">>) = {"console"}
  <2> DEFINE one == <<"console">>
  <2>1. DOMAIN one = {1} /\ one[1] = "console"
    OBVIOUS
  <2> HIDE DEF one
  <2>2. ToSet(one) = {"console"}
    BY <2>1 DEF ToSet
  <2> QED
    BY <2>2 DEF one
<1>2. PassInv => ChannelsMatchTheReport
  <2> SUFFICES ASSUME PassInv, onPicks, disk.saved, at \in {"done", "asleep", "holdings"}
               PROVE  tried = IF disk.open \/ command \in Forced
                              THEN ToSet(Notifiers) ELSE {"console"}
    BY DEF ChannelsMatchTheReport
  <2>1. tried = ToSet(ChannelsFor(disk.open))
    BY DEF PassInv, PassControl
  <2>2. ChannelsFor(disk.open) = IF disk.open \/ command \in Forced
                                 THEN Notifiers ELSE <<"console">>
    BY DEF ChannelsFor
  <2> QED
    BY <1>1, <2>1, <2>2
<1> QED
  BY <1>2, PassInvariant, PTL

-----------------------------------------------------------------------------
(* The fetch of one history.                                               *)

\* The newest of an interval are its end.
LEMMA NewestOfInterval ==
  ASSUME NEW a \in Nat, NEW b \in Nat, NEW n \in Nat
  PROVE  Newest(a..b, n) = {t \in a..b : b - t < n}
<1> SUFFICES ASSUME NEW t \in a..b
             PROVE  Cardinality({u \in a..b : u > t}) = b - t
  BY DEF Newest
<1>1. {u \in a..b : u > t} = (t + 1)..b
  OBVIOUS
<1>2. Cardinality((t + 1)..b) = b - t
  <2>1. t + 1 \in Int /\ b \in Int /\ t <= b
    OBVIOUS
  <2>2. Cardinality((t + 1)..b) = IF t + 1 > b THEN 0 ELSE b - (t + 1) + 1
    BY <2>1, FS_Interval
  <2> QED
    BY <2>1, <2>2
<1> QED
  BY <1>1, <1>2

\* No more than n are among the newest n.
LEMMA NewestAreFew ==
  ASSUME NEW S \in SUBSET Nat, IsFiniteSet(S), NEW n \in Nat
  PROVE  Cardinality(Newest(S, n)) <= n
<1> DEFINE N == Newest(S, n)
<1>1. N \subseteq S /\ (\A t \in N : Cardinality({u \in S : u > t}) < n)
  BY DEF Newest
<1> HIDE DEF N
<1>2. IsFiniteSet(N) /\ Cardinality(N) \in Nat
  BY <1>1, FS_Subset, FS_CardinalityType
<1>3. CASE N = {}
  BY <1>3, FS_EmptySet DEF N
<1>4. CASE N # {}
  <2>1. PICK t \in N : \A u \in N : t <= u
    BY <1>1, <1>4, Least
  <2> DEFINE newer == {u \in S : u > t}
  <2>2. N \ {t} \subseteq newer
    BY <1>1, <2>1
  <2>3. IsFiniteSet(newer) /\ Cardinality(newer) \in Nat /\ Cardinality(newer) < n
    BY <1>1, <2>1, FS_Subset, FS_CardinalityType
  <2> HIDE DEF newer
  <2>4. Cardinality(N \ {t}) <= Cardinality(newer)
    BY <2>2, <2>3, FS_Subset
  <2>5. Cardinality(N \ {t}) = Cardinality(N) - 1
    BY <1>2, <2>1, FS_RemoveElement
  <2> QED
    BY <1>2, <2>3, <2>4, <2>5 DEF N
<1> QED
  BY <1>3, <1>4

\* What the pages bring reaches what is wanted: any number of bars when every
\* page brings P new rows, up to P * P bars when all but the first bring one less.
LEMMA PagesReach ==
  ASSUME NEW P \in Nat \ {0}, NEW w \in Nat
  PROVE  /\ P * (w \div P + 2) >= w
         /\ w <= P * P => P * (w \div P + 2) - (w \div P + 1) >= w
<1> DEFINE q == w \div P
           r == w % P
<1>1. q \in Nat /\ r \in 0..(P - 1) /\ w = P * q + r
  OBVIOUS
<1> HIDE DEF q, r
<1>2. P * (q + 2) = P * q + 2 * P /\ P * q \in Nat
  BY <1>1
<1>3. w <= P * P => q <= P
  <2> SUFFICES ASSUME w <= P * P, q >= P + 1 PROVE FALSE
    BY <1>1
  <2>1. P * q >= P * (P + 1)
    BY <1>1
  <2>2. P * (P + 1) = P * P + P
    OBVIOUS
  <2> QED
    BY <1>1, <1>2, <2>1, <2>2
<1>4. P * (q + 2) >= w
  BY <1>1, <1>2
<1>5. w <= P * P => P * (q + 2) - (q + 1) >= w
  BY <1>1, <1>2, <1>3
<1> QED
  BY <1>4, <1>5 DEF q

\* The valid bars at lo and after it.
From(lo) == {t \in DOMAIN rows : rows[t] = "ok" /\ t >= lo}

Undamaged == \A t \in DOMAIN rows : rows[t] = "ok"

\* The rows that `page` full pages have brought, at least.
Brought == PerCall * page - IF inclusive THEN page - 1 ELSE 0

CandlesTypes ==
  /\ rows \in Seq(RowKind) /\ inclusive \in BOOLEAN /\ want \in Nat
  /\ before \in Nat /\ page \in Nat

\* While it pages, what is collected are the valid bars at the cursor and after it.
CandlesPaging ==
  candlesAt = "paging" =>
    IF before = 0 THEN page = 0 /\ collected = {}
    ELSE /\ before \in DOMAIN rows /\ page >= 1 /\ collected = From(before)
         /\ Len(rows) + 1 - before >= Brought

\* What is collected in the end reaches back to some row: of an undamaged
\* history, far enough.
CandlesDone ==
  candlesAt = "returned" =>
    \E lo \in Nat \ {0} :
      /\ collected = From(lo)
      /\ Undamaged /\ (~inclusive \/ want <= PerCall * PerCall) =>
           (lo = 1 \/ Len(rows) + 1 - lo >= want)

CandlesInv == CandlesTypes /\ CandlesPaging /\ CandlesDone

\* Where the rows before the cursor end, and where the page begins.
Newer == IF before = 0 THEN Len(rows) ELSE IF inclusive THEN before ELSE before - 1
PageStart == IF Newer >= PerCall THEN Newer - PerCall + 1 ELSE 1

\* A page is an interval of rows.
LEMMA PageIs ==
  ASSUME CandlesInv, candlesAt = "paging"
  PROVE  /\ Newer \in Nat /\ PageStart \in Nat \ {0} /\ Newer <= Len(rows) /\ PageStart <= Newer + 1
         /\ Served = PageStart..Newer
         /\ (Cardinality(Served) = PerCall <=> Newer >= PerCall)
         /\ Newer >= PerCall => Oldest(Served) = PageStart /\ PageStart \in DOMAIN rows
<1>1. PerCall \in Nat \ {0}
  BY CandlesAssumption
<1>2. DOMAIN rows = 1..Len(rows) /\ Len(rows) \in Nat /\ before \in Nat /\ inclusive \in BOOLEAN
      /\ (before # 0 => before \in 1..Len(rows))
  BY DEF CandlesInv, CandlesTypes, CandlesPaging
<1>3. Newer \in Nat /\ Newer <= Len(rows)
  BY <1>2 DEF Newer
<1>4. {t \in DOMAIN rows : before = 0 \/ t < before \/ (inclusive /\ t = before)} = 1..Newer
  BY <1>2 DEF Newer
<1>5. Served = {t \in 1..Newer : Newer - t < PerCall}
  <2>1. Served = Newest(1..Newer, PerCall)
    BY <1>4 DEF Served
  <2>2. 1 \in Nat /\ PerCall \in Nat
    BY <1>1
  <2>3. Newest(1..Newer, PerCall) = {t \in 1..Newer : Newer - t < PerCall}
    BY <1>3, <2>2, NewestOfInterval
  <2> QED
    BY <2>1, <2>3
<1> DEFINE b == Newer
           lo == PageStart
<1>6. lo = IF b >= PerCall THEN b - PerCall + 1 ELSE 1
  BY DEF PageStart
<1>7. b \in Nat /\ b <= Len(rows) /\ Served = {t \in 1..b : b - t < PerCall}
  BY <1>3, <1>5
<1> HIDE DEF b, lo
<1>8. lo \in Nat \ {0} /\ lo <= b + 1
  BY <1>1, <1>6, <1>7
<1>9. Served = lo..b
  BY <1>1, <1>6, <1>7
<1>10. Cardinality(Served) = PerCall <=> b >= PerCall
  <2>1. Cardinality(lo..b) = IF lo > b THEN 0 ELSE b - lo + 1
    BY <1>7, <1>8, FS_Interval
  <2> DEFINE c == Cardinality(lo..b)
  <2>2. c = IF lo > b THEN 0 ELSE b - lo + 1
    BY <2>1
  <2>3. Cardinality(Served) = c
    BY <1>9
  <2> HIDE DEF c
  <2>4. c = PerCall <=> b >= PerCall
    BY <1>1, <1>6, <1>7, <1>8, <2>2
  <2> QED
    BY <2>3, <2>4
<1>11. ASSUME b >= PerCall PROVE Oldest(Served) = lo /\ lo \in DOMAIN rows
  <2>1. lo \in Served /\ \A t \in Served : lo <= t
    BY <1>1, <1>6, <1>7, <1>9, <1>11
  <2>2. \A t \in Served : (\A u \in Served : t <= u) => t = lo
    BY <1>7, <1>8, <1>9, <2>1
  <2>3. Oldest(Served) = lo
    BY <2>1, <2>2 DEF Oldest
  <2>4. lo \in DOMAIN rows
    BY <1>1, <1>2, <1>6, <1>7, <1>11
  <2> QED
    BY <2>3, <2>4
<1> QED
  BY <1>7, <1>8, <1>9, <1>10, <1>11 DEF b, lo

\* A page adds the bars down to where it begins.
LEMMA PageBrings ==
  ASSUME CandlesInv, candlesAt = "paging"
  PROVE  collected \cup {t \in Served : rows[t] = "ok"} = From(PageStart)
<1>1. DOMAIN rows = 1..Len(rows) /\ Len(rows) \in Nat /\ before \in Nat
      /\ (before # 0 => before \in 1..Len(rows))
  BY DEF CandlesInv, CandlesTypes, CandlesPaging
<1>2. Newer \in Nat /\ PageStart \in Nat \ {0} /\ Newer <= Len(rows) /\ PageStart <= Newer + 1
      /\ Served = PageStart..Newer
  BY PageIs
<1> DEFINE b == Newer
           lo == PageStart
<1>3. b \in Nat /\ lo \in Nat \ {0} /\ b <= Len(rows) /\ lo <= b + 1 /\ Served = lo..b
  BY <1>2
<1>4. CASE before = 0
  <2>1. collected = {} /\ b = Len(rows)
    BY <1>4 DEF CandlesInv, CandlesPaging, Newer
  <2> HIDE DEF b, lo
  <2>2. {t \in lo..b : rows[t] = "ok"} = {t \in 1..Len(rows) : rows[t] = "ok" /\ t >= lo}
    BY <1>1, <1>3, <2>1
  <2>3. From(lo) = {t \in 1..Len(rows) : rows[t] = "ok" /\ t >= lo}
    BY <1>1 DEF From
  <2> QED
    BY <1>3, <2>1, <2>2, <2>3 DEF lo
<1>5. CASE before # 0
  <2>1. collected = From(before) /\ b \in {before, before - 1}
    BY <1>5 DEF CandlesInv, CandlesPaging, Newer
  <2>2. lo <= before
    BY <1>1, <1>3, <1>5, <2>1, CandlesAssumption DEF PageStart
  <2> HIDE DEF b, lo
  <2>3. \A t \in 1..Len(rows) : t >= lo <=> t \in lo..b \/ t >= before
    BY <1>1, <1>3, <1>5, <2>1, <2>2
  <2>4. lo..b \subseteq 1..Len(rows)
    BY <1>3
  <2>5. \A t : t \in From(before) \/ (t \in lo..b /\ rows[t] = "ok") <=> t \in From(lo)
    BY <1>1, <2>3, <2>4 DEF From
  <2>6. collected \cup {t \in Served : rows[t] = "ok"} = From(lo)
    BY <1>3, <2>1, <2>5
  <2> QED
    BY <2>6 DEF lo
<1> QED
  BY <1>4, <1>5

\* A full page that ends nothing leaves more rows behind the cursor.
LEMMA PageCounts ==
  ASSUME CandlesInv, candlesAt = "paging", Newer >= PerCall
  PROVE  Len(rows) + 1 - PageStart >=
           PerCall * (page + 1) - IF inclusive THEN page ELSE 0
<1> DEFINE n == Len(rows)
           P == PerCall
           lo == PageStart
           have == P * page
<1>1. P \in Nat \ {0} /\ n \in Nat /\ page \in Nat /\ before \in Nat /\ inclusive \in BOOLEAN
  BY CandlesAssumption DEF CandlesInv, CandlesTypes
<1>2. have \in Nat /\ P * (page + 1) = have + P
  BY <1>1
<1>3. lo = Newer - P + 1
  BY DEF PageStart
<1>4. CASE before = 0
  <2>1. page = 0 /\ Newer = n
    BY <1>4 DEF CandlesInv, CandlesPaging, Newer
  <2>2. have = 0
    BY <1>1, <2>1
  <2> HIDE DEF n, P, lo, have
  <2>3. n + 1 - lo >= (have + P) - IF inclusive THEN page ELSE 0
    BY <1>1, <1>3, <2>1, <2>2
  <2> QED
    BY <1>2, <2>3 DEF n, P, lo
<1>5. CASE before # 0
  <2>1. /\ page >= 1 /\ Newer = IF inclusive THEN before ELSE before - 1
        /\ n + 1 - before >= have - IF inclusive THEN page - 1 ELSE 0
    BY <1>5 DEF CandlesInv, CandlesPaging, Newer, Brought
  <2> HIDE DEF n, P, lo, have
  <2>2. n + 1 - lo >= (have + P) - IF inclusive THEN page ELSE 0
    <3>1. CASE inclusive
      BY <1>1, <1>2, <1>3, <2>1, <3>1
    <3>2. CASE ~inclusive
      BY <1>1, <1>2, <1>3, <2>1, <3>2
    <3> QED
      BY <3>1, <3>2
  <2> QED
    BY <1>2, <2>2 DEF n, P, lo
<1> QED
  BY <1>4, <1>5

\* What is collected of an undamaged history is an interval.
LEMMA FromIs ==
  ASSUME rows \in Seq(RowKind), Undamaged, NEW lo \in Nat \ {0}
  PROVE  /\ From(lo) = lo..Len(rows)
         /\ lo <= Len(rows) + 1 => Cardinality(From(lo)) = Len(rows) + 1 - lo
<1> DEFINE n == Len(rows)
<1>1. DOMAIN rows = 1..n /\ n \in Nat
  OBVIOUS
<1>2. From(lo) = lo..n
  BY <1>1 DEF From, Undamaged
<1> HIDE DEF n
<1>3. Cardinality(lo..n) = IF lo > n THEN 0 ELSE n - lo + 1
  BY <1>1, FS_Interval
<1>4. lo <= n + 1 => Cardinality(lo..n) = n + 1 - lo
  BY <1>1, <1>3
<1> QED
  BY <1>2, <1>4 DEF n

\* A page is fetched.
LEMMA FetchPageKeeps ==
  ASSUME CandlesInv, FetchPage
  PROVE  CandlesInv'
<1> DEFINE lo == PageStart
           n == Len(rows)
<1>1. candlesAt = "paging" /\ UNCHANGED <<rows, inclusive, want>> /\ page' = page + 1
  BY DEF FetchPage
<1>2. rows \in Seq(RowKind) /\ inclusive \in BOOLEAN /\ want \in Nat /\ before \in Nat
      /\ page \in Nat /\ n \in Nat /\ DOMAIN rows = 1..n
  BY DEF CandlesInv, CandlesTypes
<1>3. lo \in Nat \ {0} /\ lo <= n + 1
  BY <1>1, <1>2, PageIs
<1>4. collected' = From(lo)
  BY <1>1, PageBrings DEF FetchPage
<1>5. (\A k : From(k)' = From(k)) /\ (Undamaged' <=> Undamaged)
  BY <1>1 DEF From, Undamaged
<1> DEFINE full == Newer >= PerCall
           enough == Cardinality(collected') >= want
<1>7. IF ~full \/ enough
      THEN candlesAt' = "returned" /\ UNCHANGED before
      ELSE /\ full => /\ before' = IF rows[lo] \in {"ok", "bad"} THEN lo ELSE before
                      /\ candlesAt' = IF rows[lo] = "junk" THEN "raised"
                                      ELSE IF rows[lo] = "bare" \/ page' = MaxPages
                                      THEN "returned" ELSE "paging"
  BY <1>1, PageIs DEF FetchPage
<1>8. ~full => lo = 1
  BY <1>1, PageIs DEF PageStart
<1>9. full => lo \in DOMAIN rows /\ rows[lo] \in RowKind
  BY <1>1, <1>2, PageIs
<1>10. full => n + 1 - lo >= PerCall * (page + 1) - IF inclusive THEN page ELSE 0
  BY <1>1, PageCounts
<1>11. Undamaged => Cardinality(collected') = n + 1 - lo
  BY <1>2, <1>3, <1>4, FromIs
<1> HIDE DEF lo, n, full, enough
<1>12. CandlesTypes'
  <2>1. before' \in {before, lo}
    BY <1>7
  <2> QED
    BY <1>1, <1>2, <1>3, <2>1 DEF CandlesTypes
<1>13. CandlesPaging'
  <2> SUFFICES ASSUME candlesAt' = "paging"
               PROVE  /\ before' # 0 /\ before' \in DOMAIN rows /\ page' >= 1
                      /\ collected' = From(before)' /\ n + 1 - before' >= Brought'
    BY <1>1 DEF CandlesPaging, n
  <2>1. full /\ ~enough /\ rows[lo] \in RowKind \ {"junk", "bare"} /\ before' = lo
    BY <1>7, <1>9 DEF RowKind
  <2>2. From(before)' = From(lo)
    BY <1>1, <2>1 DEF From
  <2>3. Brought' = PerCall * (page + 1) - IF inclusive THEN (page + 1) - 1 ELSE 0
    <3>1. Brought' = PerCall * page' - IF inclusive' THEN page' - 1 ELSE 0
      BY DEF Brought
    <3>2. page' = page + 1 /\ (inclusive' <=> inclusive)
      BY <1>1
    <3>3. CASE inclusive
      <4>1. page' - 1 = (page + 1) - 1
        BY <3>2
      <4>2. Brought' = PerCall * (page + 1) - ((page + 1) - 1)
        BY <3>1, <3>2, <3>3, <4>1
      <4> QED
        BY <3>3, <4>2
    <3>4. CASE ~inclusive
      BY <3>1, <3>2, <3>4
    <3> QED
      BY <3>3, <3>4
  <2>4. (page + 1) - 1 = page
    BY <1>2
  <2>5. n + 1 - before' >= Brought'
    BY <1>10, <2>1, <2>3, <2>4
  <2> QED
    BY <1>1, <1>2, <1>3, <1>4, <1>9, <2>1, <2>2, <2>5
<1>14. CandlesDone'
  <2> SUFFICES ASSUME candlesAt' = "returned", Undamaged,
                      ~inclusive \/ want <= PerCall * PerCall
               PROVE  lo = 1 \/ n + 1 - lo >= want
    BY <1>1, <1>3, <1>4, <1>5 DEF CandlesDone, n
  <2>1. CASE ~full
    BY <1>8, <2>1
  <2>2. CASE enough
    BY <1>11, <2>2 DEF enough
  <2>3. CASE full /\ ~enough
    <3>1. rows[lo] = "ok"
      BY <1>9, <2>3 DEF Undamaged
    <3>2. page + 1 = want \div PerCall + 2
      BY <1>1, <1>7, <2>3, <3>1 DEF MaxPages
    <3>3. PerCall \in Nat \ {0}
      BY CandlesAssumption
    <3> DEFINE most == PerCall * (page + 1)
    <3>4. /\ most >= want
          /\ want <= PerCall * PerCall => most - page >= want
      <4>1. want \div PerCall + 1 = page
        BY <1>2, <3>2, <3>3
      <4>2. /\ PerCall * (want \div PerCall + 2) >= want
            /\ want <= PerCall * PerCall =>
                 PerCall * (want \div PerCall + 2) - (want \div PerCall + 1) >= want
        BY <1>2, <3>3, PagesReach
      <4> QED
        BY <3>2, <4>1, <4>2
    <3>5. n + 1 - lo >= most - IF inclusive THEN page ELSE 0
      BY <1>10, <2>3
    <3>6. most \in Nat
      BY <1>2, <3>3
    <3> HIDE DEF most
    <3>7. CASE inclusive
      BY <1>2, <1>3, <3>4, <3>5, <3>6, <3>7
    <3>8. CASE ~inclusive
      BY <1>2, <1>3, <3>4, <3>5, <3>6, <3>8
    <3> QED
      BY <3>7, <3>8
  <2> QED
    BY <2>1, <2>2, <2>3
<1> QED
  BY <1>12, <1>13, <1>14 DEF CandlesInv

\* Every step of every process keeps what is known of a fetch.
LEMMA CandlesInvariant == Spec => []CandlesInv
<1>1. Init => CandlesInv
  <2> SUFFICES ASSUME Init PROVE CandlesInv
    OBVIOUS
  <2>1. CASE CandlesIdle
    <3>1. <<>> \in Seq(RowKind)
      OBVIOUS
    <3> QED
      BY <2>1, <3>1 DEF CandlesIdle, CandlesInv, CandlesTypes, CandlesPaging, CandlesDone
  <2>2. CASE CandlesInit
    <3>1. rows \in Seq(RowKind)
      <4>1. PICK n \in 0..MaxRows : rows \in [1..n -> RowKind]
        BY <2>2 DEF CandlesInit
      <4> HIDE DEF RowKind
      <4>2. n \in Nat
        BY <4>1
      <4> QED
        BY <4>1, <4>2
    <3>2. want \in Nat
      BY <2>2 DEF CandlesInit
    <3> QED
      BY <2>2, <3>1, <3>2
      DEF CandlesInit, CandlesInv, CandlesTypes, CandlesPaging, CandlesDone
  <2> QED
    BY <2>1, <2>2 DEF Init
<1>2. CandlesInv /\ UNCHANGED candlesVars => CandlesInv'
  BY DEF candlesVars, CandlesInv, CandlesTypes, CandlesPaging, CandlesDone, From, Undamaged,
         Brought
<1>3. CandlesInv /\ FetchPageFails => CandlesInv'
  BY DEF FetchPageFails, CandlesInv, CandlesTypes, CandlesPaging, CandlesDone
<1>4. CandlesInv /\ [Next]_allVars => CandlesInv'
  <2> SUFFICES ASSUME CandlesInv, [Next]_allVars PROVE CandlesInv'
    OBVIOUS
  <2>1. CASE UNCHANGED allVars
    BY <1>2, <2>1 DEF allVars
  <2>2. CASE PassOnly \/ BacktestOnly \/ TrackerOnly
    BY <1>2, <2>2 DEF PassOnly, BacktestOnly, TrackerOnly
  <2>3. CASE FetchPage
    BY <2>3, FetchPageKeeps
  <2>4. CASE FetchPageFails
    BY <1>3, <2>4
  <2> QED
    BY <2>1, <2>2, <2>3, <2>4 DEF Next
<1> QED
  BY <1>1, <1>4, PTL DEF Spec

\* SAFETY.  What get_candles returns are valid bars, no more than were asked for,
\* with none missing between two of them; of an undamaged history they are
\* exactly the newest, for every length of it, every number of bars asked for and
\* every size of a page, as far as max_pages reaches (TossClient.get_candles).
THEOREM NewestBars == Spec => []FetchesTheNewest
<1>1. CandlesInv => FetchesTheNewest
  <2> SUFFICES ASSUME CandlesInv, candlesAt = "returned" PROVE FetchesTheNewest
    BY DEF FetchesTheNewest
  <2> DEFINE valid == {t \in DOMAIN rows : rows[t] = "ok"}
             n == Len(rows)
  <2>1. PICK lo \in Nat \ {0} :
          /\ collected = From(lo)
          /\ Undamaged /\ (~inclusive \/ want <= PerCall * PerCall) =>
               (lo = 1 \/ n + 1 - lo >= want)
    BY DEF CandlesInv, CandlesDone
  <2>2. rows \in Seq(RowKind) /\ DOMAIN rows = 1..n /\ n \in Nat /\ want \in Nat
    BY DEF CandlesInv, CandlesTypes
  <2> HIDE DEF n
  <2>3. /\ collected \in SUBSET Nat /\ collected \subseteq valid /\ collected \subseteq 1..n
        /\ \A t \in collected, u \in valid : u > t => u \in collected
    BY <2>1, <2>2 DEF From
  <2>4. IsFiniteSet(collected)
    <3>1. IsFiniteSet(1..n)
      BY <2>2, FS_Interval
    <3> QED
      BY <2>3, <3>1, FS_Subset
  <2>5. Cardinality(Returned) <= want
    BY <2>2, <2>3, <2>4, NewestAreFew DEF Returned
  <2>6. Returned \subseteq collected
    BY DEF Returned, Newest
  <2>7. ASSUME NEW t \in Returned, NEW u \in valid, u > t PROVE u \in Returned
    <3> DEFINE above(x) == {v \in collected : v > x}
    <3>1. u \in collected /\ t \in collected /\ Cardinality(above(t)) < want
      BY <2>3, <2>6, <2>7 DEF Returned, Newest
    <3>2. above(u) \subseteq above(t) /\ above(t) \subseteq collected
      <4>1. t \in Nat /\ u \in Nat /\ collected \subseteq Nat
        BY <2>3, <3>1
      <4>2. ASSUME NEW v \in collected, v > u PROVE v > t
        BY <2>7, <4>1, <4>2
      <4>3. above(u) = {v \in collected : v > u} /\ above(t) = {v \in collected : v > t}
        OBVIOUS
      <4> HIDE DEF above
      <4> QED
        BY <4>2, <4>3
    <3>3. IsFiniteSet(above(t))
      BY <2>4, <3>2, FS_Subset
    <3>4. Cardinality(above(u)) <= Cardinality(above(t)) /\ Cardinality(above(t)) \in Nat
          /\ Cardinality(above(u)) \in Nat
      BY <3>2, <3>3, FS_Subset, FS_CardinalityType
    <3>5. Cardinality(above(u)) < want
      BY <2>2, <3>1, <3>4
    <3> QED
      BY <3>1, <3>5 DEF Returned, Newest
  <2>8. ASSUME valid = DOMAIN rows, ~inclusive \/ want <= PerCall * PerCall
        PROVE  Returned = Newest(valid, want)
    <3>1. Undamaged
      BY <2>8 DEF Undamaged
    <3>2. collected = lo..n
      BY <2>1, <2>2, <3>1, FromIs DEF n
    <3>3. Returned = {t \in lo..n : n - t < want}
      BY <2>2, <3>2, NewestOfInterval DEF Returned
    <3>4. Newest(valid, want) = {t \in 1..n : n - t < want}
      <4>1. 1 \in Nat
        OBVIOUS
      <4>2. Newest(1..n, want) = {t \in 1..n : n - t < want}
        BY <2>2, <4>1, NewestOfInterval
      <4> QED
        BY <2>2, <2>8, <4>2
    <3>5. lo = 1 \/ n + 1 - lo >= want
      BY <2>1, <2>8, <3>1
    <3>6. {t \in lo..n : n - t < want} = {t \in 1..n : n - t < want}
      BY <2>2, <3>5
    <3> QED
      BY <3>3, <3>4, <3>6
  <2> HIDE DEF valid
  <2>9. valid = {t \in DOMAIN rows : rows[t] = "ok"}
    BY DEF valid
  <2>10. Returned \subseteq valid
    BY <2>3, <2>6
  <2> QED
    BY <2>5, <2>7, <2>8, <2>9, <2>10 DEF FetchesTheNewest
<1> QED
  BY <1>1, CandlesInvariant, PTL

-----------------------------------------------------------------------------
(* Parts of a sequence.                                                     *)

\* The indices in order are a sequence of them, each once.
LEMMA IndicesInOrder ==
  ASSUME NEW I \in SUBSET Int, IsFiniteSet(I)
  PROVE  /\ InOrder(I, <) \in Seq(I) /\ Len(InOrder(I, <)) = Cardinality(I)
         /\ \A i \in I : \E k \in 1..Cardinality(I) : InOrder(I, <)[k] = i
<1> DEFINE R == {p \in I \X I : p[1] < p[2]}
<1>1. StrictlyOrders(R, I)
  BY NumbersAreOrdered
<1>2. InOrder(I, <) = Listed(I, R)
  <2>1. \A m \in I : {l \in I : l < m} = {l \in I : <<l, m>> \in R}
    OBVIOUS
  <2>2. \A m \in I : Cardinality({l \in I : l < m}) = Cardinality({l \in I : <<l, m>> \in R})
    BY <2>1
  <2> DEFINE one(k) == CHOOSE m \in I : Cardinality({l \in I : l < m}) = k - 1
             other(k) == CHOOSE m \in I : Cardinality({l \in I : <<l, m>> \in R}) = k - 1
  <2> HIDE DEF R
  <2>3. \A k \in 1..Cardinality(I) : one(k) = other(k)
    BY <2>2
  <2>4. InOrder(I, <) = [k \in 1..Cardinality(I) |-> one(k)]
    BY DEF InOrder
  <2>5. Listed(I, R) = [k \in 1..Cardinality(I) |-> other(k)]
    BY DEF Listed
  <2> HIDE DEF one, other
  <2> QED
    BY <2>3, <2>4, <2>5
<1> HIDE DEF R
<1> DEFINE order == InOrder(I, <)
<1>3. order = Listed(I, R)
  BY <1>2
<1> HIDE DEF order
<1>4. /\ order \in Seq(I) /\ Len(order) = Cardinality(I)
      /\ \A i \in I : \E k \in 1..Cardinality(I) : order[k] = i
  BY <1>1, <1>3, ListedIs
<1> QED
  BY <1>4 DEF order

\* Only keeps the elements at the indices, and nothing else.
LEMMA OnlyIs ==
  ASSUME NEW S, NEW seq \in Seq(S), NEW I \in SUBSET (DOMAIN seq)
  PROVE  /\ IsFiniteSet(I)
         /\ Only(seq, I) \in Seq(S) /\ Len(Only(seq, I)) = Cardinality(I)
         /\ \A k \in 1..Cardinality(I) : \E i \in I : Only(seq, I)[k] = seq[i]
<1> DEFINE order == InOrder(I, <)
<1>1. I \in SUBSET Int /\ I \in SUBSET (1..Len(seq)) /\ Len(seq) \in Int
  OBVIOUS
<1>2. IsFiniteSet(I)
  <2>1. 1 \in Int
    OBVIOUS
  <2> QED
    BY <1>1, <2>1, FS_Interval, FS_Subset
<1>3. order \in Seq(I) /\ Len(order) = Cardinality(I)
  BY <1>1, <1>2, IndicesInOrder
<1>4. Only(seq, I) = [k \in DOMAIN order |-> seq[order[k]]]
  BY DEF Only
<1>5. Cardinality(I) \in Nat
  BY <1>2, FS_CardinalityType
<1> HIDE DEF order
<1> DEFINE n == Cardinality(I)
<1>6. DOMAIN order = 1..n /\ \A k \in 1..n : order[k] \in I
  BY <1>3
<1>7. Only(seq, I) \in [1..n -> S] /\ \A k \in 1..n : Only(seq, I)[k] = seq[order[k]]
  BY <1>1, <1>4, <1>6
<1> HIDE DEF n
<1>8. Only(seq, I) \in Seq(S) /\ Len(Only(seq, I)) = n
  BY <1>5, <1>7 DEF n
<1> QED
  BY <1>2, <1>6, <1>7, <1>8 DEF n

-----------------------------------------------------------------------------
(* A backtest.                                                             *)

\* The bar of the i-th entry of the books.
BarOf(i) == FirstBar + i - 1

\* The j-th rebalance is the last one at or before bar k.
LastAt(rs, j, k) ==
  /\ j \in 1..Len(rs) /\ rs[j].bar <= k
  /\ \A l \in 1..Len(rs) : l > j => rs[l].bar > k

BacktestTypes ==
  /\ bar \in Nat
  /\ invested \in Seq(ToSet(invested)) /\ rebalances \in Seq(ToSet(rebalances))
  /\ \A j \in 1..Len(rebalances) : rebalances[j].bar \in Nat

\* The books are as long as the walk, and the first bar of it rebalances.
Walked ==
  /\ bar > 0 => bar = BarOf(Len(invested) + 1)
  /\ Len(rebalances) = 0 <=> Len(invested) = 0
  /\ Len(rebalances) > 0 => weights = rebalances[Len(rebalances)].weights
  /\ \A j \in 1..Len(rebalances) : rebalances[j].bar < BarOf(Len(invested) + 1)

\* Every entry of the books is what the history makes of it.
FromHistory ==
  /\ \A j \in 1..Len(rebalances) :
       DOMAIN rebalances[j].weights = Picked(history, vixes, rebalances[j].bar)
  /\ \A i \in 1..Len(invested) : \E j \in 1..Len(rebalances) :
       /\ LastAt(rebalances, j, BarOf(i))
       /\ invested[i] = Invested(history, DOMAIN rebalances[j].weights, BarOf(i), trendFilter)

BacktestInv == BacktestTypes /\ Walked /\ FromHistory

\* A world holds finitely many symbols of the universe, and the candle_map those.
LEMMA WorldIs ==
  ASSUME NEW w \in Worlds
  PROVE  /\ IsFiniteSet(DOMAIN w) /\ DOMAIN w \subseteq Symbols /\ DOMAIN w # {}
         /\ \A s \in DOMAIN w : w[s] \in Seq(Price) \ {<<>>}
<1>1. BtUniverse \in Seq(Symbols) /\ DOMAIN w \subseteq ToSet(BtUniverse) /\ DOMAIN w # {}
      /\ \A s \in DOMAIN w : w[s] \in Seq(Price) \ {<<>>}
  BY BacktestAssumption
<1>2. ToSet(BtUniverse) = {BtUniverse[i] : i \in 1..Len(BtUniverse)}
      /\ Len(BtUniverse) \in Nat
  BY <1>1 DEF ToSet
<1>3. IsFiniteSet(1..Len(BtUniverse))
  BY <1>2, FS_Interval
<1>4. IsFiniteSet({BtUniverse[i] : i \in 1..Len(BtUniverse)})
  BY <1>3, ImageOf
<1>5. \A i \in 1..Len(BtUniverse) : BtUniverse[i] \in Symbols
  BY <1>1
<1> QED
  BY <1>1, <1>2, <1>4, <1>5, FS_Subset

LEMMA InMapIs ==
  ASSUME NEW w
  PROVE  /\ InMap(w) \in Seq(Symbols)
         /\ \A i \in DOMAIN InMap(w) : InMap(w)[i] \in DOMAIN w
<1> DEFINE I == {i \in DOMAIN BtUniverse : BtUniverse[i] \in DOMAIN w}
<1>1. BtUniverse \in Seq(Symbols) /\ I \in SUBSET (DOMAIN BtUniverse)
  BY BacktestAssumption
<1>2. InMap(w) = Only(BtUniverse, I)
  BY DEF InMap
<1>3. \A i \in I : BtUniverse[i] \in DOMAIN w
  OBVIOUS
<1> HIDE DEF I
<1> DEFINE map == Only(BtUniverse, I)
<1>4. /\ map \in Seq(Symbols) /\ Len(map) = Cardinality(I)
      /\ \A k \in 1..Cardinality(I) : \E i \in I : map[k] = BtUniverse[i]
  BY <1>1, OnlyIs
<1> HIDE DEF map
<1>5. \A k \in DOMAIN map : map[k] \in DOMAIN w
  BY <1>3, <1>4
<1> QED
  BY <1>2, <1>4, <1>5 DEF map

\* What follows a bar changes nothing of what is picked and held at it.
LEMMA PastDecides ==
  ASSUME NEW w, NEW v, NEW k, SamePrices(w, v, k)
  PROVE  /\ \A vs : Picked(w, vs, k) = Picked(v, vs, k)
         /\ \A held, filter : Invested(w, held, k, filter) = Invested(v, held, k, filter)
<1>1. DOMAIN w = DOMAIN v
      /\ \A s \in DOMAIN w : SubSeq(Aligned(w)[s], 1, k) = SubSeq(Aligned(v)[s], 1, k)
  BY DEF SamePrices
<1> DEFINE D == DOMAIN w
           cutW(s) == SubSeq(Aligned(w)[s], 1, k)
           cutV(s) == SubSeq(Aligned(v)[s], 1, k)
<1>2. DOMAIN v = D /\ \A s \in D : cutW(s) = cutV(s)
  BY <1>1
<1>3. CandlesUpTo(w, k) = CandlesUpTo(v, k)
  <2> DEFINE map == InMap(w)
  <2>1. InMap(v) = map
    BY <1>2 DEF InMap
  <2>2. \A s \in D : ReadAt(w, s, k) = ReadAt(v, s, k)
    BY <1>2 DEF ReadAt
  <2>3. \A i \in DOMAIN map : map[i] \in D
    BY InMapIs
  <2>4. /\ CandlesUpTo(w, k) = [i \in DOMAIN map |-> ReadAt(w, map[i], k)]
        /\ CandlesUpTo(v, k) = [i \in DOMAIN map |-> ReadAt(v, map[i], k)]
    BY <2>1 DEF CandlesUpTo
  <2> HIDE DEF map, D
  <2>5. \A i \in DOMAIN map : ReadAt(w, map[i], k) = ReadAt(v, map[i], k)
    BY <2>2, <2>3
  <2> QED
    BY <2>4, <2>5
<1>4. \A vs : Picked(w, vs, k) = Picked(v, vs, k)
  BY <1>3 DEF Picked
<1>5. ASSUME NEW held, NEW filter
      PROVE  Invested(w, held, k, filter) = Invested(v, held, k, filter)
  <2> DEFINE inW(s) == filter => k >= TrendBars /\ cutW(s)[k] > Mean(cutW(s), TrendBars)
             inV(s) == filter => k >= TrendBars /\ cutV(s)[k] > Mean(cutV(s), TrendBars)
  <2>1. ASSUME NEW s \in D PROVE inW(s) <=> inV(s)
    <3>1. cutW(s) = cutV(s)
      BY <1>2
    <3> HIDE DEF cutW, cutV
    <3> QED
      BY <3>1
  <2>2. /\ Invested(w, held, k, filter) = {s \in held \cap D : inW(s)}
        /\ Invested(v, held, k, filter) = {s \in held \cap D : inV(s)}
    BY <1>2 DEF Invested
  <2> HIDE DEF inW, inV, D
  <2> QED
    BY <2>1, <2>2
<1> QED
  BY <1>4, <1>5

\* A bar of the walk.
LEMMA StepKeeps ==
  ASSUME BacktestInv, Step
  PROVE  BacktestInv'
<1> DEFINE n == Len(invested)
           m == Len(rebalances)
           new == [bar |-> bar, weights |-> weights']
           now == Invested(history, DOMAIN weights', bar, trendFilter)
<1>1. /\ bar > 0 /\ UNCHANGED <<history, vixes, trendFilter>>
      /\ weights' = IF Rebalance THEN EqualWeights(Picked(history, vixes, bar)) ELSE weights
      /\ rebalances' = IF Rebalance THEN Append(rebalances, new) ELSE rebalances
      /\ invested' = Append(invested, now)
      /\ bar' = IF bar + 1 < Length(history) THEN bar + 1 ELSE 0
  BY DEF Step
<1>2. bar \in Nat /\ n \in Nat /\ m \in Nat /\ bar = BarOf(n + 1)
  <2>1. invested \in Seq(ToSet(invested)) /\ rebalances \in Seq(ToSet(rebalances))
    BY DEF BacktestInv, BacktestTypes
  <2> QED
    BY <1>1, <2>1 DEF BacktestInv, BacktestTypes, Walked
<1>3. \A i \in Nat : BarOf(i) \in Nat /\ BarOf(i + 1) = BarOf(i) + 1
      /\ \A l \in Nat : l <= i => BarOf(l) <= BarOf(i)
  BY DEF BarOf, FirstBar, TrendBars
<1>b. BarOf(n + 2) = bar + 1
  BY <1>2 DEF BarOf, FirstBar, TrendBars
<1>4. /\ invested' \in Seq(ToSet(invested')) /\ Len(invested') = n + 1
      /\ invested'[n + 1] = now /\ \A i \in 1..n : invested'[i] = invested[i]
  BY <1>1, AppendIsSeq DEF BacktestInv, BacktestTypes
<1>5. new.bar = bar /\ new.weights = weights'
  OBVIOUS
<1>6. CASE Rebalance
  <2>1. /\ rebalances' \in Seq(ToSet(rebalances')) /\ Len(rebalances') = m + 1
        /\ rebalances'[m + 1] = new /\ \A j \in 1..m : rebalances'[j] = rebalances[j]
    BY <1>1, <1>6, AppendIsSeq DEF BacktestInv, BacktestTypes
  <2>2. DOMAIN weights' = Picked(history, vixes, bar)
    BY <1>1, <1>6 DEF EqualWeights
  <2> HIDE DEF n, m, new, now
  <2>a. \A j \in 1..m : rebalances[j].bar \in Nat /\ rebalances[j].bar < bar
    BY <1>2 DEF BacktestInv, BacktestTypes, Walked, m, n
  <2>3. BacktestTypes'
    <3>1. \A j \in 1..(m + 1) : rebalances'[j].bar \in Nat
      BY <1>2, <1>5, <2>1, <2>a
    <3>2. bar' \in Nat
      BY <1>1, <1>2
    <3> QED
      BY <1>4, <2>1, <3>1, <3>2 DEF BacktestTypes
  <2>4. Walked'
    <3>1. bar' > 0 => bar' = BarOf(n + 2)
      BY <1>1, <1>2, <1>b
    <3>2. \A j \in 1..(m + 1) : rebalances'[j].bar < BarOf(n + 2)
      BY <1>2, <1>b, <1>5, <2>1, <2>a
    <3> QED
      BY <1>2, <1>4, <1>5, <2>1, <3>1, <3>2 DEF Walked
  <2>5. FromHistory'
    <3>1. ASSUME NEW j \in 1..(m + 1)
          PROVE  DOMAIN rebalances'[j].weights = Picked(history, vixes, rebalances'[j].bar)
      <4>1. CASE j = m + 1
        BY <1>5, <2>1, <2>2, <4>1
      <4>2. CASE j \in 1..m
        BY <2>1, <4>2 DEF BacktestInv, FromHistory, m
      <4> QED
        BY <1>2, <4>1, <4>2
    <3>2. ASSUME NEW i \in 1..(n + 1)
          PROVE  \E j \in 1..(m + 1) :
                   /\ LastAt(rebalances', j, BarOf(i))
                   /\ invested'[i] = Invested(history, DOMAIN rebalances'[j].weights,
                                              BarOf(i), trendFilter)
      <4>1. CASE i = n + 1
        <5>1. LastAt(rebalances', m + 1, BarOf(i))
          BY <1>2, <1>5, <2>1, <4>1 DEF LastAt, BarOf
        <5> QED
          BY <1>2, <1>4, <1>5, <2>1, <4>1, <5>1 DEF now
      <4>2. CASE i \in 1..n
        <5>1. PICK j \in 1..m :
                /\ LastAt(rebalances, j, BarOf(i))
                /\ invested[i] = Invested(history, DOMAIN rebalances[j].weights, BarOf(i),
                                          trendFilter)
          BY <4>2 DEF BacktestInv, FromHistory, n, m
        <5>2. BarOf(i) < bar
          BY <1>2, <1>3, <4>2 DEF BarOf
        <5>3. LastAt(rebalances', j, BarOf(i))
          BY <1>2, <1>5, <2>1, <5>1, <5>2 DEF LastAt, m, BarOf
        <5> QED
          BY <1>2, <1>4, <2>1, <4>2, <5>1, <5>3
      <4> QED
        BY <1>2, <4>1, <4>2
    <3> QED
      <4>1. history' = history /\ vixes' = vixes /\ trendFilter' = trendFilter
            /\ Len(rebalances') = m + 1 /\ Len(invested') = n + 1
        BY <1>1, <1>4, <2>1
      <4>2. \A j \in 1..Len(rebalances') :
              DOMAIN rebalances'[j].weights = Picked(history', vixes', rebalances'[j].bar)
        BY <3>1, <4>1
      <4>3. \A i \in 1..Len(invested') : \E j \in 1..Len(rebalances') :
              /\ LastAt(rebalances', j, BarOf(i))
              /\ invested'[i] = Invested(history', DOMAIN rebalances'[j].weights, BarOf(i),
                                        trendFilter')
        BY <3>2, <4>1
      <4> QED
        BY <4>2, <4>3 DEF FromHistory
  <2> QED
    BY <2>3, <2>4, <2>5 DEF BacktestInv
<1>7. CASE ~Rebalance
  <2>1. rebalances' = rebalances /\ weights' = weights /\ m > 0
    <3>1. RebalanceBars \in Nat \ {0}
      BY BacktestAssumption
    <3>2. 0 % RebalanceBars = 0
      BY <3>1
    <3>3. n # 0
      BY <1>2, <1>7, <3>2 DEF Rebalance, BarOf, FirstBar, TrendBars
    <3> QED
      BY <1>1, <1>2, <1>7, <3>3 DEF BacktestInv, Walked
  <2>2. DOMAIN weights' = DOMAIN rebalances[m].weights
    BY <2>1 DEF BacktestInv, Walked
  <2>a. \A j \in 1..m : rebalances[j].bar \in Nat /\ rebalances[j].bar < bar
    BY <1>2 DEF BacktestInv, BacktestTypes, Walked, m, n
  <2>b. rebalances \in Seq(ToSet(rebalances))
    BY DEF BacktestInv, BacktestTypes
  <2>c. m = Len(rebalances) /\ m > 0 => weights = rebalances[m].weights
    BY DEF BacktestInv, Walked, m
  <2>d. m = Len(rebalances)
    BY DEF m
  <2> HIDE DEF n, m, new, now
  <2>3. BacktestTypes'
    <3>1. bar' \in Nat
      BY <1>1, <1>2
    <3> QED
      BY <1>4, <2>1, <2>a, <2>b, <2>d, <3>1 DEF BacktestTypes
  <2>4. Walked'
    <3>1. bar' > 0 => bar' = BarOf(n + 2)
      BY <1>1, <1>2, <1>b
    <3>2. \A j \in 1..m : rebalances[j].bar < BarOf(n + 2)
      BY <1>2, <1>b, <2>a
    <3> QED
      BY <1>2, <1>4, <2>1, <2>c, <2>d, <3>1, <3>2 DEF Walked
  <2>5. FromHistory'
    <3>1. \A j \in 1..m :
            DOMAIN rebalances[j].weights = Picked(history, vixes, rebalances[j].bar)
      BY <2>d DEF BacktestInv, FromHistory
    <3>2. ASSUME NEW i \in 1..(n + 1)
          PROVE  \E j \in 1..m :
                   /\ LastAt(rebalances, j, BarOf(i))
                   /\ invested'[i] = Invested(history, DOMAIN rebalances[j].weights,
                                              BarOf(i), trendFilter)
      <4>1. CASE i = n + 1
        <5>1. LastAt(rebalances, m, BarOf(i))
          BY <1>2, <2>1, <2>a, <2>d, <4>1 DEF LastAt
        <5> QED
          BY <1>2, <1>4, <2>1, <2>2, <4>1, <5>1 DEF now
      <4>2. CASE i \in 1..n
        BY <1>4, <2>d, <4>2 DEF BacktestInv, FromHistory, n
      <4> QED
        BY <1>2, <4>1, <4>2
    <3> QED
      <4>1. history' = history /\ vixes' = vixes /\ trendFilter' = trendFilter
            /\ rebalances' = rebalances /\ Len(rebalances') = m /\ Len(invested') = n + 1
        BY <1>1, <1>4, <2>1, <2>d
      <4>2. \A j \in 1..Len(rebalances') :
              DOMAIN rebalances'[j].weights = Picked(history', vixes', rebalances'[j].bar)
        BY <3>1, <4>1
      <4>3. \A i \in 1..Len(invested') : \E j \in 1..Len(rebalances') :
              /\ LastAt(rebalances', j, BarOf(i))
              /\ invested'[i] = Invested(history', DOMAIN rebalances'[j].weights, BarOf(i),
                                        trendFilter')
        BY <3>2, <4>1
      <4> QED
        BY <4>2, <4>3 DEF FromHistory
  <2> QED
    BY <2>3, <2>4, <2>5 DEF BacktestInv
<1> QED
  BY <1>6, <1>7

\* Every step of every process keeps what is known of a backtest.
LEMMA BacktestInvariant == Spec => []BacktestInv
<1>1. Init => BacktestInv
  <2> SUFFICES ASSUME Init PROVE BacktestInv
    OBVIOUS
  <2> DEFINE none == <<>>
  <2>1. Len(none) = 0 /\ none \in Seq(ToSet(none))
    BY EmptyIsSeq
  <2>2. rebalances = none /\ invested = none
    BY DEF Init, BacktestIdle, BacktestInit, Books
  <2>3. bar \in {0, FirstBar}
    BY DEF Init, BacktestIdle, BacktestInit
  <2> HIDE DEF none
  <2>4. BacktestTypes
    BY <2>1, <2>2, <2>3 DEF BacktestTypes, FirstBar, TrendBars
  <2>5. Walked
    BY <2>1, <2>2, <2>3 DEF Walked, BarOf, FirstBar, TrendBars
  <2>6. FromHistory
    BY <2>1, <2>2 DEF FromHistory
  <2> QED
    BY <2>4, <2>5, <2>6 DEF BacktestInv
<1>2. BacktestInv /\ UNCHANGED backtestVars => BacktestInv'
  BY DEF backtestVars, BacktestInv, BacktestTypes, Walked, FromHistory
<1>3. BacktestInv /\ [Next]_allVars => BacktestInv'
  <2> SUFFICES ASSUME BacktestInv, [Next]_allVars PROVE BacktestInv'
    OBVIOUS
  <2>1. CASE UNCHANGED allVars
    BY <1>2, <2>1 DEF allVars
  <2>2. CASE PassOnly \/ CandlesOnly \/ TrackerOnly
    BY <1>2, <2>2 DEF PassOnly, CandlesOnly, TrackerOnly
  <2>3. CASE Step
    BY <2>3, StepKeeps
  <2> QED
    BY <2>1, <2>2, <2>3 DEF Next
<1> QED
  BY <1>1, <1>3, PTL DEF Spec

\* SAFETY.  No look-ahead in prices: every rebalance, and every bar's split
\* between stocks and cash, would have been the same in any other continuation of
\* the prices up to its bar, for every world, strategy and rebalancing period
\* (walk_forward_backtest).
THEOREM OnlyThePast == Spec => []NoLookAhead
<1>1. BacktestInv => NoLookAhead
  <2> SUFFICES ASSUME BacktestInv PROVE NoLookAhead
    OBVIOUS
  <2> DEFINE m == Len(rebalances)
             n == Len(invested)
  <2>1. /\ rebalances \in Seq(ToSet(rebalances)) /\ invested \in Seq(ToSet(invested))
        /\ \A j \in 1..m : rebalances[j].bar \in Nat
    BY DEF BacktestInv, BacktestTypes
  <2>2. DOMAIN rebalances = 1..m /\ DOMAIN invested = 1..n /\ m \in Nat /\ n \in Nat
    BY <2>1
  <2> HIDE DEF m, n
  <2>3. ASSUME NEW i \in 1..m, NEW w \in Worlds, SamePrices(w, history, rebalances[i].bar)
        PROVE  Picked(w, vixes, rebalances[i].bar) = DOMAIN rebalances[i].weights
    <3>1. Picked(w, vixes, rebalances[i].bar) = Picked(history, vixes, rebalances[i].bar)
      BY <2>3, PastDecides
    <3> QED
      BY <3>1 DEF BacktestInv, FromHistory, m
  <2>4. ASSUME NEW i \in 1..n, NEW w \in Worlds, SamePrices(w, history, FirstBar + i - 1)
        PROVE  Invested(w, DOMAIN rebalances[Max({j \in 1..m :
                                    rebalances[j].bar <= FirstBar + i - 1})].weights,
                        FirstBar + i - 1, trendFilter) = invested[i]
    <3> DEFINE k == FirstBar + i - 1
               upTo == {j \in 1..m : rebalances[j].bar <= k}
    <3>1. PICK j \in 1..m :
            /\ LastAt(rebalances, j, k)
            /\ invested[i] = Invested(history, DOMAIN rebalances[j].weights, k, trendFilter)
      BY DEF BacktestInv, FromHistory, BarOf, m, n
    <3>2. k \in Nat
      BY <2>2 DEF FirstBar, TrendBars
    <3> HIDE DEF k
    <3>3. j \in upTo /\ \A l \in upTo : l <= j
      BY <2>1, <2>2, <3>1, <3>2 DEF LastAt, m
    <3>4. \A x \in upTo : (\A y \in upTo : x >= y) => x = j
      BY <2>2, <3>3
    <3>5. Max(upTo) = j
      BY <2>2, <3>3, <3>4 DEF Max
    <3>6. \A held, filter : Invested(w, held, k, filter) = Invested(history, held, k, filter)
      BY <2>4, PastDecides DEF k
    <3>7. Invested(w, DOMAIN rebalances[Max(upTo)].weights, k, trendFilter) = invested[i]
      BY <3>1, <3>5, <3>6
    <3> QED
      BY <3>7 DEF k
  <2> QED
    BY <2>2, <2>3, <2>4 DEF NoLookAhead
<1> QED
  BY <1>1, BacktestInvariant, PTL

-----------------------------------------------------------------------------
(* Scores.                                                                  *)

\* Python's round of a ratio is an integer.
LEMMA RoundType ==
  ASSUME NEW a \in Int, NEW b \in Nat \ {0}
  PROVE  RoundEven(a, b) \in Int /\ Ratio(a, b) \in Int
<1>1. \A c \in Int : c \div b \in Int
  OBVIOUS
<1>2. \A c \in Int : RoundEven(c, b) \in Int
  BY <1>1 DEF RoundEven
<1>3. a * Unit \in Int
  BY DEF Unit
<1> QED
  BY <1>2, <1>3 DEF Ratio

\* Clip keeps an integer within 0..Unit.
LEMMA ClipType ==
  ASSUME NEW x \in Int
  PROVE  Clip(x) \in Int /\ Within(x, 0, 20) \in Int
BY DEF Clip, Within, Unit

PricesOnly == {"technical_swing", "dual_momentum", "canslim", "mean_reversion",
               "trend_breakout", "meb_faber", "momentum_quality", "low_volatility"}

\* The score of a strategy that reads prices, where its gate holds.
LEMMA PriceScoreType ==
  ASSUME NEW st \in PricesOnly, NEW x \in Indicators, NEW f, NEW vix, Gate(st, x, f, vix)
  PROVE  Score(st, x, f) \in Int
<1>0. /\ x.last \in Nat \ {0} /\ x.trendMa \in Nat \ {0} /\ x.yearHigh \in Nat \ {0}
      /\ x.yearPosition \in Int /\ x.yearReturn \in Int /\ x.skipReturn \in Int
      /\ x.upDays \in Nat /\ x.downDays \in Nat /\ x.rsi \in Int /\ x.volumeRatio \in Int
      /\ x.momentum \in Int /\ x.monthPosition \in Int
      /\ x.priorHigh \in (Nat \ {0}) \cup {NoFigure} /\ x.dailyVol \in Int
  BY DEF Indicators, Price
<1>1. TrendMargin(x, x.trendMa) \in Int
  <2>1. 10 * (x.last - x.trendMa) \in Int
    BY <1>0
  <2> QED
    BY <1>0, <2>1, RoundType, ClipType DEF TrendMargin
<1>2. VolumeConviction(x.volumeRatio) \in Int
  <2>1. 100 * (x.volumeRatio - 100) \in Int
    BY <1>0
  <2> QED
    BY <2>1, ClipType DEF VolumeConviction
<1>3. CASE st = "technical_swing"
  <2> DEFINE v == VolumeConviction(x.volumeRatio)
             w == Within(x.momentum, 0, 20)
             fromMiddle == IF x.rsi < 50 THEN 50 - x.rsi ELSE x.rsi - 50
             sum == 4 * (IF x.goldenCross THEN 2500 ELSE 1000) + v + 500 * w
                    + 200 * (50 - fromMiddle)
  <2>1. w \in Int
    BY <1>0, ClipType
  <2>2. fromMiddle \in Int
    BY <1>0
  <2> HIDE DEF w, fromMiddle
  <2>3. sum \in Int
    BY <1>2, <2>1, <2>2
  <2>4. SwingScore(x) = RoundEven(sum, 4)
    BY DEF SwingScore, w, fromMiddle
  <2> HIDE DEF sum
  <2>5. SwingScore(x) \in Int
    BY <2>3, <2>4, RoundType
  <2> QED
    BY <1>3, <2>5 DEF Score
<1>4. CASE st = "dual_momentum"
  <2>1. Ratio(x.yearReturn, 50) \in Int
    BY <1>0, RoundType
  <2>2. DualMomentumScore(x) \in Int
    BY <2>1, ClipType DEF DualMomentumScore, Settings
  <2> QED
    BY <1>4, <2>2 DEF Score
<1>5. CASE st = "canslim"
  <2> DEFINE far == Ratio(100 * (x.yearHigh - x.last), 15 * x.yearHigh)
             proximity == Clip(Unit - far)
             sum == 3000 * x.yearPosition + 25 * proximity
                    + 25 * VolumeConviction(x.volumeRatio) + 20 * TrendMargin(x, x.trendMa)
  <2>1. far \in Int
    <3>1. 100 * (x.yearHigh - x.last) \in Int /\ 15 * x.yearHigh \in Nat \ {0}
      BY <1>0
    <3> QED
      BY <3>1, RoundType
  <2> HIDE DEF far
  <2>2. proximity \in Int
    <3>1. Unit - far \in Int
      BY <2>1 DEF Unit
    <3> QED
      BY <3>1, ClipType
  <2> HIDE DEF proximity
  <2>3. sum \in Int
    BY <1>0, <1>1, <1>2, <2>2
  <2>4. CanSlimScore(x) = RoundEven(sum, 100)
    BY DEF CanSlimScore, Settings, proximity, far
  <2> HIDE DEF sum
  <2>5. CanSlimScore(x) \in Int
    BY <2>3, <2>4, RoundType
  <2> QED
    BY <1>5, <2>5 DEF Score
<1>6. CASE st = "mean_reversion"
  <2> DEFINE low == Clip(Ratio(35 - x.rsi, 35))
             sum == 50 * low + 2500 * (100 - x.monthPosition) + 25 * TrendMargin(x, x.trendMa)
  <2>1. low \in Int
    <3>1. 35 - x.rsi \in Int /\ 35 \in Nat \ {0}
      BY <1>0
    <3>2. Ratio(35 - x.rsi, 35) \in Int
      BY <3>1, RoundType
    <3> QED
      BY <3>2, ClipType
  <2> HIDE DEF low
  <2>2. sum \in Int
    BY <1>0, <1>1, <2>1
  <2>3. MeanReversionScore(x) = RoundEven(sum, 100)
    BY DEF MeanReversionScore, Settings, low
  <2> HIDE DEF sum
  <2>4. MeanReversionScore(x) \in Int
    BY <2>2, <2>3, RoundType
  <2> QED
    BY <1>6, <2>4 DEF Score
<1>7. CASE st = "trend_breakout"
  <2>0. x.priorHigh \in Nat \ {0}
    BY <1>0, <1>7 DEF Gate, TrendBreakoutGate
  <2> DEFINE above == Clip(Ratio(20 * (x.last - x.priorHigh), x.priorHigh))
             sum == 45 * above + 35 * VolumeConviction(x.volumeRatio)
                    + 20 * TrendMargin(x, x.trendMa)
  <2>1. above \in Int
    <3>1. 20 * (x.last - x.priorHigh) \in Int
      BY <1>0, <2>0
    <3> QED
      BY <2>0, <3>1, RoundType, ClipType
  <2> HIDE DEF above
  <2>2. sum \in Int
    BY <1>1, <1>2, <2>1
  <2>3. TrendBreakoutScore(x) = RoundEven(sum, 100)
    BY DEF TrendBreakoutScore, above
  <2> HIDE DEF sum
  <2>4. TrendBreakoutScore(x) \in Int
    BY <2>2, <2>3, RoundType
  <2> QED
    BY <1>7, <2>4 DEF Score
<1>8. CASE st = "meb_faber"
  BY <1>1, <1>8 DEF Score, MebFaberScore
<1>9. CASE st = "momentum_quality"
  <2> DEFINE smooth == Clip(50 * (100 - (x.downDays - x.upDays)))
             rise == Clip(Ratio(x.skipReturn, 50))
             sum == 7 * rise + 3 * smooth
  <2>1. rise \in Int
    <3>1. x.skipReturn \in Int /\ 50 \in Nat \ {0}
      BY <1>0
    <3>2. Ratio(x.skipReturn, 50) \in Int
      BY <3>1, RoundType
    <3> QED
      BY <3>2, ClipType
  <2>2. smooth \in Int
    <3>1. 50 * (100 - (x.downDays - x.upDays)) \in Int
      BY <1>0
    <3> QED
      BY <3>1, ClipType
  <2> HIDE DEF smooth, rise
  <2>3. sum \in Int
    BY <2>1, <2>2
  <2>4. MomentumQualityScore(x) = RoundEven(sum, 10)
    BY DEF MomentumQualityScore, Settings, smooth, rise
  <2> HIDE DEF sum
  <2>5. MomentumQualityScore(x) \in Int
    BY <2>3, <2>4, RoundType
  <2> QED
    BY <1>9, <2>5 DEF Score
<1>10. CASE st = "low_volatility"
  <2>1. Ratio(x.dailyVol, 3) \in Int
    <3>1. x.dailyVol \in Int /\ 3 \in Nat \ {0}
      BY <1>0
    <3> QED
      BY <3>1, RoundType
  <2>2. Unit - Ratio(x.dailyVol, 3) \in Int
    BY <2>1 DEF Unit
  <2>3. LowVolatilityScore(x) \in Int
    BY <2>2, ClipType DEF LowVolatilityScore, Settings
  <2> QED
    BY <1>10, <2>3 DEF Score
<1> QED
  BY <1>3, <1>4, <1>5, <1>6, <1>7, <1>8, <1>9, <1>10 DEF PricesOnly

\* The earnings yield of a company is an integer, NoFigure where there is none.
LEMMA YieldType ==
  ASSUME NEW f \in Accounts
  PROVE  EarningsYield(f) \in Int
<1>1. CASE f.per > 0
  <2>1. 1 \in Int /\ f.per \in Nat \ {0}
    BY <1>1 DEF Accounts
  <2> QED
    BY <1>1, <2>1, RoundType DEF EarningsYield
<1>2. CASE ~(f.per > 0)
  BY <1>2 DEF EarningsYield, NoFigure
<1> QED
  BY <1>1, <1>2

\* The accounts that pass the gate of a strategy that reads them make a score.
LEMMA AccountScoreType ==
  ASSUME NEW st \in Fundamental, NEW x, NEW f \in Accounts, NEW vix, Gate(st, x, f, vix)
  PROVE  Score(st, x, f) \in Int
<1>0. f.per \in Int /\ f.pbr \in Int /\ f.roe \in Int
  BY DEF Accounts
<1>n. 2250 \in Nat \ {0} /\ 30 \in Nat \ {0} /\ 4 \in Nat \ {0} /\ 10 \in Nat \ {0}
  OBVIOUS
<1>1. CASE st = "graham"
  <2>1. f.per * f.pbr \in Int
    BY <1>0
  <2>2. Ratio(f.per * f.pbr, 2250) \in Int
    BY <1>n, <2>1, RoundType
  <2>3. Unit - Ratio(f.per * f.pbr, 2250) \in Int
    BY <2>2 DEF Unit
  <2>4. GrahamScore(f) \in Int
    BY <2>3, ClipType DEF GrahamScore
  <2> QED
    BY <1>1, <2>4 DEF Score
<1>2. CASE st = "buffett_quality"
  <2> DEFINE high == Clip(Ratio(f.roe, 30))
             cheap == Clip(10 * EarningsYield(f))
             sum == 6 * high + 4 * cheap
  <2>1. high \in Int
    <3>1. Ratio(f.roe, 30) \in Int
      BY <1>0, <1>n, RoundType
    <3> QED
      BY <3>1, ClipType
  <2>2. EarningsYield(f) \in Int
    BY YieldType
  <2>3. cheap \in Int
    <3>1. 10 * EarningsYield(f) \in Int
      BY <2>2
    <3> QED
      BY <3>1, ClipType
  <2> HIDE DEF high, cheap
  <2>4. sum \in Int
    BY <2>1, <2>3
  <2>5. BuffettScore(f) = RoundEven(sum, 10)
    BY DEF BuffettScore, high, cheap
  <2> HIDE DEF sum
  <2>6. BuffettScore(f) \in Int
    BY <1>n, <2>4, <2>5, RoundType
  <2> QED
    BY <1>2, <2>6 DEF Score
<1>3. CASE st = "piotroski"
  <2> DEFINE all == {"positive_eps", "positive_roe", "strong_roe", "positive_earnings"}
             P == {c \in PiotroskiChecks(f) :
                     CASE c = "positive_eps" -> f.eps > 0
                       [] c = "positive_roe" -> f.roe > 0
                       [] c = "strong_roe" -> f.roe >= 10
                       [] OTHER -> f.per > 0}
  <2>1. IsFiniteSet(all)
    <3>1. all = (({"positive_eps"} \cup {"positive_roe"}) \cup {"strong_roe"})
                \cup {"positive_earnings"}
      OBVIOUS
    <3>2. IsFiniteSet({"positive_eps"})
      BY FS_Singleton
    <3>3. IsFiniteSet({"positive_eps"} \cup {"positive_roe"})
      BY <3>2, FS_AddElement
    <3>4. IsFiniteSet(({"positive_eps"} \cup {"positive_roe"}) \cup {"strong_roe"})
      BY <3>3, FS_AddElement
    <3> HIDE DEF all
    <3> QED
      BY <3>1, <3>4, FS_AddElement
  <2>2. P \subseteq all
    BY DEF PiotroskiChecks
  <2>3. PiotroskiPoints(f) = Cardinality(P)
    BY DEF PiotroskiPoints
  <2> HIDE DEF P, all
  <2>4. PiotroskiPoints(f) \in Int
    BY <2>1, <2>2, <2>3, FS_Subset, FS_CardinalityType
  <2>5. Ratio(PiotroskiPoints(f), 4) \in Int
    BY <1>n, <2>4, RoundType
  <2>6. PiotroskiScore(f) \in Int
    BY <2>5, ClipType DEF PiotroskiScore
  <2> QED
    BY <1>3, <2>6 DEF Score
<1> QED
  BY <1>1, <1>2, <1>3 DEF Fundamental

-----------------------------------------------------------------------------
(* What a strategy flags.                                                   *)

\* The candles of a pass, and what a strategy may make of them.
RowsOf(X) == Seq([symbol : Symbols, x : X])
FlagsOf(candles) == [symbol : {candles[i].symbol : i \in DOMAIN candles}, score : Int]

\* The strategies that can score these readings, wherever their gate holds.
Scores(st, X) ==
  /\ st \in PricesOnly \cup Fundamental =>
       \A x \in X : \A vix, f : (st \in Fundamental => f \in Accounts) /\ Gate(st, x, f, vix)
                                  => Score(st, x, f) \in Int
  /\ st = "relative_strength" => \A x \in X : x.halfReturn \in Int

Scorable(X) == {st \in StrategyNames : Scores(st, X)}

\* The rows of a pass are finitely many.
LEMMA RowsAreFinite ==
  ASSUME NEW X, NEW candles \in RowsOf(X)
  PROVE  /\ IsFiniteSet(ToSet(candles))
         /\ \A c \in ToSet(candles) : /\ c \in [symbol : Symbols, x : X]
                                      /\ \E i \in DOMAIN candles : c = candles[i]
<1>1. candles \in Seq([symbol : Symbols, x : X]) /\ DOMAIN candles = 1..Len(candles)
  BY DEF RowsOf
<1>2. ToSet(candles) = {candles[i] : i \in 1..Len(candles)}
  BY <1>1 DEF ToSet
<1>3. IsFiniteSet(1..Len(candles))
  <2>1. 1 \in Int /\ Len(candles) \in Int
    BY <1>1
  <2> QED
    BY <2>1, FS_Interval
<1>4. IsFiniteSet(ToSet(candles))
  BY <1>2, <1>3, ImageOf
<1>5. \A c \in ToSet(candles) : \E i \in 1..Len(candles) : c = candles[i]
  BY <1>2
<1>6. \A i \in 1..Len(candles) : candles[i] \in [symbol : Symbols, x : X]
  <2> DEFINE row == [symbol : Symbols, x : X]
  <2> HIDE DEF row
  <2>1. candles \in Seq(row)
    BY DEF RowsOf, row
  <2>2. \A i \in 1..Len(candles) : candles[i] \in row
    BY <2>1
  <2> QED
    BY <2>2 DEF row
<1> QED
  BY <1>1, <1>4, <1>5, <1>6

\* Relative strength: the score is a ratio over the symbols of the market, and
\* there is at least the symbol itself.
LEMMA RelativeStrengthType ==
  ASSUME NEW X, NEW candles \in RowsOf(X), Scores("relative_strength", X)
  PROVE  /\ IsFiniteSet(RelativeStrength(candles))
         /\ RelativeStrength(candles) \subseteq FlagsOf(candles)
<1> DEFINE comparable == {c \in ToSet(candles) :
               /\ c.x.bars >= RequiredHistory["relative_strength"]
               /\ c.x.halfReturn # NoFigure}
           peers(c) == {d \in comparable : MarketOf[d.symbol] = MarketOf[c.symbol]}
           total(c) == SumFunction([d \in peers(c) |-> d.x.halfReturn])
           lead(c) == c.x.halfReturn * Cardinality(peers(c)) - total(c)
           score(c) == Clip(Ratio(lead(c), 30 * Cardinality(peers(c))))
           ahead == {d \in comparable : lead(d) > 0}
<1>1. RelativeStrength(candles) = {Flag(c.symbol, score(c)) : c \in ahead}
  BY DEF RelativeStrength, Settings
<1>2. IsFiniteSet(comparable) /\ IsFiniteSet(ahead)
  BY RowsAreFinite, FS_Subset
<1>3. ASSUME NEW c \in ahead PROVE Flag(c.symbol, score(c)) \in FlagsOf(candles)
  <2>1. c \in [symbol : Symbols, x : X] /\ \E i \in DOMAIN candles : c = candles[i]
    BY RowsAreFinite
  <2>2. c \in peers(c) /\ peers(c) \subseteq comparable
    OBVIOUS
  <2>3. IsFiniteSet(peers(c)) /\ Cardinality(peers(c)) \in Nat \ {0}
    <3>1. peers(c) # {}
      BY <2>2
    <3> HIDE DEF peers, comparable
    <3>2. IsFiniteSet(peers(c))
      BY <1>2, <2>2, FS_Subset
    <3> QED
      BY <3>1, <3>2, FS_CardinalityType, FS_EmptySet
  <2>4. \A d \in peers(c) : d.x.halfReturn \in Int
    <3>1. \A d \in peers(c) : d \in [symbol : Symbols, x : X]
      BY RowsAreFinite
    <3> HIDE DEF peers
    <3> QED
      BY <3>1 DEF Scores
  <2>5. c.x.halfReturn \in Int
    BY <2>1 DEF Scores
  <2> DEFINE P == peers(c)
             n == Cardinality(P)
             of == [d \in P |-> d.x.halfReturn]
             sum == SumFunction(of)
  <2>6. total(c) = sum /\ lead(c) = c.x.halfReturn * n - sum
    OBVIOUS
  <2> HIDE DEF peers
  <2> HIDE DEF P
  <2>7. sum \in Int
    <3>1. IsFiniteSet(P) /\ DOMAIN of = P /\ \A d \in P : of[d] \in Int
      BY <2>3, <2>4 DEF P
    <3> HIDE DEF of
    <3> QED
      BY <3>1, SumOfAll, TotalIs
  <2>8. n \in Nat \ {0}
    BY <2>3 DEF P
  <2>9. score(c) = Clip(Ratio(c.x.halfReturn * n - sum, 30 * n))
    BY DEF P
  <2> HIDE DEF n, sum, score
  <2>10. c.x.halfReturn * n - sum \in Int /\ 30 * n \in Nat \ {0}
    BY <2>5, <2>7, <2>8
  <2>11. Ratio(c.x.halfReturn * n - sum, 30 * n) \in Int
    BY <2>10, RoundType
  <2>12. score(c) \in Int
    BY <2>9, <2>11, ClipType
  <2> QED
    BY <2>1, <2>12 DEF Flag, FlagsOf
<1> DEFINE f == [c \in ahead |-> Flag(c.symbol, score(c))]
<1>4. {Flag(c.symbol, score(c)) : c \in ahead} = {f[c] : c \in ahead}
  OBVIOUS
<1> HIDE DEF f, ahead
<1>5. IsFiniteSet({f[c] : c \in ahead})
  BY <1>2, ImageOf
<1> HIDE DEF score
<1> QED
  BY <1>1, <1>3, <1>4, <1>5

\* The magic formula: a place among the companies, or a yield if there is one only.
LEMMA MagicFormulaType ==
  ASSUME NEW X, NEW candles \in RowsOf(X), NEW known \in SUBSET (DOMAIN Figures)
  PROVE  /\ IsFiniteSet(MagicFormula(candles, known))
         /\ MagicFormula(candles, known) \subseteq FlagsOf(candles)
<1> DEFINE figures(i) == Figures[candles[i].symbol]
           I == {i \in DOMAIN candles : /\ candles[i].symbol \in known
                                        /\ figures(i).per > 0 /\ figures(i).roe # NoFigure}
           kept == Only(candles, I)
           n == Len(kept)
           of(i) == Figures[kept[i].symbol]
           cheaper(i) == {j \in 1..n : \/ -of(j).per > -of(i).per
                                       \/ -of(j).per = -of(i).per /\ j < i}
           better(i) == {j \in 1..n : \/ of(j).roe > of(i).roe
                                      \/ of(j).roe = of(i).roe /\ j < i}
           place(i) == Cardinality(cheaper(i)) + Cardinality(better(i))
           score(i) == IF n = 1 THEN Clip(10 * EarningsYield(of(i)))
                       ELSE Clip(Unit - Ratio(place(i), 2 * (n - 1)))
<1>1. MagicFormula(candles, known) = {Flag(kept[i].symbol, score(i)) : i \in 1..n}
  BY DEF MagicFormula
<1>2. I \in SUBSET (DOMAIN candles)
  OBVIOUS
<1>3. \A i \in I : candles[i].symbol \in DOMAIN Figures
  OBVIOUS
<1> HIDE DEF I
<1>4. /\ n = Cardinality(I) /\ n \in Nat
      /\ \A k \in 1..n : \E i \in I : kept[k] = candles[i]
  <2>1. candles \in Seq([symbol : Symbols, x : X])
    BY DEF RowsOf
  <2>2. IsFiniteSet(I) /\ n = Cardinality(I)
        /\ \A k \in 1..Cardinality(I) : \E i \in I : kept[k] = candles[i]
    BY <1>2, <2>1, OnlyIs
  <2> QED
    BY <2>2, FS_CardinalityType
<1> HIDE DEF kept, n
<1>5. IsFiniteSet(1..n)
  <2>1. 1 \in Int /\ n \in Int
    BY <1>4
  <2> QED
    BY <2>1, FS_Interval
<1>6. ASSUME NEW i \in 1..n PROVE Flag(kept[i].symbol, score(i)) \in FlagsOf(candles)
  <2>1. PICK j \in I : kept[i] = candles[j]
    BY <1>4
  <2>2. of(i) \in Accounts
    BY <1>3, <2>1, ScreeningAssumption
  <2>3. place(i) \in Int
    <3>1. cheaper(i) \in SUBSET (1..n) /\ better(i) \in SUBSET (1..n)
      OBVIOUS
    <3> HIDE DEF cheaper, better
    <3>2. Cardinality(cheaper(i)) \in Nat /\ Cardinality(better(i)) \in Nat
      BY <1>5, <3>1, FS_Subset, FS_CardinalityType
    <3> QED
      BY <3>2
  <2> HIDE DEF place, of
  <2>4. CASE n = 1
    <3>1. 10 * EarningsYield(of(i)) \in Int
      <4>1. EarningsYield(of(i)) \in Int
        BY <2>2, YieldType
      <4> QED
        BY <4>1
    <3>2. score(i) \in Int
      BY <2>4, <3>1, ClipType
    <3> QED
      BY <1>2, <2>1, <3>2 DEF Flag, FlagsOf
  <2>5. CASE n # 1
    <3>1. 2 * (n - 1) \in Nat \ {0}
      BY <1>4, <2>5
    <3>2. Ratio(place(i), 2 * (n - 1)) \in Int
      BY <2>3, <3>1, RoundType
    <3>3. Unit - Ratio(place(i), 2 * (n - 1)) \in Int
      BY <3>2 DEF Unit
    <3>4. score(i) \in Int
      BY <2>5, <3>3, ClipType
    <3> QED
      BY <1>2, <2>1, <3>4 DEF Flag, FlagsOf
  <2> QED
    BY <2>4, <2>5
<1> DEFINE f == [i \in 1..n |-> Flag(kept[i].symbol, score(i))]
<1>7. {Flag(kept[i].symbol, score(i)) : i \in 1..n} = {f[i] : i \in 1..n}
  OBVIOUS
<1> HIDE DEF f
<1>8. IsFiniteSet({f[i] : i \in 1..n})
  BY <1>5, ImageOf
<1> HIDE DEF score
<1> QED
  BY <1>1, <1>6, <1>7, <1>8

\* A strategy that looks at one symbol after the other.
LEMMA PerSymbolType ==
  ASSUME NEW X, NEW candles \in RowsOf(X), NEW known \in SUBSET (DOMAIN Figures), NEW vix,
         NEW st \in PricesOnly \cup Fundamental, Scores(st, X)
  PROVE  /\ IsFiniteSet(PerSymbol(st, candles, vix, known))
         /\ PerSymbol(st, candles, vix, known) \subseteq FlagsOf(candles)
<1> DEFINE asked == {c \in ToSet(candles) :
               IF st \in Fundamental THEN c.symbol \in known
               ELSE c.x.bars >= RequiredHistory[st]}
           passed == {c \in asked : Gate(st, c.x, FigureOf(c.symbol), vix)}
           f == [c \in passed |-> Flag(c.symbol, Score(st, c.x, FigureOf(c.symbol)))]
           flags == {f[c] : c \in passed}
<1>1. PerSymbol(st, candles, vix, known) = {v \in flags : v.score >= MinScore}
  <2>1. flags = {Flag(c.symbol, Score(st, c.x, FigureOf(c.symbol))) : c \in passed}
    OBVIOUS
  <2> QED
    BY <2>1 DEF PerSymbol
<1>2. ASSUME NEW c \in passed PROVE f[c] \in FlagsOf(candles)
  <2>1. c \in [symbol : Symbols, x : X] /\ \E i \in DOMAIN candles : c = candles[i]
    BY RowsAreFinite
  <2>2. Score(st, c.x, FigureOf(c.symbol)) \in Int
    <3>1. st \in Fundamental => FigureOf(c.symbol) \in Accounts
      BY ScreeningAssumption DEF FigureOf
    <3>2. c.x \in X /\ Gate(st, c.x, FigureOf(c.symbol), vix)
      BY <2>1
    <3> QED
      BY <3>1, <3>2 DEF Scores
  <2> QED
    BY <2>1, <2>2 DEF Flag, FlagsOf
<1>3. IsFiniteSet(passed)
  BY RowsAreFinite, FS_Subset
<1> HIDE DEF f, passed
<1>4. IsFiniteSet(flags)
  BY <1>3, ImageOf
<1>5. flags \subseteq FlagsOf(candles)
  BY <1>2
<1> HIDE DEF flags
<1> QED
  BY <1>1, <1>4, <1>5, FS_Subset

\* Every strategy can score a reading of all the indicators.
LEMMA IndicatorsScorable == Scorable(Indicators) = StrategyNames
<1>1. ASSUME NEW st \in StrategyNames PROVE Scores(st, Indicators)
  <2>1. ASSUME NEW x \in Indicators, NEW vix, NEW f, st \in PricesOnly \cup Fundamental,
               st \in Fundamental => f \in Accounts, Gate(st, x, f, vix)
        PROVE  Score(st, x, f) \in Int
    BY <2>1, PriceScoreType, AccountScoreType
  <2>2. \A x \in Indicators : x.halfReturn \in Int
    BY DEF Indicators
  <2> QED
    BY <2>1, <2>2 DEF Scores
<1> QED
  BY <1>1 DEF Scorable

\* Any strategy flags finitely many of the symbols it was given, each with an integer.
LEMMA EvaluateType ==
  ASSUME NEW X, NEW candles \in RowsOf(X), NEW known \in SUBSET (DOMAIN Figures), NEW vix,
         NEW st \in Scorable(X)
  PROVE  /\ IsFiniteSet(EvaluateAll(st, candles, vix, known))
         /\ EvaluateAll(st, candles, vix, known) \subseteq FlagsOf(candles)
<1>1. CASE st = "relative_strength"
  BY <1>1, RelativeStrengthType DEF EvaluateAll, Scorable
<1>2. CASE st = "magic_formula"
  BY <1>2, MagicFormulaType DEF EvaluateAll
<1>3. CASE st \notin {"relative_strength", "magic_formula"}
  <2>1. st \in PricesOnly \cup Fundamental
    BY <1>3 DEF Scorable, StrategyNames, RequiredHistory, PricesOnly, Fundamental
  <2>2. EvaluateAll(st, candles, vix, known) = PerSymbol(st, candles, vix, known)
    BY <1>3 DEF EvaluateAll
  <2> QED
    BY <2>1, <2>2, PerSymbolType DEF Scorable
<1> QED
  BY <1>1, <1>2, <1>3

-----------------------------------------------------------------------------
(* The merge and the ranking.                                               *)

\* A set of verdicts: finitely many, on the symbols S, and a strategy each number.
Poll(V, S) ==
  /\ IsFiniteSet(V)
  /\ V \subseteq [symbol : S, by : Nat, strategy : StrategyNames, score : Int]
  /\ \A v, w \in V : v.by = w.by => v.strategy = w.strategy

On(V, s) == {v \in V : v.symbol = s}
SymbolsIn(V) == {v.symbol : v \in V}
FlaggedBy(V, s) == {v.by : v \in On(V, s)}

\* What merging the verdicts on one symbol makes.
MergedOn(V, s) ==
  LET m == Merge(On(V, s))
  IN  /\ m = [symbol |-> s, score |-> m.score, strategy |-> m.strategy,
              flaggedBy |-> FlaggedBy(V, s)]
      /\ \E v \in On(V, s) : m.score = v.score
      /\ \A v \in On(V, s) : v.score <= m.score

\* The best score, the numbers of all that flagged the symbol.
LEMMA MergeIs ==
  ASSUME NEW V, NEW S, Poll(V, S), NEW s \in SymbolsIn(V)
  PROVE  MergedOn(V, s)
<1> DEFINE P == On(V, s)
           R == {p \in P \X P : \/ p[1].score > p[2].score
                                \/ p[1].score = p[2].score /\ p[1].by < p[2].by}
           wins(v) == \A w \in P : \/ v.score > w.score
                                   \/ v.score = w.score /\ v.by <= w.by
           best == CHOOSE v \in P : wins(v)
<1>1. P # {} /\ IsFiniteSet(P)
  <2>1. P # {}
    BY DEF SymbolsIn, On
  <2>2. P \in SUBSET V
    BY DEF On
  <2> HIDE DEF P
  <2> QED
    BY <2>1, <2>2, FS_Subset DEF Poll
<1>2. \A v \in P : /\ v.symbol = s /\ v.by \in Nat /\ v.score \in Int
                   /\ v = [symbol |-> v.symbol, by |-> v.by, strategy |-> v.strategy,
                           score |-> v.score]
  BY DEF Poll, On
<1>3. \A v, w \in P : v.by = w.by /\ v.score = w.score => v = w
  <2> SUFFICES ASSUME NEW v \in P, NEW w \in P, v.by = w.by, v.score = w.score PROVE v = w
    OBVIOUS
  <2>1. v.strategy = w.strategy
    BY DEF Poll, On
  <2> HIDE DEF P
  <2> QED
    BY <1>2, <2>1
<1> HIDE DEF P
<1>4. \A a, b \in P : <<a, b>> \in R <=> \/ a.score > b.score
                                         \/ a.score = b.score /\ a.by < b.by
  OBVIOUS
<1> HIDE DEF R
<1>5. StrictlyOrders(R, P)
  <2>1. \A a \in P : <<a, a>> \notin R
    BY <1>2, <1>4
  <2>2. ASSUME NEW a \in P, NEW b \in P, a # b PROVE <<a, b>> \in R \/ <<b, a>> \in R
    <3>1. a.by # b.by \/ a.score # b.score
      BY <1>3, <2>2
    <3>2. a.by \in Int /\ b.by \in Int /\ a.score \in Int /\ b.score \in Int
      BY <1>2
    <3> QED
      BY <1>4, <3>1, <3>2
  <2>3. ASSUME NEW a \in P, NEW b \in P, NEW c \in P, <<a, b>> \in R, <<b, c>> \in R
        PROVE  <<a, c>> \in R
    <3>1. /\ a.by \in Int /\ b.by \in Int /\ c.by \in Int
          /\ a.score \in Int /\ b.score \in Int /\ c.score \in Int
      BY <1>2
    <3>2. a.score > b.score \/ (a.score = b.score /\ a.by < b.by)
      BY <1>4, <2>3
    <3>3. b.score > c.score \/ (b.score = c.score /\ b.by < c.by)
      BY <1>4, <2>3
    <3>4. a.score > c.score \/ (a.score = c.score /\ a.by < c.by)
      BY <3>1, <3>2, <3>3
    <3> QED
      BY <1>4, <3>4
  <2> QED
    BY <2>1, <2>2, <2>3 DEF StrictlyOrders
<1>6. PICK a \in P : \A b \in P : b # a => <<a, b>> \in R
  BY <1>1, <1>5, FirstOf
<1>7. wins(a)
  <2> SUFFICES ASSUME NEW w \in P
               PROVE  a.score > w.score \/ (a.score = w.score /\ a.by <= w.by)
    OBVIOUS
  <2>1. a.by \in Int /\ w.by \in Int /\ a.score \in Int /\ w.score \in Int
    BY <1>2
  <2>2. w # a => a.score > w.score \/ (a.score = w.score /\ a.by < w.by)
    BY <1>4, <1>6
  <2> QED
    BY <2>1, <2>2
<1>8. best \in P /\ wins(best)
  <2> HIDE DEF wins
  <2> QED
    BY <1>7
<1>9. Merge(P) = [symbol |-> best.symbol, score |-> best.score, strategy |-> best.strategy,
                  flaggedBy |-> {v.by : v \in P}]
  BY DEF Merge
<1> HIDE DEF best
<1> DEFINE m == Merge(P)
<1>10. /\ m.score = best.score /\ m.strategy = best.strategy
       /\ m = [symbol |-> s, score |-> m.score, strategy |-> m.strategy,
               flaggedBy |-> {v.by : v \in P}]
  <2> DEFINE numbers == {v.by : v \in P}
  <2>1. best.symbol = s
    BY <1>2, <1>8
  <2> HIDE DEF numbers
  <2>2. m = [symbol |-> s, score |-> best.score, strategy |-> best.strategy,
             flaggedBy |-> numbers]
    BY <1>9, <2>1 DEF numbers
  <2> HIDE DEF m
  <2>3. m.score = best.score /\ m.strategy = best.strategy
    BY <2>2
  <2> QED
    BY <2>2, <2>3 DEF numbers
<1>11. \A v \in P : v.score <= m.score
  <2> SUFFICES ASSUME NEW v \in P PROVE v.score <= m.score
    OBVIOUS
  <2>1. v.score \in Int /\ best.score \in Int
    BY <1>2, <1>8
  <2> QED
    BY <1>8, <1>10, <2>1
<1> HIDE DEF wins, m
<1> QED
  BY <1>8, <1>10, <1>11 DEF MergedOn, FlaggedBy, P, m

\* What flagged a symbol are finitely many numbers, one at least.
LEMMA FlaggedByIs ==
  ASSUME NEW V, NEW S, Poll(V, S), NEW s \in SymbolsIn(V)
  PROVE  /\ IsFiniteSet(FlaggedBy(V, s)) /\ FlaggedBy(V, s) \in SUBSET Int
         /\ FlaggedBy(V, s) # {} /\ Cardinality(FlaggedBy(V, s)) \in Nat
<1> DEFINE f == [v \in On(V, s) |-> v.by]
<1>1. FlaggedBy(V, s) = {f[v] : v \in On(V, s)}
  BY DEF FlaggedBy
<1>2. On(V, s) # {} /\ On(V, s) \in SUBSET V
  BY DEF On, SymbolsIn
<1>3. IsFiniteSet(On(V, s))
  BY <1>2, FS_Subset DEF Poll
<1>4. FlaggedBy(V, s) \in SUBSET Int
  BY DEF FlaggedBy, On, Poll
<1> HIDE DEF f
<1>5. IsFiniteSet(FlaggedBy(V, s))
  BY <1>1, <1>3, ImageOf
<1>6. FlaggedBy(V, s) # {}
  BY <1>2 DEF FlaggedBy
<1> QED
  BY <1>4, <1>5, <1>6, FS_CardinalityType

\* One is ranked before the other.
Before(a, b, candles) ==
  \/ Ahead(a, b)
  \/ ~Ahead(b, a) /\ EnteredBefore(a, b, candles)

\* The order of four numbers in turn, the first two the greater the better.
LexicallyFirst(a, b) ==
  \/ a[1] > b[1]
  \/ a[1] = b[1] /\ a[2] > b[2]
  \/ a[1] = b[1] /\ a[2] = b[2] /\ a[3] < b[3]
  \/ a[1] = b[1] /\ a[2] = b[2] /\ a[3] = b[3] /\ a[4] < b[4]

Place(ranking, s) == CHOOSE i \in DOMAIN ranking : ranking[i].symbol = s

\* Where the candles of a symbol stand.
At(candles, s) == CHOOSE i \in DOMAIN candles : candles[i].symbol = s

\* Entries of a ranking: finitely many, on symbols that have candles, each flagged by
\* some strategy, and told apart by their symbol and their score.
Entries(M, candles) ==
  /\ IsFiniteSet(M)
  /\ \A a \in M : /\ \E i \in DOMAIN candles : candles[i].symbol = a.symbol
                  /\ a.score \in Int
                  /\ IsFiniteSet(a.flaggedBy) /\ a.flaggedBy # {} /\ a.flaggedBy \in SUBSET Int
  /\ \A a, b \in M : a.symbol = b.symbol /\ a.score = b.score => a = b

\* What an entry is ranked by.
Numbers(a, candles) ==
  <<a.score, Cardinality(a.flaggedBy), Min(a.flaggedBy), At(candles, a.symbol)>>

\* Before is the order of four numbers.
LEMMA BeforeIsLexical ==
  ASSUME NEW X, NEW candles \in RowsOf(X), NEW M, Entries(M, candles),
         NEW a \in M, NEW b \in M
  PROVE  /\ Numbers(a, candles) \in Int \X Int \X Int \X Int
         /\ Numbers(a, candles) = Numbers(b, candles) => a = b
         /\ Before(a, b, candles) <=> LexicallyFirst(Numbers(a, candles), Numbers(b, candles))
<1> DEFINE count(e) == Cardinality(e.flaggedBy)
           first(e) == Min(e.flaggedBy)
           pos(e) == At(candles, e.symbol)
<1>1. ASSUME NEW e \in M
      PROVE  /\ e.score \in Int /\ count(e) \in Int /\ first(e) \in Int
             /\ pos(e) \in Int /\ candles[pos(e)].symbol = e.symbol
  <2>1. e.score \in Int
    BY DEF Entries
  <2>2. IsFiniteSet(e.flaggedBy) /\ e.flaggedBy # {} /\ e.flaggedBy \in SUBSET Int
    BY DEF Entries
  <2>3. count(e) \in Int /\ first(e) \in Int
    BY <2>2, MinIs, FS_CardinalityType
  <2>4. \E i \in DOMAIN candles : candles[i].symbol = e.symbol
    BY DEF Entries
  <2>5. pos(e) \in DOMAIN candles /\ candles[pos(e)].symbol = e.symbol
    BY <2>4 DEF At
  <2>6. DOMAIN candles \subseteq Int
    BY DEF RowsOf
  <2> QED
    BY <2>1, <2>3, <2>5, <2>6
<1>2. EnteredBefore(a, b, candles)
        <=> first(a) < first(b) \/ (first(a) = first(b) /\ pos(a) < pos(b))
  BY DEF EnteredBefore, At
<1>3. /\ Ahead(a, b) <=> a.score > b.score \/ (a.score = b.score /\ count(a) > count(b))
      /\ Ahead(b, a) <=> b.score > a.score \/ (b.score = a.score /\ count(b) > count(a))
  BY DEF Ahead
<1>4. Before(a, b, candles) <=> Ahead(a, b) \/ (~Ahead(b, a) /\ EnteredBefore(a, b, candles))
  BY DEF Before
<1>5. /\ a.score \in Int /\ count(a) \in Int /\ first(a) \in Int /\ pos(a) \in Int
      /\ b.score \in Int /\ count(b) \in Int /\ first(b) \in Int /\ pos(b) \in Int
  BY <1>1
<1>6. /\ Numbers(a, candles) = <<a.score, count(a), first(a), pos(a)>>
      /\ Numbers(b, candles) = <<b.score, count(b), first(b), pos(b)>>
  BY DEF Numbers
<1>7. pos(a) = pos(b) => a.symbol = b.symbol
  BY <1>1
<1>8. a.score = b.score /\ pos(a) = pos(b) => a = b
  BY <1>7 DEF Entries
<1> HIDE DEF count, first, pos
<1>9. Before(a, b, candles) <=> LexicallyFirst(Numbers(a, candles), Numbers(b, candles))
  BY <1>2, <1>3, <1>4, <1>5, <1>6 DEF LexicallyFirst
<1> QED
  BY <1>5, <1>6, <1>8, <1>9

\* A sequence that has every entry once, one before the other as Before says.
Ranks(seq, M, candles) ==
  /\ seq \in Seq(M) /\ Len(seq) = Cardinality(M) /\ Cardinality(M) \in Nat
  /\ \A m \in M : \E k \in 1..Cardinality(M) : seq[k] = m
  /\ \A i, j \in 1..Cardinality(M) : i < j <=> Before(seq[i], seq[j], candles)

LEMMA RankingIs ==
  ASSUME NEW X, NEW candles \in RowsOf(X), NEW M, Entries(M, candles)
  PROVE  Ranks(Ranked(M, candles), M, candles)
<1> DEFINE n == Cardinality(M)
           num == [a \in M |-> Numbers(a, candles)]
           R == {p \in M \X M : Before(p[1], p[2], candles)}
           L == Ranked(M, candles)
<1>1. /\ \A a \in M : num[a] \in Int \X Int \X Int \X Int
      /\ \A a, b \in M : num[a] = num[b] => a = b
      /\ \A a, b \in M : Before(a, b, candles) <=> LexicallyFirst(num[a], num[b])
  BY BeforeIsLexical
<1>2. L = Listed(M, R)
  <2> DEFINE precedes(a, b) == \/ Ahead(a, b)
                               \/ ~Ahead(b, a) /\ EnteredBefore(a, b, candles)
             one(k) == CHOOSE m \in M : Cardinality({l \in M : precedes(l, m)}) = k - 1
             other(k) == CHOOSE m \in M : Cardinality({l \in M : <<l, m>> \in R}) = k - 1
  <2>0. L = [k \in 1..n |-> one(k)]
    BY DEF Ranked, InOrder
  <2>1. \A m \in M : {l \in M : precedes(l, m)} = {l \in M : <<l, m>> \in R}
    BY DEF Before
  <2>2. Listed(M, R) = [k \in 1..n |-> other(k)]
    BY DEF Listed
  <2> HIDE DEF n, R, precedes, L
  <2>3. \A m \in M : Cardinality({l \in M : precedes(l, m)}) = Cardinality({l \in M : <<l, m>> \in R})
    BY <2>1
  <2>4. \A k \in 1..n : one(k) = other(k)
    BY <2>3
  <2> HIDE DEF one, other
  <2> QED
    BY <2>0, <2>2, <2>4
<1> HIDE DEF L, n, num
<1>3. \A a, b \in M : /\ <<a, b>> \in R <=> LexicallyFirst(num[a], num[b])
                      /\ <<a, b>> \in R <=> Before(a, b, candles)
  BY <1>1
<1> HIDE DEF R
<1>4. StrictlyOrders(R, M)
  <2>1. \A a \in M : <<a, a>> \notin R
    BY <1>1, <1>3 DEF LexicallyFirst
  <2>2. ASSUME NEW a \in M, NEW b \in M, a # b
        PROVE  <<a, b>> \in R \/ <<b, a>> \in R
    <3> DEFINE x == num[a]
               y == num[b]
    <3>1. x \in Int \X Int \X Int \X Int /\ y \in Int \X Int \X Int \X Int /\ x # y
      BY <1>1, <2>2
    <3> HIDE DEF x, y
    <3>2. LexicallyFirst(x, y) \/ LexicallyFirst(y, x)
      BY <3>1 DEF LexicallyFirst
    <3> QED
      BY <1>3, <3>2 DEF x, y
  <2>3. ASSUME NEW a \in M, NEW b \in M, NEW c \in M, <<a, b>> \in R, <<b, c>> \in R
        PROVE  <<a, c>> \in R
    <3> DEFINE x == num[a]
               y == num[b]
               z == num[c]
    <3>1. /\ x \in Int \X Int \X Int \X Int /\ y \in Int \X Int \X Int \X Int
          /\ z \in Int \X Int \X Int \X Int
      BY <1>1
    <3>2. LexicallyFirst(x, y) /\ LexicallyFirst(y, z)
      BY <1>3, <2>3
    <3> HIDE DEF x, y, z
    <3>3. LexicallyFirst(x, z)
      BY <3>1, <3>2 DEF LexicallyFirst
    <3> QED
      BY <1>3, <3>3 DEF x, z
  <2> QED
    BY <2>1, <2>2, <2>3 DEF StrictlyOrders
<1>5. IsFiniteSet(M)
  BY DEF Entries
<1>6. /\ L \in Seq(M) /\ Len(L) = n /\ \A m \in M : \E k \in 1..n : L[k] = m
      /\ \A i, j \in 1..n : i < j <=> <<L[i], L[j]>> \in R
  BY <1>2, <1>4, <1>5, ListedIs DEF n
<1>7. n \in Nat
  BY <1>5, FS_CardinalityType DEF n
<1>8. \A i \in 1..n : L[i] \in M
  BY <1>6
<1>9. \A i, j \in 1..n : i < j <=> Before(L[i], L[j], candles)
  BY <1>3, <1>6, <1>8
<1> QED
  BY <1>6, <1>7, <1>9 DEF L, n, Ranks

\* The merge of a poll makes one entry of every symbol.
LEMMA MergedAreEntries ==
  ASSUME NEW V, NEW S, Poll(V, S),
         NEW candles, \A s \in S : \E i \in DOMAIN candles : candles[i].symbol = s
  PROVE  /\ Entries(Merged(V), candles)
         /\ Merged(V) = {Merge(On(V, s)) : s \in SymbolsIn(V)}
         /\ \A s \in SymbolsIn(V) : Merge(On(V, s)).symbol = s
<1> DEFINE M == Merged(V)
           entry == [s \in SymbolsIn(V) |-> Merge(On(V, s))]
<1>1. M = {entry[s] : s \in SymbolsIn(V)}
  BY DEF Merged, On, SymbolsIn
<1>2. ASSUME NEW s \in SymbolsIn(V)
      PROVE  /\ entry[s].symbol = s /\ entry[s].score \in Int
             /\ entry[s].flaggedBy = FlaggedBy(V, s)
             /\ \E i \in DOMAIN candles : candles[i].symbol = s
  <2>1. MergedOn(V, s)
    BY MergeIs
  <2>2. entry[s].symbol = s /\ entry[s].flaggedBy = FlaggedBy(V, s)
    BY <2>1 DEF MergedOn
  <2>3. entry[s].score \in Int
    BY <2>1 DEF MergedOn, On, Poll
  <2>4. \E i \in DOMAIN candles : candles[i].symbol = s
    BY DEF SymbolsIn, Poll
  <2> QED
    BY <2>2, <2>3, <2>4
<1>3. M = {Merge(On(V, s)) : s \in SymbolsIn(V)}
  BY DEF Merged, On, SymbolsIn
<1>4. \A s \in SymbolsIn(V) : entry[s] = Merge(On(V, s))
  OBVIOUS
<1>5. IsFiniteSet(M)
  <2> DEFINE f == [v \in V |-> v.symbol]
  <2>1. SymbolsIn(V) = {f[v] : v \in V}
    BY DEF SymbolsIn
  <2> HIDE DEF f, M, entry
  <2>2. IsFiniteSet(SymbolsIn(V))
    BY <2>1, ImageOf DEF Poll
  <2> QED
    BY <1>1, <2>2, ImageOf
<1> HIDE DEF M, entry
<1>6. \A s \in SymbolsIn(V) : /\ IsFiniteSet(FlaggedBy(V, s)) /\ FlaggedBy(V, s) # {}
                              /\ FlaggedBy(V, s) \in SUBSET Int
  BY FlaggedByIs
<1>7. Entries(M, candles)
  BY <1>1, <1>2, <1>5, <1>6 DEF Entries
<1> QED
  BY <1>2, <1>3, <1>4, <1>7 DEF M

\* The ranking has every symbol once, one before the other as Before says.
LEMMA RankedIs ==
  ASSUME NEW V, NEW X, NEW candles \in RowsOf(X),
         Poll(V, {candles[i].symbol : i \in DOMAIN candles})
  PROVE  LET ranking == Ranked(Merged(V), candles)
         IN  /\ DOMAIN ranking = 1..Cardinality(Merged(V)) /\ IsFiniteSet(Merged(V))
             /\ ToSet(SymbolsOf(ranking)) = SymbolsIn(V)
             /\ \A s \in SymbolsIn(V) : /\ Place(ranking, s) \in DOMAIN ranking
                                        /\ ranking[Place(ranking, s)] = Merge(On(V, s))
             /\ \A s, t \in SymbolsIn(V) :
                  Place(ranking, s) < Place(ranking, t)
                    <=> Before(Merge(On(V, s)), Merge(On(V, t)), candles)
<1> DEFINE entry == [s \in SymbolsIn(V) |-> Merge(On(V, s))]
           M == Merged(V)
           n == Cardinality(M)
           L == Ranked(M, candles)
<1>0. \A s \in SymbolsIn(V) : entry[s] = Merge(On(V, s))
  OBVIOUS
<1> HIDE DEF entry
<1>1. /\ Entries(M, candles) /\ M = {entry[s] : s \in SymbolsIn(V)}
      /\ \A s \in SymbolsIn(V) : entry[s].symbol = s
  <2> DEFINE S == {candles[i].symbol : i \in DOMAIN candles}
  <2>0. Poll(V, S) /\ \A s \in S : \E i \in DOMAIN candles : candles[i].symbol = s
    OBVIOUS
  <2> HIDE DEF S, M
  <2>1. /\ Entries(Merged(V), candles) /\ Merged(V) = {Merge(On(V, s)) : s \in SymbolsIn(V)}
        /\ \A s \in SymbolsIn(V) : Merge(On(V, s)).symbol = s
    BY <2>0, MergedAreEntries
  <2>2. M = Merged(V)
    BY DEF M
  <2> QED
    BY <1>0, <2>1, <2>2
<1> HIDE DEF M
<1>a. Ranks(L, M, candles)
  BY <1>1, RankingIs
<1>2. /\ n \in Nat /\ DOMAIN L = 1..n
      /\ L \in Seq(M) /\ Len(L) = n /\ \A m \in M : \E k \in 1..n : L[k] = m
      /\ \A i, j \in 1..n : i < j <=> Before(L[i], L[j], candles)
  BY <1>a DEF Ranks
<1> HIDE DEF L, n
<1>3. ASSUME NEW s \in SymbolsIn(V)
      PROVE  Place(L, s) \in 1..n /\ L[Place(L, s)] = entry[s]
  <2>1. PICK k \in 1..n : L[k] = entry[s]
    BY <1>1, <1>2
  <2>2. \E j \in DOMAIN L : L[j].symbol = s
    BY <1>1, <1>2, <2>1
  <2>3. Place(L, s) \in DOMAIN L /\ L[Place(L, s)].symbol = s
    BY <2>2 DEF Place
  <2>4. PICK t \in SymbolsIn(V) : L[Place(L, s)] = entry[t]
    <3>1. L[Place(L, s)] \in M
      BY <1>2, <2>3
    <3> QED
      BY <1>1, <3>1
  <2> QED
    BY <1>1, <1>2, <2>3, <2>4
<1>4. \A s, t \in SymbolsIn(V) :
          Place(L, s) < Place(L, t) <=> Before(entry[s], entry[t], candles)
  BY <1>2, <1>3
<1>5. ToSet(SymbolsOf(L)) = SymbolsIn(V)
  <2>1. ToSet(SymbolsOf(L)) = {L[k].symbol : k \in 1..n}
    BY <1>2 DEF ToSet, SymbolsOf
  <2>2. \A k \in 1..n : L[k].symbol \in SymbolsIn(V)
    <3> SUFFICES ASSUME NEW k \in 1..n PROVE L[k].symbol \in SymbolsIn(V)
      OBVIOUS
    <3>1. L[k] \in M
      BY <1>2
    <3> QED
      BY <1>1, <3>1
  <2>3. \A s \in SymbolsIn(V) : \E k \in 1..n : L[k].symbol = s
    BY <1>1, <1>3
  <2> QED
    BY <2>1, <2>2, <2>3
<1>6. IsFiniteSet(M)
  BY <1>1 DEF Entries
<1> QED
  BY <1>0, <1>2, <1>3, <1>4, <1>5, <1>6 DEF L, M, n

-----------------------------------------------------------------------------
(* A strategy more.                                                         *)

\* The verdict number i makes of a flag.
VerdictOf(names, i, vix, e) ==
  [symbol |-> e.symbol, by |-> i, strategy |-> names[i], score |-> Weight(names[i], vix) * e.score]

\* A verdict comes from a flag of the strategy with its number, and every flag makes one.
LEMMA VerdictsAre ==
  ASSUME NEW candles, NEW known, NEW vix, NEW names
  PROVE  \A v : v \in Verdicts(names, candles, vix, known)
                 <=> \E k \in DOMAIN names : \E e \in EvaluateAll(names[k], candles, vix, known) :
                        v = VerdictOf(names, k, vix, e)
BY DEF Verdicts, VerdictOf

\* The verdicts of an ensemble are a poll on the symbols that have candles.
LEMMA VerdictsArePoll ==
  ASSUME NEW X, NEW candles \in RowsOf(X), NEW known \in SUBSET (DOMAIN Figures), NEW vix,
         NEW names \in Seq(Scorable(X))
  PROVE  Poll(Verdicts(names, candles, vix, known), {candles[i].symbol : i \in DOMAIN candles})
<1> DEFINE S == {candles[i].symbol : i \in DOMAIN candles}
           n == Len(names)
           flags(i) == EvaluateAll(names[i], candles, vix, known)
           of(i) == {VerdictOf(names, i, vix, e) : e \in flags(i)}
           f == [i \in 1..n |-> of(i)]
           V == Verdicts(names, candles, vix, known)
<1>1. n \in Nat /\ DOMAIN names = 1..n /\ \A i \in 1..n : names[i] \in Scorable(X)
  OBVIOUS
<1>2. V = UNION {of(i) : i \in 1..n}
  BY <1>1 DEF Verdicts, VerdictOf
<1>3. ASSUME NEW i \in 1..n
      PROVE  IsFiniteSet(flags(i)) /\ flags(i) \subseteq [symbol : S, score : Int]
  <2> DEFINE st == names[i]
  <2>1. st \in Scorable(X)
    BY <1>1
  <2> HIDE DEF st
  <2>2. /\ IsFiniteSet(EvaluateAll(st, candles, vix, known))
        /\ EvaluateAll(st, candles, vix, known) \subseteq FlagsOf(candles)
    BY <2>1, EvaluateType
  <2>3. flags(i) = EvaluateAll(st, candles, vix, known)
    BY DEF st
  <2> QED
    BY <2>2, <2>3 DEF FlagsOf
<1> HIDE DEF flags, n, S, V
<1>4. ASSUME NEW i \in 1..n PROVE IsFiniteSet(of(i))
  <2> DEFINE g == [e \in flags(i) |-> VerdictOf(names, i, vix, e)]
  <2>1. of(i) = {g[e] : e \in flags(i)}
    OBVIOUS
  <2> HIDE DEF g, of
  <2> QED
    BY <1>3, <2>1, ImageOf
<1>5. IsFiniteSet(V)
  <2>1. \A i \in 1..n : f[i] = of(i)
    OBVIOUS
  <2>2. UNION {of(i) : i \in 1..n} = UNION {f[i] : i \in 1..n}
    BY <2>1
  <2> HIDE DEF f, of
  <2>3. IsFiniteSet(UNION {f[i] : i \in 1..n})
    BY <1>1, <1>4, <2>1, UnionIsFinite
  <2> QED
    BY <1>2, <2>2, <2>3
<1>6. \A v \in V : \E i \in 1..n : \E e \in flags(i) : v = VerdictOf(names, i, vix, e)
  BY <1>2
<1> HIDE DEF of, f
<1>8. ASSUME NEW v \in V
      PROVE  /\ v \in [symbol : S, by : Nat, strategy : StrategyNames, score : Int]
             /\ v.strategy = names[v.by]
  <2>1. PICK i \in 1..n : \E e \in flags(i) : v = VerdictOf(names, i, vix, e)
    BY <1>6
  <2>2. PICK e \in flags(i) : v = VerdictOf(names, i, vix, e)
    BY <2>1
  <2> DEFINE w == Weight(names[i], vix)
  <2>3. w \in Int
    BY DEF Weight
  <2>4. e.symbol \in S /\ e.score \in Int
    BY <1>3
  <2> HIDE DEF w
  <2>5. w * e.score \in Int
    BY <2>3, <2>4
  <2>6. v = [symbol |-> e.symbol, by |-> i, strategy |-> names[i], score |-> w * e.score]
    BY <2>2 DEF VerdictOf, w
  <2>7. i \in Nat /\ names[i] \in StrategyNames
    BY <1>1 DEF Scorable
  <2> QED
    BY <2>4, <2>5, <2>6, <2>7
<1>9. Poll(V, S)
  <2>1. V \subseteq [symbol : S, by : Nat, strategy : StrategyNames, score : Int]
    BY <1>8
  <2>2. \A v, w \in V : v.by = w.by => v.strategy = w.strategy
    BY <1>8
  <2> QED
    BY <1>5, <2>1, <2>2 DEF Poll
<1> QED
  BY <1>9 DEF V, S

\* The strategies without the i-th: where each of them was.
LEMMA WithoutOne ==
  ASSUME NEW X, NEW names \in Seq(X), NEW i \in DOMAIN names
  PROVE  /\ RemoveAt(names, i) \in Seq(X) /\ Len(RemoveAt(names, i)) = Len(names) - 1
         /\ \A j \in 1..(Len(names) - 1) :
              RemoveAt(names, i)[j] = names[IF j < i THEN j ELSE j + 1]
<1> DEFINE n == Len(names)
           a == SubSeq(names, 1, i - 1)
           b == SubSeq(names, i + 1, n)
<1>1. n \in Nat /\ i \in 1..n
  OBVIOUS
<1>2. a \in Seq(X) /\ Len(a) = i - 1 /\ \A j \in 1..(i - 1) : a[j] = names[j]
  OBVIOUS
<1>3. b \in Seq(X) /\ Len(b) = n - i /\ \A j \in 1..(n - i) : b[j] = names[i + j]
  <2>1. \A j \in 1..(n - i) : b[j] = names[(i + 1) + j - 1]
    OBVIOUS
  <2>2. \A j \in 1..(n - i) : (i + 1) + j - 1 = i + j
    BY <1>1
  <2> QED
    BY <2>1, <2>2
<1>4. RemoveAt(names, i) = a \o b
  BY DEF RemoveAt
<1> HIDE DEF a, b, n
<1>5. a \o b \in Seq(X) /\ Len(a \o b) = n - 1
  <2>0. \A p, q \in Seq(X) : p \o q \in Seq(X) /\ Len(p \o q) = Len(p) + Len(q)
    OBVIOUS
  <2>1. a \o b \in Seq(X) /\ Len(a \o b) = Len(a) + Len(b)
    BY <1>2, <1>3, <2>0
  <2>2. (i - 1) + (n - i) = n - 1
    BY <1>1
  <2> QED
    BY <1>2, <1>3, <2>1, <2>2
<1>6. ASSUME NEW j \in 1..(n - 1) PROVE (a \o b)[j] = names[IF j < i THEN j ELSE j + 1]
  <2>1. CASE j < i
    BY <1>1, <1>2, <1>3, <2>1
  <2>2. CASE ~(j < i)
    <3>1. (a \o b)[j] = b[j - (i - 1)]
      BY <1>1, <1>2, <1>3, <2>2
    <3>2. j - (i - 1) \in 1..(n - i) /\ i + (j - (i - 1)) = j + 1
      BY <1>1, <2>2
    <3>3. b[j - (i - 1)] = names[j + 1]
      BY <1>3, <3>2
    <3> QED
      BY <2>2, <3>1, <3>3
  <2> QED
    BY <2>1, <2>2
<1> QED
  BY <1>4, <1>5, <1>6 DEF n

\* The number of a strategy when another is put in at place i, and back.
Up(i, j) == IF j < i THEN j ELSE j + 1
Down(i, k) == IF k < i THEN k ELSE k - 1

\* A strategy more leaves the verdicts of the others as they were, under numbers of
\* their own: drop takes one back, and what it flags itself has the number i.
LEMMA OneMore ==
  ASSUME NEW X, NEW candles \in RowsOf(X), NEW known \in SUBSET (DOMAIN Figures), NEW vix,
         NEW names \in Seq(Scorable(X)), NEW i \in DOMAIN names
  PROVE  LET V == Verdicts(names, candles, vix, known)
             W == Verdicts(RemoveAt(names, i), candles, vix, known)
         IN  /\ \A w \in W : \E v \in V : /\ v.symbol = w.symbol /\ v.score = w.score
                                          /\ v.by = Up(i, w.by)
             /\ \A v \in V : v.by = i \/ \E w \in W : /\ v.symbol = w.symbol /\ v.score = w.score
                                                      /\ v.by = Up(i, w.by)
<1> DEFINE fewer == RemoveAt(names, i)
           n == Len(names)
           V == Verdicts(names, candles, vix, known)
           W == Verdicts(fewer, candles, vix, known)
           flags(st) == EvaluateAll(st, candles, vix, known)
<1>1. /\ n \in Nat /\ i \in 1..n /\ DOMAIN names = 1..n /\ fewer \in Seq(Scorable(X))
      /\ DOMAIN fewer = 1..(n - 1) /\ \A j \in 1..(n - 1) : fewer[j] = names[Up(i, j)]
  BY WithoutOne DEF Up
<1>2. \A v : v \in V <=> \E k \in DOMAIN names : \E e \in flags(names[k]) :
                            v = VerdictOf(names, k, vix, e)
  BY VerdictsAre
<1>3. \A w : w \in W <=> \E j \in DOMAIN fewer : \E e \in flags(fewer[j]) :
                            w = VerdictOf(fewer, j, vix, e)
  <2> HIDE DEF fewer
  <2> QED
    BY VerdictsAre
<1> HIDE DEF fewer, n, V, W, flags
<1>4. \A j \in 1..(n - 1) : Up(i, j) \in 1..n /\ Up(i, j) # i
  BY <1>1 DEF Up
<1>5. \A j \in 1..(n - 1) : \A e :
         /\ VerdictOf(names, Up(i, j), vix, e).symbol = VerdictOf(fewer, j, vix, e).symbol
         /\ VerdictOf(names, Up(i, j), vix, e).score = VerdictOf(fewer, j, vix, e).score
         /\ VerdictOf(names, Up(i, j), vix, e).by = Up(i, VerdictOf(fewer, j, vix, e).by)
  BY <1>1 DEF VerdictOf
<1>6. ASSUME NEW w \in W
      PROVE  \E v \in V : v.symbol = w.symbol /\ v.score = w.score /\ v.by = Up(i, w.by)
  <2>1. PICK j \in 1..(n - 1) : \E e \in flags(fewer[j]) : w = VerdictOf(fewer, j, vix, e)
    BY <1>1, <1>3
  <2>2. PICK e \in flags(fewer[j]) : w = VerdictOf(fewer, j, vix, e)
    BY <2>1
  <2>3. VerdictOf(names, Up(i, j), vix, e) \in V
    BY <1>1, <1>2, <1>4
  <2> QED
    BY <1>5, <2>2, <2>3
<1>7. ASSUME NEW v \in V, v.by # i
      PROVE  \E w \in W : v.symbol = w.symbol /\ v.score = w.score /\ v.by = Up(i, w.by)
  <2>1. PICK k \in 1..n : \E e \in flags(names[k]) : v = VerdictOf(names, k, vix, e)
    BY <1>1, <1>2
  <2>2. PICK e \in flags(names[k]) : v = VerdictOf(names, k, vix, e)
    BY <2>1
  <2>3. k # i
    BY <1>7, <2>2 DEF VerdictOf
  <2>4. PICK j \in 1..(n - 1) : Up(i, j) = k
    <3>1. CASE k < i
      <4>1. k \in 1..(n - 1) /\ Up(i, k) = k
        BY <1>1, <3>1 DEF Up
      <4> QED
        BY <4>1
    <3>2. CASE ~(k < i)
      <4>1. k - 1 \in 1..(n - 1) /\ ~(k - 1 < i) /\ (k - 1) + 1 = k
        BY <1>1, <2>3, <3>2
      <4>2. Up(i, k - 1) = k
        BY <4>1 DEF Up
      <4> QED
        BY <4>1, <4>2
    <3> QED
      BY <3>1, <3>2
  <2>5. VerdictOf(fewer, j, vix, e) \in W
    BY <1>1, <1>3, <2>4
  <2> QED
    BY <1>5, <2>2, <2>4, <2>5
<1> QED
  BY <1>6, <1>7 DEF V, W, fewer

\* A symbol the strategy does not flag keeps its score and the number of those that
\* flag it; one it flags has no worse a score, and one more that flags it.
LEMMA MoreHelps ==
  ASSUME NEW X, NEW candles \in RowsOf(X), NEW known \in SUBSET (DOMAIN Figures), NEW vix,
         NEW names \in Seq(Scorable(X)), NEW i \in DOMAIN names,
         NEW s \in SymbolsIn(Verdicts(RemoveAt(names, i), candles, vix, known))
  PROVE  LET V == Verdicts(names, candles, vix, known)
             W == Verdicts(RemoveAt(names, i), candles, vix, known)
             now == Merge(On(V, s))
             was == Merge(On(W, s))
         IN  /\ s \in SymbolsIn(V)
             /\ i \notin now.flaggedBy => /\ now.score <= was.score
                                          /\ Cardinality(now.flaggedBy) <= Cardinality(was.flaggedBy)
             /\ i \in now.flaggedBy => /\ now.score >= was.score
                                       /\ Cardinality(now.flaggedBy) > Cardinality(was.flaggedBy)
<1> DEFINE S == {candles[k].symbol : k \in DOMAIN candles}
           V == Verdicts(names, candles, vix, known)
           W == Verdicts(RemoveAt(names, i), candles, vix, known)
           now == Merge(On(V, s))
           was == Merge(On(W, s))
           F == FlaggedBy(V, s)
           G == FlaggedBy(W, s)
           ups == [j \in G |-> Up(i, j)]
           downs == [k \in {Up(i, j) : j \in G} |-> Down(i, k)]
           H == {ups[j] : j \in G}
<1>1. RemoveAt(names, i) \in Seq(Scorable(X)) /\ i \in Nat
  BY WithoutOne
<1>2. Poll(V, S) /\ Poll(W, S)
  BY <1>1, VerdictsArePoll
<1>3. /\ \A w \in W : \E v \in V : /\ v.symbol = w.symbol /\ v.score = w.score
                                   /\ v.by = Up(i, w.by)
      /\ \A v \in V : v.by = i \/ \E w \in W : /\ v.symbol = w.symbol /\ v.score = w.score
                                               /\ v.by = Up(i, w.by)
  BY OneMore
<1> HIDE DEF V, W, S
<1>4. s \in SymbolsIn(W) /\ s \in SymbolsIn(V)
  <2>1. s \in SymbolsIn(W)
    BY DEF W
  <2> QED
    BY <1>3, <2>1 DEF SymbolsIn
<1>5. MergedOn(V, s) /\ MergedOn(W, s)
  BY <1>2, <1>4, MergeIs
<1>6. now.flaggedBy = F /\ was.flaggedBy = G
  BY <1>5 DEF MergedOn
<1>7. /\ IsFiniteSet(F) /\ F \in SUBSET Int /\ Cardinality(F) \in Nat
      /\ IsFiniteSet(G) /\ G \in SUBSET Int /\ Cardinality(G) \in Nat
  BY <1>2, <1>4, FlaggedByIs
<1>8. /\ \E v \in On(V, s) : now.score = v.score
      /\ \E w \in On(W, s) : was.score = w.score
      /\ \A v \in On(V, s) : v.score <= now.score
      /\ \A w \in On(W, s) : w.score <= was.score
  BY <1>5 DEF MergedOn
<1> HIDE DEF now, was
<1>9. now.score \in Int /\ was.score \in Int
  BY <1>2, <1>8 DEF On, Poll
<1>10. /\ \A j \in G : Up(i, j) \in F /\ Up(i, j) # i
       /\ \A k \in F : k = i \/ k \in H
  <2>1. ASSUME NEW j \in G PROVE Up(i, j) \in F /\ Up(i, j) # i
    <3>1. PICK w \in On(W, s) : w.by = j
      BY DEF FlaggedBy
    <3>2. PICK v \in V : v.symbol = w.symbol /\ v.by = Up(i, w.by)
      BY <1>3 DEF On
    <3>3. Up(i, j) \in F
      BY <3>1, <3>2 DEF FlaggedBy, On
    <3>4. j \in Int
      BY <1>7
    <3> QED
      BY <1>1, <3>3, <3>4 DEF Up
  <2>2. ASSUME NEW k \in F, k # i PROVE k \in H
    <3>1. PICK v \in On(V, s) : v.by = k
      BY DEF FlaggedBy
    <3>2. PICK w \in W : v.symbol = w.symbol /\ v.by = Up(i, w.by)
      BY <1>3, <2>2, <3>1 DEF On
    <3>3. w.by \in G
      BY <3>1, <3>2 DEF FlaggedBy, On
    <3> QED
      BY <3>1, <3>2, <3>3
  <2> QED
    BY <2>1, <2>2
<1>11. IsFiniteSet(H) /\ Cardinality(H) = Cardinality(G)
  <2>1. \A j \in G : downs[ups[j]] = j
    <3> SUFFICES ASSUME NEW j \in G PROVE downs[ups[j]] = j
      OBVIOUS
    <3>1. ups[j] = Up(i, j) /\ downs[Up(i, j)] = Down(i, Up(i, j))
      OBVIOUS
    <3>2. j \in Int
      BY <1>7
    <3>3. Down(i, Up(i, j)) = j
      BY <1>1, <3>2 DEF Up, Down
    <3> QED
      BY <3>1, <3>3
  <2>2. IsFiniteSet(G)
    BY <1>7
  <2> HIDE DEF ups, downs, G
  <2>3. IsFiniteSet(H)
    BY <2>2, ImageOf
  <2>4. Cardinality(H) = Cardinality(G)
    BY <2>1, <2>2, ImageSameSize
  <2> QED
    BY <2>3, <2>4
<1>12. H = {Up(i, j) : j \in G}
  OBVIOUS
<1> HIDE DEF H, ups, downs, F, G
<1>13. ASSUME i \notin F
       PROVE  now.score <= was.score /\ Cardinality(F) <= Cardinality(G)
  <2>1. PICK v \in On(V, s) : now.score = v.score
    BY <1>8
  <2>2. v.by # i
    BY <1>13 DEF F, FlaggedBy
  <2>3. PICK w \in W : v.symbol = w.symbol /\ v.score = w.score
    BY <1>3, <2>2 DEF On
  <2>4. w \in On(W, s)
    BY <2>3 DEF On
  <2>5. now.score <= was.score
    BY <1>8, <2>1, <2>3, <2>4
  <2>6. F \in SUBSET H
    BY <1>10, <1>13
  <2> QED
    BY <1>11, <2>5, <2>6, FS_Subset
<1>14. ASSUME i \in F
       PROVE  now.score >= was.score /\ Cardinality(F) > Cardinality(G)
  <2>1. PICK w \in On(W, s) : was.score = w.score
    BY <1>8
  <2>2. PICK v \in V : v.symbol = w.symbol /\ v.score = w.score
    BY <1>3 DEF On
  <2>3. v \in On(V, s)
    BY <2>2 DEF On
  <2>4. now.score >= was.score
    <3>1. v.score <= now.score
      BY <1>8, <2>3
    <3> QED
      BY <1>9, <2>1, <2>2, <3>1
  <2>5. i \notin H /\ H \cup {i} \in SUBSET F
    BY <1>10, <1>12, <1>14
  <2>6. Cardinality(H \cup {i}) = Cardinality(H) + 1
    BY <1>11, <2>5, FS_AddElement
  <2>7. Cardinality(H \cup {i}) <= Cardinality(F)
    BY <1>7, <2>5, FS_Subset
  <2> QED
    BY <1>7, <1>11, <2>4, <2>6, <2>7
<1> QED
  BY <1>4, <1>6, <1>13, <1>14 DEF V, W, now, was

\* The ranking of the ensemble, for any rows, any VIX, any fundamentals.
LEMMA NeverBehindOne ==
  ASSUME NEW X, NEW candles \in RowsOf(X), NEW known \in SUBSET (DOMAIN Figures), NEW vix,
         NEW names \in Seq(Scorable(X)), NEW i \in DOMAIN names
  PROVE  NeverBehind(RankAll(RemoveAt(names, i), candles, vix, known),
                     RankAll(names, candles, vix, known), i)
<1> DEFINE V == Verdicts(names, candles, vix, known)
           W == Verdicts(RemoveAt(names, i), candles, vix, known)
           all == Ranked(Merged(V), candles)
           fewer == Ranked(Merged(W), candles)
           were == ToSet(SymbolsOf(fewer))
           flagged == {s \in were : i \in all[Place(all, s)].flaggedBy}
           now(s) == Merge(On(V, s))
           was(s) == Merge(On(W, s))
<1>1. RemoveAt(names, i) \in Seq(Scorable(X))
  BY WithoutOne
<1>2. /\ Poll(V, {candles[k].symbol : k \in DOMAIN candles})
      /\ Poll(W, {candles[k].symbol : k \in DOMAIN candles})
  BY <1>1, VerdictsArePoll
<1> HIDE DEF V, W
<1>3. /\ \A s \in SymbolsIn(V) : all[Place(all, s)] = now(s)
      /\ \A s, t \in SymbolsIn(V) :
           Place(all, s) < Place(all, t) <=> Before(now(s), now(t), candles)
  BY <1>2, RankedIs
<1>4. /\ were = SymbolsIn(W)
      /\ \A s, t \in SymbolsIn(W) :
           Place(fewer, s) < Place(fewer, t) <=> Before(was(s), was(t), candles)
  BY <1>2, RankedIs
<1>5. ASSUME NEW s \in SymbolsIn(W)
      PROVE  /\ s \in SymbolsIn(V)
             /\ i \notin now(s).flaggedBy =>
                  /\ now(s).score <= was(s).score
                  /\ Cardinality(now(s).flaggedBy) <= Cardinality(was(s).flaggedBy)
             /\ i \in now(s).flaggedBy =>
                  /\ now(s).score >= was(s).score
                  /\ Cardinality(now(s).flaggedBy) > Cardinality(was(s).flaggedBy)
  BY MoreHelps DEF V, W
<1>6. ASSUME NEW s \in SymbolsIn(W)
      PROVE  /\ now(s).score \in Int /\ Cardinality(now(s).flaggedBy) \in Int
             /\ was(s).score \in Int /\ Cardinality(was(s).flaggedBy) \in Int
  <2>1. MergedOn(V, s) /\ MergedOn(W, s)
    BY <1>2, <1>5, MergeIs
  <2>2. now(s).flaggedBy = FlaggedBy(V, s) /\ was(s).flaggedBy = FlaggedBy(W, s)
    BY <2>1 DEF MergedOn
  <2>3. now(s).score \in Int /\ was(s).score \in Int
    BY <1>2, <2>1 DEF MergedOn, On, Poll
  <2> QED
    BY <1>2, <1>5, <2>2, <2>3, FlaggedByIs
<1> HIDE DEF now, was, all, fewer
<1>7. ASSUME NEW s \in flagged, NEW t \in were \ flagged, Place(fewer, s) < Place(fewer, t)
      PROVE  Place(all, s) < Place(all, t)
  <2>1. s \in SymbolsIn(W) /\ t \in SymbolsIn(W) /\ s \in SymbolsIn(V) /\ t \in SymbolsIn(V)
    BY <1>4, <1>5
  <2>2. i \in now(s).flaggedBy /\ i \notin now(t).flaggedBy
    BY <1>3, <2>1
  <2> DEFINE sNow == now(s).score
             sWas == was(s).score
             tNow == now(t).score
             tWas == was(t).score
             sCountNow == Cardinality(now(s).flaggedBy)
             sCountWas == Cardinality(was(s).flaggedBy)
             tCountNow == Cardinality(now(t).flaggedBy)
             tCountWas == Cardinality(was(t).flaggedBy)
  <2>3. /\ sNow \in Int /\ sWas \in Int /\ tNow \in Int /\ tWas \in Int
        /\ sCountNow \in Int /\ sCountWas \in Int /\ tCountNow \in Int /\ tCountWas \in Int
    BY <1>6, <2>1
  <2>4. sNow >= sWas /\ sCountNow > sCountWas /\ tNow <= tWas /\ tCountNow <= tCountWas
    BY <1>5, <2>1, <2>2
  <2>5. Before(was(s), was(t), candles)
    BY <1>4, <1>7, <2>1
  <2>6. Ahead(was(s), was(t)) \/ ~Ahead(was(t), was(s))
    BY <2>5 DEF Before
  <2>7. /\ Ahead(was(s), was(t)) <=> sWas > tWas \/ (sWas = tWas /\ sCountWas > tCountWas)
        /\ Ahead(was(t), was(s)) <=> tWas > sWas \/ (tWas = sWas /\ tCountWas > sCountWas)
        /\ Ahead(now(s), now(t)) <=> sNow > tNow \/ (sNow = tNow /\ sCountNow > tCountNow)
    BY DEF Ahead
  <2> HIDE DEF sNow, sWas, tNow, tWas, sCountNow, sCountWas, tCountNow, tCountWas
  <2>8. Ahead(now(s), now(t))
    BY <2>3, <2>4, <2>6, <2>7
  <2>9. Before(now(s), now(t), candles)
    BY <2>8 DEF Before
  <2> QED
    BY <1>3, <2>1, <2>9
<1>8. NeverBehind(fewer, all, i)
  BY <1>7 DEF NeverBehind, Place
<1> QED
  BY <1>8 DEF RankAll, fewer, all, V, W

-----------------------------------------------------------------------------
(* The candidates.                                                          *)

\* A list of candidates, each of them on one of the symbols.
Lists(seq, S) == \E T : seq \in Seq(T) /\ \A a \in T : a.symbol \in S

\* The symbols of such a list are a sequence of them, and finitely many.
LEMMA SymbolsOfList ==
  ASSUME NEW S, NEW seq, Lists(seq, S)
  PROVE  /\ SymbolsOf(seq) \in Seq(S) /\ Len(SymbolsOf(seq)) = Len(seq)
         /\ Len(seq) \in Nat
         /\ ToSet(SymbolsOf(seq)) \subseteq S /\ IsFiniteSet(ToSet(SymbolsOf(seq)))
<1>1. PICK T : seq \in Seq(T) /\ \A a \in T : a.symbol \in S
  BY DEF Lists
<1> DEFINE n == Len(seq)
           symbols == SymbolsOf(seq)
<1>2. n \in Nat /\ DOMAIN seq = 1..n /\ \A i \in 1..n : seq[i].symbol \in S
  BY <1>1
<1>3. symbols = [i \in 1..n |-> seq[i].symbol]
  BY <1>2 DEF SymbolsOf
<1> HIDE DEF n, symbols
<1>4. symbols \in [1..n -> S]
  BY <1>2, <1>3
<1>5. symbols \in Seq(S) /\ Len(symbols) = n /\ DOMAIN symbols = 1..n
  BY <1>2, <1>4
<1>6. ToSet(symbols) = {symbols[i] : i \in 1..n}
  BY <1>5 DEF ToSet
<1>7. IsFiniteSet(1..n)
  <2>1. 1 \in Int /\ n \in Int
    BY <1>2
  <2> QED
    BY <2>1, FS_Interval
<1>8. IsFiniteSet(ToSet(symbols))
  <2> DEFINE D == 1..n
  <2>1. IsFiniteSet(D) /\ ToSet(symbols) = {symbols[i] : i \in D}
    BY <1>6, <1>7
  <2> HIDE DEF D
  <2>2. IsFiniteSet({symbols[i] : i \in D})
    BY <2>1, ImageOf
  <2> QED
    BY <2>1, <2>2
<1>9. ToSet(symbols) \subseteq S
  BY <1>4, <1>6
<1> QED
  BY <1>2, <1>5, <1>8, <1>9 DEF n, symbols

\* What is cut is as long as the cut at most.
LEMMA CutIs ==
  ASSUME NEW S, NEW seq, Lists(seq, S), NEW n \in Nat
  PROVE  Lists(Cut(seq, n), S) /\ Len(Cut(seq, n)) <= n
<1>1. PICK T : seq \in Seq(T) /\ \A a \in T : a.symbol \in S
  BY DEF Lists
<1>2. Cut(seq, n) \in Seq(T) /\ Len(Cut(seq, n)) <= n
  <2>1. CASE Len(seq) > n
    <3>1. \A i \in 1..n : seq[i] \in T
      BY <1>1, <2>1
    <3>2. SubSeq(seq, 1, n) \in Seq(T) /\ Len(SubSeq(seq, 1, n)) = n
      BY <1>1, <2>1, <3>1
    <3> QED
      BY <2>1, <3>2 DEF Cut
  <2>2. CASE ~(Len(seq) > n)
    <3>1. Len(seq) \in Nat /\ Len(seq) <= n
      BY <1>1, <2>2
    <3> QED
      BY <1>1, <2>2, <3>1 DEF Cut
  <2> QED
    BY <2>1, <2>2
<1> QED
  BY <1>1, <1>2 DEF Lists

\* The sector cap only leaves candidates out.
LEMMA DiversifyIs ==
  ASSUME NEW S, NEW seq, Lists(seq, S)
  PROVE  Lists(Diversify(seq), S) /\ Len(Diversify(seq)) <= Len(seq)
<1>1. PICK T : seq \in Seq(T) /\ \A a \in T : a.symbol \in S
  BY DEF Lists
<1> DEFINE same(i, j) == /\ {seq[i].symbol, seq[j].symbol} \subseteq DOMAIN SectorOf
                         /\ SectorOf[seq[i].symbol] = SectorOf[seq[j].symbol]
           kept == {i \in DOMAIN seq : Cardinality({j \in 1 .. i - 1 : same(i, j)}) < MaxPerSector}
           n == Len(seq)
<1>2. Diversify(seq) = IF MaxPerSector = 0 \/ DOMAIN SectorOf = {} THEN seq ELSE Only(seq, kept)
  BY DEF Diversify
<1>3. kept \in SUBSET (DOMAIN seq)
  OBVIOUS
<1> HIDE DEF kept
<1>4. n \in Nat /\ DOMAIN seq = 1..n
  BY <1>1
<1>5. Only(seq, kept) \in Seq(T) /\ Len(Only(seq, kept)) = Cardinality(kept)
  BY <1>1, <1>3, OnlyIs
<1>6. IsFiniteSet(1..n) /\ Cardinality(1..n) = n
  <2>1. 1 \in Int /\ n \in Int
    BY <1>4
  <2>2. IsFiniteSet(1..n) /\ Cardinality(1..n) = IF 1 > n THEN 0 ELSE n - 1 + 1
    BY <2>1, FS_Interval
  <2> HIDE DEF n
  <2> QED
    BY <1>4, <2>2
<1>7. Cardinality(kept) <= n
  BY <1>3, <1>4, <1>6, FS_Subset
<1>8. Diversify(seq) \in Seq(T) /\ Len(Diversify(seq)) <= n
  BY <1>1, <1>2, <1>4, <1>5, <1>7
<1> QED
  BY <1>1, <1>8 DEF Lists

\* A strategy alone lists candidates.
LEMMA LoneScreenIs ==
  ASSUME NEW X, NEW candles \in RowsOf(X), NEW st \in Scorable(X)
  PROVE  /\ Lists(LoneScreen(st, candles), {candles[i].symbol : i \in DOMAIN candles})
         /\ Len(LoneScreen(st, candles)) <= MaxCandidates
<1> DEFINE S == {candles[i].symbol : i \in DOMAIN candles}
           flags == EvaluateAll(st, candles, NoFigure, {})
           entry(v) == [symbol |-> v.symbol, score |-> v.score, strategy |-> st, flaggedBy |-> {1}]
           f == [v \in flags |-> entry(v)]
           M == {entry(v) : v \in flags}
<1>1. IsFiniteSet(flags) /\ flags \subseteq [symbol : S, score : Int]
  <2>1. {} \in SUBSET (DOMAIN Figures)
    OBVIOUS
  <2> QED
    BY <2>1, EvaluateType DEF FlagsOf
<1>2. LoneScreen(st, candles) = Cut(Ranked(M, candles), MaxCandidates)
  BY DEF LoneScreen
<1>3. MaxCandidates \in Nat
  BY ScreeningAssumption
<1> HIDE DEF flags
<1>4. IsFiniteSet({1}) /\ {1} # {} /\ {1} \in SUBSET Int
  BY FS_Singleton
<1>5. Entries(M, candles)
  <2>1. IsFiniteSet(M)
    <3>1. M = {f[v] : v \in flags}
      OBVIOUS
    <3> HIDE DEF f, M, entry
    <3> QED
      BY <1>1, <3>1, ImageOf
  <2>2. \A a \in M : \E v \in flags : /\ a.symbol = v.symbol /\ a.score = v.score
                                      /\ a.flaggedBy = {1} /\ a = entry(v)
    OBVIOUS
  <2>3. \A v \in flags : v.score \in Int /\ \E i \in DOMAIN candles : candles[i].symbol = v.symbol
    BY <1>1
  <2>4. \A v, w \in flags : v.symbol = w.symbol /\ v.score = w.score => entry(v) = entry(w)
    OBVIOUS
  <2> HIDE DEF M, entry
  <2>a. \A a \in M : \E i \in DOMAIN candles : candles[i].symbol = a.symbol
    BY <2>2, <2>3
  <2>b. \A a \in M : a.score \in Int /\ a.flaggedBy = {1}
    BY <2>2, <2>3
  <2>c. \A a \in M : IsFiniteSet(a.flaggedBy) /\ a.flaggedBy # {} /\ a.flaggedBy \in SUBSET Int
    BY <1>4, <2>b
  <2>5. \A a \in M : /\ \E i \in DOMAIN candles : candles[i].symbol = a.symbol
                     /\ a.score \in Int
                     /\ IsFiniteSet(a.flaggedBy) /\ a.flaggedBy # {} /\ a.flaggedBy \in SUBSET Int
    BY <2>a, <2>b, <2>c
  <2>6. \A a, b \in M : a.symbol = b.symbol /\ a.score = b.score => a = b
    BY <2>2, <2>4
  <2> QED
    BY <2>1, <2>5, <2>6 DEF Entries
<1> HIDE DEF M, entry
<1>6. Ranked(M, candles) \in Seq(M)
  BY <1>5, RankingIs DEF Ranks
<1>7. \A a \in M : a.symbol \in S
  BY <1>5 DEF Entries
<1> HIDE DEF S
<1>8. Lists(Ranked(M, candles), S)
  BY <1>6, <1>7 DEF Lists
<1>9. Lists(LoneScreen(st, candles), S) /\ Len(LoneScreen(st, candles)) <= MaxCandidates
  BY <1>2, <1>3, <1>8, CutIs
<1> QED
  BY <1>9 DEF S

\* So does the ensemble.
LEMMA EnsembleScreenIs ==
  ASSUME NEW X, NEW candles \in RowsOf(X), NEW known \in SUBSET (DOMAIN Figures), NEW vix,
         NEW names \in Seq(Scorable(X))
  PROVE  /\ Lists(EnsembleScreen(names, candles, vix, known),
                  {candles[i].symbol : i \in DOMAIN candles})
         /\ Len(EnsembleScreen(names, candles, vix, known)) <= MaxCandidates
<1> DEFINE S == {candles[i].symbol : i \in DOMAIN candles}
           V == Verdicts(names, candles, vix, known)
           M == Merged(V)
           cut == Cut(RankAll(names, candles, vix, known), MaxCandidates)
           E == [symbol : S, score : {m.score : m \in M}, strategy : {m.strategy : m \in M},
                 flaggedBy : {m.flaggedBy : m \in M}]
<1>1. Poll(V, S)
  BY VerdictsArePoll
<1>2. RankAll(names, candles, vix, known) = Ranked(M, candles)
  BY DEF RankAll
<1>3. \A s \in S : \E i \in DOMAIN candles : candles[i].symbol = s
  OBVIOUS
<1>n. MaxCandidates \in Nat
  BY ScreeningAssumption
<1> HIDE DEF S, V
<1>4. Entries(M, candles) /\ M = {Merge(On(V, s)) : s \in SymbolsIn(V)}
  <2>1. /\ Entries(Merged(V), candles) /\ Merged(V) = {Merge(On(V, s)) : s \in SymbolsIn(V)}
        /\ \A s \in SymbolsIn(V) : Merge(On(V, s)).symbol = s
    BY <1>1, <1>3, MergedAreEntries
  <2> QED
    BY <2>1
<1>5. \A m \in M : /\ m.symbol \in S
                   /\ m = [symbol |-> m.symbol, score |-> m.score, strategy |-> m.strategy,
                           flaggedBy |-> m.flaggedBy]
  <2> SUFFICES ASSUME NEW s \in SymbolsIn(V)
               PROVE  LET m == Merge(On(V, s))
                      IN  /\ m.symbol \in S
                          /\ m = [symbol |-> m.symbol, score |-> m.score, strategy |-> m.strategy,
                                  flaggedBy |-> m.flaggedBy]
    BY <1>4
  <2>1. MergedOn(V, s)
    BY <1>1, MergeIs
  <2>2. s \in S
    BY <1>1 DEF SymbolsIn, Poll
  <2> DEFINE m == Merge(On(V, s))
  <2>3. m = [symbol |-> s, score |-> m.score, strategy |-> m.strategy,
             flaggedBy |-> FlaggedBy(V, s)]
    BY <2>1 DEF MergedOn
  <2> HIDE DEF m
  <2>4. m.symbol = s /\ m.flaggedBy = FlaggedBy(V, s)
    BY <2>3
  <2>5. m.symbol \in S /\ m = [symbol |-> m.symbol, score |-> m.score, strategy |-> m.strategy,
                               flaggedBy |-> m.flaggedBy]
    BY <2>2, <2>3, <2>4
  <2> QED
    BY <2>5 DEF m
<1>6. Ranked(M, candles) \in Seq(M)
  BY <1>4, RankingIs DEF Ranks
<1> HIDE DEF M
<1>7. \A m \in M : m \in E
  BY <1>5
<1>8. Ranked(M, candles) \in Seq(E)
  <2> DEFINE r == Ranked(M, candles)
  <2>1. r \in Seq(M)
    BY <1>6
  <2> HIDE DEF r, E
  <2>2. r \in Seq(E)
    BY <1>7, <2>1
  <2> QED
    BY <2>2 DEF r
<1>9. \A a \in E : a.symbol \in S
  OBVIOUS
<1>10. cut \in Seq(E) /\ Len(cut) <= MaxCandidates
  <2>1. Len(cut) <= MaxCandidates
    <3>1. Lists(Ranked(M, candles), S)
      BY <1>8, <1>9 DEF Lists
    <3> QED
      BY <1>2, <1>n, <3>1, CutIs
  <2> DEFINE r == Ranked(M, candles)
  <2> HIDE DEF E, r
  <2>2. r \in Seq(E)
    BY <1>8 DEF r
  <2>3. CASE Len(r) > MaxCandidates
    <3>1. \A i \in 1..MaxCandidates : r[i] \in E
      BY <1>n, <2>2, <2>3
    <3>2. SubSeq(r, 1, MaxCandidates) \in Seq(E)
      BY <1>n, <2>2, <2>3, <3>1
    <3> QED
      BY <1>2, <2>1, <2>3, <3>2 DEF Cut, r
  <2>4. CASE ~(Len(r) > MaxCandidates)
    BY <1>2, <2>1, <2>2, <2>4 DEF Cut, r
  <2> QED
    BY <2>3, <2>4
<1> DEFINE n == Len(cut)
           round == Rounded(cut)
           F == {[a EXCEPT !.score = RoundEven(@, 2)] : a \in E}
<1>11. EnsembleScreen(names, candles, vix, known) = round
  BY DEF EnsembleScreen
<1> HIDE DEF cut, E
<1>12. n \in Nat /\ DOMAIN cut = 1..n /\ \A i \in 1..n : cut[i] \in E
  BY <1>10
<1>13. \A b \in F : b.symbol \in S
  BY DEF E
<1>14. round = [i \in 1..n |-> [cut[i] EXCEPT !.score = RoundEven(@, 2)]]
  BY <1>12 DEF Rounded
<1>15. \A i \in 1..n : [cut[i] EXCEPT !.score = RoundEven(@, 2)] \in F
  BY <1>12
<1> HIDE DEF F, n, round
<1>16. round \in [1..n -> F]
  BY <1>14, <1>15
<1>17. round \in Seq(F) /\ Len(round) = n
  BY <1>12, <1>16
<1>18. Lists(round, S) /\ Len(round) <= MaxCandidates
  BY <1>10, <1>13, <1>17 DEF Lists, n
<1> QED
  BY <1>11, <1>18 DEF S

\* A screening lists no more candidates than it may, on symbols that have candles.
LEMMA ScreenUniverseIs ==
  ASSUME NEW X, NEW candles \in RowsOf(X), NEW known \in SUBSET (DOMAIN Figures), NEW vix,
         NEW names, Configured(names) \in Seq(Scorable(X))
  PROVE  /\ Lists(ScreenUniverse(names, candles, vix, known),
                  {candles[i].symbol : i \in DOMAIN candles})
         /\ Len(ScreenUniverse(names, candles, vix, known)) <= MaxCandidates
<1> DEFINE strats == Configured(names)
<1>1. strats \in Seq(Scorable(X))
  OBVIOUS
<1>2. ScreenUniverse(names, candles, vix, known)
        = IF Len(strats) = 1 /\ strats[1] \notin Injected
          THEN LoneScreen(strats[1], candles)
          ELSE EnsembleScreen(strats, candles, vix, known)
  BY DEF ScreenUniverse
<1> HIDE DEF strats
<1>3. CASE Len(strats) = 1 /\ strats[1] \notin Injected
  <2>1. strats[1] \in Scorable(X)
    BY <1>1, <1>3
  <2> QED
    BY <1>2, <1>3, <2>1, LoneScreenIs
<1>4. CASE ~(Len(strats) = 1 /\ strats[1] \notin Injected)
  BY <1>1, <1>2, <1>4, EnsembleScreenIs
<1> QED
  BY <1>3, <1>4

-----------------------------------------------------------------------------
(* What a backtest reads.                                                   *)

\* The closes of enough bars for the trend average.
Series == {series \in Seq(Price) : Len(series) >= TrendBars}
BtReadings == {ReadingOf(series) : series \in Series}

\* An average of prices is a price.
LEMMA MeanIs ==
  ASSUME NEW series \in Seq(Price), NEW n \in {2, 3}, Len(series) >= n
  PROVE  Mean(series, n) \in Price
<1> DEFINE k == Len(series)
           I == k - n + 1 .. k
           sum == SumFunctionOnSet(series, I)
<1>1. k \in Nat /\ \A i \in I : i \in 1..k
  OBVIOUS
<1>2. IsFiniteSet(I) /\ Cardinality(I) = n
  <2>1. k - n + 1 \in Int /\ k \in Int
    BY <1>1
  <2>2. IsFiniteSet(I) /\ Cardinality(I) = IF k - n + 1 > k THEN 0 ELSE k - (k - n + 1) + 1
    BY <2>1, FS_Interval
  <2> HIDE DEF k, I
  <2> QED
    BY <1>1, <2>2
<1>3. \A i \in I : series[i] \in Nat \ {0}
  BY <1>1 DEF Price
<1>4. Mean(series, n) = sum \div n
  BY DEF Mean
<1> HIDE DEF k, I
<1>5. sum = Total(series, I)
  BY <1>2, SumIs
<1>6. Total(series, I) \in Nat /\ Total(series, I) >= n
  BY <1>2, <1>3, TotalGrows
<1> HIDE DEF sum
<1>7. sum \in Nat /\ sum >= n
  BY <1>5, <1>6
<1>8. sum \div n \in Nat \ {0}
  <2>1. CASE n = 2
    BY <1>7, <2>1
  <2>2. CASE n = 3
    BY <1>7, <2>2
  <2> QED
    BY <2>1, <2>2
<1> QED
  BY <1>4, <1>8 DEF Price

\* The indicators of a long enough history.
LEMMA ReadingIs ==
  ASSUME NEW x \in BtReadings
  PROVE  /\ x.bars \in Nat /\ x.last \in Price /\ x.ma50 \in Price /\ x.trendMa \in Price
         /\ x.yearHigh \in Price /\ x.yearPosition \in Int /\ x.yearReturn \in Int
         /\ x.halfReturn \in Int /\ x.volumeRatio \in Int
<1>1. PICK series \in Seq(Price) : Len(series) >= TrendBars /\ x = ReadingOf(series)
  BY DEF BtReadings, Series
<1> DEFINE n == Len(series)
           year == {series[i] : i \in n - TrendBars + 1 .. n}
           high == Max(year)
           low == Min(year)
           position == IF high = low THEN 0
                       ELSE RoundEven(100 * (series[n] - low), high - low)
<1>2. n \in Nat /\ n >= 3 /\ \A i \in 1..n : series[i] \in Price
  BY <1>1 DEF TrendBars
<1>3. x = [bars |-> 100 * n, last |-> series[n],
           ma50 |-> Mean(series, 2), trendMa |-> Mean(series, TrendBars),
           yearHigh |-> high, yearPosition |-> position,
           yearReturn |-> ReturnOver(series, 2), halfReturn |-> ReturnOver(series, 1),
           volumeRatio |-> 200]
  BY <1>1, <1>2 DEF ReadingOf, TrendBars
<1>4. IsFiniteSet(year) /\ year \in SUBSET Price /\ year # {}
  <2> DEFINE I == n - TrendBars + 1 .. n
  <2>1. n - TrendBars + 1 \in Int /\ n \in Int
    BY <1>2 DEF TrendBars
  <2>2. IsFiniteSet(I)
    BY <2>1, FS_Interval
  <2>3. \A i \in I : i \in 1..n
    BY <1>2 DEF TrendBars
  <2>4. n \in I
    BY <1>2 DEF TrendBars
  <2> HIDE DEF I, n
  <2>5. IsFiniteSet({series[i] : i \in I})
    BY <2>2, ImageOf
  <2> QED
    BY <1>2, <2>3, <2>4, <2>5 DEF I
<1>5. high \in Price /\ low \in Price /\ high >= low
  <2> HIDE DEF year
  <2>1. year \in SUBSET Int
    BY <1>4 DEF Price
  <2>2. high \in year /\ low \in year /\ high >= low
    BY <1>4, <2>1, MaxIs, MinIs
  <2> QED
    BY <1>4, <2>2
<1>6. series[n] \in Price /\ series[n - 1] \in Price /\ series[n - 2] \in Price
  BY <1>2
<1>7. Mean(series, 2) \in Price /\ Mean(series, TrendBars) \in Price
  BY <1>2, MeanIs DEF TrendBars
<1> HIDE DEF year, high, low
<1>8. position \in Int
  <2>1. CASE high = low
    BY <2>1
  <2>2. CASE high # low
    <3>1. high - low \in Nat \ {0} /\ 100 * (series[n] - low) \in Int
      BY <1>5, <1>6, <2>2 DEF Price
    <3>2. RoundEven(100 * (series[n] - low), high - low) \in Int
      BY <3>1, RoundType
    <3> QED
      BY <2>2, <3>2
  <2> QED
    BY <2>1, <2>2
<1>9. ReturnOver(series, 2) \in Int /\ ReturnOver(series, 1) \in Int
  <2> DEFINE now == series[n]
             then1 == series[n - 1]
             then2 == series[n - 2]
  <2>1. ReturnOver(series, 2) = RoundEven(100 * (now - then2), then2)
        /\ ReturnOver(series, 1) = RoundEven(100 * (now - then1), then1)
    BY DEF ReturnOver
  <2> HIDE DEF now, then1, then2
  <2>2. now \in Nat \ {0} /\ then1 \in Nat \ {0} /\ then2 \in Nat \ {0}
    BY <1>6 DEF Price, now, then1, then2
  <2>3. 100 * (now - then1) \in Int /\ 100 * (now - then2) \in Int
    BY <2>2
  <2> QED
    BY <2>1, <2>2, <2>3, RoundType
<1> HIDE DEF position
<1>10. 100 * n \in Nat /\ 200 \in Int
  BY <1>2
<1> HIDE DEF n
<1> QED
  BY <1>3, <1>5, <1>6, <1>7, <1>8, <1>9, <1>10

\* A reading with the indicators a backtest does not have.
Completed(x) ==
  [bars |-> x.bars, last |-> x.last, ma50 |-> x.ma50, trendMa |-> x.trendMa,
   yearHigh |-> x.yearHigh, yearPosition |-> x.yearPosition, yearReturn |-> x.yearReturn,
   halfReturn |-> x.halfReturn, skipReturn |-> 0, upDays |-> 0, downDays |-> 0,
   smaFast |-> 0, smaSlow |-> 0, goldenCross |-> FALSE, rsi |-> 0,
   volumeRatio |-> x.volumeRatio, momentum |-> 0, monthPosition |-> 0,
   priorHigh |-> NoFigure, dailyVol |-> 0]

\* The readable strategies score what a backtest reads.
LEMMA ReadableScorable == Readable \subseteq Scorable(BtReadings)
<1>1. Readable \subseteq StrategyNames
  BY DEF Readable, StrategyNames, RequiredHistory
<1>2. ASSUME NEW st \in Readable, st \in PricesOnly \cup Fundamental,
             NEW x \in BtReadings, NEW vix, NEW f,
             st \in Fundamental => f \in Accounts, Gate(st, x, f, vix)
      PROVE  Score(st, x, f) \in Int
  <2>1. CASE st \in Fundamental
    BY <1>2, <2>1, AccountScoreType
  <2>2. CASE st \in {"dual_momentum", "canslim", "meb_faber"}
    <3> DEFINE y == Completed(x)
    <3>1. y \in Indicators
      BY ReadingIs DEF Completed, Indicators, Price
    <3>2. /\ y.last = x.last /\ y.ma50 = x.ma50 /\ y.trendMa = x.trendMa
          /\ y.yearHigh = x.yearHigh /\ y.yearPosition = x.yearPosition
          /\ y.yearReturn = x.yearReturn /\ y.volumeRatio = x.volumeRatio
      BY DEF Completed
    <3> HIDE DEF y
    <3>3. Gate(st, y, f, vix) /\ Score(st, y, f) = Score(st, x, f)
      <4>1. CASE st = "dual_momentum"
        BY <1>2, <3>2, <4>1 DEF Gate, Score, DualMomentumGate, DualMomentumScore
      <4>2. CASE st = "canslim"
        BY <1>2, <3>2, <4>2 DEF Gate, Score, CanSlimGate, CanSlimScore, TrendMargin
      <4>3. CASE st = "meb_faber"
        BY <1>2, <3>2, <4>3 DEF Gate, Score, MebFaberGate, MebFaberScore, TrendMargin
      <4> QED
        BY <2>2, <4>1, <4>2, <4>3
    <3>4. st \in PricesOnly
      BY <2>2 DEF PricesOnly
    <3>5. Score(st, y, f) \in Int
      BY <3>1, <3>3, <3>4, PriceScoreType
    <3> QED
      BY <3>3, <3>5
  <2> QED
    BY <1>2, <2>1, <2>2 DEF Readable, PricesOnly, Fundamental
<1>3. \A x \in BtReadings : x.halfReturn \in Int
  BY ReadingIs
<1>4. ASSUME NEW st \in Readable PROVE Scores(st, BtReadings)
  BY <1>2, <1>3 DEF Scores
<1> QED
  BY <1>1, <1>4 DEF Scorable

\* Every history of a world is at least as long as it.
LEMMA LengthIs ==
  ASSUME NEW w \in Worlds
  PROVE  /\ Length(w) \in Nat \ {0}
         /\ \A s \in DOMAIN w : w[s] \in Seq(Price) /\ Len(w[s]) >= Length(w)
<1> DEFINE D == DOMAIN w
           length(s) == Len(w[s])
           L == {length(s) : s \in D}
           f == [s \in D |-> length(s)]
<1>1. IsFiniteSet(D) /\ D # {} /\ \A s \in D : w[s] \in Seq(Price) \ {<<>>}
  BY WorldIs
<1>2. \A s \in D : length(s) \in Nat \ {0}
  BY <1>1
<1>3. Length(w) = Min(L)
  BY DEF Length
<1> HIDE DEF D, length
<1>4. L = {f[s] : s \in D}
  OBVIOUS
<1> HIDE DEF f
<1>5. IsFiniteSet({f[s] : s \in D})
  BY <1>1, ImageOf
<1>6. IsFiniteSet(L) /\ L # {} /\ L \in SUBSET Int /\ L \in SUBSET (Nat \ {0})
  <2>1. L \in SUBSET (Nat \ {0})
    BY <1>2
  <2>2. L # {}
    BY <1>1
  <2>3. IsFiniteSet(L)
    BY <1>4, <1>5
  <2> HIDE DEF L
  <2> QED
    BY <2>1, <2>2, <2>3
<1>7. \A s \in D : length(s) \in L
  OBVIOUS
<1> HIDE DEF L
<1>8. Min(L) \in L /\ \A x \in L : Min(L) <= x
  BY <1>6, MinIs
<1>9. \A s \in D : length(s) >= Min(L)
  BY <1>2, <1>6, <1>7, <1>8
<1> QED
  BY <1>1, <1>3, <1>6, <1>8, <1>9 DEF D, length

\* What the strategies read at a bar of a world.
LEMMA CandlesUpToIs ==
  ASSUME NEW w \in Worlds, NEW k \in TrendBars .. Length(w)
  PROVE  CandlesUpTo(w, k) \in RowsOf(BtReadings)
<1> DEFINE D == DOMAIN w
           cut(s) == SubSeq(Aligned(w)[s], 1, k)
           R == [symbol : Symbols, x : BtReadings]
           map == InMap(w)
<1>1. D \subseteq Symbols
  BY WorldIs
<1>2. Length(w) \in Nat /\ k \in Nat /\ k >= TrendBars /\ k <= Length(w)
  BY LengthIs DEF TrendBars
<1>3. ASSUME NEW s \in D PROVE cut(s) \in Series
  <2> DEFINE all == w[s]
             m == Len(all)
             from == m - Length(w) + 1
             al == SubSeq(all, from, m)
  <2>1. all \in Seq(Price) /\ m >= Length(w) /\ m \in Nat
    BY LengthIs
  <2>2. Aligned(w)[s] = al
    BY DEF Aligned
  <2>3. from \in 1..(m + 1)
    BY <1>2, <2>1
  <2> HIDE DEF all
  <2>4. al \in Seq(Price) /\ Len(al) = Length(w)
    BY <1>2, <2>1, <2>3
  <2> HIDE DEF al
  <2>5. SubSeq(al, 1, k) \in Seq(Price) /\ Len(SubSeq(al, 1, k)) = k
    BY <1>2, <2>4
  <2> QED
    BY <1>2, <2>2, <2>5 DEF Series
<1>4. ASSUME NEW s \in D PROVE ReadAt(w, s, k) \in R
  <2>1. ReadingOf(cut(s)) \in BtReadings
    BY <1>3 DEF BtReadings
  <2>2. ReadAt(w, s, k) = [symbol |-> s, x |-> ReadingOf(cut(s))]
    BY DEF ReadAt
  <2> HIDE DEF cut
  <2> QED
    BY <1>1, <2>1, <2>2
<1>5. map \in Seq(Symbols) /\ \A i \in DOMAIN map : map[i] \in D
  BY InMapIs
<1>6. CandlesUpTo(w, k) = [i \in DOMAIN map |-> ReadAt(w, map[i], k)]
  BY DEF CandlesUpTo
<1> HIDE DEF R, D, map
<1>7. \A i \in DOMAIN map : ReadAt(w, map[i], k) \in R
  BY <1>4, <1>5
<1>8. DOMAIN map = 1..Len(map) /\ Len(map) \in Nat
  BY <1>5
<1>9. [i \in DOMAIN map |-> ReadAt(w, map[i], k)] \in Seq(R)
  BY <1>7, <1>8
<1> QED
  BY <1>6, <1>9 DEF RowsOf, R

\* The strategies of the backtest score what it reads.
LEMMA NamesScorable == Configured(BtNames) \in Seq(Scorable(BtReadings))
<1> DEFINE I == {i \in DOMAIN BtNames : BtNames[i] \in StrategyNames}
           valid == Only(BtNames, I)
<1>1. BtNames \in Seq(Readable) /\ BtNames # <<>>
  BY BacktestAssumption
<1>2. Readable \subseteq StrategyNames
  BY DEF Readable, StrategyNames, RequiredHistory
<1>3. I = 1..Len(BtNames) /\ Len(BtNames) \in Nat \ {0}
  BY <1>1, <1>2
<1>4. I \in SUBSET (DOMAIN BtNames)
  OBVIOUS
<1> HIDE DEF I
<1>5. /\ valid \in Seq(Readable) /\ Len(valid) = Cardinality(I)
  BY <1>1, <1>4, OnlyIs
<1>6. Cardinality(I) = Len(BtNames)
  BY <1>3, FS_Interval
<1> HIDE DEF valid
<1>7. valid # <<>>
  BY <1>3, <1>5, <1>6
<1>8. valid \in Seq(Scorable(BtReadings))
  BY <1>5, ReadableScorable
<1> QED
  BY <1>7, <1>8 DEF Configured, valid, I

\* What is picked at a bar are finitely many symbols.
LEMMA PickedIs ==
  ASSUME NEW w \in Worlds, NEW vs, NEW k \in TrendBars .. Length(w)
  PROVE  IsFiniteSet(Picked(w, vs, k)) /\ Picked(w, vs, k) \subseteq Symbols
<1> DEFINE candles == CandlesUpTo(w, k)
           S == {candles[i].symbol : i \in DOMAIN candles}
           known == DOMAIN Figures
           vix == Now(vs)
           screened == ScreenUniverse(BtNames, candles, vix, known)
           kept == Diversify(screened)
           top == Cut(kept, TopN)
<1>1. candles \in RowsOf(BtReadings)
  BY CandlesUpToIs
<1>2. S \subseteq Symbols
  <2> HIDE DEF candles
  <2> DEFINE R == [symbol : Symbols, x : BtReadings]
  <2>a. candles \in Seq(R)
    BY <1>1 DEF RowsOf
  <2>b. \A r \in R : r.symbol \in Symbols
    OBVIOUS
  <2> HIDE DEF R
  <2>1. \A i \in DOMAIN candles : candles[i] \in R
    BY <2>a
  <2>2. \A i \in DOMAIN candles : candles[i].symbol \in Symbols
    BY <2>b, <2>1
  <2> QED
    BY <2>2
<1>3. Picked(w, vs, k) = ToSet(SymbolsOf(top))
  BY DEF Picked
<1> HIDE DEF candles, vix
<1>4. Lists(screened, S)
  BY <1>1, NamesScorable, ScreenUniverseIs
<1> HIDE DEF screened, S
<1>5. Lists(kept, S)
  BY <1>4, DiversifyIs
<1> HIDE DEF kept
<1>6. TopN \in Nat
  BY BacktestAssumption
<1>7. Lists(top, S)
  BY <1>5, <1>6, CutIs
<1> HIDE DEF top
<1>8. ToSet(SymbolsOf(top)) \subseteq S /\ IsFiniteSet(ToSet(SymbolsOf(top)))
  BY <1>7, SymbolsOfList
<1> QED
  BY <1>2, <1>3, <1>8

-----------------------------------------------------------------------------
(* A screening.                                                             *)

\* What is fetched, and what there is still to fetch, are symbols of the universe.
FetchInv ==
  /\ setting \in StrategySettings \cup {<<>>}
  /\ todo \in Seq(Symbols) /\ fetched \in Seq(Symbols)

LEMMA FetchInvariant == Spec => []FetchInv
<1>0. Universe \in Seq(Symbols) /\ <<>> \in Seq(Symbols)
  <2>1. <<>> \in Seq(Symbols)
    OBVIOUS
  <2> QED
    BY <2>1, PipelineAssumption
<1>1. Init => FetchInv
  BY <1>0 DEF Init, PassInit, PassIdle, NothingDone, FetchInv
<1>2. FetchInv /\ UNCHANGED <<setting, todo, fetched>> => FetchInv'
  BY DEF FetchInv
<1>3. FetchInv /\ [Next]_allVars => FetchInv'
  <2> SUFFICES ASSUME FetchInv, [Next]_allVars PROVE FetchInv'
    OBVIOUS
  <2>1. CASE UNCHANGED allVars
    BY <1>2, <2>1 DEF allVars, passVars
  <2>2. CASE CandlesOnly \/ BacktestOnly \/ TrackerOnly
    BY <1>2, <2>2 DEF CandlesOnly, BacktestOnly, TrackerOnly, passVars
  <2>3. CASE \/ Tick \/ LoopFindsClosed \/ LoopFindsOpen \/ StartFails \/ GatherContext \/ AskHiccup
             \/ AskRefused \/ AskMalformed \/ AskAnswered
    BY <1>2, <2>3 DEF Tick, LoopFindsClosed, LoopFindsOpen, StartFails, Starting, GatherContext, AskHiccup,
       AskRefused, AskMalformed, AskAnswered, worldVars, fetchVars
  <2>4. CASE \/ JobReport \/ SaveReport \/ SaveFails \/ AppendLedger \/ Dispatch \/ Notify
             \/ EndPass \/ Wake \/ HoldingsFetched \/ NoAccount
    BY <1>2, <2>4 DEF JobReport, SaveReport, SaveFails, AppendLedger, Dispatch, Notify,
       EndPass, Wake, HoldingsFetched, NoAccount, worldVars, fetchVars
  <2>5. CASE StartPicks
    BY <1>0, <2>5 DEF StartPicks, Starting, FetchInv, worldVars
  <2>6. CASE FetchCandles
    <3>1. Head(todo) \in Symbols /\ Tail(todo) \in Seq(Symbols)
      BY <2>6 DEF FetchCandles, FetchInv
    <3>2. Append(fetched, Head(todo)) \in Seq(Symbols)
      BY <3>1 DEF FetchInv
    <3> QED
      BY <2>6, <3>1, <3>2 DEF FetchCandles, FetchInv, worldVars
  <2>7. CASE Screen
    BY <1>0, <2>7 DEF Screen, FetchInv, worldVars
  <2> QED
    BY <2>1, <2>2, <2>3, <2>4, <2>5, <2>6, <2>7 DEF Next
<1> QED
  BY <1>1, <1>3, PTL DEF Spec

\* The configured strategies are strategies, whatever the setting names.
LEMMA ConfiguredType ==
  ASSUME NEW names \in Seq(STRING)
  PROVE  Configured(names) \in Seq(StrategyNames)
<1> DEFINE I == {i \in DOMAIN names : names[i] \in StrategyNames}
           valid == Only(names, I)
<1>1. I \in SUBSET (DOMAIN names)
  OBVIOUS
<1>2. \A i \in I : names[i] \in StrategyNames
  OBVIOUS
<1> HIDE DEF I
<1>3. /\ IsFiniteSet(I) /\ valid \in Seq(STRING) /\ Len(valid) = Cardinality(I)
      /\ \A k \in 1..Cardinality(I) : \E i \in I : valid[k] = names[i]
  BY <1>1, OnlyIs
<1> HIDE DEF valid
<1>4. valid \in Seq(StrategyNames)
  BY <1>2, <1>3
<1>5. <<"technical_swing">> \in Seq(StrategyNames)
  <2>1. "technical_swing" \in StrategyNames
    BY DEF StrategyNames, RequiredHistory
  <2> QED
    BY <2>1
<1> QED
  BY <1>4, <1>5 DEF Configured, valid, I

\* What a pass screens, and with which strategies.
LEMMA PassReads ==
  ASSUME FetchInv
  PROVE  /\ CandlesOf(fetched) \in RowsOf(Indicators)
         /\ Configured(setting) \in Seq(Scorable(Indicators))
<1> DEFINE R == [symbol : Symbols, x : Indicators]
<1>1. CandlesOf(fetched) \in RowsOf(Indicators)
  <2>1. fetched \in Seq(Symbols) /\ Reading \in [Symbols -> Indicators]
    BY PipelineAssumption DEF FetchInv
  <2>2. \A s \in Symbols : [symbol |-> s, x |-> Reading[s]] \in R
    BY <2>1
  <2> HIDE DEF R
  <2>3. [i \in DOMAIN fetched |-> [symbol |-> fetched[i], x |-> Reading[fetched[i]]]] \in Seq(R)
    BY <2>1, <2>2
  <2> QED
    BY <2>3 DEF CandlesOf, RowsOf, R
<1>2. Configured(setting) \in Seq(Scorable(Indicators))
  <2>1. <<>> \in Seq(STRING)
    OBVIOUS
  <2>2. setting \in Seq(STRING)
    BY <2>1, PipelineAssumption DEF FetchInv
  <2> QED
    BY <2>2, ConfiguredType, IndicatorsScorable
<1> QED
  BY <1>1, <1>2

\* SAFETY.  Agreement never hurts: a strategy that is added to STRATEGY and flags a
\* symbol never moves it behind one that it does not flag and that it was ahead of
\* (StrategyEnsemble._merge and its sort), for every universe, every reading of its
\* candles, all fundamentals and any list of strategies.
THEOREM AgreementHelps == Spec => []AgreementNeverHurts
<1>1. FetchInv => AgreementNeverHurts
  <2> SUFFICES ASSUME FetchInv
               PROVE  AgreementNeverHurts
    OBVIOUS
  <2> DEFINE names == Configured(setting)
             candles == CandlesOf(fetched)
  <2>1. candles \in RowsOf(Indicators) /\ names \in Seq(Scorable(Indicators))
    BY PassReads
  <2> HIDE DEF names, candles
  <2>3. ASSUME NEW vix \in VixReadings, NEW i \in DOMAIN names
        PROVE  NeverBehind(RankAll(RemoveAt(names, i), candles, vix, DOMAIN Figures),
                           RankAll(names, candles, vix, DOMAIN Figures), i)
    BY <2>1, NeverBehindOne
  <2> QED
    BY <2>3 DEF AgreementNeverHurts, names, candles
<1> QED
  BY <1>1, FetchInvariant, PTL

-----------------------------------------------------------------------------
(* The books of a backtest.                                                 *)

\* Weights in whole twelfths, of finitely many symbols.
Weighed(w) ==
  /\ IsFiniteSet(DOMAIN w) /\ DOMAIN w \subseteq Symbols
  /\ \A s \in DOMAIN w : w[s] \in Int

WeightsAt(rs, i) == IF i = 0 THEN <<>> ELSE rs[i].weights
Trades(rs) == [i \in DOMAIN rs |-> Turnover(WeightsAt(rs, i - 1), WeightsAt(rs, i))]

\* Turnover is a number, and holding on to everything is none.
LEMMA TurnoverIs ==
  ASSUME NEW a, NEW b, Weighed(a), Weighed(b)
  PROVE  Turnover(a, b) \in Int /\ Turnover(a, a) = 0
<1> DEFINE moved(from, to, s) == LET d == WeightOf(to, s) - WeightOf(from, s)
                                 IN  IF d < 0 THEN -d ELSE d
           D(from, to) == DOMAIN from \cup DOMAIN to
           f(from, to) == [s \in D(from, to) |-> moved(from, to, s)]
<1>1. \A from, to : Turnover(from, to) = SumFunction(f(from, to))
  BY DEF Turnover
<1>2. \A s : WeightOf(a, s) \in Int /\ WeightOf(b, s) \in Int
  BY DEF Weighed, WeightOf
<1>3. \A s : moved(a, b, s) \in Int /\ moved(a, a, s) = 0
  BY <1>2
<1>4. IsFiniteSet(D(a, b)) /\ IsFiniteSet(D(a, a))
  BY FS_Union DEF Weighed
<1> HIDE DEF moved, D
<1>5. SumFunction(f(a, b)) \in Int
  <2> DEFINE g == f(a, b)
             S == D(a, b)
  <2>1. DOMAIN g = S /\ \A s \in S : g[s] \in Int
    BY <1>3
  <2> HIDE DEF g, S
  <2>2. SumFunction(g) = Total(g, S)
    BY <1>4, <2>1, SumOfAll DEF S
  <2>3. Total(g, S) \in Int
    BY <1>4, <2>1, TotalIs DEF S
  <2> QED
    BY <2>2, <2>3 DEF g
<1>6. SumFunction(f(a, a)) = 0
  <2> DEFINE g == f(a, a)
             S == D(a, a)
  <2>1. DOMAIN g = S /\ \A s \in S : g[s] = 0
    BY <1>3
  <2> HIDE DEF g, S
  <2>2. SumFunction(g) = Total(g, S)
    BY <1>4, <2>1, SumOfAll DEF S
  <2>3. Total(g, S) = 0
    BY <1>4, <2>1, TotalOfNothing DEF S
  <2> QED
    BY <2>2, <2>3 DEF g
<1> QED
  BY <1>1, <1>5, <1>6

\* Equal weights are whole twelfths.
LEMMA EqualWeightsAre ==
  ASSUME NEW held \in SUBSET Symbols, IsFiniteSet(held)
  PROVE  Weighed(EqualWeights(held))
<1> DEFINE n == Cardinality(held)
           share == WUnit \div n
<1>1. n \in Nat /\ (held # {} => n # 0)
  BY FS_CardinalityType, FS_EmptySet
<1>2. EqualWeights(held) = [s \in held |-> share]
  BY DEF EqualWeights
<1> HIDE DEF n
<1>3. held # {} => share \in Int
  BY <1>1 DEF WUnit
<1> HIDE DEF share
<1> QED
  BY <1>2, <1>3 DEF Weighed

\* A trade more.
LEMMA TradesGrow ==
  ASSUME NEW S, NEW rs \in Seq(S), NEW r
  PROVE  Trades(Append(rs, r)) = Append(Trades(rs), Turnover(WeightsAt(rs, Len(rs)), r.weights))
         /\ Len(Trades(rs)) = Len(rs)
<1> DEFINE m == Len(rs)
           longer == Append(rs, r)
           trade == Turnover(WeightsAt(rs, m), r.weights)
           was == Trades(rs)
           is == Trades(longer)
<1>1. m \in Nat /\ DOMAIN rs = 1..m /\ DOMAIN longer = 1..(m + 1)
      /\ longer[m + 1] = r /\ \A i \in 1..m : longer[i] = rs[i]
  OBVIOUS
<1>2. \A i \in 0..m : WeightsAt(longer, i) = WeightsAt(rs, i)
  BY <1>1 DEF WeightsAt
<1>3. WeightsAt(longer, m + 1) = r.weights
  BY <1>1 DEF WeightsAt
<1> HIDE DEF longer, m
<1>4. is = [i \in 1..(m + 1) |-> Turnover(WeightsAt(longer, i - 1), WeightsAt(longer, i))]
  BY <1>1 DEF Trades
<1>5. was = [i \in 1..m |-> Turnover(WeightsAt(rs, i - 1), WeightsAt(rs, i))]
  BY <1>1 DEF Trades
<1>6. \A i \in 1..m : is[i] = was[i]
  <2> TAKE i \in 1..m
  <2>1. i \in 1..(m + 1) /\ i \in 0..m /\ i - 1 \in 0..m
    BY <1>1
  <2>2. WeightsAt(longer, i - 1) = WeightsAt(rs, i - 1) /\ WeightsAt(longer, i) = WeightsAt(rs, i)
    BY <1>2, <2>1
  <2> QED
    BY <1>4, <1>5, <2>1, <2>2
<1>7. is[m + 1] = trade
  <2>1. m + 1 \in 1..(m + 1) /\ (m + 1) - 1 = m /\ m \in 0..m
    BY <1>1
  <2>2. is[m + 1] = Turnover(WeightsAt(longer, (m + 1) - 1), WeightsAt(longer, m + 1))
    BY <1>4, <2>1
  <2> QED
    BY <1>2, <1>3, <2>1, <2>2
<1>8. DOMAIN is = 1..(m + 1) /\ DOMAIN was = 1..m /\ is = [i \in 1..(m + 1) |-> is[i]]
      /\ was = [i \in 1..m |-> was[i]]
  BY <1>4, <1>5
<1> HIDE DEF is, was, trade
<1>9. Len(was) = m /\ was \in Seq({was[i] : i \in 1..m})
  BY <1>1, <1>8
<1>10. is = Append(was, trade)
  <2> DEFINE R == {was[i] : i \in 1..m} \cup {trade}
             app == Append(was, trade)
  <2>1. was \in Seq(R) /\ trade \in R
    <3>1. \A i \in 1..m : was[i] \in R
      OBVIOUS
    <3> HIDE DEF R
    <3>2. was \in [1..m -> R]
      BY <1>8, <3>1
    <3> QED
      BY <1>1, <3>2 DEF R
  <2> HIDE DEF R
  <2>2. app \in Seq(R) /\ Len(app) = m + 1 /\ app[m + 1] = trade
        /\ \A i \in 1..m : app[i] = was[i]
    BY <1>1, <1>9, <2>1
  <2> HIDE DEF app
  <2>3. app = [i \in 1..(m + 1) |-> app[i]]
    BY <2>2
  <2>4. \A i \in 1..(m + 1) : i = m + 1 \/ i \in 1..m
    BY <1>1
  <2>5. \A i \in 1..(m + 1) : is[i] = app[i]
    BY <1>6, <1>7, <2>2, <2>4
  <2>6. is = app
    BY <1>8, <2>3, <2>5
  <2> QED
    BY <2>6 DEF app
<1> QED
  BY <1>9, <1>10 DEF is, was, trade, longer, m

BooksInv ==
  /\ history \in Worlds \cup {<<>>}
  /\ bar > 0 => history \in Worlds /\ bar \in TrendBars .. Length(history)
  /\ pendingCost = 0 /\ benchPending \in Int
  /\ charged \in Seq(Int) /\ benchCharged \in Seq(Int)
  /\ weights = WeightsAt(rebalances, Len(rebalances))
  /\ Weighed(weights)
  /\ Trades(rebalances) \in Seq(Int)
  /\ SumFunction(charged) = SumFunction(Trades(rebalances))
  /\ history # <<>> => SumFunction(benchCharged) + benchPending = 1

\* A bar of the walk: what is traded at it is charged at it.
LEMMA StepCharges ==
  ASSUME BacktestInv, BooksInv, Step
  PROVE  BooksInv'
<1> DEFINE m == Len(rebalances)
           new == [bar |-> bar, weights |-> weights']
           traded == Trades(rebalances)
           trade == Turnover(weights, weights')
<1>1. /\ bar > 0 /\ UNCHANGED history
      /\ weights' = IF Rebalance THEN EqualWeights(Picked(history, vixes, bar)) ELSE weights
      /\ rebalances' = IF Rebalance THEN Append(rebalances, new) ELSE rebalances
      /\ charged' = Append(charged, pendingCost + trade)
      /\ benchCharged' = Append(benchCharged, benchPending)
      /\ pendingCost' = 0 /\ benchPending' = 0
      /\ bar' = IF bar + 1 < Length(history) THEN bar + 1 ELSE 0
  BY DEF Step
<1>2. history \in Worlds /\ bar \in TrendBars .. Length(history)
      /\ pendingCost = 0 /\ benchPending \in Int /\ charged \in Seq(Int) /\ benchCharged \in Seq(Int)
      /\ weights = WeightsAt(rebalances, m) /\ Weighed(weights) /\ traded \in Seq(Int)
      /\ SumFunction(charged) = SumFunction(traded)
      /\ (history # <<>> => SumFunction(benchCharged) + benchPending = 1)
  BY <1>1 DEF BooksInv
<1>3. Length(history) \in Nat
  BY <1>2, LengthIs
<1>4. rebalances \in Seq(ToSet(rebalances)) /\ m \in Nat
  <2>1. rebalances \in Seq(ToSet(rebalances))
    BY DEF BacktestInv, BacktestTypes
  <2> QED
    BY <2>1
<1>5. Weighed(weights')
  <2>1. CASE Rebalance
    <3>1. IsFiniteSet(Picked(history, vixes, bar)) /\ Picked(history, vixes, bar) \subseteq Symbols
      BY <1>2, PickedIs
    <3>2. Picked(history, vixes, bar) \in SUBSET Symbols
      BY <3>1
    <3>3. Weighed(EqualWeights(Picked(history, vixes, bar)))
      BY <3>1, <3>2, EqualWeightsAre
    <3> QED
      BY <1>1, <2>1, <3>3
  <2>2. CASE ~Rebalance
    BY <1>1, <1>2, <2>2
  <2> QED
    BY <2>1, <2>2
<1>6. bar' > 0 => bar' \in TrendBars .. Length(history)
  BY <1>1, <1>2, <1>3 DEF TrendBars
<1>7. trade \in Int /\ (weights' = weights => trade = 0)
  BY <1>2, <1>5, TurnoverIs
<1> HIDE DEF trade
<1>8. charged' \in Seq(Int) /\ SumFunction(charged') = SumFunction(charged) + trade
  <2>1. pendingCost + trade = trade
    BY <1>2, <1>7
  <2> QED
    BY <1>1, <1>2, <1>7, <2>1, SumOfAppend
<1>9. benchCharged' \in Seq(Int)
      /\ SumFunction(benchCharged') = SumFunction(benchCharged) + benchPending
      /\ SumFunction(benchCharged) \in Int
  BY <1>1, <1>2, SumOfAppend
<1>10. history # <<>> => SumFunction(benchCharged') + benchPending' = 1
  BY <1>1, <1>2, <1>9
<1>11. /\ weights' = WeightsAt(rebalances', Len(rebalances'))
       /\ Trades(rebalances') \in Seq(Int)
       /\ SumFunction(charged') = SumFunction(Trades(rebalances'))
  <2>1. CASE Rebalance
    <3>1. rebalances' = Append(rebalances, new) /\ new.weights = weights'
      BY <1>1, <2>1
    <3> HIDE DEF new
    <3>2. Len(rebalances') = m + 1 /\ rebalances'[m + 1] = new
      BY <1>4, <3>1
    <3>3. weights' = WeightsAt(rebalances', m + 1)
      BY <1>4, <3>1, <3>2 DEF WeightsAt
    <3>4. Trades(rebalances') = Append(traded, Turnover(WeightsAt(rebalances, m), new.weights))
      BY <1>4, <3>1, TradesGrow
    <3>5. Trades(rebalances') = Append(traded, trade)
      BY <1>2, <3>1, <3>4 DEF trade
    <3> HIDE DEF traded, m
    <3>6. Trades(rebalances') \in Seq(Int)
          /\ SumFunction(Trades(rebalances')) = SumFunction(traded) + trade
      BY <1>2, <1>7, <3>5, SumOfAppend
    <3> QED
      BY <1>2, <1>8, <3>2, <3>3, <3>6
  <2>2. CASE ~Rebalance
    <3>1. weights' = weights /\ rebalances' = rebalances /\ trade = 0
      BY <1>1, <1>7, <2>2
    <3>2. SumFunction(charged) \in Int
      BY <1>2, <1>7, SumOfAppend
    <3>3. SumFunction(charged') = SumFunction(charged)
      BY <1>8, <3>1, <3>2
    <3> QED
      BY <1>2, <3>1, <3>3
  <2> QED
    BY <2>1, <2>2
<1> QED
  BY <1>1, <1>2, <1>5, <1>6, <1>8, <1>9, <1>10, <1>11 DEF BooksInv

\* Every step of every process keeps the books.
LEMMA BooksInvariant == Spec => []BooksInv
<1>1. Init => BooksInv
  <2> SUFFICES ASSUME Init PROVE BooksInv
    OBVIOUS
  <2> DEFINE none == <<>>
  <2>1. Len(none) = 0 /\ none \in Seq(Int) /\ DOMAIN none = {} /\ none = <<>>
    OBVIOUS
  <2>2. /\ rebalances = none /\ weights = none /\ charged = none /\ benchCharged = none
        /\ pendingCost = 0
    BY DEF Init, BacktestIdle, BacktestInit, Books
  <2>3. \/ history = none /\ bar = 0 /\ benchPending = 0
        \/ /\ history \in Worlds /\ benchPending = 1
           /\ bar = IF Length(history) > FirstBar THEN FirstBar ELSE 0
    BY DEF Init, BacktestIdle, BacktestInit
  <2> HIDE DEF none
  <2>4. bar > 0 => history \in Worlds /\ bar \in TrendBars .. Length(history)
    <3>1. history \in Worlds => Length(history) \in Nat
      BY LengthIs
    <3> QED
      BY <2>3, <3>1 DEF FirstBar, TrendBars
  <2>5. weights = WeightsAt(rebalances, Len(rebalances))
    BY <2>1, <2>2 DEF WeightsAt
  <2>6. Weighed(weights)
    BY <2>1, <2>2, FS_EmptySet DEF Weighed
  <2>7. Trades(rebalances) = none
    BY <2>1, <2>2 DEF Trades
  <2>8. SumFunction(none) = 0
    BY <2>1, SumOfNone
  <2>9. /\ charged \in Seq(Int) /\ benchCharged \in Seq(Int) /\ Trades(rebalances) \in Seq(Int)
        /\ SumFunction(charged) = SumFunction(Trades(rebalances))
        /\ SumFunction(benchCharged) = 0
    BY <2>1, <2>2, <2>7, <2>8
  <2>10. history \in Worlds \cup {<<>>} /\ benchPending \in Int
         /\ (history # <<>> => SumFunction(benchCharged) + benchPending = 1)
    BY <2>1, <2>3, <2>9
  <2> QED
    BY <2>2, <2>4, <2>5, <2>6, <2>9, <2>10 DEF BooksInv
<1>2. BooksInv /\ UNCHANGED backtestVars => BooksInv'
  BY DEF backtestVars, BooksInv
<1>3. BacktestInv /\ BooksInv /\ [Next]_allVars => BooksInv'
  <2> SUFFICES ASSUME BacktestInv, BooksInv, [Next]_allVars PROVE BooksInv'
    OBVIOUS
  <2>1. CASE UNCHANGED allVars
    BY <1>2, <2>1 DEF allVars
  <2>2. CASE PassOnly \/ CandlesOnly \/ TrackerOnly
    BY <1>2, <2>2 DEF PassOnly, CandlesOnly, TrackerOnly
  <2>3. CASE Step
    BY <2>3, StepCharges
  <2> QED
    BY <2>1, <2>2, <2>3 DEF Next
<1> QED
  BY <1>1, <1>3, BacktestInvariant, PTL DEF Spec

\* SAFETY.  Every unit of weight traded is charged once: what was charged and what
\* is pending is the turnover of the rebalances so far, however many bars they are
\* apart, and the benchmark pays one purchase, for every world, strategy, number of
\* holdings and rebalancing period (walk_forward_backtest).
THEOREM ChargedOnce == Spec => []CostsChargedOnce
<1>1. BooksInv => CostsChargedOnce
  <2> SUFFICES ASSUME BooksInv PROVE CostsChargedOnce
    OBVIOUS
  <2>1. SumFunction(charged) = SumFunction(Trades(rebalances)) /\ pendingCost = 0
        /\ charged \in Seq(Int)
        /\ (history # <<>> => SumFunction(benchCharged) + benchPending = 1)
    BY DEF BooksInv
  <2>2. SumFunction(charged) \in Int
    <3>1. 0 \in Int
      OBVIOUS
    <3> QED
      BY <2>1, <3>1, SumOfAppend
  <2>3. SumFunction(charged) + pendingCost = SumFunction(Trades(rebalances))
    BY <2>1, <2>2
  <2>4. Trades(rebalances)
          = [i \in DOMAIN rebalances |->
               Turnover(IF i - 1 = 0 THEN <<>> ELSE rebalances[i - 1].weights,
                        IF i = 0 THEN <<>> ELSE rebalances[i].weights)]
    BY DEF Trades, WeightsAt
  <2> QED
    BY <2>1, <2>3, <2>4 DEF CostsChargedOnce
<1> QED
  BY <1>1, BooksInvariant, PTL

-----------------------------------------------------------------------------
(* A saved report.                                                          *)

\* Rounding moves a ratio by a half at most.
LEMMA RoundNear ==
  ASSUME NEW a \in Int, NEW b \in Nat \ {0}
  PROVE  /\ 2 * (b * RoundEven(a, b)) - 2 * a <= b
         /\ 2 * a - 2 * (b * RoundEven(a, b)) <= b
<1> DEFINE q == a \div b
           r == a % b
           p == b * q
<1>1. q \in Int /\ r \in 0..(b - 1) /\ a = p + r
  OBVIOUS
<1>2. RoundEven(a, b) = q \/ RoundEven(a, b) = q + 1
  BY DEF RoundEven
<1>3. RoundEven(a, b) = q + 1 => 2 * r >= b
  BY <1>1 DEF RoundEven
<1>4. RoundEven(a, b) = q => 2 * r <= b
  BY <1>1 DEF RoundEven
<1> HIDE DEF q, r
<1>5. b * (q + 1) = p + b /\ p \in Int
  BY <1>1
<1>6. CASE RoundEven(a, b) = q
  <2>1. b * RoundEven(a, b) = p
    BY <1>6
  <2> HIDE DEF p
  <2> QED
    BY <1>1, <1>4, <1>5, <1>6, <2>1
<1>7. CASE RoundEven(a, b) = q + 1
  <2>1. b * RoundEven(a, b) = p + b
    BY <1>5, <1>7
  <2> HIDE DEF p
  <2> QED
    BY <1>1, <1>3, <1>5, <1>7, <2>1
<1> QED
  BY <1>2, <1>6, <1>7

\* Shares of a whole that are rounded one by one miss it by half a unit each at most.
LEMMA RoundedShares ==
  ASSUME NEW S, IsFiniteSet(S), S # {}, NEW w, \A x \in S : w[x] \in Nat \ {0},
         NEW whole \in Nat,
         NEW r, \A x \in S : r[x] = RoundEven(w[x] * whole, Total(w, S))
  PROVE  /\ Total(r, S) \in Int
         /\ 2 * (Total(r, S) - whole) <= Cardinality(S)
         /\ 2 * (whole - Total(r, S)) <= Cardinality(S)
<1> DEFINE t == Total(w, S)
           n == Cardinality(S)
           miss(s) == 2 * (t * Total(r, s)) - 2 * (whole * Total(w, s))
           P == {s \in SUBSET S : /\ Total(r, s) \in Int /\ Total(w, s) \in Int
                                  /\ miss(s) <= t * Cardinality(s)
                                  /\ -miss(s) <= t * Cardinality(s)}
<1>1. n \in Nat \ {0} /\ t \in Nat \ {0}
  <2>1. n \in Nat \ {0}
    BY FS_CardinalityType, FS_EmptySet
  <2>2. t \in Nat /\ t >= n
    BY TotalGrows
  <2> HIDE DEF t, n
  <2> QED
    BY <2>1, <2>2
<1>2. \A x \in S : r[x] = RoundEven(w[x] * whole, t)
  OBVIOUS
<1> HIDE DEF t
<1>3. {} \in P
  <2>1. Total(r, {}) = 0 /\ Total(w, {}) = 0 /\ Cardinality({}) = 0
    BY TotalOfNothing, FS_EmptySet
  <2>2. miss({}) = 0 /\ t * Cardinality({}) = 0
    BY <1>1, <2>1
  <2> QED
    BY <2>1, <2>2
<1>4. ASSUME NEW s \in SUBSET S, s # {}, \A x \in s : s \ {x} \in P PROVE s \in P
  <2>1. PICK y : y \in s
    BY <1>4
  <2> DEFINE rest == s \ {y}
             R == Total(r, rest)
             W == Total(w, rest)
             c == Cardinality(rest)
             e == r[y]
             v == w[y]
  <2>2. IsFiniteSet(s) /\ Cardinality(s) = c + 1 /\ c \in Nat
    <3>1. IsFiniteSet(s) /\ IsFiniteSet(rest)
      BY FS_Subset
    <3>2. c = Cardinality(s) - 1
      BY <2>1, <3>1, FS_RemoveElement
    <3>3. Cardinality(s) \in Nat /\ c \in Nat
      BY <3>1, FS_CardinalityType
    <3> QED
      BY <3>1, <3>2, <3>3
  <2>3. \A x \in s : w[x] \in Int /\ r[x] \in Int
    <3>1. ASSUME NEW x \in s PROVE w[x] \in Int /\ r[x] \in Int
      <4>1. w[x] * whole \in Int /\ w[x] \in Int
        OBVIOUS
      <4> QED
        BY <1>1, <1>2, <4>1, RoundType
    <3> QED
      BY <3>1
  <2>4. Total(r, s) = e + R /\ Total(w, s) = v + W
    BY <2>1, <2>2, <2>3, TotalIs
  <2>5. R \in Int /\ W \in Int /\ miss(rest) <= t * c /\ -miss(rest) <= t * c
    BY <1>4, <2>1
  <2>6. v \in Nat /\ e \in Int /\ e = RoundEven(v * whole, t)
    BY <1>2, <2>1, <2>3
  <2> HIDE DEF rest, e, v, c
  <2>7. 2 * (t * e) - 2 * (v * whole) <= t /\ 2 * (v * whole) - 2 * (t * e) <= t
    <3>1. v * whole \in Int
      BY <2>6
    <3> QED
      BY <1>1, <2>6, <3>1, RoundNear
  <2> DEFINE tR == t * R
             wW == whole * W
             te == t * e
             vw == v * whole
             tc == t * c
  <2>8. tR \in Int /\ wW \in Int /\ te \in Int /\ vw \in Int /\ tc \in Int /\ t \in Int
    BY <1>1, <2>2, <2>5, <2>6
  <2>9. miss(rest) = 2 * tR - 2 * wW
    OBVIOUS
  <2>10. t * (e + R) = te + tR
    BY <1>1, <2>5, <2>6
  <2>11. whole * (v + W) = vw + wW
    BY <2>5, <2>6
  <2>12. t * (c + 1) = tc + t
    BY <1>1, <2>2
  <2>13. miss(s) = 2 * (te + tR) - 2 * (vw + wW) /\ t * Cardinality(s) = tc + t
    BY <2>2, <2>4, <2>10, <2>11, <2>12
  <2>14. 2 * te - 2 * vw <= t /\ 2 * vw - 2 * te <= t
    BY <2>7
  <2>15. 2 * tR - 2 * wW <= tc /\ -(2 * tR - 2 * wW) <= tc
    BY <2>5, <2>9
  <2>16. Total(r, s) \in Int /\ Total(w, s) \in Int
    BY <2>4, <2>5, <2>6
  <2> HIDE DEF tR, wW, te, vw, tc, miss
  <2>17. miss(s) <= t * Cardinality(s) /\ -miss(s) <= t * Cardinality(s)
    BY <2>8, <2>13, <2>14, <2>15
  <2> QED
    BY <2>16, <2>17
<1> HIDE DEF P
<1>5. S \in P
  BY <1>3, <1>4, SubsetInduction
<1> DEFINE sum == Total(r, S)
<1>6. sum \in Int /\ miss(S) <= t * n /\ -miss(S) <= t * n
  BY <1>5 DEF P
<1>7. miss(S) = 2 * (t * sum) - 2 * (whole * t)
  BY DEF t
<1> HIDE DEF sum, n, miss
<1>8. t * (2 * (sum - whole)) = miss(S) /\ t * (2 * (whole - sum)) = -miss(S)
  <2>1. t * (2 * (sum - whole)) = 2 * (t * sum) - 2 * (whole * t)
    BY <1>1, <1>6
  <2>2. t * (2 * (whole - sum)) = 2 * (whole * t) - 2 * (t * sum)
    BY <1>1, <1>6
  <2>3. t * sum \in Int /\ whole * t \in Int
    BY <1>1, <1>6
  <2> QED
    BY <1>7, <2>1, <2>2, <2>3
<1>9. 2 * (sum - whole) \in Int /\ 2 * (whole - sum) \in Int /\ n \in Int
  BY <1>1, <1>6
<1>10. 2 * (sum - whole) <= n
  BY <1>1, <1>6, <1>8, <1>9, Cancels
<1>11. 2 * (whole - sum) <= n
  BY <1>1, <1>6, <1>8, <1>9, Cancels
<1> QED
  BY <1>6, <1>10, <1>11 DEF sum, n

\* The suggested weights are of the candidates, and make one up to the rounding of
\* each.
LEMMA WeightsAddUp ==
  ASSUME NEW symbols \in Seq(Symbols), NEW W, W = InverseVolWeights(CandlesOf(symbols))
  PROVE  LET sum == SumFunction([w \in W |-> w.weight])
             gap == IF sum > Unit THEN sum - Unit ELSE Unit - sum
         IN  /\ {w.symbol : w \in W} \subseteq ToSet(symbols)
             /\ W # {} => 2 * gap <= Cardinality(W)
<1> DEFINE candles == CandlesOf(symbols)
           usable == {c \in ToSet(candles) :
                        c.x.bars >= RiskParityLookback + 1 /\ c.x.dailyVol > 0}
           vol == [c \in usable |-> c.x.dailyVol]
           others == [c \in usable |-> Product(vol, usable \ {c})]
           all == SumFunction(others)
           share == [c \in usable |-> RoundEven(others[c] * Unit, all)]
           entry(c) == [symbol |-> c.symbol, weight |-> share[c]]
           row == [s \in Symbols |-> [symbol |-> s, x |-> Reading[s]]]
           back == [w \in {entry(c) : c \in usable} |-> row[w.symbol]]
           weight == [w \in W |-> w.weight]
           sum == SumFunction(weight)
<1>1. W = {entry(c) : c \in usable}
  <2>1. W = {[symbol |-> c.symbol, weight |-> RoundEven(others[c] * Unit, all)] : c \in usable}
    BY DEF InverseVolWeights, Product
  <2> HIDE DEF others, all, usable
  <2> QED
    BY <2>1
<1>2. \A i \in DOMAIN symbols : symbols[i] \in Symbols
  OBVIOUS
<1>3. DOMAIN candles = DOMAIN symbols /\ \A i \in DOMAIN symbols : candles[i] = row[symbols[i]]
  BY <1>2 DEF CandlesOf
<1>4. \A c \in ToSet(candles) : /\ c.symbol \in ToSet(symbols) /\ c.symbol \in Symbols
                                /\ c = row[c.symbol] /\ c.x = Reading[c.symbol]
  <2> SUFFICES ASSUME NEW i \in DOMAIN symbols
               PROVE  /\ candles[i].symbol \in ToSet(symbols) /\ candles[i].symbol \in Symbols
                      /\ candles[i] = row[candles[i].symbol]
                      /\ candles[i].x = Reading[candles[i].symbol]
    BY <1>3 DEF ToSet
  <2>1. candles[i] = [symbol |-> symbols[i], x |-> Reading[symbols[i]]]
    BY DEF CandlesOf
  <2>2. candles[i].symbol = symbols[i] /\ candles[i].x = Reading[symbols[i]]
    BY <2>1
  <2>3. symbols[i] \in ToSet(symbols)
    BY DEF ToSet
  <2> HIDE DEF candles, row
  <2> QED
    BY <1>2, <1>3, <2>2, <2>3
<1>5. IsFiniteSet(ToSet(candles))
  <2>1. Len(symbols) \in Nat /\ DOMAIN symbols = 1..Len(symbols)
    OBVIOUS
  <2>2. IsFiniteSet(1..Len(symbols))
    BY <2>1, FS_Interval
  <2> HIDE DEF candles
  <2>3. ToSet(candles) = {candles[i] : i \in 1..Len(symbols)}
    BY <1>3, <2>1 DEF ToSet
  <2> QED
    BY <2>2, <2>3, ImageOf
<1> HIDE DEF candles, row
<1>6. IsFiniteSet(usable)
  BY <1>5, FS_Subset
<1>7. ASSUME NEW c \in usable
      PROVE  /\ c.symbol \in ToSet(symbols) /\ c = row[c.symbol] /\ vol[c] \in Nat \ {0}
  <2>1. c.symbol \in Symbols /\ c.x = Reading[c.symbol] /\ c.x.dailyVol > 0
    BY <1>4
  <2>2. Reading[c.symbol] \in Indicators
    BY <2>1, PipelineAssumption
  <2>3. Reading[c.symbol].dailyVol \in Int
    BY <2>2 DEF Indicators
  <2>4. vol[c] = c.x.dailyVol
    OBVIOUS
  <2> HIDE DEF vol, usable
  <2>5. vol[c] \in Nat \ {0}
    BY <2>1, <2>3, <2>4
  <2> QED
    BY <1>4, <2>5 DEF usable
<1>8. {w.symbol : w \in W} \subseteq ToSet(symbols)
  <2> HIDE DEF usable, share
  <2> QED
    BY <1>1, <1>7
<1> HIDE DEF usable
<1>9. \A c \in usable : vol[c] \in Nat \ {0}
  BY <1>7
<1> HIDE DEF vol
<1>10. \A c \in usable : others[c] \in Nat \ {0}
  <2> TAKE c \in usable
  <2>1. IsFiniteSet(usable \ {c}) /\ \A d \in usable \ {c} : vol[d] \in Nat \ {0}
    BY <1>6, <1>9, FS_Subset
  <2>2. Product(vol, usable \ {c}) \in Nat \ {0}
    BY <2>1, ProductIs
  <2> QED
    BY <2>2
<1>11. all = Total(others, usable)
  <2>1. DOMAIN others = usable
    OBVIOUS
  <2> HIDE DEF others
  <2> QED
    BY <1>6, <2>1, SumOfAll
<1> HIDE DEF others
<1>12. \A c \in usable : share[c] = RoundEven(others[c] * Unit, Total(others, usable))
  BY <1>11
<1>13. DOMAIN share = usable
  OBVIOUS
<1> HIDE DEF all, share
<1>14. ASSUME NEW c \in usable
       PROVE  entry(c) \in W /\ entry(c).symbol = c.symbol /\ entry(c).weight = share[c]
              /\ back[entry(c)] = c
  BY <1>1, <1>7
<1> HIDE DEF back
<1> DEFINE entries == [c \in usable |-> entry(c)]
<1>15. W = {entries[c] : c \in usable}
  BY <1>1
<1>16. \A c \in usable : entries[c] = entry(c)
  OBVIOUS
<1>17. DOMAIN weight = W /\ \A c \in usable : weight[entries[c]] = share[c]
  BY <1>14, <1>16
<1>18. \A c \in usable : back[entries[c]] = c
  BY <1>14, <1>16
<1> HIDE DEF entries, entry, weight
<1>19. IsFiniteSet(W) /\ Cardinality(W) = Cardinality(usable)
  BY <1>6, <1>15, <1>18, ImageOf, ImageSameSize
<1>20. ASSUME W # {}
       PROVE  /\ sum \in Int
              /\ 2 * (sum - Unit) <= Cardinality(W) /\ 2 * (Unit - sum) <= Cardinality(W)
  <2>1. usable # {}
    BY <1>15, <1>20
  <2>2. Unit \in Nat
    BY DEF Unit
  <2>3. /\ Total(share, usable) \in Int
        /\ 2 * (Total(share, usable) - Unit) <= Cardinality(usable)
        /\ 2 * (Unit - Total(share, usable)) <= Cardinality(usable)
    BY <1>6, <1>10, <1>12, <2>1, <2>2, RoundedShares
  <2>4. \A c \in usable : share[c] \in Int
    <3> TAKE c \in usable
    <3>1. Total(others, usable) \in Nat /\ Total(others, usable) >= Cardinality(usable)
      BY <1>6, <1>10, TotalGrows
    <3>2. Cardinality(usable) \in Nat \ {0}
      BY <1>6, FS_CardinalityType, FS_EmptySet
    <3>3. Total(others, usable) \in Nat \ {0}
      BY <3>1, <3>2
    <3>4. others[c] * Unit \in Int
      BY <1>10, <2>2
    <3> QED
      BY <1>12, <3>3, <3>4, RoundType
  <2>5. sum = Total(weight, W)
    BY <1>17, <1>19, SumOfAll
  <2>6. Total(weight, W) = Total(share, usable)
    <3>1. \A c \in usable : share[c] \in Int /\ weight[entries[c]] = share[c]
      BY <1>17, <2>4
    <3>2. Total(weight, {entries[c] : c \in usable}) = Total(share, usable)
      BY <1>6, <1>18, <3>1, TotalOfImage
    <3> QED
      BY <1>15, <3>2
  <2> HIDE DEF sum
  <2> QED
    BY <1>19, <2>3, <2>5, <2>6
<1>21. Unit \in Int /\ Cardinality(W) \in Int
  BY <1>19, FS_CardinalityType DEF Unit
<1>22. W # {} => 2 * (IF sum > Unit THEN sum - Unit ELSE Unit - sum) <= Cardinality(W)
  <2> HIDE DEF sum
  <2> QED
    BY <1>20, <1>21
<1> QED
  BY <1>8, <1>22 DEF weight

\* What the picks of the same `daily` may have cost.
Earlier == IF command = "daily_picks" /\ ~onPicks THEN MaxCandidates ELSE 0

\* One verdict for each of the first candidates, in their order.
Judged ==
  /\ cands \in Seq(Symbols) /\ (onPicks => Len(cands) <= MaxCandidates)
  /\ Len(results) <= Len(cands) /\ (at = "ask" => Len(results) < Len(cands))
  /\ \A i \in 1..Len(results) : results[i].symbol = cands[i]

\* What is counted was billed, and is what the verdicts cost.
Paid ==
  /\ tokens.counted <= tokens.billed
  /\ tokens.counted - Valid(results) \in 0 .. Earlier

ReportInv ==
  /\ Judged /\ Paid
  /\ at = "holdings" => onPicks
  /\ disk.saved => disk.weights = IF onPicks THEN InverseVolWeights(CandlesOf(cands)) ELSE {}

\* The verdicts that cost something, one more or none.
LEMMA ValidIs ==
  ASSUME NEW S, NEW rs \in Seq(S)
  PROVE  /\ Valid(rs) \in 0..Len(rs)
         /\ \A r : Valid(Append(rs, r)) = IF r.verdict = Failed THEN Valid(rs) ELSE Valid(rs) + 1
<1> DEFINE n == Len(rs)
           paid == {i \in DOMAIN rs : rs[i].verdict # Failed}
<1>1. n \in Nat /\ DOMAIN rs = 1..n /\ paid \subseteq 1..n
  OBVIOUS
<1>2. IsFiniteSet(1..n) /\ Cardinality(1..n) = n
  BY <1>1, FS_Interval
<1>3. IsFiniteSet(paid) /\ Cardinality(paid) <= n
  BY <1>1, <1>2, FS_Subset
<1>4. Valid(rs) = Cardinality(paid) /\ Cardinality(paid) \in Nat
  BY <1>3, FS_CardinalityType DEF Valid
<1>5. ASSUME NEW r PROVE Valid(Append(rs, r)) = IF r.verdict = Failed THEN Valid(rs) ELSE Valid(rs) + 1
  <2> DEFINE longer == Append(rs, r)
             more == {i \in DOMAIN longer : longer[i].verdict # Failed}
  <2>1. DOMAIN longer = 1..(n + 1) /\ longer[n + 1] = r /\ \A i \in 1..n : longer[i] = rs[i]
    OBVIOUS
  <2> HIDE DEF longer
  <2>2. more = IF r.verdict = Failed THEN paid ELSE paid \cup {n + 1}
    <3>1. \A i \in 1..(n + 1) : i = n + 1 \/ i \in 1..n
      BY <1>1
    <3>2. n + 1 \in 1..(n + 1) /\ \A i \in 1..n : i \in 1..(n + 1)
      BY <1>1
    <3> QED
      BY <1>1, <2>1, <3>1, <3>2
  <2>3. n + 1 \notin paid
    BY <1>1
  <2>4. Valid(longer) = Cardinality(more)
    BY DEF Valid
  <2> HIDE DEF more, paid
  <2> QED
    BY <1>3, <1>4, <2>2, <2>3, <2>4, FS_AddElement DEF longer
<1> QED
  BY <1>1, <1>3, <1>4, <1>5

\* A step that leaves the verdicts and what they cost alone.
LEMMA ReportQuiet ==
  ASSUME PassInv, ReportInv, UNCHANGED <<command, onPicks, cands, results, tokens>>,
         disk' = disk \/ (disk'.saved => disk'.weights = IF onPicks
                              THEN InverseVolWeights(CandlesOf(cands)) ELSE {}),
         at' = "ask" => at = "ask" \/ Len(results) < Len(cands),
         at' = "holdings" => at = "holdings" \/ onPicks
  PROVE  ReportInv'
<1>1. Valid(results') = Valid(results) /\ Earlier' = Earlier
  BY DEF Valid, Earlier
<1>2. CandlesOf(cands') = CandlesOf(cands)
  OBVIOUS
<1>3. Judged' /\ Paid'
  BY <1>1 DEF ReportInv, Judged, Paid
<1>4. disk'.saved => disk'.weights = IF onPicks THEN InverseVolWeights(CandlesOf(cands)) ELSE {}
  BY DEF ReportInv
<1> QED
  BY <1>2, <1>3, <1>4 DEF ReportInv

\* The steps that leave them alone.
LEMMA ReportQuietSteps ==
  ASSUME PassInv, ReportInv,
         \/ Tick \/ LoopFindsClosed \/ LoopFindsOpen \/ StartFails \/ FetchCandles \/ GatherContext
         \/ JobReport \/ SaveReport \/ SaveFails \/ AppendLedger \/ Dispatch \/ Notify
         \/ EndPass \/ Wake \/ NoAccount
  PROVE  ReportInv'
<1> USE DEF worldVars, fetchVars, claudeVars, outVars
<1>1. CASE Tick \/ LoopFindsClosed \/ LoopFindsOpen \/ StartFails \/ FetchCandles
  BY <1>1, ReportQuiet DEF Tick, LoopFindsClosed, LoopFindsOpen, StartFails, Starting, Raise, FetchCandles
<1>2. CASE GatherContext \/ JobReport \/ SaveFails \/ AppendLedger \/ Dispatch
  BY <1>2, ReportQuiet DEF GatherContext, JobReport, SaveFails, Raise, AppendLedger, Dispatch
<1>3. CASE Notify \/ Wake \/ NoAccount
  BY <1>3, ReportQuiet DEF Notify, Wake, NoAccount
<1>4. CASE SaveReport
  <2>1. disk'.weights = IF onPicks THEN InverseVolWeights(CandlesOf(cands)) ELSE {}
    BY <1>4 DEF SaveReport
  <2> QED
    BY <1>4, <2>1, ReportQuiet DEF SaveReport
<1>5. CASE EndPass
  <2>1. at' = CASE command = "run_loop" -> "asleep"
               [] command = "daily_picks" /\ onPicks -> "holdings"
               [] OTHER -> "done"
    BY <1>5 DEF EndPass
  <2>2. at' \in {"asleep", "done"} \/ (at' = "holdings" /\ onPicks)
    BY <2>1
  <2> QED
    BY <1>5, <2>2, ReportQuiet DEF EndPass
<1> QED
  BY <1>1, <1>2, <1>3, <1>4, <1>5

\* A verdict, and what is paid for it.
LEMMA ReportJudge ==
  ASSUME PassInv, ReportInv, at = "ask", NEW v, Judge(v),
         UNCHANGED <<command, onPicks, cands, disk>>,
         \/ v = Failed /\ tokens' = tokens
         \/ v = Failed /\ tokens' = [tokens EXCEPT !.billed = @ + 1]
         \/ v # Failed /\ tokens' = [billed |-> tokens.billed + 1, counted |-> tokens.counted + 1]
  PROVE  ReportInv'
<1> DEFINE n == Len(results)
           new == [symbol |-> Current, verdict |-> v]
<1>1. results \in Seq(ToSet(results)) /\ n \in Nat /\ tokens \in [billed : Nat, counted : Nat]
      /\ ~disk.saved
  <2>1. results \in Seq(ToSet(results)) /\ tokens \in [billed : Nat, counted : Nat] /\ ~disk.saved
    BY DEF PassInv, PassTypes, PassControl, NothingOut
  <2> QED
    BY <2>1
<1>2. results' = Append(results, new) /\ at' = "analyze"
  BY DEF Judge
<1>3. new.symbol = cands[n + 1] /\ new.verdict = v
  BY DEF Current
<1> HIDE DEF new
<1>4. Len(results') = n + 1 /\ results'[n + 1] = new /\ \A i \in 1..n : results'[i] = results[i]
  BY <1>1, <1>2
<1>5. Valid(results') = IF v = Failed THEN Valid(results) ELSE Valid(results) + 1
  BY <1>1, <1>2, <1>3, ValidIs
<1>6. Valid(results) \in Nat
  BY <1>1, ValidIs
<1>7. Earlier' = Earlier /\ Earlier \in Nat
  BY ScreeningAssumption DEF Earlier
<1>8. Judged'
  <2>1. cands \in Seq(Symbols) /\ n < Len(cands) /\ Len(cands) \in Nat
        /\ \A i \in 1..n : results[i].symbol = cands[i]
    BY DEF ReportInv, Judged
  <2>2. \A i \in 1..(n + 1) : i = n + 1 \/ i \in 1..n
    BY <1>1
  <2>3. \A i \in 1..(n + 1) : results'[i].symbol = cands[i]
    BY <1>3, <1>4, <2>1, <2>2
  <2>4. n + 1 <= Len(cands)
    BY <1>1, <2>1
  <2> HIDE DEF n
  <2> QED
    BY <1>2, <1>4, <2>1, <2>3, <2>4 DEF ReportInv, Judged
<1>9. Paid'
  <2>1. tokens.counted \in Nat /\ tokens.billed \in Nat
        /\ tokens.counted <= tokens.billed /\ tokens.counted - Valid(results) \in 0 .. Earlier
    BY <1>1 DEF ReportInv, Paid
  <2>2. \/ v = Failed /\ tokens'.counted = tokens.counted
           /\ (tokens'.billed = tokens.billed \/ tokens'.billed = tokens.billed + 1)
        \/ v # Failed /\ tokens'.counted = tokens.counted + 1 /\ tokens'.billed = tokens.billed + 1
    BY <1>1
  <2>3. tokens'.counted <= tokens'.billed
    BY <2>1, <2>2
  <2>4. tokens'.counted - Valid(results') = tokens.counted - Valid(results)
    BY <1>5, <1>6, <2>1, <2>2
  <2> QED
    BY <1>7, <2>1, <2>3, <2>4 DEF Paid
<1> QED
  BY <1>1, <1>2, <1>8, <1>9 DEF ReportInv

\* Claude is asked.
LEMMA ReportAskSteps ==
  ASSUME PassInv, ReportInv, AskHiccup \/ AskRefused \/ AskMalformed \/ AskAnswered
  PROVE  ReportInv'
<1> USE DEF worldVars, fetchVars, outVars
<1>1. CASE AskHiccup
  <2>1. CASE tries' < MaxTries
    BY <1>1, <2>1, ReportQuiet DEF AskHiccup
  <2>2. CASE ~(tries' < MaxTries)
    BY <1>1, <2>2, ReportJudge DEF AskHiccup
  <2> QED
    BY <2>1, <2>2
<1>2. CASE AskRefused
  BY <1>2, ReportJudge DEF AskRefused
<1>3. CASE AskMalformed
  BY <1>3, ReportJudge DEF AskMalformed
<1>4. CASE AskAnswered
  <2>1. PICK v \in Verdict : Judge(v)
    BY <1>4 DEF AskAnswered
  <2>2. v # Failed
    BY PipelineAssumption
  <2> QED
    BY <1>4, <2>1, <2>2, ReportJudge DEF AskAnswered
<1> QED
  BY <1>1, <1>2, <1>3, <1>4

\* The verdicts are gone, and what was counted is accounted for.
LEMMA ReportAnew ==
  ASSUME results' = <<>>, ~disk'.saved, at' \notin {"ask", "holdings"},
         cands' \in Seq(Symbols), onPicks' => Len(cands') <= MaxCandidates,
         tokens' \in [billed : Nat, counted : Nat], tokens'.counted <= tokens'.billed,
         tokens'.counted <= Earlier'
  PROVE  ReportInv'
<1> DEFINE none == <<>>
<1>1. Len(none) = 0 /\ none \in Seq({})
  OBVIOUS
<1>2. results' = none
  OBVIOUS
<1> HIDE DEF none
<1>3. Valid(none) = 0
  <2>1. Valid(none) \in 0..0
    BY <1>1, ValidIs
  <2> QED
    BY <2>1
<1>4. Len(cands') \in Nat /\ Earlier' \in Nat
  BY ScreeningAssumption DEF Earlier
<1>5. Judged'
  BY <1>1, <1>2, <1>4 DEF Judged
<1>6. Paid'
  BY <1>2, <1>3, <1>4 DEF Paid
<1> QED
  BY <1>5, <1>6 DEF ReportInv

\* The held positions are symbols.
LEMMA HeldIs ==
  ASSUME NEW held, held = Only(Holdings, {i \in DOMAIN Holdings : Holdings[i].quantity > 0})
  PROVE  [i \in DOMAIN held |-> held[i].symbol] \in Seq(Symbols)
<1> DEFINE R == [symbol : Symbols, quantity : Int]
           I == {i \in DOMAIN Holdings : Holdings[i].quantity > 0}
<1>1. Holdings \in Seq(R) /\ I \in SUBSET (DOMAIN Holdings)
  BY PipelineAssumption
<1>2. \A r \in R : r.symbol \in Symbols
  OBVIOUS
<1> HIDE DEF R, I
<1>3. held \in Seq(R)
  BY <1>1, OnlyIs DEF I
<1> QED
  BY <1>2, <1>3

\* What a pass screens.
LEMMA ScreenedIs ==
  ASSUME FetchInv, NEW vix, NEW known \in {{}, DOMAIN Figures}
  PROVE  LET screened == SymbolsOf(Selected(
                  ScreenUniverse(setting, CandlesOf(fetched), vix, known)))
         IN  screened \in Seq(Symbols) /\ Len(screened) <= MaxCandidates
<1> DEFINE candles == CandlesOf(fetched)
           R == [symbol : Symbols, x : Indicators]
           S == {candles[i].symbol : i \in DOMAIN candles}
           list == ScreenUniverse(setting, candles, vix, known)
           kept == Selected(list)
<1>1. candles \in RowsOf(Indicators) /\ Configured(setting) \in Seq(Scorable(Indicators))
  BY PassReads
<1> HIDE DEF candles
<1>3. S \subseteq Symbols
  <2>1. \A r \in R : r.symbol \in Symbols
    OBVIOUS
  <2>2. candles \in Seq(R)
    BY <1>1 DEF RowsOf
  <2> HIDE DEF R
  <2>3. \A i \in DOMAIN candles : candles[i].symbol \in Symbols
    BY <2>1, <2>2
  <2> QED
    BY <2>3
<1>4. known \in SUBSET (DOMAIN Figures)
  OBVIOUS
<1>5. Lists(list, S) /\ Len(list) <= MaxCandidates
  BY <1>1, <1>4, ScreenUniverseIs
<1> HIDE DEF list, S
<1>6. Lists(kept, S) /\ Len(kept) <= Len(list)
  <2>1. Len(list) \in Nat
    BY <1>5, SymbolsOfList
  <2> QED
    BY <1>5, <2>1, DiversifyIs DEF Selected
<1> HIDE DEF kept
<1>7. SymbolsOf(kept) \in Seq(S) /\ Len(SymbolsOf(kept)) = Len(kept) /\ Len(kept) \in Nat
      /\ Len(list) \in Nat
  BY <1>5, <1>6, SymbolsOfList
<1>8. SymbolsOf(kept) \in Seq(Symbols)
  BY <1>3, <1>7
<1>9. MaxCandidates \in Nat
  BY ScreeningAssumption
<1>10. Len(SymbolsOf(kept)) <= MaxCandidates
  BY <1>5, <1>6, <1>7, <1>9
<1> QED
  BY <1>8, <1>10 DEF candles, list, kept

\* A pass begins, its candidates are known, or the held positions are fetched.
LEMMA ReportFreshSteps ==
  ASSUME PassInv, ReportInv, FetchInv, StartPicks \/ Screen \/ HoldingsFetched
  PROVE  ReportInv'
<1> USE DEF worldVars, fetchVars
<1>0. <<>> \in Seq(Symbols) /\ Len(<<>>) = 0 /\ MaxCandidates \in Nat
  BY ScreeningAssumption
<1>1. CASE StartPicks
  <2>1. tokens' = [billed |-> 0, counted |-> 0] /\ Earlier' = 0
    BY <1>1 DEF StartPicks, Starting, Earlier
  <2>2. results' = <<>> /\ ~disk'.saved /\ at' = "fetch" /\ cands' = <<>>
    BY <1>1 DEF StartPicks, Starting, FreshPass, NoReport
  <2> QED
    BY <1>0, <2>1, <2>2, ReportAnew
<1>2. CASE Screen
  <2>1. results = <<>> /\ ~disk.saved /\ onPicks /\ tokens \in [billed : Nat, counted : Nat]
    BY <1>2 DEF Screen, PassInv, PassTypes, PassControl, NothingOut
  <2>2. UNCHANGED <<command, onPicks, results, tokens, disk>>
    BY <1>2 DEF Screen
  <2>3. PICK vix \in VixReadings, known \in {{}, DOMAIN Figures} :
          cands' = SymbolsOf(Selected(
                     ScreenUniverse(setting, CandlesOf(fetched), vix, known)))
    BY <1>2 DEF Screen
  <2>4. cands' \in Seq(Symbols) /\ Len(cands') <= MaxCandidates
    BY <2>3, ScreenedIs
  <2>5. at' = CASE command = "screen_only" -> "done"
                [] command = "briefing" -> "notify"
                [] OTHER -> "analyze"
    BY <1>2 DEF Screen
  <2>6. at' \in {"done", "notify", "analyze"}
    BY <2>5
  <2>7. tokens'.counted <= tokens'.billed /\ tokens'.counted <= Earlier'
    <3> DEFINE none == <<>>
    <3>1. Valid(none) \in 0..0
      <4>1. none \in Seq({}) /\ Len(none) = 0
        OBVIOUS
      <4> HIDE DEF none
      <4> QED
        BY <4>1, ValidIs
    <3>2. results = none
      BY <2>1
    <3> HIDE DEF none
    <3>3. tokens.counted - Valid(none) \in 0 .. Earlier /\ tokens.counted <= tokens.billed
      BY <3>2 DEF ReportInv, Paid
    <3>4. Earlier' = Earlier /\ Earlier \in Nat /\ tokens.counted \in Nat
      BY <1>0, <2>1, <2>2 DEF Earlier
    <3> QED
      BY <2>2, <3>1, <3>3, <3>4
  <2> QED
    BY <2>1, <2>2, <2>4, <2>6, <2>7, ReportAnew
<1>3. CASE HoldingsFetched
  <2>1. results' = <<>> /\ ~disk'.saved /\ at' = "analyze" /\ onPicks' = FALSE /\ tokens' = tokens
        /\ command' = command
    BY <1>3 DEF HoldingsFetched, FreshPass, NoReport
  <2>2. cands' \in Seq(Symbols)
    <3> DEFINE held == Only(Holdings, {i \in DOMAIN Holdings : Holdings[i].quantity > 0})
    <3>1. cands' \in {[i \in DOMAIN held |-> held[i].symbol], <<>>}
      BY <1>3 DEF HoldingsFetched
    <3>2. [i \in DOMAIN held |-> held[i].symbol] \in Seq(Symbols)
      BY HeldIs
    <3> HIDE DEF held
    <3> QED
      BY <1>0, <3>1, <3>2
  <2>3. tokens \in [billed : Nat, counted : Nat] /\ results \in Seq(ToSet(results))
    BY DEF PassInv, PassTypes
  <2>4. tokens.counted <= tokens.billed
    BY DEF ReportInv, Paid
  <2>5. tokens.counted <= Earlier'
    <3>1. CASE at = "start" /\ command \in Positions
      <4>1. tokens.counted = 0
        BY <3>1 DEF PassInv, PassControl, Positions
      <4> QED
        BY <1>0, <4>1 DEF Earlier
    <3>2. CASE at = "holdings"
      <4>1. command = "daily_picks" /\ onPicks
        BY <3>2 DEF PassInv, PassControl, ReportInv
      <4>2. Earlier = 0 /\ Earlier' = MaxCandidates
        BY <2>1, <4>1 DEF Earlier
      <4>3. Valid(results) \in 0..Len(results)
        BY <2>3, ValidIs
      <4>4. Len(results) <= Len(cands) /\ Len(cands) <= MaxCandidates /\ Len(cands) \in Nat
            /\ Len(results) \in Nat
        BY <2>3, <4>1 DEF ReportInv, Judged
      <4>5. tokens.counted - Valid(results) \in 0..0 /\ tokens.counted \in Nat
        BY <2>3, <4>2 DEF ReportInv, Paid
      <4> QED
        BY <1>0, <4>2, <4>3, <4>4, <4>5
    <3> QED
      BY <1>3, <3>1, <3>2 DEF HoldingsFetched
  <2> QED
    BY <2>1, <2>2, <2>3, <2>4, <2>5, ReportAnew
<1> QED
  BY <1>1, <1>2, <1>3

\* Every step of every process keeps what is known of a report.
LEMMA ReportInvariant == Spec => []ReportInv
<1>1. Init => ReportInv
  <2> SUFFICES ASSUME Init PROVE ReportInv
    OBVIOUS
  <2> DEFINE none == <<>>
  <2>1. NothingDone /\ at \in {"start", "idle"}
    BY DEF Init, PassInit, PassIdle
  <2>2. /\ results = none /\ cands = none /\ ~onPicks /\ ~disk.saved
        /\ tokens = [billed |-> 0, counted |-> 0]
    BY <2>1 DEF NothingDone, NoReport
  <2>3. Len(none) = 0 /\ none \in Seq({}) /\ none \in Seq(Symbols)
    OBVIOUS
  <2> HIDE DEF none
  <2>4. Valid(none) \in 0..0
    BY <2>3, ValidIs
  <2>5. Earlier \in Nat
    BY ScreeningAssumption DEF Earlier
  <2>6. Judged
    BY <2>1, <2>2, <2>3 DEF Judged
  <2>7. Paid
    BY <2>2, <2>4, <2>5 DEF Paid
  <2> QED
    BY <2>1, <2>2, <2>6, <2>7 DEF ReportInv
<1>2. PassInv /\ ReportInv /\ UNCHANGED passVars => ReportInv'
  BY ReportQuiet DEF passVars
<1>3. PassInv /\ FetchInv /\ ReportInv /\ [Next]_allVars => ReportInv'
  <2> SUFFICES ASSUME PassInv, FetchInv, ReportInv, [Next]_allVars PROVE ReportInv'
    OBVIOUS
  <2>1. CASE UNCHANGED allVars
    BY <1>2, <2>1 DEF allVars
  <2>2. CASE CandlesOnly \/ BacktestOnly \/ TrackerOnly
    BY <1>2, <2>2 DEF CandlesOnly, BacktestOnly, TrackerOnly
  <2>3. CASE \/ Tick \/ LoopFindsClosed \/ LoopFindsOpen \/ StartFails \/ FetchCandles \/ GatherContext
             \/ JobReport \/ SaveReport \/ SaveFails \/ AppendLedger \/ Dispatch \/ Notify
             \/ EndPass \/ Wake \/ NoAccount
    BY <2>3, ReportQuietSteps
  <2>4. CASE AskHiccup \/ AskRefused \/ AskMalformed \/ AskAnswered
    BY <2>4, ReportAskSteps
  <2>5. CASE StartPicks \/ Screen \/ HoldingsFetched
    BY <2>5, ReportFreshSteps
  <2> QED
    BY <2>1, <2>2, <2>3, <2>4, <2>5 DEF Next
<1> QED
  BY <1>1, <1>3, PassInvariant, FetchInvariant, PTL DEF Spec

\* SAFETY.  A saved report adds up, however many calls failed before it: one verdict
\* for every candidate, in the order of the screening; the spend it reports is what
\* its verdicts cost, plus what the picks of the same `daily` cost, and never more
\* than Claude billed; the weights it suggests are of its candidates and make one,
\* up to the rounding of each (analyze_all, estimated_cost_usd, inverse_vol_weights),
\* for every universe, set of indicators, account and answer of Claude.
THEOREM ReportsAddUp == Spec => []ReportAddsUp
<1>1. PassInv /\ ReportInv => ReportAddsUp
  <2> SUFFICES ASSUME PassInv, ReportInv, disk.saved PROVE ReportAddsUp
    BY DEF ReportAddsUp
  <2> DEFINE W == disk.weights
             sum == SumFunction([w \in W |-> w.weight])
             gap == IF sum > Unit THEN sum - Unit ELSE Unit - sum
  <2>1. disk.results = results /\ disk.cost = tokens.counted /\ Len(results) = Len(cands)
    BY DEF PassInv, PassReport
  <2>2. [i \in DOMAIN disk.results |-> disk.results[i].symbol] = cands
    <3>1. cands \in Seq(Symbols) /\ results \in Seq(ToSet(results))
          /\ \A i \in 1..Len(results) : results[i].symbol = cands[i]
      BY DEF PassInv, PassTypes, ReportInv, Judged
    <3>2. DOMAIN results = 1..Len(cands) /\ cands = [i \in 1..Len(cands) |-> cands[i]]
      BY <2>1, <3>1
    <3> QED
      BY <2>1, <3>1, <3>2
  <2>3. disk.cost <= tokens.billed /\ disk.cost - Valid(disk.results) \in 0 .. Earlier
    BY <2>1 DEF ReportInv, Paid
  <2>4. {w.symbol : w \in W} \subseteq ToSet(cands) /\ (W # {} => 2 * gap <= Cardinality(W))
    <3>1. CASE onPicks
      <4>1. cands \in Seq(Symbols) /\ W = InverseVolWeights(CandlesOf(cands))
        BY <3>1 DEF ReportInv, Judged
      <4> HIDE DEF W
      <4> QED
        BY <4>1, WeightsAddUp
    <3>2. CASE ~onPicks
      <4>1. W = {}
        BY <3>2 DEF ReportInv
      <4> HIDE DEF W, gap
      <4> QED
        BY <4>1
    <3> QED
      BY <3>1, <3>2
  <2> HIDE DEF W
  <2> QED
    BY <2>2, <2>3, <2>4 DEF ReportAddsUp, Earlier, W
<1> QED
  BY <1>1, PassInvariant, ReportInvariant, PTL

-----------------------------------------------------------------------------
(* The scoring.                                                             *)

\* A set of days has at most one bar with n of its days from a date before it.
LEMMA OneNth ==
  ASSUME NEW T \in SUBSET Int, IsFiniteSet(T), NEW date \in Int, NEW n,
         NEW x \in NthFrom(T, date, n), NEW y \in NthFrom(T, date, n)
  PROVE  x = y
<1> DEFINE below(d) == {u \in T : date <= u /\ u < d}
<1>1. ASSUME NEW a \in NthFrom(T, date, n), NEW b \in NthFrom(T, date, n), a < b PROVE FALSE
  <2>1. a \in T /\ b \in T /\ date <= a /\ Cardinality(below(a)) = n /\ Cardinality(below(b)) = n
    BY <1>1 DEF NthFrom
  <2>2. IsFiniteSet(below(a)) /\ IsFiniteSet(below(b))
    BY FS_Subset
  <2>3. a \notin below(a) /\ below(a) \cup {a} \subseteq below(b)
    <3>1. a \in Int /\ b \in Int /\ \A u \in T : u \in Int
      BY <2>1
    <3>2. a \notin below(a)
      BY <3>1
    <3>3. a \in below(b)
      BY <1>1, <2>1, <3>1
    <3>4. \A u \in T : u < a => u < b
      BY <1>1, <3>1
    <3> QED
      BY <3>2, <3>3, <3>4
  <2> HIDE DEF below
  <2>4. /\ IsFiniteSet(below(a) \cup {a})
        /\ Cardinality(below(a) \cup {a}) = Cardinality(below(a)) + 1
    BY <2>2, <2>3, FS_AddElement
  <2>5. Cardinality(below(a) \cup {a}) <= Cardinality(below(b))
    BY <2>2, <2>3, FS_Subset
  <2>6. Cardinality(below(a)) \in Nat
    BY <2>2, FS_CardinalityType
  <2> QED
    BY <2>1, <2>4, <2>5, <2>6
<1>2. x \in Int /\ y \in Int
  BY DEF NthFrom
<1> QED
  BY <1>1, <1>2

\* Between the entry and the last day of an earlier snapshot, both snapshots have
\* every bar: what was scored then is scored now, at the same bars.
LEMMA SameBars ==
  ASSUME NEW T \in SUBSET Int, IsFiniteSet(T), NEW day \in Int, NEW date \in Int, NEW n,
         NEW e \in NthFrom(T, date, 0) \cap Bars(T),
         NEW x \in NthFrom(Bars({d \in T : d <= day}), date, n)
  PROVE  /\ x \in NthFrom(Bars(T), date, n)
         /\ e \in NthFrom(Bars({d \in T : d <= day}), date, 0)
         /\ e \in NthFrom(Bars(T), date, 0)
<1> DEFINE E == {d \in T : d <= day}
           C == Bars(E)
           B == Bars(T)
<1>0. Window \in Nat
  BY TrackerAssumption
<1>1. e \in T /\ e \in B /\ e >= date /\ Cardinality({u \in T : date <= u /\ u < e}) = 0
  BY DEF NthFrom
<1>2. \A u \in T : u >= date => u >= e
  <2>1. IsFiniteSet({u \in T : date <= u /\ u < e})
    BY FS_Subset
  <2>2. {u \in T : date <= u /\ u < e} = {}
    BY <1>1, <2>1, FS_EmptySet
  <2> QED
    BY <1>1, <2>2
<1>3. x \in C /\ x \in T /\ x <= day /\ x >= date
  BY DEF NthFrom, Bars
<1>4. e \in E /\ e <= x
  BY <1>1, <1>2, <1>3
<1>5. ASSUME NEW y \in E, y >= date PROVE y \in B /\ y \in C
  <2>1. y \in Int /\ e \in Int /\ y >= e
    BY <1>1, <1>2, <1>5
  <2> DEFINE after == {u \in T : u > e}
  <2>2. IsFiniteSet(after) /\ Cardinality(after) \in Nat /\ Cardinality(after) < Window
    BY <1>1, FS_Subset, FS_CardinalityType DEF Bars
  <2>3. {u \in T : u > y} \subseteq after /\ {u \in E : u > y} \subseteq after
    <3>1. \A u \in T : u \in Int /\ (u > y => u > e)
      BY <2>1
    <3> QED
      BY <3>1
  <2> HIDE DEF after
  <2>4. /\ Cardinality({u \in T : u > y}) \in Nat /\ Cardinality({u \in E : u > y}) \in Nat
        /\ Cardinality({u \in T : u > y}) <= Cardinality(after)
        /\ Cardinality({u \in E : u > y}) <= Cardinality(after)
    BY <2>2, <2>3, FS_Subset, FS_CardinalityType
  <2>5. Cardinality({u \in T : u > y}) < Window /\ Cardinality({u \in E : u > y}) < Window
    BY <1>0, <2>2, <2>4
  <2>6. y \in T
    OBVIOUS
  <2> QED
    BY <2>5, <2>6 DEF Bars
<1>6. C \subseteq E /\ B \subseteq T /\ E \subseteq T
  BY DEF Bars
<1>7. ASSUME NEW y \in E PROVE {u \in C : date <= u /\ u < y} = {u \in B : date <= u /\ u < y}
  <2>1. ASSUME NEW u \in B, date <= u, u < y PROVE u \in C
    <3>1. u \in T /\ u \in Int /\ y \in Int /\ y <= day
      BY <1>6
    <3>2. u \in E
      BY <2>1, <3>1
    <3> QED
      BY <1>5, <2>1, <3>1, <3>2
  <2>2. ASSUME NEW u \in C, date <= u PROVE u \in B
    <3>1. u \in E /\ u \in Int
      BY <1>6
    <3> QED
      BY <1>5, <2>2, <3>1
  <2> HIDE DEF B, C
  <2> QED
    BY <2>1, <2>2
<1>8. x \in B /\ x \in E /\ e \in C
  BY <1>3, <1>4, <1>5, <1>1, <1>6
<1>b. \A u \in T : ~(date <= u /\ u < e)
  <2>1. ASSUME NEW u \in T, date <= u, u < e PROVE FALSE
    <3>1. u \in Int /\ e \in Int /\ u >= e
      BY <1>1, <1>2, <2>1
    <3> QED
      BY <2>1, <3>1
  <2> QED
    BY <2>1
<1>9. {u \in B : date <= u /\ u < e} = {}
  BY <1>6, <1>b
<1>10. {u \in C : date <= u /\ u < e} = {}
  BY <1>6, <1>b
<1>11. Cardinality({u \in C : date <= u /\ u < x}) = n
  BY DEF NthFrom
<1> HIDE DEF B, C, E
<1>12. x \in NthFrom(B, date, n)
  BY <1>3, <1>7, <1>8, <1>11 DEF NthFrom
<1>13. e \in NthFrom(C, date, 0) /\ e \in NthFrom(B, date, 0)
  BY <1>1, <1>8, <1>9, <1>10, FS_EmptySet DEF NthFrom
<1> QED
  BY <1>12, <1>13 DEF B, C, E

\* What stood after the last whole snapshot is what it saw.
Stood(r, h) ==
  \/ stood[r][h] = Unscored
  \/ /\ NthFrom(Bars(Traded(seen)), r.date, h) # {}
     /\ stood[r][h] = ForwardReturn(seen, Bars(Traded(seen)), r.date, h, r.action)

\* A snapshot saw the closing prices of the days before its own; the bar of its own
\* day, once it was there, is there for good.
TrackInv ==
  /\ prices \in Seq(Nat) /\ today \in 0..Len(prices) /\ quote \in Nat
  /\ today > 0 /\ quote > 0 => prices[today] > 0
  /\ seen \in Seq(Nat) /\ Len(seen) <= today
  /\ \A d \in 1..(Len(seen) - 1) : seen[d] = prices[d]
  /\ Len(seen) > 0 /\ seen[Len(seen)] > 0 =>
       IF Len(seen) = today THEN quote > 0 ELSE prices[Len(seen)] > 0
  /\ \A r \in Directional, h \in Horizons : Stood(r, h)

\* What can be seen today.
LEMMA TapeIs ==
  ASSUME prices \in Seq(Nat), today \in 0..Len(prices), quote \in Nat
  PROVE  /\ Tape \in Seq(Nat) /\ Len(Tape) = today
         /\ \A d \in 1..today : Tape[d] = IF d = today THEN quote ELSE prices[d]
<1>1. today \in Nat /\ \A d \in 1..today : prices[d] \in Nat
  OBVIOUS
<1>2. Tape \in [1..today -> Nat]
  BY <1>1 DEF Tape
<1>3. Tape \in Seq(Nat) /\ Len(Tape) = today
  BY <1>1, <1>2
<1> QED
  BY <1>3 DEF Tape

\* The days with a bar are finitely many.
LEMMA DaysAre ==
  ASSUME NEW tape \in Seq(Nat)
  PROVE  /\ Traded(tape) = {d \in 1..Len(tape) : tape[d] > 0}
         /\ Traded(tape) \in SUBSET Int /\ IsFiniteSet(Traded(tape))
         /\ Bars(Traded(tape)) \in SUBSET Int /\ IsFiniteSet(Bars(Traded(tape)))
<1>1. Len(tape) \in Nat /\ Traded(tape) = {d \in 1..Len(tape) : tape[d] > 0}
  BY DEF Traded
<1>2. IsFiniteSet(1..Len(tape)) /\ Traded(tape) \subseteq 1..Len(tape)
  BY <1>1, FS_Interval
<1>3. IsFiniteSet(Traded(tape))
  BY <1>2, FS_Subset
<1>4. Bars(Traded(tape)) \subseteq Traded(tape)
  BY DEF Bars
<1> QED
  BY <1>1, <1>2, <1>3, <1>4, FS_Subset

\* The days a whole snapshot had a bar of are the first of those that have one now.
LEMMA SeenAreFirst ==
  ASSUME TrackInv
  PROVE  \E last \in Int : Traded(seen) = {d \in Traded(Tape) : d <= last}
<1> DEFINE n == Len(seen)
<1>1. n \in Nat /\ n <= today /\ today \in Nat
  BY DEF TrackInv
<1>2. /\ Traded(seen) = {d \in 1..n : seen[d] > 0}
      /\ Traded(Tape) = {d \in 1..today : Tape[d] > 0}
      /\ \A d \in 1..today : Tape[d] = IF d = today THEN quote ELSE prices[d]
  BY TapeIs, DaysAre DEF TrackInv
<1>3. \A d \in 1..(n - 1) : seen[d] = Tape[d]
  BY <1>1, <1>2 DEF TrackInv
<1>4. CASE n > 0 /\ seen[n] > 0
  <2>1. n \in 1..today /\ Tape[n] > 0
    BY <1>1, <1>2, <1>4 DEF TrackInv
  <2>2. \A d \in 1..today : d <= n => (seen[d] > 0 <=> Tape[d] > 0)
    BY <1>1, <1>3, <1>4, <2>1
  <2>3. Traded(seen) = {d \in Traded(Tape) : d <= n}
    BY <1>1, <1>2, <2>2
  <2> QED
    BY <1>1, <2>3
<1>5. CASE ~(n > 0 /\ seen[n] > 0)
  <2>1. \A d \in 1..n : seen[d] > 0 => d <= n - 1
    BY <1>1, <1>5
  <2>2. Traded(seen) = {d \in Traded(Tape) : d <= n - 1}
    BY <1>1, <1>2, <1>3, <2>1
  <2> QED
    BY <1>1, <2>2
<1> QED
  BY <1>4, <1>5

\* What a whole snapshot scored is scored the same today, as long as the entry is
\* among the bars of today and the bar of the horizon has not moved.
LEMMA ReturnStands ==
  ASSUME TrackInv, NEW date \in Int, NEW h, NEW action,
         NthFrom(Traded(Tape), date, 0) \cap Bars(Traded(Tape)) # {},
         NthFrom(Bars(Traded(seen)), date, h) # {},
         Len(seen) \in NthFrom(Bars(Traded(seen)), date, h) =>
           seen[Len(seen)] = Tape[Len(seen)]
  PROVE  /\ ForwardReturn(Tape, Bars(Traded(Tape)), date, h, action)
               = ForwardReturn(seen, Bars(Traded(seen)), date, h, action)
         /\ date <= today
<1> DEFINE T == Traded(Tape)
           B == Bars(T)
           C == Bars(Traded(seen))
           n == Len(seen)
<1>1. PICK e : e \in NthFrom(T, date, 0) \cap B
  OBVIOUS
<1>2. PICK x : x \in NthFrom(C, date, h)
  OBVIOUS
<1>3. /\ T \in SUBSET Int /\ IsFiniteSet(T) /\ B \in SUBSET Int /\ IsFiniteSet(B)
      /\ C \in SUBSET Int /\ IsFiniteSet(C)
      /\ Traded(seen) = {d \in 1..n : seen[d] > 0}
      /\ \A d \in 1..today : Tape[d] = IF d = today THEN quote ELSE prices[d]
  BY TapeIs, DaysAre DEF TrackInv
<1>4. PICK last \in Int : Traded(seen) = {d \in T : d <= last}
  BY SeenAreFirst
<1>5. x \in NthFrom(Bars({d \in T : d <= last}), date, h)
  BY <1>2, <1>4
<1>6. C = Bars({d \in T : d <= last})
  BY <1>4
<1> HIDE DEF T, B, C
<1>7. x \in NthFrom(Bars(T), date, h)
      /\ e \in NthFrom(C, date, 0) /\ e \in NthFrom(Bars(T), date, 0)
  BY <1>1, <1>3, <1>5, <1>6, SameBars DEF B
<1>8. x \in NthFrom(B, date, h) /\ e \in NthFrom(B, date, 0)
  BY <1>7 DEF B
<1>9. /\ (CHOOSE d \in NthFrom(B, date, h) : TRUE) = x
      /\ (CHOOSE d \in NthFrom(C, date, h) : TRUE) = x
      /\ (CHOOSE d \in NthFrom(B, date, 0) : TRUE) = e
      /\ (CHOOSE d \in NthFrom(C, date, 0) : TRUE) = e
  <2>1. \A d \in NthFrom(B, date, h) : d = x
    BY <1>3, <1>8, OneNth
  <2>2. \A d \in NthFrom(C, date, h) : d = x
    BY <1>2, <1>3, OneNth
  <2>3. \A d \in NthFrom(B, date, 0) : d = e
    BY <1>3, <1>8, OneNth
  <2>4. \A d \in NthFrom(C, date, 0) : d = e
    BY <1>3, <1>7, OneNth
  <2> QED
    BY <1>2, <1>7, <1>8, <2>1, <2>2, <2>3, <2>4
<1>10. e \in 1..n /\ x \in 1..n /\ e <= x /\ date <= x /\ n \in Nat /\ n <= today
       /\ today \in Nat
  <2>1. C \subseteq 1..n
    BY <1>3 DEF C, Bars
  <2>2. e \in C /\ x \in C /\ date <= x /\ date <= e
        /\ Cardinality({u \in C : date <= u /\ u < e}) = 0
    BY <1>2, <1>7 DEF NthFrom
  <2>3. {u \in C : date <= u /\ u < e} = {}
    <3>1. IsFiniteSet({u \in C : date <= u /\ u < e})
      BY <1>3, FS_Subset
    <3> QED
      BY <2>2, <3>1, FS_EmptySet
  <2>4. ~(x < e)
    BY <2>2, <2>3
  <2>5. e \in 1..n /\ x \in 1..n
    BY <2>1, <2>2
  <2>6. n \in Nat /\ n <= today /\ today \in Nat
    BY DEF TrackInv
  <2> QED
    BY <2>2, <2>4, <2>5, <2>6
<1>11. ASSUME NEW d \in 1..n, d < n PROVE seen[d] = Tape[d]
  BY <1>3, <1>10, <1>11 DEF TrackInv
<1>12. seen[x] = Tape[x]
  <2>1. CASE x < n
    BY <1>10, <1>11, <2>1
  <2>2. CASE x = n
    BY <1>2, <2>2 DEF C
  <2> QED
    BY <1>10, <2>1, <2>2
<1>13. seen[e] = Tape[e]
  <2>1. CASE e < n
    BY <1>10, <1>11, <2>1
  <2>2. CASE e = n
    BY <1>10, <1>12, <2>2
  <2> QED
    BY <1>10, <2>1, <2>2
<1>14. ForwardReturn(Tape, B, date, h, action) = ForwardReturn(seen, C, date, h, action)
  <2>1. /\ PriceAt(Tape, NthFrom(B, date, h)) = Tape[x]
        /\ PriceAt(seen, NthFrom(C, date, h)) = seen[x]
        /\ PriceAt(Tape, NthFrom(B, date, 0)) = Tape[e]
        /\ PriceAt(seen, NthFrom(C, date, 0)) = seen[e]
    BY <1>9 DEF PriceAt
  <2>2. NthFrom(B, date, h) # {} /\ NthFrom(C, date, h) # {}
    BY <1>2, <1>8
  <2> QED
    BY <1>12, <1>13, <2>1, <2>2 DEF ForwardReturn
<1>15. date <= today
  BY <1>10
<1> QED
  BY <1>14, <1>15 DEF B, C, T

LEMMA TrackInvariant == Spec => []TrackInv
<1>1. Init => TrackInv
  <2> SUFFICES ASSUME Init PROVE TrackInv
    OBVIOUS
  <2>1. /\ \/ prices \in Closes /\ today = 1
           \/ prices = <<>> /\ today = 0
        /\ NothingScored
    BY DEF Init, TrackerInit, TrackerIdle
  <2>2. prices \in Seq(Nat) /\ today \in 0..Len(prices)
    <3>1. CASE prices \in Closes /\ today = 1
      <4>1. prices \in Seq(Nat) /\ prices # <<>>
        BY <3>1, TrackerAssumption
      <4> QED
        BY <3>1, <4>1
    <3>2. CASE prices = <<>> /\ today = 0
      <4> DEFINE none == <<>>
      <4>1. none \in Seq(Nat) /\ Len(none) = 0
        OBVIOUS
      <4> HIDE DEF none
      <4>2. prices = none
        BY <3>2 DEF none
      <4> QED
        BY <3>2, <4>1, <4>2
    <3> QED
      BY <2>1, <3>1, <3>2
  <2>3. \A r \in Directional, h \in Horizons : Stood(r, h)
    <3>1. stood = [r \in Directional |-> NoScore]
      BY <2>1 DEF NothingScored
    <3> QED
      BY <3>1 DEF Stood, NoScore
  <2>4. quote = 0 /\ seen \in Seq(Nat) /\ Len(seen) = 0
    <3> DEFINE none == <<>>
    <3>1. none \in Seq(Nat) /\ Len(none) = 0
      OBVIOUS
    <3> HIDE DEF none
    <3>2. seen = none /\ quote = 0
      BY <2>1 DEF NothingScored, none
    <3> QED
      BY <3>1, <3>2
  <2> QED
    BY <2>2, <2>3, <2>4 DEF TrackInv
<1>2. TrackInv /\ UNCHANGED <<prices, today, quote, seen, stood>> => TrackInv'
  BY DEF TrackInv, Stood
<1>3. ASSUME TrackInv, NextDay PROVE TrackInv'
  <2>1. /\ today' = today + 1 /\ quote' = 0 /\ prices' = prices /\ seen' = seen
        /\ stood' = stood /\ today \in Nat /\ Len(prices) \in Nat /\ today < Len(prices)
        /\ Len(seen) \in Nat /\ today > 0
    BY <1>3 DEF NextDay, TrackInv
  <2>2. \A r \in Directional, h \in Horizons : Stood(r, h)'
    BY <1>3, <2>1 DEF TrackInv, Stood
  <2>3. Len(seen) > 0 /\ seen[Len(seen)] > 0 => prices[Len(seen)] > 0
    BY <1>3, <2>1 DEF TrackInv
  <2>4. Len(seen) # today' /\ Len(seen) <= today' /\ today' \in 0..Len(prices)
    BY <1>3, <2>1 DEF TrackInv
  <2> QED
    BY <1>3, <2>1, <2>2, <2>3, <2>4 DEF TrackInv
<1>4. ASSUME TrackInv, Trade PROVE TrackInv'
  <2>1. /\ quote' \in Nat /\ quote' > 0 /\ prices[today] > 0 /\ prices' = prices
        /\ today' = today /\ seen' = seen /\ stood' = stood
    BY <1>4, TrackerAssumption DEF Trade
  <2>2. \A r \in Directional, h \in Horizons : Stood(r, h)'
    BY <1>4, <2>1 DEF TrackInv, Stood
  <2> QED
    BY <1>4, <2>1, <2>2 DEF TrackInv
<1>5. ASSUME TrackInv, Track PROVE TrackInv'
  <2>1. /\ seen' = Tape /\ stood' = scores' /\ prices' = prices /\ today' = today
        /\ quote' = quote /\ today > 0
        /\ scores' = [r \in Directional |-> IF r.date <= today
                       THEN ScoreOf(Tape, Bars(Traded(Tape)), r) ELSE NoScore]
    BY <1>5 DEF Track, Snapshot
  <2>2. /\ Tape \in Seq(Nat) /\ Len(Tape) = today
        /\ \A d \in 1..today : Tape[d] = IF d = today THEN quote ELSE prices[d]
    BY <1>5, TapeIs DEF TrackInv
  <2>3. ASSUME NEW r \in Directional, NEW h \in Horizons PROVE Stood(r, h)'
    <3> DEFINE tape == Tape
               bars == Bars(Traded(tape))
               return == ForwardReturn(tape, bars, r.date, h, r.action)
    <3>1. stood'[r][h] = return \/ stood'[r][h] = Unscored
      BY <2>1 DEF ScoreOf, NoScore
    <3>2. return # Unscored => NthFrom(bars, r.date, h) # {}
      BY DEF ForwardReturn
    <3>3. Stood(r, h)' <=>
            \/ stood'[r][h] = Unscored
            \/ NthFrom(bars, r.date, h) # {} /\ stood'[r][h] = return
      BY <2>1 DEF Stood
    <3> HIDE DEF return, bars, tape
    <3> QED
      BY <3>1, <3>2, <3>3
  <2>4. /\ today \in Nat /\ today \in 1..today
        /\ \A d \in 1..(today - 1) : d \in 1..today /\ d # today
    BY <1>5, <2>1 DEF TrackInv
  <2>5. /\ seen' \in Seq(Nat) /\ Len(seen') = today /\ seen'[today] = quote
        /\ \A d \in 1..(today - 1) : seen'[d] = prices[d]
    BY <2>1, <2>2, <2>4
  <2>6. prices' \in Seq(Nat) /\ today' \in 0..Len(prices') /\ quote' \in Nat
        /\ (today' > 0 /\ quote' > 0 => prices'[today'] > 0)
    BY <1>5, <2>1 DEF TrackInv
  <2> QED
    BY <2>1, <2>3, <2>4, <2>5, <2>6 DEF TrackInv
<1>6. TrackInv /\ [Next]_allVars => TrackInv'
  <2> SUFFICES ASSUME TrackInv, [Next]_allVars PROVE TrackInv'
    OBVIOUS
  <2>1. CASE UNCHANGED allVars \/ PassOnly \/ CandlesOnly \/ BacktestOnly
    BY <1>2, <2>1 DEF allVars, PassOnly, CandlesOnly, BacktestOnly, trackerVars
  <2>2. CASE Track
    BY <1>5, <2>2
  <2>3. CASE TrackDamaged
    BY <1>2, <2>3 DEF TrackDamaged, Snapshot
  <2>4. CASE Trade
    BY <1>4, <2>4
  <2>5. CASE NextDay
    BY <1>3, <2>5
  <2> QED
    BY <2>1, <2>2, <2>3, <2>4, <2>5 DEF Next
<1> QED
  BY <1>1, <1>6, PTL DEF Spec

\* ACTION.  A score stands: what a snapshot that had every bar scored is scored the
\* same by every later one that has, for all prices, quotes, records and horizons,
\* as long as the window holds the bar it entered at, unless the horizon fell on
\* the live bar of that snapshot and its close has moved since (tracker.evaluate).
THEOREM ScoresAreFinal == Spec => ScoresStand
<1> DEFINE Stands == Track =>
             \A r \in Directional, h \in Horizons :
               \/ stood[r][h] = Unscored
               \/ ~EntryHeld(r) \/ WasLive(r, h)
               \/ scores'[r][h] = stood[r][h]
<1>1. TrackInv => Stands
  <2> SUFFICES ASSUME TrackInv, Track, NEW r \in Directional, NEW h \in Horizons,
                      stood[r][h] # Unscored, EntryHeld(r), ~WasLive(r, h)
               PROVE  scores'[r][h] = stood[r][h]
    BY DEF Stands
  <2>1. r.date \in Int
    BY TrackerAssumption DEF Directional
  <2>2. /\ NthFrom(Bars(Traded(seen)), r.date, h) # {}
        /\ stood[r][h] = ForwardReturn(seen, Bars(Traded(seen)), r.date, h, r.action)
    BY DEF TrackInv, Stood
  <2>3. /\ NthFrom(Traded(Tape), r.date, 0) \cap Bars(Traded(Tape)) # {}
        /\ Len(seen) \in NthFrom(Bars(Traded(seen)), r.date, h) =>
             seen[Len(seen)] = Tape[Len(seen)]
    BY DEF EntryHeld, WasLive
  <2>4. /\ ForwardReturn(Tape, Bars(Traded(Tape)), r.date, h, r.action) = stood[r][h]
        /\ r.date <= today
    BY <2>1, <2>2, <2>3, ReturnStands
  <2>5. scores'[r][h] = ForwardReturn(Tape, Bars(Traded(Tape)), r.date, h, r.action)
    BY <2>4 DEF Track, Snapshot, ScoreOf
  <2> QED
    BY <2>4, <2>5
<1>2. Spec => [][Stands]_trackerVars
  <2> HIDE DEF Stands
  <2> QED
    BY <1>1, TrackInvariant, PTL
<1> QED
  BY <1>2 DEF ScoresStand

-----------------------------------------------------------------------------
(* Types.                                                                   *)

Places == {"idle", "start", "opening", "fetch", "analyze", "ask", "saved", "gate", "notify",
           "asleep", "holdings", "done", "dead"}
Reachable == Channels \cup {"console"} \cup (IF command = "portfolio_job" THEN {"slack"} ELSE {})

PassRanges ==
  /\ command \in CommandsRun \cup {"none"} /\ at \in Places
  /\ tries \in 0 .. MaxTries /\ (at = "ask" => tries < MaxTries)
  /\ macro \in {"unfetched", "some", "empty"}
  /\ tried \cup ToSet(left) \subseteq Reachable

CandlesRanges ==
  /\ candlesAt \in {"idle", "paging", "returned", "raised"}
  /\ collected \subseteq DOMAIN rows
  /\ page <= MaxPages /\ (candlesAt = "paging" => page < MaxPages)

TrackRanges ==
  /\ prices \in Seq(Nat) /\ today \in 0 .. Len(prices) /\ quote \in Quotes \cup {0}
  /\ summary.scored + summary.pending <= Cardinality(Directional)

\* The channels of a report are configured, or the console.
LEMMA ChannelsReach ==
  ASSUME NEW open
  PROVE  ToSet(ChannelsFor(open)) \cup ToSet(SlackOnly) \subseteq Channels \cup {"console"}
<1> DEFINE named(channel) == IF channel \in Channels THEN <<channel>> ELSE <<>>
           C == Channels \cup {"console"}
<1>1. <<>> \in Seq(C) /\ <<"console">> \in Seq(C) /\ \A c : named(c) \in Seq(C)
  <2>1. <<>> \in Seq(C)
    OBVIOUS
  <2>2. <<"console">> \in Seq(C)
    OBVIOUS
  <2>3. ASSUME NEW c PROVE named(c) \in Seq(C)
    <3>1. CASE c \in Channels
      <4>1. <<c>> \in Seq(C)
        BY <3>1
      <4> QED
        BY <3>1, <4>1
    <3>2. CASE c \notin Channels
      BY <2>1, <3>2
    <3> QED
      BY <3>1, <3>2
  <2> QED
    BY <2>1, <2>2, <2>3
<1>2. SlackOnly = named("slack")
  BY DEF SlackOnly
<1>3. Notifiers = IF Channels = {} THEN <<"console">>
                  ELSE named("console") \o named("webhook") \o named("smtp") \o named("slack")
  BY DEF Notifiers
<1> HIDE DEF named, C
<1>4. Notifiers \in Seq(C) /\ SlackOnly \in Seq(C)
  BY <1>1, <1>2, <1>3
<1>5. ChannelsFor(open) \in Seq(C)
  BY <1>1, <1>4 DEF ChannelsFor
<1>6. \A s \in Seq(C) : ToSet(s) \subseteq C
  BY DEF ToSet
<1> QED
  BY <1>4, <1>5, <1>6 DEF C

\* A step of a pass stays within the ranges.
LEMMA PassRangesKept ==
  ASSUME PassInv, PassRanges, [Next]_allVars
  PROVE  PassRanges'
<1> USE DEF worldVars, fetchVars, claudeVars, outVars
<1>0. \A open : ToSet(ChannelsFor(open)) \subseteq Reachable /\ ToSet(SlackOnly) \subseteq Reachable
  BY ChannelsReach DEF Reachable
<1>a. ToSet(<<>>) = {} /\ ToSet(<<"slack">>) = {"slack"}
  <2> DEFINE one == <<"slack">>
  <2>1. DOMAIN one = {1} /\ one[1] = "slack"
    OBVIOUS
  <2> HIDE DEF one
  <2>2. ToSet(one) = {"slack"}
    BY <2>1 DEF ToSet
  <2> QED
    BY <2>2, EmptyIsSeq DEF one
<1>b. tried \cup ToSet(left) \subseteq Reachable /\ tries \in 0..MaxTries /\ MaxTries = 3
  BY DEF PassRanges, MaxTries
<1>c. UNCHANGED passVars => PassRanges'
  BY DEF passVars, PassRanges, Reachable
<1>1. CASE UNCHANGED allVars \/ CandlesOnly \/ BacktestOnly \/ TrackerOnly
  BY <1>1, <1>c DEF allVars, CandlesOnly, BacktestOnly, TrackerOnly
<1>2. CASE Tick \/ LoopFindsClosed \/ LoopFindsOpen \/ FetchCandles \/ SaveFails \/ AppendLedger \/ Wake \/ NoAccount
  BY <1>2 DEF PassRanges, Places, Reachable, Tick, LoopFindsClosed, LoopFindsOpen, FetchCandles, SaveFails, Raise,
     Macro, AppendLedger, Wake, NoAccount
<1>3. CASE StartPicks \/ HoldingsFetched
  BY <1>3 DEF PassRanges, Places, Reachable, StartPicks, Starting, HoldingsFetched, FreshPass
<1>4. CASE StartFails
  <2>1. /\ at' \in {"notify", "asleep", "dead"} /\ (left' = left \/ left' = SlackOnly)
        /\ UNCHANGED <<command, tries, macro, tried>>
    BY <1>4 DEF StartFails, Starting, Raise
  <2>2. tried' \cup ToSet(left') \subseteq Reachable
    BY <1>0, <1>b, <2>1
  <2> QED
    BY <2>1, <2>2 DEF PassRanges, Places, Reachable
<1>5. CASE Screen
  <2>1. /\ at' = CASE command = "screen_only" -> "done"
                   [] command = "briefing" -> "notify"
                   [] OTHER -> "analyze"
        /\ (left' = <<>> \/ left' = SlackOnly)
        /\ UNCHANGED <<command, tries, macro, tried>>
    BY <1>5 DEF Screen
  <2>2. at' \in {"done", "notify", "analyze"}
    BY <2>1
  <2>3. tried' \cup ToSet(left') \subseteq Reachable
    BY <1>0, <1>a, <1>b, <2>1
  <2> QED
    BY <2>1, <2>2, <2>3 DEF PassRanges, Places, Reachable
<1>6. CASE GatherContext \/ SaveReport
  <2>1. /\ at' \in {"ask", "saved"} /\ macro' \in Macro
        /\ (tries' = 0 \/ (tries' = tries /\ at' # "ask")) /\ UNCHANGED <<command, tried, left>>
    BY <1>6 DEF GatherContext, SaveReport
  <2> QED
    BY <1>b, <2>1 DEF PassRanges, Places, Reachable, Macro
<1>12. CASE AskRefused \/ AskMalformed \/ AskAnswered
  <2>1. at' = "analyze" /\ UNCHANGED <<command, tries, macro, tried, left>>
    BY <1>12 DEF AskRefused, AskMalformed, AskAnswered, Judge
  <2> QED
    BY <2>1 DEF PassRanges, Places, Reachable
<1>7. CASE AskHiccup
  <2>1. tries < MaxTries /\ at' \in {"ask", "analyze"} /\ tries' = tries + 1
        /\ (at' = "ask" => tries' < MaxTries)
        /\ UNCHANGED <<command, macro, tried, left>>
    BY <1>7 DEF PassRanges, AskHiccup, Judge
  <2> QED
    BY <1>b, <2>1 DEF PassRanges, Places, Reachable
<1>8. CASE JobReport
  <2>1. /\ command = "portfolio_job" /\ at' = "notify" /\ (left' = <<>> \/ left' = <<"slack">>)
        /\ macro' \in Macro /\ UNCHANGED <<command, tries, tried>>
    BY <1>8 DEF JobReport
  <2>2. tried' \cup ToSet(left') \subseteq Reachable
    BY <1>a, <1>b, <2>1 DEF Reachable
  <2> QED
    BY <2>1, <2>2 DEF PassRanges, Places, Reachable, Macro
<1>9. CASE Dispatch
  <2>1. /\ at' = "notify" /\ left' = ChannelsFor(openAtStart)
        /\ UNCHANGED <<command, tries, tried, macro>>
    BY <1>9 DEF Dispatch
  <2>2. tried' \cup ToSet(left') \subseteq Reachable
    BY <1>0, <1>b, <2>1
  <2> QED
    BY <2>1, <2>2 DEF PassRanges, Places, Reachable
<1>10. CASE Notify
  <2>1. /\ left # <<>> /\ left' = Tail(left) /\ tried' = tried \cup {Head(left)}
        /\ UNCHANGED <<command, at, tries, macro>>
    BY <1>10 DEF Notify
  <2>2. ToSet(left) = {Head(left)} \cup ToSet(left')
    BY <2>1, ToSetTail DEF PassInv, PassTypes
  <2>3. tried' \cup ToSet(left') \subseteq Reachable
    BY <1>b, <2>1, <2>2
  <2> QED
    BY <2>1, <2>3 DEF PassRanges, Reachable
<1>11. CASE EndPass
  <2>1. /\ at' = CASE command = "run_loop" -> "asleep"
                   [] command = "daily_picks" /\ onPicks -> "holdings"
                   [] OTHER -> "done"
        /\ UNCHANGED <<command, tries, macro, tried, left>>
    BY <1>11 DEF EndPass
  <2>2. at' \in {"asleep", "holdings", "done"}
    BY <2>1
  <2> QED
    BY <2>1, <2>2 DEF PassRanges, Places, Reachable
<1> QED
  BY <1>1, <1>2, <1>3, <1>4, <1>5, <1>6, <1>7, <1>8, <1>9, <1>10, <1>11, <1>12 DEF Next

\* So does a step of the fetch of a history.
LEMMA CandlesRangesKept ==
  ASSUME CandlesInv, CandlesRanges, [Next]_allVars
  PROVE  CandlesRanges'
<1>0. want \in Nat /\ page \in Nat /\ MaxPages \in Nat
  <2>1. want \in Nat /\ page \in Nat /\ PerCall \in Nat \ {0}
    BY CandlesAssumption DEF CandlesInv, CandlesTypes
  <2>2. want \div PerCall \in Nat
    BY <2>1
  <2> QED
    BY <2>1, <2>2 DEF MaxPages
<1>1. CASE UNCHANGED candlesVars
  BY <1>1 DEF CandlesRanges, candlesVars, MaxPages
<1>2. CASE FetchPage
  <2>1. /\ candlesAt = "paging" /\ page' = page + 1 /\ UNCHANGED <<rows, want>>
        /\ collected' = collected \cup {t \in Served : rows[t] = "ok"}
    BY <1>2 DEF FetchPage
  <2>2. MaxPages' = MaxPages /\ page < MaxPages
    BY <2>1 DEF MaxPages, CandlesRanges
  <2>3. Served \subseteq DOMAIN rows
    BY DEF Served, Newest
  <2>4. candlesAt' \in {"returned", "raised"} \/ (candlesAt' = "paging" /\ page' # MaxPages)
    BY <1>2, <2>2 DEF FetchPage
  <2> QED
    BY <1>0, <2>1, <2>2, <2>3, <2>4 DEF CandlesRanges
<1>3. CASE FetchPageFails
  BY <1>3 DEF CandlesRanges, FetchPageFails, MaxPages
<1>4. CASE UNCHANGED allVars \/ PassOnly \/ BacktestOnly \/ TrackerOnly
  BY <1>1, <1>4 DEF allVars, PassOnly, BacktestOnly, TrackerOnly
<1> QED
  BY <1>2, <1>3, <1>4 DEF Next

\* And a step of the scoring.
LEMMA TrackRangesKept ==
  ASSUME TrackRanges, [Next]_allVars
  PROVE  TrackRanges'
<1>1. CASE UNCHANGED trackerVars
  BY <1>1 DEF TrackRanges, trackerVars
<1>2. CASE NextDay
  <2>1. today' = today + 1 /\ today < Len(prices) /\ quote' = 0 /\ UNCHANGED <<prices, summary>>
    BY <1>2 DEF NextDay
  <2> QED
    BY <2>1 DEF TrackRanges
<1>3. ASSUME NEW bars, Snapshot(bars) PROVE TrackRanges'
  <2> DEFINE logged == {r \in Directional : r.date <= today}
             scored == {r \in logged : scores'[r][Primary] # Unscored}
  <2>1. /\ summary' = [scored |-> Cardinality(scored), pending |-> Cardinality(logged \ scored)]
        /\ UNCHANGED <<prices, today, quote>>
    BY <1>3 DEF Snapshot
  <2>2. logged \subseteq Directional /\ scored \subseteq logged
    OBVIOUS
  <2> HIDE DEF logged, scored
  <2>3. IsFiniteSet(Directional)
    <3>1. IsFiniteSet(Records) /\ Directional \subseteq Records
      BY TrackerAssumption DEF Directional
    <3> QED
      BY <3>1, FS_Subset
  <2>4. IsFiniteSet(logged) /\ Cardinality(logged) <= Cardinality(Directional)
    BY <2>2, <2>3, FS_Subset
  <2>5. IsFiniteSet(scored)
    BY <2>2, <2>4, FS_Subset
  <2>6. Cardinality(logged \ scored) = Cardinality(logged) - Cardinality(logged \cap scored)
    BY <2>4, <2>5, FS_Difference
  <2>7. logged \cap scored = scored
    BY <2>2
  <2>8. Cardinality(logged) \in Nat /\ Cardinality(scored) \in Nat /\ Cardinality(Directional) \in Nat
    BY <2>3, <2>4, <2>5, FS_CardinalityType
  <2>9. Cardinality(scored) + Cardinality(logged \ scored) <= Cardinality(Directional)
    <3> DEFINE a == Cardinality(logged)
               b == Cardinality(scored)
               c == Cardinality(logged \ scored)
               d == Cardinality(Directional)
    <3>1. a \in Nat /\ b \in Nat /\ d \in Nat /\ a <= d /\ c = a - b
      BY <2>4, <2>6, <2>7, <2>8
    <3> HIDE DEF a, b, c, d
    <3>2. b + c <= d
      BY <3>1
    <3> QED
      BY <3>2 DEF b, c, d
  <2>10. summary'.scored + summary'.pending <= Cardinality(Directional)
    BY <2>1, <2>9
  <2> QED
    BY <2>1, <2>10 DEF TrackRanges
<1>4. CASE Track \/ TrackDamaged
  BY <1>3, <1>4 DEF Track, TrackDamaged
<1>6. CASE Trade
  BY <1>6 DEF TrackRanges, Trade
<1>5. CASE UNCHANGED allVars \/ PassOnly \/ CandlesOnly \/ BacktestOnly
  BY <1>1, <1>5 DEF allVars, PassOnly, CandlesOnly, BacktestOnly
<1> QED
  BY <1>2, <1>4, <1>5, <1>6 DEF Next

\* Every variable of every process stays within its range, for every value of the
\* constants.
THEOREM TypeCorrect == Spec => []TypeOK
<1> DEFINE Ranges == PassRanges /\ CandlesRanges /\ TrackRanges
<1>1. Init => Ranges
  <2> SUFFICES ASSUME Init PROVE Ranges
    OBVIOUS
  <2>1. PassRanges
    <3>1. /\ NothingDone /\ at \in {"start", "idle"}
          /\ command \in CommandsRun \cup {"none"}
      BY DEF Init, PassInit, PassIdle
    <3>2. tries = 0 /\ macro = "unfetched" /\ tried = {} /\ ToSet(left) = {}
      BY <3>1, EmptyIsSeq DEF NothingDone
    <3> QED
      BY <3>1, <3>2 DEF PassRanges, Places, MaxTries
  <2>2. CandlesRanges
    <3>1. /\ candlesAt \in {"idle", "paging"} /\ collected = {} /\ page = 0 /\ want \in Nat
          /\ PerCall \in Nat \ {0}
      BY CandlesAssumption DEF Init, CandlesInit, CandlesIdle
    <3>2. want \div PerCall \in Nat
      BY <3>1
    <3> QED
      BY <3>1, <3>2 DEF CandlesRanges, MaxPages
  <2>3. TrackRanges
    <3>1. summary = [scored |-> 0, pending |-> 0] /\ quote = 0
          /\ \/ prices = <<>> /\ today = 0
             \/ prices \in Closes /\ today = 1
      BY DEF Init, TrackerInit, TrackerIdle, NothingScored
    <3>2. <<>> \in Seq(Nat) /\ Len(<<>>) = 0
      OBVIOUS
    <3>3. prices \in Seq(Nat) /\ today \in 0..Len(prices)
      <4>1. CASE prices = <<>> /\ today = 0
        BY <3>2, <4>1
      <4>2. CASE prices \in Closes /\ today = 1
        <5>1. prices \in Seq(Nat) /\ prices # <<>>
          BY <4>2, TrackerAssumption
        <5>2. Len(prices) \in Nat /\ Len(prices) >= 1
          BY <5>1
        <5> QED
          BY <4>2, <5>1, <5>2
      <4> QED
        BY <3>1, <4>1, <4>2
    <3>4. Cardinality(Directional) \in Nat
      <4>1. IsFiniteSet(Records) /\ Directional \subseteq Records
        BY TrackerAssumption DEF Directional
      <4> QED
        BY <4>1, FS_Subset, FS_CardinalityType
    <3> QED
      BY <3>1, <3>3, <3>4 DEF TrackRanges
  <2> QED
    BY <2>1, <2>2, <2>3
<1>2. PassInv /\ CandlesInv /\ Ranges /\ [Next]_allVars => Ranges'
  BY PassRangesKept, CandlesRangesKept, TrackRangesKept
<1>3. ReportInv /\ BacktestInv /\ BooksInv /\ TrackInv /\ Ranges => TypeOK
  <2> SUFFICES ASSUME ReportInv, BacktestInv, BooksInv, TrackInv, Ranges PROVE TypeOK
    OBVIOUS
  <2>1. ToSet(cands) \subseteq Symbols /\ Len(results) <= Len(cands)
    BY DEF ReportInv, Judged, ToSet
  <2>2. bar \in 0 .. (IF history = <<>> THEN 0 ELSE Length(history))
    <3>1. bar \in Nat /\ history \in Worlds \cup {<<>>}
          /\ (bar > 0 => history \in Worlds /\ bar \in TrendBars .. Length(history))
      BY DEF BacktestInv, BacktestTypes, BooksInv
    <3>2. history # <<>> => Length(history) \in Nat
      BY <3>1, LengthIs
    <3>3. history \in Worlds => history # <<>>
      <4> DEFINE none == <<>>
      <4>1. DOMAIN none = {}
        OBVIOUS
      <4>2. history \in Worlds => DOMAIN history # {}
        BY BacktestAssumption
      <4> HIDE DEF none
      <4>3. history \in Worlds => history # none
        BY <4>1, <4>2
      <4> QED
        BY <4>3 DEF none
    <3> QED
      BY <3>1, <3>2, <3>3 DEF TrendBars
  <2>3. DOMAIN weights \subseteq Symbols
    BY DEF BooksInv, Weighed
  <2>4. Len(seen) <= today
    BY DEF TrackInv
  <2> QED
    BY <2>1, <2>2, <2>3, <2>4
       DEF TypeOK, PassRanges, CandlesRanges, TrackRanges, Places, Reachable
<1> HIDE DEF Ranges
<1> QED
  BY <1>1, <1>2, <1>3, PassInvariant, CandlesInvariant, ReportInvariant, BacktestInvariant,
     BooksInvariant, TrackInvariant, PTL DEF Spec
=============================================================================
