----------------------------- MODULE RiskAlerts -----------------------------
(***************************************************************************)
(* The risk scan of the serve process (scheduler/jobs.py) together with    *)
(* the AlertDeduper that keeps an alert from repeating within a day        *)
(* (risk/state.py), the JSON file it persists its keys in, the Slack call  *)
(* that delivers an alert (slack/web_client.py) and the process itself,    *)
(* which may die and be restarted by systemd at any point.                 *)
(*                                                                         *)
(* One scan is one run of _risk_job: it reads the VIX, then the universe,  *)
(* then the held positions, each in its own blocking step, and then walks  *)
(* over the alerts it found: should_send claims the key and saves the      *)
(* file, and only then is the message posted.  APScheduler runs at most    *)
(* one instance of the job, so the scan has one program counter, job.      *)
(*                                                                         *)
(* Time advances in parts of a day.  Keys carry the UTC day                *)
(* (AlertDeduper._today), trading days are days of the market's own        *)
(* timezone (calendar.now_in_market), LocalShift parts ahead of UTC.       *)
(***************************************************************************)
EXTENDS Naturals, FiniteSets

CONSTANTS
  Universe,      \* symbols of the briefing market's universe file
  Holdings,      \* symbols held with a positive quantity
  PartsPerDay,   \* clock steps in a day
  LocalShift,    \* steps the market's clock is ahead of UTC
  TradingDays,   \* local days that are neither weekend nor holiday
  LastPart       \* bound on the clock

ASSUME ClockAssumption ==
  /\ PartsPerDay \in Nat \ {0}
  /\ LocalShift \in Nat
  /\ LastPart \in Nat
  /\ TradingDays \subseteq Nat

VARIABLES
  now,           \* the clock, in parts since some UTC midnight
  proc,          \* "up" or "down"
  job,           \* where _risk_job is; "idle" between scans
  queue,         \* alerts found and not yet offered to should_send
  seen,          \* AlertDeduper._seen: <<key, UTC day>> marks
  file,          \* marks _load would read from the JSON file: none when it
                 \* is missing or is not valid JSON
  posting,       \* the alert in chat_postMessage: a set of none or one
  delivered,     \* history: the posts that Slack accepted
  lost,          \* history: today's marks that a crash erased, the disk
                 \* not having them
  sighted        \* history: the scans of this process and UTC day that saw
                 \* the stop of a position whose key was not marked yet

vars == <<now, proc, job, queue, seen, file, posting, delivered, lost, sighted>>
deduper == <<seen, file>>
history == <<delivered, lost, sighted>>

-----------------------------------------------------------------------------
(* Keys, alerts and the two calendars.                                     *)

NoSymbol == "-"

Key ==
  ({"blackswan"} \X {NoSymbol})
    \cup ({"gap_down"} \X Universe)
    \cup ({"position_stop"} \X Holdings)

Severity == {"warning", "critical"}
Alert == [key : Key, severity : Severity]
Mark == Key \X Nat
Post == [key : Key, severity : Severity, day : Nat, local : Nat]

MutantLocalDay(t) == (t + LocalShift) \div PartsPerDay - 1   \* mutant: a day behind
LocalDay(t) == (t + LocalShift) \div PartsPerDay

UtcDay(t) == t \div PartsPerDay

\* dedupe_key(today): kind and symbol, never the severity.
MarkOf(a, today) == <<a.key, today>>

StopKey(s) == <<"position_stop", s>>
Marked(s) == <<StopKey(s), UtcDay(now)>> \in seen
MarksToday == {m \in seen : m[2] = UtcDay(now)}
NoneSighted == [s \in Holdings |-> 0]

EvaluateBlackswan(breach) ==
  IF breach THEN {[key |-> <<"blackswan", NoSymbol>>, severity |-> "critical"]}
  ELSE {}

EvaluateGapDown(gapped) ==
  {[key |-> <<"gap_down", s>>, severity |-> "warning"] : s \in gapped}

\* The hard stop is looked at first; the ATR stop needs candles, so a symbol
\* whose candles could not be fetched is never in trailing.
EvaluatePositionStop(hard, trailing) ==
  {[key |-> <<"position_stop", s>>, severity |-> "critical"] : s \in hard}
    \cup {[key |-> <<"position_stop", s>>, severity |-> "warning"]
            : s \in trailing \ hard}

-----------------------------------------------------------------------------
(* The marks in memory and in the file.                                    *)

MutantPrune(marks, today) == {m \in marks : m[2] # today}  \* mutant: inverted test
Prune(marks, today) == {m \in marks : m[2] = today}

\* write_text truncates the file and then writes it; an OSError of either step
\* is logged and swallowed, so the caller cannot tell the outcomes apart: the
\* marks are on disk, the old file is still there, or nothing readable is left.
Save(marks) == file' \in {marks, file, {}}

\* The alerts are offered in the order they were found.
Rank(a) ==
  CASE a.key[1] = "blackswan" -> 0
    [] a.key[1] = "gap_down" -> 1
    [] OTHER -> 2

First(a) == a \in queue /\ \A b \in queue : Rank(a) <= Rank(b)

-----------------------------------------------------------------------------
Init ==
  /\ now = 0
  /\ proc = "up"
  /\ job = "idle"
  /\ queue = {}
  /\ seen = {}
  /\ file = {}
  /\ posting = {}
  /\ delivered = {}
  /\ lost = {}
  /\ sighted = NoneSighted

Tick ==
  /\ now < LastPart
  /\ now' = now + 1
  /\ sighted' = IF UtcDay(now') = UtcDay(now) THEN sighted ELSE NoneSighted
  /\ UNCHANGED <<proc, job, queue, deduper, posting, delivered, lost>>

\* The interval fires and the scan thread reads the VIX; breach is FALSE also
\* when no source answered.
ScanVix(breach) ==
  /\ proc = "up" /\ job = "idle"
  /\ queue' = EvaluateBlackswan(breach)
  /\ job' = "gaps"
  /\ UNCHANGED <<now, proc, deduper, posting, history>>

\* The universe is only scanned on a trading day; off trading days the held
\* positions are not scanned either.  gapped leaves out every symbol whose
\* candles could not be fetched, and is empty when no client could be built.
ScanGaps(gapped) ==
  /\ proc = "up" /\ job = "gaps"
  /\ LocalDay(now) \in TradingDays
  /\ queue' = queue \cup EvaluateGapDown(gapped)
  /\ job' = "stops"
  /\ UNCHANGED <<now, proc, deduper, posting, history>>

SkipOffDay ==
  /\ proc = "up" /\ job = "gaps"
  /\ LocalDay(now) \notin TradingDays
  /\ job' = "notify"
  /\ UNCHANGED <<now, proc, queue, deduper, posting, history>>

\* load_universe is called outside the try: when it raises, the job ends and
\* the alerts found so far go with it.
UniverseUnreadable ==
  /\ proc = "up" /\ job = "gaps"
  /\ LocalDay(now) \in TradingDays
  /\ job' = "idle"
  /\ queue' = {}
  /\ UNCHANGED <<now, proc, deduper, posting, history>>

\* hard and trailing are empty when the holdings could not be fetched.
ScanStops(hard, trailing) ==
  /\ proc = "up" /\ job = "stops"
  /\ queue' = queue \cup EvaluatePositionStop(hard, trailing)
  /\ job' = "notify"
  /\ sighted' = [s \in Holdings |->
                   IF s \in hard \cup trailing /\ ~Marked(s)
                   THEN sighted[s] + 1 ELSE sighted[s]]
  /\ UNCHANGED <<now, proc, deduper, posting, delivered, lost>>

MutantSuppress(a) ==               \* mutant: the loop does not move on
  LET today == UtcDay(now) IN
  /\ proc = "up" /\ job = "notify" /\ First(a)
  /\ MarkOf(a, today) \in Prune(seen, today)
  /\ seen' = Prune(seen, today)
  /\ UNCHANGED <<now, proc, job, queue, file, posting, history>>

\* should_send finds the key among today's marks: no message.
Suppress(a) ==
  LET today == UtcDay(now) IN
  /\ proc = "up" /\ job = "notify" /\ First(a)
  /\ MarkOf(a, today) \in Prune(seen, today)
  /\ seen' = Prune(seen, today)
  /\ queue' = queue \ {a}
  /\ UNCHANGED <<now, proc, job, file, posting, history>>

\* should_send marks and saves, and returns True: the post begins.
MutantClaim(a) ==                  \* mutant: the key is not added before the post
  LET today == UtcDay(now) IN
  /\ proc = "up" /\ job = "notify" /\ First(a)
  /\ MarkOf(a, today) \notin Prune(seen, today)
  /\ seen' = Prune(seen, today)
  /\ Save(seen')
  /\ posting' = {[key |-> a.key, severity |-> a.severity,
                  day |-> today, local |-> LocalDay(now)]}
  /\ job' = "post"
  /\ queue' = queue \ {a}
  /\ UNCHANGED <<now, proc, history>>

Claim(a) ==
  LET today == UtcDay(now) IN
  /\ proc = "up" /\ job = "notify" /\ First(a)
  /\ MarkOf(a, today) \notin Prune(seen, today)
  /\ seen' = Prune(seen, today) \cup {MarkOf(a, today)}
  /\ Save(seen')
  /\ posting' = {[key |-> a.key, severity |-> a.severity,
                  day |-> today, local |-> LocalDay(now)]}
  /\ job' = "post"
  /\ queue' = queue \ {a}
  /\ UNCHANGED <<now, proc, history>>

ScanDone ==
  /\ proc = "up" /\ job = "notify" /\ queue = {}
  /\ job' = "idle"
  /\ UNCHANGED <<now, proc, queue, deduper, posting, history>>

\* Slack has the message; the call has not returned yet.
PostAccepted ==
  /\ proc = "up" /\ job = "post"
  /\ delivered' = delivered \cup posting
  /\ posting' = {}
  /\ job' = "accepted"
  /\ UNCHANGED <<now, proc, queue, deduper, lost, sighted>>

PostReturns ==
  /\ proc = "up" /\ job = "accepted"
  /\ job' = "notify"
  /\ UNCHANGED <<now, proc, queue, deduper, posting, history>>

\* A SlackApiError (or no channel configured) is logged; post_message returns
\* False, which _risk_job does not look at.
PostRefused ==
  /\ proc = "up" /\ job = "post"
  /\ posting' = {}
  /\ job' = "notify"
  /\ UNCHANGED <<now, proc, queue, deduper, history>>

MutantPostRaises ==                \* mutant: a failed post gives its mark back
  /\ proc = "up" /\ job \in {"post", "accepted"}
  /\ posting' = {}
  /\ job' = "idle"
  /\ queue' = {}
  /\ seen' = seen \ {<<p.key, p.day>> : p \in posting}
  /\ UNCHANGED <<now, proc, file, history>>

\* Any other exception (no route, a timeout) leaves the loop of _risk_job:
\* the rest of the alerts is dropped.
PostRaises ==
  /\ proc = "up" /\ job \in {"post", "accepted"}
  /\ posting' = {}
  /\ job' = "idle"
  /\ queue' = {}
  /\ UNCHANGED <<now, proc, deduper, history>>

Die(marksOnDisk) ==
  /\ proc' = "down"
  /\ job' = "idle"
  /\ queue' = {}
  /\ posting' = {}
  /\ seen' = {}
  /\ lost' = lost \cup Prune(seen \ marksOnDisk, UtcDay(now))
  /\ sighted' = NoneSighted

Crash ==
  /\ proc = "up"
  /\ Die(file)
  /\ UNCHANGED <<now, file, delivered>>

\* The process dies between the truncation and the write of a save.
CrashInSave(a) ==
  /\ proc = "up" /\ job = "notify" /\ First(a)
  /\ MarkOf(a, UtcDay(now)) \notin Prune(seen, UtcDay(now))
  /\ file' = {}
  /\ Die({})
  /\ UNCHANGED <<now, delivered>>

MutantRestart ==                              \* mutant: _load is not called
  /\ proc = "down"
  /\ proc' = "up"
  /\ seen' = {}
  /\ UNCHANGED <<now, job, queue, file, posting, history>>

\* systemd starts the process again; AlertDeduper.__init__ reads the file.
Restart ==
  /\ proc = "down"
  /\ proc' = "up"
  /\ seen' = file
  /\ UNCHANGED <<now, job, queue, file, posting, history>>

-----------------------------------------------------------------------------
\* Whichever way the walk over the universe ends.
Gaps ==
  \/ \E gapped \in SUBSET Universe : ScanGaps(gapped)
  \/ SkipOffDay
  \/ UniverseUnreadable

Stops == \E hard \in SUBSET Holdings, trailing \in SUBSET Holdings : ScanStops(hard, trailing)

Scan ==
  \/ \E breach \in BOOLEAN : ScanVix(breach)
  \/ Gaps
  \/ Stops

Send ==
  \/ \E a \in queue : Suppress(a) \/ Claim(a)
  \/ ScanDone
  \/ PostAccepted
  \/ PostReturns
  \/ PostRefused
  \/ PostRaises

Next ==
  \/ Tick
  \/ Scan
  \/ Send
  \/ Crash
  \/ \E a \in queue : CrashInSave(a)
  \/ Restart

Spec == Init /\ [][Next]_vars

\* A scan that has begun goes on, whichever way each of its steps ends: the
\* calls it makes (the VIX, Toss, Slack) are given timeouts and no other job
\* holds the event loop.  Nothing is assumed of the universe file, of the
\* answers, of the disk, of crashes or of the clock, nor that a scan begins.
Fairness ==
  /\ WF_vars(Gaps)
  /\ WF_vars(Stops)
  /\ WF_vars(Send)

FairSpec == Spec /\ Fairness

-----------------------------------------------------------------------------
(* Properties.                                                             *)

\* Type invariant of the job, the deduper, its file and the two histories.
TypeOK ==
  /\ now \in Nat
  /\ proc \in {"up", "down"}
  /\ job \in {"idle", "gaps", "stops", "notify", "post", "accepted"}
  /\ queue \subseteq Alert
  /\ seen \subseteq Mark
  /\ file \subseteq Mark
  /\ posting \subseteq Post
  /\ delivered \subseteq Post
  /\ lost \subseteq Mark
  /\ sighted \in [Holdings -> Nat]

\* A message is about to be posted whose key Slack already carries for the
\* same UTC day only if the mark was erased by a crash before any save of it
\* reached the disk (state.py: "the same alert doesn't repeat within a day and
\* state survives restarts", with _save swallowing an OSError).
NoRepeatUnlessLost ==
  \A p \in posting, q \in delivered :
    p.key = q.key /\ p.day = q.day => <<p.key, p.day>> \in lost

\* What the file would bring back after a crash is, for today's keys, no more
\* than what the running process has claimed: a restart never silences an
\* alert nobody claimed (AlertDeduper._load against _save and the pruning).
FileWithinSeen ==
  proc = "up" =>
    \A m \in file : m[2] = UtcDay(now) => m \in seen

\* Part of IInv: while a message is in chat_postMessage its key is in _seen.
MarkedBeforePosted ==
  \A p \in posting : <<p.key, p.day>> \in seen

\* The inductive invariant behind the two: the job has a message in flight
\* exactly when it is posting, no mark is ahead of the clock, and whatever was
\* delivered today is remembered by the process that is up, by the file while
\* none is, or is known to be lost.
Remembered ==
  \A q \in delivered :
    q.day = UtcDay(now) =>
      <<q.key, q.day>> \in (IF proc = "up" THEN seen ELSE file) \cup lost

NotAhead ==
  /\ \A m \in seen \cup file : m[2] <= UtcDay(now)
  /\ \A p \in posting \cup delivered : p.day <= UtcDay(now)

InFlight ==
  /\ job # "post" => posting = {}
  /\ proc = "down" => job = "idle" /\ queue = {} /\ seen = {}

IInv ==
  /\ TypeOK
  /\ InFlight
  /\ NotAhead
  /\ Remembered
  /\ FileWithinSeen
  /\ MarkedBeforePosted
  /\ NoRepeatUnlessLost

\* A scan that is started ends, whatever Slack, the disk and Toss answer
\* (max_instances=1: a scan that hangs would be the last one).
ScanEnds == (job # "idle") ~> (job = "idle")

\* No alert is starved by the ones in front of it, even when every single post
\* raises and drops the alerts behind it: between scans, a position stop that
\* this process has seen today and not claimed was each time passed over for
\* another key that was spent for good.  As a day has no more keys than symbols
\* and kinds, a stop that stands is claimed after as many scans at the most
\* (jobs._risk_job: the mark is set before the post and is not taken back).
StopGetsThrough ==
  \A s \in Holdings :
    proc = "up" /\ job = "idle" =>
      Marked(s) \/ sighted[s] <= Cardinality(MarksToday)

\* What makes StopGetsThrough inductive: while the stop of s is queued it may
\* have been seen once more than there are keys spent, and while a post is
\* under way the key of that post is one to spare.
Queued(s) == \E a \in queue : a.key = StopKey(s)
Posting == job \in {"post", "accepted"}

Passed(s) ==
  \/ Marked(s)
  \/ sighted[s] = 0
  \/ sighted[s] + (IF Posting THEN 1 ELSE 0)
       <= Cardinality(MarksToday) + (IF Queued(s) THEN 1 ELSE 0)

StopInv ==
  /\ IsFiniteSet(seen) /\ IsFiniteSet(file)
  /\ job \in {"idle", "gaps", "stops"} => \A s \in Holdings : ~Queued(s)
  /\ \A s \in Holdings : Passed(s)

\* README: one alert per day of the market ("같은 날 중복 억제"); state.py says
\* the key holds the trading date.  Marks that a crash erased are excepted.
OncePerTradingDay ==
  \A p \in posting, q \in delivered :
    p.key = q.key /\ p.local = q.local => <<q.key, q.day>> \in lost

\* web_client.py: "Failures are logged and swallowed so a Slack hiccup never
\* breaks a pipeline run": however a post ends, the alerts behind it are still
\* offered by the same scan.
HiccupDropsNothing ==
  [][(job \in {"post", "accepted"} /\ proc' = "up") => queue' = queue]_vars

\* The scan and the deduper implement the abstract promise: what is claimed is
\* today's part of _seen while the process runs, and of the file while
\* it is down.
Claimed ==
  {m \in (IF proc = "up" THEN seen ELSE file) : m[2] = UtcDay(now)}

Promise == INSTANCE OncePerDay WITH
  day <- UtcDay(now),
  claimed <- Claimed,
  pending <- {<<p.key, p.day>> : p \in posting},
  delivered <- {<<p.key, p.day>> : p \in delivered},
  forgotten <- lost

ImplementsOncePerDay == Promise!AbsSpec
=============================================================================
