------------------------------ MODULE ReportsDir ------------------------------
(***************************************************************************)
(* The reports directory and the two recommendation ledgers in it          *)
(* (performance/ledger.py, output/report.py, output/portfolio_report.py).  *)
(* Nothing locks the directory: the 30-minute run, the daily pass, a        *)
(* command typed by the user and the threads of the Slack server read and   *)
(* write it as processes of their own, and any of them may be killed.       *)
(*                                                                         *)
(* A ledger is the text of an append-only file.  A line is written in      *)
(* three parts, the two halves of its JSON and its newline, because the    *)
(* buffer of the file may be flushed between any two of them and the       *)
(* process may die there.                                                  *)
(***************************************************************************)
EXTENDS Integers, Sequences, FiniteSets, SequencesExt

CONSTANTS
  Process,
  Item,          \* a symbol with the action recommended for it
  Results,       \* what a run may recommend: sequences of items
  JobsOf,        \* the jobs each process runs, see below
  PerDay,        \* seconds of a day; a report is named by its second
  LastTime,      \* bound on the clock
  AlertsOn,      \* whether a risk alert is ever saved in the directory
  MaxReports,    \* bound on the reports made
  MaxCuts,       \* bound on flushes that end inside the text of a batch
  MaxCrashes     \* bound on the processes that die

Kinds == {"pick", "advice"}
Op(op, kind) == [op |-> op, kind |-> kind]

\* run-once, and /recommend; `daily` with and without an account, and after a
\* fresh pass (--picks); `portfolio`; `track` and the advisor's performance tool.
RunOnce == <<Op("save", "pick"), Op("append", "pick")>>
Daily == <<Op("save", "advice"), Op("fill", "pick"), Op("fill", "advice")>>
DailyNoAccount == <<Op("fill", "pick"), Op("fill", "advice")>>
DailyPicks == <<Op("save", "pick"), Op("append", "pick"), Op("save", "advice"),
                Op("fill", "pick"), Op("fill", "advice")>>
DailyPicksNoAccount == <<Op("save", "pick"), Op("append", "pick"),
                         Op("fill", "pick"), Op("fill", "advice")>>
Dailies == {Daily, DailyNoAccount, DailyPicks, DailyPicksNoAccount}
Portfolio == <<Op("save", "advice")>>
Track(kind) == <<Op("fill", kind)>>
AllJobs == Dailies \cup {RunOnce, Portfolio, Track("pick"), Track("advice")}

ASSUME ReportsDirAssumption ==
  /\ Results \subseteq Seq(Item)
  /\ JobsOf \in [Process -> SUBSET AllJobs]
  /\ PerDay \in Nat \ {0}
  /\ LastTime \in Nat \ {0}
  /\ AlertsOn \in BOOLEAN
  /\ MaxReports \in Nat /\ MaxCuts \in Nat /\ MaxCrashes \in Nat

VARIABLES
  time,
  files,        \* the reports by kind and second
  ledger,       \* the text of each ledger
  alerts,       \* whether .risk_alerts.json exists
  proc,         \* what each process is doing
  made,         \* history: the records of the reports made, per kind
  reports, cuts, crashes     \* counters for the bounds

vars == <<time, files, ledger, alerts, proc, made, reports, cuts, crashes>>
bounds == <<reports, cuts, crashes>>

MutantToday == time                         \* mutant: the second, not its date
Today == time \div PerDay

Key == [date : 0..(LastTime \div PerDay), item : Item]
Token == [part : {"head", "rest", "newline"}, key : Key]

Absent == [state |-> "absent", keys |-> <<>>]
Broken == [state |-> "broken", keys |-> <<>>]
Whole(keys) == [state |-> "whole", keys |-> keys]

Idle == [todo |-> <<>>, step |-> "start", second |-> 0,
         records |-> <<>>, buffer |-> <<>>]

-----------------------------------------------------------------------------
(* The text of a ledger.                                                   *)

MutantText(key) == <<[part |-> "head", key |-> key],     \* mutant: no newline
                     [part |-> "rest", key |-> key]>>

\* model_dump_json() + "\n"
Text(key) == <<[part |-> "head", key |-> key], [part |-> "rest", key |-> key],
               [part |-> "newline", key |-> key]>>

\* Where a line stands alone and parses; load_ledger skips all the others.
Lines(text) ==
  {i \in 1..(Len(text) - 1) :
     /\ text[i].part = "head"
     /\ text[i + 1] = [part |-> "rest", key |-> text[i].key]
     /\ i > 1 => text[i - 1].part = "newline"
     /\ i + 2 <= Len(text) => text[i + 2].part = "newline"}

LoadLedger(kind) == {ledger[kind][i].key : i \in Lines(ledger[kind])}

MutantSaved(kind) ==                    \* mutant: portfolio_ files not left out
  FlattenSeq([second \in 1..LastTime |->
    files[kind][second].keys \o
    (IF kind = "pick" THEN files["advice"][second].keys ELSE <<>>)])

\* The reports of a kind in the order of their names, unreadable ones skipped.
Saved(kind) ==
  FlattenSeq([second \in 1..LastTime |-> files[kind][second].keys])

-----------------------------------------------------------------------------
Init ==
  /\ time = 1
  /\ files = [kind \in Kinds |-> [second \in 1..LastTime |-> Absent]]
  /\ ledger = [kind \in Kinds |-> <<>>]
  /\ alerts = FALSE
  /\ proc = [p \in Process |-> Idle]
  /\ made = [kind \in Kinds |-> {}]
  /\ reports = 0 /\ cuts = 0 /\ crashes = 0

Tick ==
  /\ time < LastTime
  /\ time' = time + 1
  /\ UNCHANGED <<files, ledger, alerts, proc, made, bounds>>

\* The risk scan saves its alerts for the first time.
AlertSaved ==
  /\ AlertsOn
  /\ ~alerts
  /\ alerts' = TRUE
  /\ UNCHANGED <<time, files, ledger, proc, made, bounds>>

\* The reports a job will save; they are counted when it starts, so that the
\* bound never stops one halfway.
Saves(job) == Cardinality({i \in DOMAIN job : job[i].op = "save"})

Start(p, job) ==
  /\ proc[p] = Idle
  /\ reports + Saves(job) <= MaxReports
  /\ proc' = [proc EXCEPT ![p].todo = job]
  /\ reports' = reports + Saves(job)
  /\ UNCHANGED <<time, files, ledger, alerts, made, cuts, crashes>>

At(p, op, step) ==
  /\ proc[p].todo # <<>>
  /\ Head(proc[p].todo).op = op
  /\ proc[p].step = step

Kind(p) == Head(proc[p].todo).kind

\* The process as it is when the operation it is at is over.
Over(p, records) ==
  IF Len(proc[p].todo) = 1 THEN Idle
  ELSE [Idle EXCEPT !.todo = Tail(proc[p].todo), !.records = records]

\* A run ends in a report, named by the second it was made in; write_text
\* empties the file of that name.
OpenReport(p) ==
  /\ At(p, "save", "start")
  /\ \E result \in Results :
       LET keys == [i \in DOMAIN result |-> [date |-> Today, item |-> result[i]]]
       IN /\ proc' = [proc EXCEPT ![p].step = "open", ![p].second = time,
                                  ![p].records = keys]
          /\ made' = [made EXCEPT ![Kind(p)] = @ \cup ToSet(keys)]
  /\ files' = [files EXCEPT ![Kind(p)][time] = Broken]
  /\ UNCHANGED <<time, ledger, alerts, bounds>>

\* A file that another process has written since it was emptied is
\* overwritten from its start: a longer text sticks out behind this one.
WriteReport(p) ==
  LET second == proc[p].second
      new == Whole(proc[p].records)
  IN
  /\ At(p, "save", "open")
  /\ \E file \in {new} \cup (IF files[Kind(p)][second] = Broken THEN {} ELSE {Broken}) :
       files' = [files EXCEPT ![Kind(p)][second] = file]
  /\ proc' = [proc EXCEPT ![p] = Over(p, proc[p].records)]
  /\ UNCHANGED <<time, ledger, alerts, made, bounds>>

\* .risk_alerts.json matches "*.json" and holds a list, which has no `get`:
\* the exception ends the whole job.
ChokeOnAlerts(p) ==
  /\ At(p, "fill", "start")
  /\ alerts
  /\ Kind(p) = "pick"
  /\ proc' = [proc EXCEPT ![p] = Idle]
  /\ UNCHANGED <<time, files, ledger, alerts, made, bounds>>

MutantCollect(p) ==                     \* mutant: seeds an empty ledger only
  /\ At(p, "fill", "start")
  /\ ~(alerts /\ Kind(p) = "pick")
  /\ proc' = [proc EXCEPT ![p].step = "collected",
                ![p].records = IF ledger[Kind(p)] = <<>> THEN Saved(Kind(p)) ELSE <<>>]
  /\ UNCHANGED <<time, files, ledger, alerts, made, bounds>>

\* backfill_from_reports, backfill_from_portfolio_reports: the files are read;
\* one that is being written does not parse.
Collect(p) ==
  /\ At(p, "fill", "start")
  /\ ~(alerts /\ Kind(p) = "pick")
  /\ proc' = [proc EXCEPT ![p].step = "collected", ![p].records = Saved(Kind(p))]
  /\ UNCHANGED <<time, files, ledger, alerts, made, bounds>>

\* The lines of the records that are not known yet.
NewLines(records, known) ==
  FlattenSeq([i \in DOMAIN records |->
                IF records[i] \in known THEN <<>> ELSE Text(records[i])])

\* append_records: the keys of the ledger are read and the records that are
\* not among them are buffered.
ReadLedger(p) ==
  LET new == NewLines(proc[p].records, LoadLedger(Kind(p)))
  IN
  /\ At(p, "append", "start") \/ At(p, "fill", "collected")
  /\ proc' = [proc EXCEPT
       ![p] = IF new # <<>>
              THEN [@ EXCEPT !.step = "writing", !.buffer = new]
              ELSE IF Head(@.todo).op = "append" THEN Over(p, <<>>)
              ELSE [@ EXCEPT !.step = "score"]]
  /\ UNCHANGED <<time, files, ledger, alerts, made, bounds>>

Written(p, n) ==
  IF n < Len(proc[p].buffer)
  THEN [proc[p] EXCEPT !.buffer = SubSeq(@, n + 1, Len(@))]
  ELSE IF Head(proc[p].todo).op = "append" THEN Over(p, <<>>)
  ELSE [proc[p] EXCEPT !.step = "score", !.buffer = <<>>]

MutantFlush(p) ==                       \* mutant: the file is opened with "w"
  \E n \in 1..Len(proc[p].buffer) :
    /\ proc[p].step = "writing"
    /\ cuts' = cuts + (IF n < Len(proc[p].buffer) THEN 1 ELSE 0)
    /\ cuts' <= MaxCuts
    /\ ledger' = [ledger EXCEPT ![Kind(p)] = SubSeq(proc[p].buffer, 1, n)]
    /\ proc' = [proc EXCEPT ![p] = Written(p, n)]
    /\ UNCHANGED <<time, files, alerts, made, reports, crashes>>

\* The buffer is appended to the file, all of it or up to any point.
Flush(p) ==
  \E n \in 1..Len(proc[p].buffer) :
    /\ proc[p].step = "writing"
    /\ cuts' = cuts + (IF n < Len(proc[p].buffer) THEN 1 ELSE 0)
    /\ cuts' <= MaxCuts
    /\ ledger' = [ledger EXCEPT ![Kind(p)] = @ \o SubSeq(proc[p].buffer, 1, n)]
    /\ proc' = [proc EXCEPT ![p] = Written(p, n)]
    /\ UNCHANGED <<time, files, alerts, made, reports, crashes>>

\* After a backfill the ledger is loaded and scored.
Score(p) ==
  /\ At(p, "fill", "score")
  /\ proc' = [proc EXCEPT ![p] = Over(p, <<>>)]
  /\ UNCHANGED <<time, files, ledger, alerts, made, bounds>>

\* The process is killed, or a write fails: what is in the buffer is gone.
Crash(p) ==
  /\ proc[p] # Idle
  /\ crashes < MaxCrashes
  /\ crashes' = crashes + 1
  /\ proc' = [proc EXCEPT ![p] = Idle]
  /\ UNCHANGED <<time, files, ledger, alerts, made, reports, cuts>>

Step(p) ==
  \/ OpenReport(p)
  \/ WriteReport(p)
  \/ ChokeOnAlerts(p)
  \/ Collect(p)
  \/ ReadLedger(p)
  \/ Flush(p)
  \/ Score(p)

Next ==
  \/ Tick
  \/ AlertSaved
  \/ \E p \in Process :
       \/ \E job \in JobsOf[p] : Start(p, job)
       \/ Step(p)
       \/ Crash(p)

Spec == Init /\ [][Next]_vars

\* A process gets on, and the timer of tossai-daily fires again and again.
Fairness ==
  \A p \in Process :
    /\ WF_vars(Step(p))
    /\ SF_vars(\E job \in JobsOf[p] \cap Dailies : Start(p, job))

FairSpec == Spec /\ Fairness

-----------------------------------------------------------------------------
(* Properties.                                                             *)

\* Type invariant of the directory and the processes.
TypeOK ==
  /\ time \in 1..LastTime
  /\ \A kind \in Kinds :
       /\ \A second \in 1..LastTime :
            /\ files[kind][second].state \in {"absent", "broken", "whole"}
            /\ files[kind][second].keys \in Seq(Key)
       /\ ledger[kind] \in Seq(Token)
       /\ made[kind] \subseteq Key
  /\ alerts \in BOOLEAN
  /\ \A p \in Process :
       /\ \E job \in JobsOf[p] \cup {<<>>} : IsSuffix(proc[p].todo, job)
       /\ proc[p].step \in {"start", "open", "collected", "writing", "score"}
       /\ proc[p].records \in Seq(Key)
       /\ proc[p].buffer \in Seq(Token)
  /\ reports \in 0..MaxReports /\ cuts \in 0..MaxCuts /\ crashes \in 0..MaxCrashes

\* What is scored was recommended: a line of a ledger that parses is a record of
\* a report of that ledger's kind, with the date the report was made, whatever
\* was torn, merged, filled in later or written by several at once.
NothingInvented == \A kind \in Kinds : LoadLedger(kind) \subseteq made[kind]

\* When a backfill is followed by the scoring, every report it read is in what
\* is scored, unless a write was cut short: neither the skipping of known keys
\* nor the appends of other processes lose a record.
ScoresWhatItRead ==
  \A p \in Process :
    At(p, "fill", "score") /\ cuts = 0 => ToSet(proc[p].records) \subseteq LoadLedger(Kind(p))

\* The records whose writing began and that are not read back.
Lost(text) == {i \in DOMAIN text : text[i].part = "head"} \ Lines(text)

\* A write that was cut short spoils at most the record it cut and the one
\* written next to it, however many follow.
DamageIsBounded ==
  Cardinality(Lost(ledger["pick"])) + Cardinality(Lost(ledger["advice"])) <= 2 * cuts

\* Every record of every report that can be read is in its ledger.
UpToDate == \A kind \in Kinds : ToSet(Saved(kind)) \subseteq LoadLedger(kind)

\* The daily pass makes up for a run that died before its append and for a line
\* that was spoilt: the ledgers catch up with the reports again and again, as
\* long as no risk alert was ever saved beside them.
CatchesUpBarAlerts == []<>(UpToDate \/ alerts)

\* ledger.py:3-5, "seeds the ledger from any reports already on disk so past
\* runs count too", by the daily timer (DEPLOY.md:122-126): the same, with the
\* alerts of the risk scan saved in the directory or not.
CatchesUp == []<>UpToDate

\* ledger.py:28: "idempotent by date+symbol+action": no two lines of a ledger
\* have the same key.
OneLinePerKey ==
  \A kind \in Kinds : Cardinality(Lines(ledger[kind])) = Cardinality(LoadLedger(kind))
=============================================================================
