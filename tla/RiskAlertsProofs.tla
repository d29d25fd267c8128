-------------------------- MODULE RiskAlertsProofs --------------------------
(***************************************************************************)
(* Proofs about RiskAlerts for every universe, every set of holdings, every *)
(* length of the day, every timezone ahead of UTC and every bound of the    *)
(* clock: the job and the deduper are type correct, an alert repeats within *)
(* a UTC day only if a crash erased its mark, no stop is starved by the     *)
(* alerts in front of it, and the two implement OncePerDay.                 *)
(***************************************************************************)
EXTENDS RiskAlerts, FiniteSetTheorems, TLAPS

\* Days are natural numbers.
LEMMA DayIsNat ==
  ASSUME NEW t \in Nat
  PROVE  UtcDay(t) \in Nat /\ LocalDay(t) \in Nat
BY ClockAssumption, SMT DEF UtcDay, LocalDay

\* The clock enters at most one new day in a step.
LEMMA DayStep ==
  ASSUME NEW t \in Nat
  PROVE  UtcDay(t + 1) \in {UtcDay(t), UtcDay(t) + 1}
BY ClockAssumption, SMT DEF UtcDay

\* The evaluators only build alerts.
LEMMA AlertsTyped ==
  /\ \A breach \in BOOLEAN : EvaluateBlackswan(breach) \subseteq Alert
  /\ \A gapped \in SUBSET Universe : EvaluateGapDown(gapped) \subseteq Alert
  /\ \A hard, trailing \in SUBSET Holdings :
       EvaluatePositionStop(hard, trailing) \subseteq Alert
BY DEF EvaluateBlackswan, EvaluateGapDown, EvaluatePositionStop,
       Alert, Key, Severity

LEMMA MarkTyped ==
  ASSUME NEW a \in Alert, NEW d \in Nat
  PROVE  MarkOf(a, d) \in Mark
BY DEF Alert, MarkOf, Mark

-----------------------------------------------------------------------------
(* Type correctness.                                                       *)

LEMMA TypeInit == Init => TypeOK
BY DEF Init, TypeOK, NoneSighted

LEMMA TypeStep == TypeOK /\ [Next]_vars => TypeOK'
<1> SUFFICES ASSUME TypeOK, [Next]_vars PROVE TypeOK'
  OBVIOUS
<1> USE DEF TypeOK, deduper, history
<1>1. CASE Tick
  BY <1>1 DEF Tick, NoneSighted
<1>2. ASSUME NEW breach \in BOOLEAN, ScanVix(breach) PROVE TypeOK'
  BY <1>2, AlertsTyped DEF ScanVix
<1>3. ASSUME NEW gapped \in SUBSET Universe, ScanGaps(gapped) PROVE TypeOK'
  BY <1>3, AlertsTyped DEF ScanGaps
<1>4. CASE SkipOffDay
  BY <1>4 DEF SkipOffDay
<1>5. CASE UniverseUnreadable
  BY <1>5 DEF UniverseUnreadable
<1>6. ASSUME NEW hard \in SUBSET Holdings, NEW trailing \in SUBSET Holdings,
             ScanStops(hard, trailing)
      PROVE  TypeOK'
  BY <1>6, AlertsTyped DEF ScanStops
<1>7. ASSUME NEW a \in queue, Suppress(a) PROVE TypeOK'
  BY <1>7 DEF Suppress, Prune
<1>8. ASSUME NEW a \in queue, Claim(a) PROVE TypeOK'
  <2>1. a \in Alert /\ UtcDay(now) \in Nat /\ LocalDay(now) \in Nat
    BY DayIsNat
  <2>2. seen' \subseteq Mark
    BY <1>8, <2>1, MarkTyped DEF Claim, Prune
  <2>3. file' \subseteq Mark
    BY <1>8, <2>2 DEF Claim, Save
  <2>4. posting' \subseteq Post
    BY <1>8, <2>1 DEF Claim, Alert, Post
  <2>5. QED
    BY <1>8, <2>2, <2>3, <2>4 DEF Claim
<1>9. CASE ScanDone
  BY <1>9 DEF ScanDone
<1>10. CASE PostAccepted
  BY <1>10 DEF PostAccepted
<1>11. CASE PostReturns
  BY <1>11 DEF PostReturns
<1>12. CASE PostRefused
  BY <1>12 DEF PostRefused
<1>13. CASE PostRaises
  BY <1>13 DEF PostRaises
<1>14. CASE Crash
  BY <1>14 DEF Crash, Die, Prune, NoneSighted
<1>15. ASSUME NEW a \in queue, CrashInSave(a) PROVE TypeOK'
  BY <1>15 DEF CrashInSave, Die, Prune, NoneSighted
<1>16. CASE Restart
  BY <1>16 DEF Restart
<1>17. CASE UNCHANGED vars
  BY <1>17 DEF vars
<1>18. QED
  BY <1>1, <1>2, <1>3, <1>4, <1>5, <1>6, <1>7, <1>8, <1>9, <1>10, <1>11,
     <1>12, <1>13, <1>14, <1>15, <1>16, <1>17
     DEF Next, Scan, Gaps, Stops, Send

\* Every variable of the scan, the deduper, the file and the histories keeps
\* its type (jobs.py, risk/state.py).
THEOREM TypeCorrect == Spec => []TypeOK
BY TypeInit, TypeStep, PTL DEF Spec

-----------------------------------------------------------------------------
(* The inductive invariant.                                                *)

LEMMA InvInit == Init => IInv
BY TypeInit
   DEF Init, IInv, InFlight, NotAhead, Remembered, FileWithinSeen,
       MarkedBeforePosted, NoRepeatUnlessLost

\* The steps of the scan that touch neither the deduper nor a post.
LEMMA QuietStep ==
  ASSUME IInv, TypeOK', proc' = proc, proc = "up", job \notin {"post"},
         job' # "post" \/ posting' = posting,
         UNCHANGED <<now, seen, file, posting, delivered, lost>>
  PROVE  IInv'
BY DEF IInv, InFlight, NotAhead, Remembered, FileWithinSeen,
       MarkedBeforePosted, NoRepeatUnlessLost

LEMMA InvTick == IInv /\ TypeOK' /\ Tick => IInv'
<1> SUFFICES ASSUME IInv, TypeOK', Tick PROVE IInv'
  OBVIOUS
<1>1. /\ UtcDay(now) \in Nat
      /\ UtcDay(now') \in {UtcDay(now), UtcDay(now) + 1}
  BY DayIsNat, DayStep DEF Tick, IInv, TypeOK
<1>2. UNCHANGED <<proc, job, queue, seen, file, posting, delivered, lost>>
  BY DEF Tick, deduper, history
<1>3. \A m \in seen \cup file : m[2] \in Nat /\ m[2] <= UtcDay(now)
  BY DEF IInv, TypeOK, NotAhead, Mark
<1>4. \A p \in posting \cup delivered : p.day \in Nat /\ p.day <= UtcDay(now)
  BY DEF IInv, TypeOK, NotAhead, Post
<1>5. NotAhead'
  BY <1>1, <1>2, <1>3, <1>4 DEF NotAhead
<1>6. Remembered'
  BY <1>1, <1>2, <1>4 DEF IInv, Remembered
<1>7. FileWithinSeen'
  BY <1>1, <1>2, <1>3 DEF IInv, FileWithinSeen
<1>8. (InFlight /\ MarkedBeforePosted /\ NoRepeatUnlessLost)'
  BY <1>2 DEF IInv, InFlight, MarkedBeforePosted, NoRepeatUnlessLost
<1>9. QED
  BY <1>5, <1>6, <1>7, <1>8 DEF IInv

LEMMA InvSuppress ==
  ASSUME IInv, TypeOK', NEW a \in queue, Suppress(a)
  PROVE  IInv'
<1>1. /\ UNCHANGED <<now, proc, job, file, posting, delivered, lost>>
      /\ proc = "up" /\ job = "notify"
      /\ seen' = {m \in seen : m[2] = UtcDay(now)}
  BY DEF Suppress, Prune, history
<1>2. posting = {}
  BY <1>1 DEF IInv, InFlight
<1>3. (InFlight /\ MarkedBeforePosted /\ NoRepeatUnlessLost)'
  BY <1>1, <1>2 DEF InFlight, MarkedBeforePosted, NoRepeatUnlessLost
<1>4. NotAhead'
  BY <1>1 DEF IInv, NotAhead
<1>5. Remembered'
  BY <1>1 DEF IInv, Remembered
<1>6. FileWithinSeen'
  BY <1>1 DEF IInv, FileWithinSeen
<1>7. QED
  BY <1>3, <1>4, <1>5, <1>6 DEF IInv

LEMMA InvClaim ==
  ASSUME IInv, TypeOK', NEW a \in queue, Claim(a)
  PROVE  IInv'
<1> DEFINE today == UtcDay(now)
           kept == {m \in seen : m[2] = today}
           post == [key |-> a.key, severity |-> a.severity,
                    day |-> today, local |-> LocalDay(now)]
<1>1. /\ UNCHANGED <<now, proc, delivered, lost>>
      /\ proc = "up" /\ job = "notify" /\ job' = "post"
      /\ <<a.key, today>> \notin kept
      /\ seen' = kept \cup {<<a.key, today>>}
      /\ file' \in {seen', file, {}}
      /\ posting' = {post}
  BY DEF Claim, Prune, MarkOf, Save, history
<1>2. today \in Nat /\ UtcDay(now)' = today
  BY <1>1, DayIsNat DEF IInv, TypeOK
<1> HIDE DEF today
<1>3. InFlight'
  BY <1>1 DEF InFlight
<1>4. NotAhead'
  <2>1. \A m \in seen' : m[2] <= today
    BY <1>1, <1>2
  <2>2. \A m \in file' : m[2] <= today
    BY <1>1, <1>2, <2>1 DEF IInv, NotAhead, today
  <2>3. \A p \in posting' \cup delivered' : p.day <= today
    BY <1>1, <1>2 DEF IInv, NotAhead, today
  <2>4. QED
    BY <1>2, <2>1, <2>2, <2>3 DEF NotAhead
<1>5. Remembered'
  BY <1>1, <1>2 DEF IInv, Remembered, today
<1>6. FileWithinSeen'
  BY <1>1, <1>2 DEF IInv, FileWithinSeen, today
<1>7. MarkedBeforePosted'
  BY <1>1 DEF MarkedBeforePosted
<1>8. NoRepeatUnlessLost'
  <2> SUFFICES ASSUME NEW q \in delivered, q.key = a.key, q.day = today
               PROVE  <<a.key, today>> \in lost
    BY <1>1 DEF NoRepeatUnlessLost
  <2>1. <<q.key, q.day>> \in seen \cup lost
    BY <1>1 DEF IInv, Remembered, today
  <2>2. QED
    BY <1>1, <2>1
<1>9. QED
  BY <1>3, <1>4, <1>5, <1>6, <1>7, <1>8 DEF IInv

LEMMA InvAccepted == IInv /\ TypeOK' /\ PostAccepted => IInv'
<1> SUFFICES ASSUME IInv, TypeOK', PostAccepted PROVE IInv'
  OBVIOUS
<1>1. /\ UNCHANGED <<now, proc, seen, file, lost>>
      /\ proc = "up" /\ job' = "accepted"
      /\ delivered' = delivered \cup posting /\ posting' = {}
  BY DEF PostAccepted, deduper
<1>2. Remembered'
  BY <1>1 DEF IInv, Remembered, MarkedBeforePosted
<1>3. NotAhead'
  BY <1>1 DEF IInv, NotAhead
<1>4. QED
  BY <1>1, <1>2, <1>3 DEF IInv, InFlight, FileWithinSeen, MarkedBeforePosted,
     NoRepeatUnlessLost

\* A post that ends without a delivery, or after it.
LEMMA InvPostOver ==
  ASSUME IInv, TypeOK', proc' = "up", proc = "up", job' # "post", posting' = {},
         UNCHANGED <<now, seen, file, delivered, lost>>
  PROVE  IInv'
BY DEF IInv, InFlight, NotAhead, Remembered, FileWithinSeen,
       MarkedBeforePosted, NoRepeatUnlessLost

\* The process dies; disk is what the file holds from then on.
LEMMA InvDie ==
  ASSUME IInv, TypeOK', proc = "up", file' \in {file, {}}, Die(file'),
         UNCHANGED <<now, delivered>>
  PROVE  IInv'
<1>1. /\ proc' = "down" /\ job' = "idle" /\ queue' = {} /\ posting' = {}
      /\ seen' = {}
      /\ lost' = lost \cup {m \in seen \ file' : m[2] = UtcDay(now)}
  BY DEF Die, Prune
<1>2. Remembered'
  <2> SUFFICES ASSUME NEW q \in delivered, q.day = UtcDay(now)
               PROVE  <<q.key, q.day>> \in file' \cup lost'
    BY <1>1 DEF Remembered
  <2>1. <<q.key, q.day>> \in seen \cup lost
    BY DEF IInv, Remembered
  <2>2. QED
    BY <1>1, <2>1
<1>3. NotAhead'
  BY <1>1 DEF IInv, NotAhead
<1>4. QED
  BY <1>1, <1>2, <1>3 DEF IInv, InFlight, FileWithinSeen, MarkedBeforePosted,
     NoRepeatUnlessLost

LEMMA InvRestart == IInv /\ TypeOK' /\ Restart => IInv'
<1> SUFFICES ASSUME IInv, TypeOK', Restart PROVE IInv'
  OBVIOUS
<1>1. /\ UNCHANGED <<now, job, queue, file, posting, delivered, lost>>
      /\ proc = "down" /\ proc' = "up" /\ seen' = file
  BY DEF Restart, history
<1>2. posting = {}
  BY <1>1 DEF IInv, InFlight
<1>3. QED
  BY <1>1, <1>2 DEF IInv, InFlight, NotAhead, Remembered, FileWithinSeen,
     MarkedBeforePosted, NoRepeatUnlessLost

LEMMA InvStep == IInv /\ [Next]_vars => IInv'
<1> SUFFICES ASSUME IInv, [Next]_vars PROVE IInv'
  OBVIOUS
<1>0. TypeOK'
  BY TypeStep DEF IInv
<1>1. CASE Tick
  BY <1>0, <1>1, InvTick
<1>2. ASSUME NEW breach \in BOOLEAN, ScanVix(breach) PROVE IInv'
  BY <1>0, <1>2, QuietStep DEF ScanVix, deduper, history
<1>3. ASSUME NEW gapped \in SUBSET Universe, ScanGaps(gapped) PROVE IInv'
  BY <1>0, <1>3, QuietStep DEF ScanGaps, deduper, history
<1>4. CASE SkipOffDay
  BY <1>0, <1>4, QuietStep DEF SkipOffDay, deduper, history
<1>5. CASE UniverseUnreadable
  BY <1>0, <1>5, QuietStep DEF UniverseUnreadable, deduper, history
<1>6. ASSUME NEW hard \in SUBSET Holdings, NEW trailing \in SUBSET Holdings,
             ScanStops(hard, trailing)
      PROVE  IInv'
  BY <1>0, <1>6, QuietStep DEF ScanStops, deduper, history
<1>7. ASSUME NEW a \in queue, Suppress(a) PROVE IInv'
  BY <1>0, <1>7, InvSuppress
<1>8. ASSUME NEW a \in queue, Claim(a) PROVE IInv'
  BY <1>0, <1>8, InvClaim
<1>9. CASE ScanDone
  BY <1>0, <1>9, QuietStep DEF ScanDone, deduper, history
<1>10. CASE PostAccepted
  BY <1>0, <1>10, InvAccepted
<1>11. CASE PostReturns
  BY <1>0, <1>11, QuietStep DEF PostReturns, deduper, history
<1>12. CASE PostRefused
  BY <1>0, <1>12, InvPostOver DEF PostRefused, deduper, history
<1>13. CASE PostRaises
  BY <1>0, <1>13, InvPostOver DEF PostRaises, deduper, history
<1>14. CASE Crash
  BY <1>0, <1>14, InvDie DEF Crash
<1>15. ASSUME NEW a \in queue, CrashInSave(a) PROVE IInv'
  BY <1>0, <1>15, InvDie DEF CrashInSave
<1>16. CASE Restart
  BY <1>0, <1>16, InvRestart
<1>17. CASE UNCHANGED vars
  BY <1>17 DEF vars, IInv, TypeOK, InFlight, NotAhead, Remembered,
     FileWithinSeen, MarkedBeforePosted, NoRepeatUnlessLost
<1>18. QED
  BY <1>1, <1>2, <1>3, <1>4, <1>5, <1>6, <1>7, <1>8, <1>9, <1>10, <1>11,
     <1>12, <1>13, <1>14, <1>15, <1>16, <1>17
     DEF Next, Scan, Gaps, Stops, Send

\* The invariant the four safety properties follow from holds in every
\* reachable state of the risk job.
THEOREM Invariant == Spec => []IInv
BY InvInit, InvStep, PTL DEF Spec

\* An alert is posted twice for one UTC day only if a crash erased its mark
\* before a save put it on disk (AlertDeduper.should_send, _save, _load).
THEOREM RepeatsOnlyIfLost == Spec => []NoRepeatUnlessLost
<1>1. IInv => NoRepeatUnlessLost
  BY DEF IInv
<1>2. QED
  BY <1>1, Invariant, PTL

\* A restart silences no alert that the process had not claimed (_load, _save).
THEOREM RestartSilencesNothing == Spec => []FileWithinSeen
<1>1. IInv => FileWithinSeen
  BY DEF IInv
<1>2. QED
  BY <1>1, Invariant, PTL

-----------------------------------------------------------------------------
(* No stop is starved.                                                     *)

\* The marks of today are counted by a natural number.
LEMMA MarksCounted ==
  ASSUME IsFiniteSet(seen)
  PROVE  IsFiniteSet(MarksToday) /\ Cardinality(MarksToday) \in Nat
BY FS_Subset, FS_CardinalityType DEF MarksToday

LEMMA StopInit == Init => StopInv
BY FS_EmptySet DEF Init, StopInv, Queued, Passed, NoneSighted

\* A step that leaves the clock, the marks and the sightings alone, and neither
\* starts a post nor drops a stop from the queue, keeps what was passed over.
LEMMA StopQuiet ==
  ASSUME TypeOK, StopInv, UNCHANGED <<now, seen, sighted>>,
         IsFiniteSet(file'), Posting' => Posting,
         job' \in {"idle", "gaps", "stops"} =>
           \A s \in Holdings : ~Queued(s)',
         \A s \in Holdings : Queued(s) => Queued(s)' \/ (Posting /\ ~Posting')
  PROVE  StopInv'
<1>1. Cardinality(MarksToday) \in Nat /\ MarksToday' = MarksToday
  BY MarksCounted DEF StopInv, MarksToday
<1>2. ASSUME NEW s \in Holdings PROVE Passed(s)'
  <2>1. sighted[s] \in Nat /\ Passed(s) /\ (Marked(s)' <=> Marked(s))
    BY DEF TypeOK, StopInv, Marked
  <2>2. Queued(s) => Queued(s)' \/ (Posting /\ ~Posting')
    OBVIOUS
  <2>3. sighted' = sighted
    OBVIOUS
  <2> QED
    BY <1>1, <2>1, <2>2, <2>3, SMT DEF Passed
<1> QED
  BY <1>2 DEF StopInv

LEMMA StopTick == TypeOK /\ StopInv /\ Tick => StopInv'
<1> SUFFICES ASSUME TypeOK, StopInv, Tick PROVE StopInv'
  OBVIOUS
<1>1. UNCHANGED <<proc, job, queue, seen, file, posting>>
  BY DEF Tick, deduper
<1>2. CASE UtcDay(now') = UtcDay(now)
  <2>1. sighted' = sighted /\ MarksToday' = MarksToday
        /\ \A s \in Holdings : Marked(s)' <=> Marked(s)
    BY <1>1, <1>2 DEF Tick, MarksToday, Marked
  <2> QED
    BY <1>1, <2>1 DEF StopInv, Queued, Passed, Posting
<1>3. CASE UtcDay(now') # UtcDay(now)
  <2>1. sighted' = [s \in Holdings |-> 0]
    BY <1>3 DEF Tick, NoneSighted
  <2> QED
    BY <1>1, <2>1 DEF StopInv, Queued, Passed
<1> QED
  BY <1>2, <1>3

\* A scan that sees the stop queues it.
LEMMA StopScan ==
  ASSUME TypeOK, StopInv,
         NEW hard \in SUBSET Holdings, NEW trailing \in SUBSET Holdings,
         ScanStops(hard, trailing)
  PROVE  StopInv'
<1>1. /\ UNCHANGED <<now, seen, file>> /\ ~Posting /\ ~Posting' /\ job' = "notify"
      /\ job = "stops"
      /\ queue' = queue \cup EvaluatePositionStop(hard, trailing)
      /\ sighted' = [s \in Holdings |->
                       IF s \in hard \cup trailing /\ ~Marked(s)
                       THEN sighted[s] + 1 ELSE sighted[s]]
  BY DEF ScanStops, deduper, Posting
<1>2. Cardinality(MarksToday) \in Nat /\ MarksToday' = MarksToday
  BY <1>1, MarksCounted DEF StopInv, MarksToday
<1>3. ASSUME NEW s \in Holdings PROVE Passed(s)'
  <2>1. sighted[s] \in Nat /\ Passed(s) /\ ~Queued(s)
        /\ (Marked(s)' <=> Marked(s))
    BY <1>1 DEF TypeOK, StopInv, Marked
  <2>2. s \in hard \cup trailing => Queued(s)'
    <3>1. CASE s \in hard
      <4>1. [key |-> StopKey(s), severity |-> "critical"] \in queue'
        BY <1>1, <3>1 DEF EvaluatePositionStop, StopKey
      <4> QED
        BY <4>1 DEF Queued
    <3>2. CASE s \in trailing \ hard
      <4>1. [key |-> StopKey(s), severity |-> "warning"] \in queue'
        BY <1>1, <3>2 DEF EvaluatePositionStop, StopKey
      <4> QED
        BY <4>1 DEF Queued
    <3> QED
      BY <3>1, <3>2
  <2>3. Marked(s) \/ sighted[s] <= Cardinality(MarksToday)
    BY <1>1, <1>2, <2>1, SMT DEF Passed
  <2>4. sighted'[s] = IF s \in hard \cup trailing /\ ~Marked(s)
                      THEN sighted[s] + 1 ELSE sighted[s]
    BY <1>1
  <2> QED
    BY <1>1, <1>2, <2>1, <2>2, <2>3, <2>4, SMT DEF Passed
<1> QED
  BY <1>1, <1>3 DEF StopInv

\* should_send drops marks of other days only.
LEMMA StopSuppress ==
  ASSUME TypeOK, StopInv, NEW a \in queue, Suppress(a)
  PROVE  StopInv'
<1>1. /\ UNCHANGED <<now, file, job, sighted>> /\ job = "notify"
      /\ seen' = {m \in seen : m[2] = UtcDay(now)}
      /\ queue' = queue \ {a}
      /\ <<a.key, UtcDay(now)>> \in seen
  BY DEF Suppress, Prune, MarkOf, history
<1>2. IsFiniteSet(seen') /\ MarksToday' = MarksToday
  BY <1>1, FS_Subset DEF StopInv, MarksToday
<1>3. ASSUME NEW s \in Holdings PROVE Passed(s)'
  <2>1. Passed(s) /\ (Marked(s)' <=> Marked(s)) /\ (Posting' <=> Posting)
    BY <1>1 DEF StopInv, Marked, Posting
  <2>2. Queued(s) => Queued(s)' \/ Marked(s)
    BY <1>1 DEF Queued, Marked
  <2> QED
    BY <1>1, <1>2, <2>1, <2>2 DEF Passed, Queued
<1> QED
  BY <1>1, <1>2, <1>3 DEF StopInv

\* A claim of another key spends one key more.
LEMMA StopClaim ==
  ASSUME TypeOK, StopInv, NEW a \in queue, Claim(a)
  PROVE  StopInv'
<1> DEFINE mark == <<a.key, UtcDay(now)>>
<1>1. /\ UNCHANGED <<now, sighted>> /\ job = "notify" /\ job' = "post"
      /\ mark \notin MarksToday
      /\ seen' = MarksToday \cup {mark}
      /\ queue' = queue \ {a}
      /\ file' \in {seen', file, {}}
  BY DEF Claim, Prune, MarkOf, Save, MarksToday, history
<1>2. IsFiniteSet(MarksToday) /\ Cardinality(MarksToday) \in Nat
  BY MarksCounted DEF StopInv
<1>3. MarksToday' = MarksToday \cup {mark}
  BY <1>1 DEF MarksToday
<1>4. IsFiniteSet(seen') /\ Cardinality(MarksToday') = Cardinality(MarksToday) + 1
  BY <1>1, <1>2, <1>3, FS_AddElement
<1>5. IsFiniteSet(file')
  BY <1>1, <1>4, FS_EmptySet DEF StopInv
<1>6. ASSUME NEW s \in Holdings PROVE Passed(s)'
  <2>1. sighted[s] \in Nat /\ Passed(s) /\ ~Posting /\ Posting'
    BY <1>1 DEF TypeOK, StopInv, Posting
  <2>2. Marked(s) => Marked(s)'
    BY <1>1 DEF Marked, MarksToday
  <2>3. CASE a.key = StopKey(s)
    BY <1>1, <2>3 DEF Passed, Marked
  <2>4. CASE a.key # StopKey(s)
    <3>1. Queued(s) <=> Queued(s)'
      BY <1>1, <2>4 DEF Queued
    <3>2. sighted' = sighted
      BY <1>1
    <3> QED
      BY <1>2, <1>4, <2>1, <2>2, <3>1, <3>2, SMT DEF Passed
  <2> QED
    BY <2>3, <2>4
<1> QED
  BY <1>1, <1>4, <1>5, <1>6 DEF StopInv

\* A process that dies has seen nothing, nor has the next one.
LEMMA StopDie ==
  ASSUME StopInv, file' \in {file, {}}, Die(file')
  PROVE  StopInv'
<1>1. job' = "idle" /\ queue' = {} /\ seen' = {} /\ sighted' = [s \in Holdings |-> 0]
  BY DEF Die, NoneSighted
<1> QED
  BY <1>1, FS_EmptySet DEF StopInv, Queued, Passed

\* While no process is up nothing has been seen.
Forgotten == proc = "down" => sighted = NoneSighted

LEMMA StopRestart == StopInv /\ Forgotten /\ InFlight /\ Restart => StopInv'
<1> SUFFICES ASSUME StopInv, Forgotten, InFlight, Restart PROVE StopInv'
  OBVIOUS
<1>1. /\ UNCHANGED <<job, queue, file, sighted>> /\ seen' = file
      /\ proc = "down" /\ queue = {}
  BY DEF Restart, InFlight, history
<1>2. sighted' = [s \in Holdings |-> 0]
  BY <1>1 DEF Forgotten, NoneSighted
<1> QED
  BY <1>1, <1>2 DEF StopInv, Queued, Passed

LEMMA ForgottenStep == Forgotten /\ [Next]_vars => Forgotten'
BY DEF Forgotten, Next, Scan, Gaps, Stops, Send, Tick, ScanVix, ScanGaps, SkipOffDay,
       UniverseUnreadable, ScanStops, Suppress, Claim, ScanDone, PostAccepted,
       PostReturns, PostRefused, PostRaises, Crash, CrashInSave, Die, Restart,
       NoneSighted, history, vars

LEMMA StopStep == IInv /\ Forgotten /\ StopInv /\ [Next]_vars => StopInv'
<1> SUFFICES ASSUME IInv, Forgotten, StopInv, [Next]_vars PROVE StopInv'
  OBVIOUS
<1>0. TypeOK /\ InFlight
  BY DEF IInv
<1>1. CASE Tick
  BY <1>0, <1>1, StopTick
<1> USE DEF deduper, history
<1>2. ASSUME NEW breach \in BOOLEAN, ScanVix(breach) PROVE StopInv'
  <2>1. \A s \in Holdings : ~Queued(s) /\ ~Queued(s)'
    BY <1>2 DEF ScanVix, StopInv, Queued, StopKey, EvaluateBlackswan
  <2> QED
    BY <1>0, <1>2, <2>1, StopQuiet DEF ScanVix, StopInv, Posting
<1>3. ASSUME NEW gapped \in SUBSET Universe, ScanGaps(gapped) PROVE StopInv'
  <2>1. \A s \in Holdings : ~Queued(s) /\ ~Queued(s)'
    BY <1>3 DEF ScanGaps, StopInv, Queued, StopKey, EvaluateGapDown
  <2> QED
    BY <1>0, <1>3, <2>1, StopQuiet DEF ScanGaps, StopInv, Posting
<1>4. CASE SkipOffDay
  BY <1>0, <1>4, StopQuiet DEF SkipOffDay, StopInv, Posting, Queued
<1>5. CASE UniverseUnreadable
  BY <1>0, <1>5, StopQuiet DEF UniverseUnreadable, StopInv, Posting, Queued
<1>6. ASSUME NEW hard \in SUBSET Holdings, NEW trailing \in SUBSET Holdings,
             ScanStops(hard, trailing)
      PROVE  StopInv'
  BY <1>0, <1>6, StopScan
<1>7. ASSUME NEW a \in queue, Suppress(a) PROVE StopInv'
  BY <1>0, <1>7, StopSuppress
<1>8. ASSUME NEW a \in queue, Claim(a) PROVE StopInv'
  BY <1>0, <1>8, StopClaim
<1>9. CASE ScanDone
  BY <1>0, <1>9, StopQuiet DEF ScanDone, StopInv, Posting, Queued
<1>10. CASE PostAccepted
  <2>1. /\ UNCHANGED <<now, seen, file, sighted, queue>>
        /\ job' = "accepted" /\ Posting /\ Posting'
    BY <1>10 DEF PostAccepted, Posting
  <2>2. \A s \in Holdings : Queued(s) => Queued(s)' \/ (Posting /\ ~Posting')
    BY <2>1 DEF Queued
  <2>3. job' \in {"idle", "gaps", "stops"} => \A s \in Holdings : ~Queued(s)'
    BY <2>1
  <2>4. IsFiniteSet(file') /\ (Posting' => Posting)
    BY <2>1 DEF StopInv
  <2> QED
    BY <1>0, <2>1, <2>2, <2>3, <2>4, StopQuiet
<1>11. CASE PostReturns
  BY <1>0, <1>11, StopQuiet DEF PostReturns, StopInv, Posting, Queued
<1>12. CASE PostRefused
  BY <1>0, <1>12, StopQuiet DEF PostRefused, StopInv, Posting, Queued
<1>13. CASE PostRaises
  BY <1>0, <1>13, StopQuiet DEF PostRaises, StopInv, Posting, Queued
<1>14. CASE Crash
  BY <1>14, StopDie DEF Crash
<1>15. ASSUME NEW a \in queue, CrashInSave(a) PROVE StopInv'
  BY <1>15, StopDie DEF CrashInSave
<1>16. CASE Restart
  BY <1>0, <1>16, StopRestart
<1>17. CASE UNCHANGED vars
  <2>1. UNCHANGED <<now, seen, file, sighted, queue, job>>
    BY <1>17 DEF vars
  <2>2. \A s \in Holdings : Queued(s) => Queued(s)' \/ (Posting /\ ~Posting')
    BY <2>1 DEF Queued
  <2>3. job' \in {"idle", "gaps", "stops"} => \A s \in Holdings : ~Queued(s)'
    BY <2>1 DEF StopInv, Queued
  <2>4. IsFiniteSet(file') /\ (Posting' => Posting)
    BY <2>1 DEF StopInv, Posting
  <2> QED
    BY <1>0, <2>1, <2>2, <2>3, <2>4, StopQuiet
<1>18. QED
  BY <1>1, <1>2, <1>3, <1>4, <1>5, <1>6, <1>7, <1>8, <1>9, <1>10, <1>11,
     <1>12, <1>13, <1>14, <1>15, <1>16, <1>17
     DEF Next, Scan, Gaps, Stops, Send

\* Between scans, a position stop this process has seen today is marked, or was
\* passed over each time for another key spent today: posts that raise cannot
\* starve it for longer than there are keys (jobs._risk_job, state.should_send).
THEOREM NoStopStarves == Spec => []StopGetsThrough
<1>1. Init => Forgotten
  BY DEF Init, Forgotten
<1>2. Spec => []Forgotten
  BY <1>1, ForgottenStep, PTL DEF Spec
<1>3. StopInv /\ TypeOK => StopGetsThrough
  <2> SUFFICES ASSUME StopInv, TypeOK, NEW s \in Holdings, job = "idle"
               PROVE  Marked(s) \/ sighted[s] <= Cardinality(MarksToday)
    BY DEF StopGetsThrough
  <2>1. /\ Cardinality(MarksToday) \in Nat /\ sighted[s] \in Nat
        /\ Passed(s) /\ ~Queued(s) /\ ~Posting
    BY MarksCounted DEF StopInv, TypeOK, Posting
  <2> QED
    BY <2>1, SMT DEF Passed
<1>4. Spec => []StopInv
  BY <1>2, StopInit, StopStep, Invariant, PTL DEF Spec
<1>5. QED
  BY <1>3, <1>4, TypeCorrect, PTL

-----------------------------------------------------------------------------
(* The refinement of OncePerDay.                                           *)

\* What the abstract pending and delivered claims are, as sets of marks.
Pending == {<<p.key, p.day>> : p \in posting}
Delivered == {<<p.key, p.day>> : p \in delivered}

LEMMA RefInit == Init => Promise!AbsInit
<1> SUFFICES ASSUME Init PROVE Promise!AbsInit
  OBVIOUS
<1>1. UtcDay(now) \in Nat
  BY DayIsNat DEF Init
<1>2. QED
  BY <1>1 DEF Init, Promise!AbsInit, Claimed

\* A step that keeps the day, the claims, the post and the histories.
LEMMA RefStutter ==
  ASSUME UNCHANGED <<now, proc, posting, delivered, lost, file>>,
         Claimed' = Claimed
  PROVE  [Promise!AbsNext]_(Promise!absVars)
BY DEF Promise!absVars

LEMMA RefTick ==
  ASSUME IInv, Tick
  PROVE  [Promise!AbsNext]_(Promise!absVars)
<1>1. /\ UNCHANGED <<proc, seen, file, posting, delivered, lost>>
      /\ UtcDay(now) \in Nat
      /\ UtcDay(now') \in {UtcDay(now), UtcDay(now) + 1}
  BY DayIsNat, DayStep DEF Tick, deduper, history, IInv, TypeOK
<1>2. CASE UtcDay(now') = UtcDay(now)
  BY <1>1, <1>2 DEF Promise!absVars, Claimed
<1>3. CASE UtcDay(now') = UtcDay(now) + 1
  <2>1. \A m \in seen \cup file : m[2] \in Nat /\ m[2] <= UtcDay(now)
    BY DEF IInv, TypeOK, NotAhead, Mark
  <2>2. Claimed' = {}
    BY <1>1, <1>3, <2>1 DEF Claimed
  <2>3. Promise!NextDay
    BY <1>1, <1>3, <2>2 DEF Promise!NextDay
  <2>4. QED
    BY <2>3 DEF Promise!AbsNext
<1>4. QED
  BY <1>1, <1>2, <1>3

LEMMA RefClaim ==
  ASSUME IInv, NEW a \in queue, Claim(a)
  PROVE  Promise!AbsNext
<1>1. /\ UNCHANGED <<now, proc, delivered, lost>>
      /\ proc = "up" /\ job = "notify"
      /\ <<a.key, UtcDay(now)>> \notin {m \in seen : m[2] = UtcDay(now)}
      /\ seen' = {m \in seen : m[2] = UtcDay(now)} \cup {<<a.key, UtcDay(now)>>}
      /\ posting' = {[key |-> a.key, severity |-> a.severity,
                      day |-> UtcDay(now), local |-> LocalDay(now)]}
  BY DEF Claim, Prune, MarkOf, history
<1>2. a.key \in Key
  BY DEF IInv, TypeOK, Alert
<1>3. Pending = {} /\ Pending' = {<<a.key, UtcDay(now)>>}
  BY <1>1 DEF Pending, IInv, InFlight
<1>4. /\ <<a.key, UtcDay(now)>> \notin Claimed
      /\ Claimed' = Claimed \cup {<<a.key, UtcDay(now)>>}
  BY <1>1 DEF Claimed
<1>5. Promise!ClaimKey(a.key)
  BY <1>1, <1>3, <1>4 DEF Promise!ClaimKey, Pending
<1>6. QED
  BY <1>2, <1>5 DEF Promise!AbsNext

LEMMA RefAccepted ==
  ASSUME IInv, PostAccepted
  PROVE  [Promise!AbsNext]_(Promise!absVars)
<1>1. /\ UNCHANGED <<now, proc, seen, file, lost>>
      /\ delivered' = delivered \cup posting /\ posting' = {}
  BY DEF PostAccepted, deduper
<1>2. Claimed' = Claimed
  BY <1>1 DEF Claimed
<1>3. CASE posting = {}
  BY <1>1, <1>2, <1>3 DEF Promise!absVars
<1>4. CASE posting # {}
  <2>1. Pending # {} /\ Pending' = {} /\ Delivered' = Delivered \cup Pending
    BY <1>1, <1>4 DEF Pending, Delivered
  <2>2. Promise!DeliverPending
    BY <1>1, <1>2, <2>1 DEF Promise!DeliverPending, Pending, Delivered
  <2>3. QED
    BY <2>2 DEF Promise!AbsNext
<1>5. QED
  BY <1>3, <1>4

\* A post that ends undelivered drops the pending claim; one that had been
\* delivered leaves nothing to drop.
LEMMA RefPostOver ==
  ASSUME UNCHANGED <<now, proc, seen, file, delivered, lost>>, posting' = {}
  PROVE  [Promise!AbsNext]_(Promise!absVars)
<1>1. Claimed' = Claimed
  BY DEF Claimed
<1>2. CASE posting = {}
  BY <1>1, <1>2 DEF Promise!absVars
<1>3. CASE posting # {}
  <2>1. Pending # {} /\ Pending' = {}
    BY <1>3 DEF Pending
  <2>2. Promise!DropPending
    BY <1>1, <2>1 DEF Promise!DropPending, Pending
  <2>3. QED
    BY <2>2 DEF Promise!AbsNext
<1>4. QED
  BY <1>2, <1>3

\* A crash forgets today's marks that the file, as it is from then on, lacks.
LEMMA RefDie ==
  ASSUME IInv, proc = "up", file' \in {file, {}}, Die(file'),
         UNCHANGED <<now, delivered>>
  PROVE  Promise!AbsNext
<1>1. PICK S : S = {m \in seen \ file' : m[2] = UtcDay(now)}
  OBVIOUS
<1>2. /\ proc' = "down" /\ posting' = {} /\ seen' = {}
      /\ lost' = lost \cup S
  BY <1>1 DEF Die, Prune
<1>3. S \in SUBSET Claimed
  BY <1>1 DEF Claimed
<1>4. Claimed' = Claimed \ S
  <2>1. \A m \in file' : m[2] = UtcDay(now) => m \in seen
    BY DEF IInv, FileWithinSeen
  <2>2. QED
    BY <1>1, <1>2, <2>1 DEF Claimed
<1>5. Pending' = {}
  BY <1>2 DEF Pending
<1>6. Promise!Forget(S)
  BY <1>2, <1>3, <1>4, <1>5 DEF Promise!Forget, Pending
<1>7. QED
  BY <1>3, <1>6 DEF Promise!AbsNext

LEMMA RefStep ==
  IInv /\ [Next]_vars => [Promise!AbsNext]_(Promise!absVars)
<1> SUFFICES ASSUME IInv, [Next]_vars
             PROVE  [Promise!AbsNext]_(Promise!absVars)
  OBVIOUS
<1> USE DEF deduper, history
<1>1. CASE Tick
  BY <1>1, RefTick
<1>2. ASSUME NEW breach \in BOOLEAN, ScanVix(breach)
      PROVE  [Promise!AbsNext]_(Promise!absVars)
  BY <1>2, RefStutter DEF ScanVix, Claimed
<1>3. ASSUME NEW gapped \in SUBSET Universe, ScanGaps(gapped)
      PROVE  [Promise!AbsNext]_(Promise!absVars)
  BY <1>3, RefStutter DEF ScanGaps, Claimed
<1>4. CASE SkipOffDay
  BY <1>4, RefStutter DEF SkipOffDay, Claimed
<1>5. CASE UniverseUnreadable
  BY <1>5, RefStutter DEF UniverseUnreadable, Claimed
<1>6. ASSUME NEW hard \in SUBSET Holdings, NEW trailing \in SUBSET Holdings,
             ScanStops(hard, trailing)
      PROVE  [Promise!AbsNext]_(Promise!absVars)
  BY <1>6, RefStutter DEF ScanStops, Claimed
<1>7. ASSUME NEW a \in queue, Suppress(a)
      PROVE  [Promise!AbsNext]_(Promise!absVars)
  <2>1. Claimed' = Claimed
    BY <1>7 DEF Suppress, Prune, Claimed
  <2>2. QED
    BY <1>7, <2>1, RefStutter DEF Suppress
<1>8. ASSUME NEW a \in queue, Claim(a)
      PROVE  [Promise!AbsNext]_(Promise!absVars)
  BY <1>8, RefClaim
<1>9. CASE ScanDone
  BY <1>9, RefStutter DEF ScanDone, Claimed
<1>10. CASE PostAccepted
  BY <1>10, RefAccepted
<1>11. CASE PostReturns
  BY <1>11, RefStutter DEF PostReturns, Claimed
<1>12. CASE PostRefused
  BY <1>12, RefPostOver DEF PostRefused
<1>13. CASE PostRaises
  BY <1>13, RefPostOver DEF PostRaises
<1>14. CASE Crash
  BY <1>14, RefDie DEF Crash
<1>15. ASSUME NEW a \in queue, CrashInSave(a)
       PROVE  [Promise!AbsNext]_(Promise!absVars)
  BY <1>15, RefDie DEF CrashInSave
<1>16. CASE Restart
  <2>1. Claimed' = Claimed
    BY <1>16 DEF Restart, Claimed
  <2>2. UNCHANGED <<now, posting, delivered, lost>>
    BY <1>16 DEF Restart
  <2>3. QED
    BY <2>1, <2>2 DEF Promise!absVars
<1>17. CASE UNCHANGED vars
  BY <1>17, RefStutter DEF vars, Claimed
<1>18. QED
  BY <1>1, <1>2, <1>3, <1>4, <1>5, <1>6, <1>7, <1>8, <1>9, <1>10, <1>11,
     <1>12, <1>13, <1>14, <1>15, <1>16, <1>17
     DEF Next, Scan, Gaps, Stops, Send

\* The risk job with its deduper, its file, its crashes and restarts does what
\* OncePerDay promises: every step is a step of the promise or changes nothing
\* the promise speaks of.
THEOREM Refines == Spec => ImplementsOncePerDay
BY RefInit, RefStep, Invariant, PTL DEF Spec, ImplementsOncePerDay, Promise!AbsSpec
=============================================================================
