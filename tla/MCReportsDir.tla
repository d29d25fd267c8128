----------------------------- MODULE MCReportsDir -----------------------------
(* Instances of ReportsDir for TLC.  A systemd unit never runs twice at once: *)
(* p is the unit of the 30-minute timer, q is the daily unit, the server or   *)
(* the user.                                                                  *)
EXTENDS ReportsDir

CONSTANTS buyA, sellB, p, q

MCTwo == {p, q}
MCOne == {p}

MCItem == {buyA, sellB}
MCResults == {<<buyA, sellB>>}

MCTimers ==
  [r \in Process |->
     IF r = p THEN {RunOnce} ELSE Dailies \cup {RunOnce}]
MCDaily == [r \in Process |-> {Daily, DailyNoAccount}]
MCByHand == [r \in Process |-> {Portfolio, Track("advice")}]
=============================================================================
