----------------------------- MODULE OncePerDay -----------------------------
(***************************************************************************)
(* What risk/state.py promises its callers, with no file, no job and no    *)
(* process in sight: a notification key is claimed at most once a day, the *)
(* claim comes before the delivery it allows, and a claimed key that was   *)
(* delivered is never handed out again on that day, unless the claim       *)
(* itself was forgotten (the store lost it).                               *)
(***************************************************************************)
EXTENDS Naturals

CONSTANT Key          \* what a notification is about

VARIABLES
  day,                \* the day claims are made for
  claimed,            \* the <<key, day>> claims the store remembers
  pending,            \* the claim being delivered: a set of none or one
  delivered,          \* the claims whose notification reached its reader
  forgotten           \* the claims the store has lost

absVars == <<day, claimed, pending, delivered, forgotten>>

AbsInit ==
  /\ day \in Nat
  /\ claimed = {}
  /\ pending = {}
  /\ delivered = {}
  /\ forgotten = {}

\* A key not yet claimed today is handed out, once.
ClaimKey(k) ==
  /\ pending = {}
  /\ <<k, day>> \notin claimed
  /\ claimed' = claimed \cup {<<k, day>>}
  /\ pending' = {<<k, day>>}
  /\ UNCHANGED <<day, delivered, forgotten>>

DeliverPending ==
  /\ pending # {}
  /\ delivered' = delivered \cup pending
  /\ pending' = {}
  /\ UNCHANGED <<day, claimed, forgotten>>

\* The notification is dropped; its key stays spent.
DropPending ==
  /\ pending # {}
  /\ pending' = {}
  /\ UNCHANGED <<day, claimed, delivered, forgotten>>

\* The store loses some of its claims, and with them the pending notification.
Forget(S) ==
  /\ S \subseteq claimed
  /\ claimed' = claimed \ S
  /\ forgotten' = forgotten \cup S
  /\ pending' = {}
  /\ UNCHANGED <<day, delivered>>

\* A new day: the claims of the day before count for nothing any more.
NextDay ==
  /\ day' = day + 1
  /\ claimed' = {}
  /\ UNCHANGED <<pending, delivered, forgotten>>

AbsNext ==
  \/ \E k \in Key : ClaimKey(k)
  \/ DeliverPending
  \/ DropPending
  \/ \E S \in SUBSET claimed : Forget(S)
  \/ NextDay

AbsSpec == AbsInit /\ [][AbsNext]_absVars

-----------------------------------------------------------------------------
\* A notification about to be delivered was not delivered before under the
\* same claim, unless that claim was forgotten in between: the reader of a
\* notification sees it once a day.
DeliveredOnce == pending \cap delivered \subseteq forgotten
=============================================================================
