-------------------------- MODULE OncePerDayProofs --------------------------
(* What OncePerDay guarantees its reader, for every set of keys.             *)
EXTENDS OncePerDay, TLAPS

AbsInv ==
  /\ day \in Nat
  /\ pending \subseteq Key \X Nat
  /\ delivered \subseteq Key \X Nat
  /\ \A c \in pending \cup delivered : c[2] <= day
  /\ \A c \in pending : c[2] = day => c \in claimed
  /\ \A c \in delivered : c[2] = day => c \in claimed \cup forgotten
  /\ DeliveredOnce

LEMMA AbsInvInit == AbsInit => AbsInv
BY DEF AbsInit, AbsInv, DeliveredOnce

LEMMA AbsInvStep == AbsInv /\ [AbsNext]_absVars => AbsInv'
<1> SUFFICES ASSUME AbsInv, [AbsNext]_absVars PROVE AbsInv'
  OBVIOUS
<1> USE DEF AbsInv, DeliveredOnce
<1>1. ASSUME NEW k \in Key, ClaimKey(k) PROVE AbsInv'
  <2>1. pending' \subseteq Key \X Nat /\ \A c \in pending' : c[2] = day
    BY <1>1 DEF ClaimKey
  <2>2. pending' \cap delivered \subseteq forgotten
    BY <1>1 DEF ClaimKey
  <2>3. QED
    BY <1>1, <2>1, <2>2 DEF ClaimKey
<1>2. CASE DeliverPending
  BY <1>2 DEF DeliverPending
<1>3. CASE DropPending
  BY <1>3 DEF DropPending
<1>4. ASSUME NEW S \in SUBSET claimed, Forget(S) PROVE AbsInv'
  BY <1>4 DEF Forget
<1>5. CASE NextDay
  BY <1>5 DEF NextDay
<1>6. CASE UNCHANGED absVars
  BY <1>6 DEF absVars
<1>7. QED
  BY <1>1, <1>2, <1>3, <1>4, <1>5, <1>6 DEF AbsNext

\* Whatever implements OncePerDay shows a reader a notification once a day,
\* unless its claim was forgotten (the promise of risk/state.py).
THEOREM ReaderSeesItOnce == AbsSpec => []DeliveredOnce
<1>1. AbsInv => DeliveredOnce
  BY DEF AbsInv
<1>2. QED
  BY <1>1, AbsInvInit, AbsInvStep, PTL DEF AbsSpec
=============================================================================
