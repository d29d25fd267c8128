-------------------------------- MODULE Candles -------------------------------
(***************************************************************************)
(* TossClient.get_candles: a history longer than one call gives, page by   *)
(* page.                                                                   *)
(*                                                                         *)
(* The server's rows are 1 .. Len(rows), the newest last.  A page holds    *)
(* the newest PerCall rows before the cursor, and whether the row at the   *)
(* cursor is one of them is the server's choice.  A row may be malformed:  *)
(* "bad" does not validate, "bare" has no timestamp either, and "junk" is  *)
(* no object at all.                                                       *)
(***************************************************************************)
EXTENDS Integers, FiniteSets, Sequences

CONSTANTS
    PerCall,     \* the most rows of a page, 200 at Toss
    MaxRows,     \* bound: the longest history
    MaxWant      \* bound: the most bars asked for

VARIABLES
    rows, inclusive,  \* the server: its rows, and its reading of `before`
    want,             \* the bars asked for
    collected,        \* valid bars so far, by timestamp
    before,           \* the cursor, 0 on the first page
    page,             \* pages asked for
    candlesAt         \* "idle", "paging", "returned" or "raised"

candlesVars == <<rows, inclusive, want, collected, before, page, candlesAt>>

ASSUME CandlesAssumption == {PerCall, MaxRows, MaxWant} \subseteq Nat \ {0}

RowKind == {"ok", "bad", "bare", "junk"}

CandlesIdle ==
    /\ rows = <<>> /\ inclusive = FALSE /\ want = 0 /\ collected = {}
    /\ before = 0 /\ page = 0 /\ candlesAt = "idle"

CandlesInit ==
    /\ rows \in UNION {[1 .. n -> RowKind] : n \in 0 .. MaxRows}
    /\ inclusive \in BOOLEAN
    /\ want \in 1 .. MaxWant
    /\ collected = {} /\ before = 0 /\ page = 0 /\ candlesAt = "paging"

-----------------------------------------------------------------------------
Newest(S, n) == {t \in S : Cardinality({u \in S : u > t}) < n}
Oldest(S) == CHOOSE t \in S : \A u \in S : t <= u

Served ==
    LET older == {t \in DOMAIN rows :
            \/ before = 0
            \/ t < before
            \/ inclusive /\ t = before}
    IN  Newest(older, PerCall)

MaxPages == want \div PerCall + 2

(* Mutant: what counts is rows served, not bars collected.                 *)
MutantFetchPageByRows ==
    /\ candlesAt = "paging"
    /\ collected' = collected \cup {t \in Served : rows[t] = "ok"}
    /\ page' = page + 1
    /\ LET oldest == Oldest(Served)
       IN  IF Cardinality(Served) < PerCall \/ page' * PerCall >= want
           THEN candlesAt' = "returned" /\ UNCHANGED before
           ELSE /\ before' = IF rows[oldest] \in {"ok", "bad"} THEN oldest ELSE before
                /\ candlesAt' = IF rows[oldest] = "junk" THEN "raised"
                               ELSE IF rows[oldest] = "bare" THEN "returned"
                               ELSE "paging"
    /\ UNCHANGED <<rows, inclusive, want>>

(* One round of the loop.  It ends with enough bars, on a page that is not *)
(* full, on a row that gives no cursor and after the last page it allows   *)
(* itself; a last row that is no object raises.                            *)
FetchPage ==
    /\ candlesAt = "paging"
    /\ collected' = collected \cup {t \in Served : rows[t] = "ok"}
    /\ page' = page + 1
    /\ LET full == Cardinality(Served) = PerCall
           enough == Cardinality(collected') >= want
           oldest == Oldest(Served)
       IN  IF ~full \/ enough
           THEN candlesAt' = "returned" /\ UNCHANGED before
           ELSE /\ before' = IF rows[oldest] \in {"ok", "bad"} THEN oldest ELSE before
                /\ candlesAt' = IF rows[oldest] = "junk" THEN "raised"
                               ELSE IF rows[oldest] = "bare" \/ page' = MaxPages THEN "returned"
                               ELSE "paging"
    /\ UNCHANGED <<rows, inclusive, want>>

(* A page that cannot be had, after the retries of _get, loses the others. *)
FetchPageFails ==
    /\ candlesAt = "paging"
    /\ candlesAt' = "raised"
    /\ UNCHANGED <<rows, inclusive, want, collected, before, page>>

CandlesNext == FetchPage \/ FetchPageFails

(* What get_candles returns: the newest bars of those it collected.        *)
Returned == Newest(collected, want)
=============================================================================
