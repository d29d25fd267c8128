--------------------------- MODULE TossClientProofs ---------------------------
(***************************************************************************)
(* Calls and tokens, for every number of clients and attempts and all      *)
(* lifetimes that TossClientAssumption allows: no request carries a token  *)
(* that has run out, nobody logs in without need, a call is denied only    *)
(* because another login came between, and every call ends.                *)
(***************************************************************************)
EXTENDS TossClient, TLAPS

\* The constants are naturals, and so None is a token and Closed a client.
LEMMA Constants ==
  /\ MaxAttempts \in Nat /\ MaxAttempts >= 1
  /\ Skew \in Nat /\ ExpiresIn \in Nat /\ MaxDelay \in Nat /\ LastTime \in Nat
  /\ 2 * MaxDelay <= Skew /\ 2 * MaxDelay < ExpiresIn
  /\ MaxLogins \in Nat
  /\ DefaultLife \in Nat /\ DefaultLife <= ExpiresIn
  /\ None \in Token
  /\ Closed \in ClientState
<1>1. /\ MaxAttempts \in Nat /\ MaxAttempts >= 1
      /\ Skew \in Nat /\ ExpiresIn \in Nat /\ MaxDelay \in Nat /\ LastTime \in Nat
      /\ 2 * MaxDelay <= Skew /\ 2 * MaxDelay < ExpiresIn
      /\ MaxLogins \in Nat
      /\ DefaultLife \in Nat /\ DefaultLife <= ExpiresIn
  BY TossClientAssumption, DefaultAssumption
<1>2. None \in Token
  BY <1>1 DEF None, Token
<1>3. Closed \in ClientState
  BY <1>1, <1>2 DEF Closed, ClientState, Time
<1> QED
  BY <1>1, <1>2, <1>3

\* A client about to send a request, with its token still good for Skew or the
\* decision to log in made, is as Lifetimes wants it.
LEMMA HeadersKeepLifetimes ==
  ASSUME NEW cl \in ClientState, NEW force \in BOOLEAN, now \in 0..LastTime,
         cl.token # None => cl.expires_at <= cl.token.at + MaxDelay + ExpiresIn,
         cl.granted = None
  PROVE  /\ Headers(cl, force) \in ClientState
         /\ ClientLifetimes(Headers(cl, force), now)
<1> DEFINE new == Headers(cl, force)
<1> USE Constants
<1>1. new \in ClientState
  BY DEF Headers, ClientState
<1>2. /\ new.token = cl.token /\ new.expires_at = cl.expires_at /\ new.since = now
      /\ new.granted = cl.granted /\ new.at \in {"login", "ask"}
  BY DEF Headers, ClientState
<1>3. new.at = "ask" => cl.token # None /\ now < cl.expires_at - Skew
  BY DEF Headers, ClientState, Expired, Time
<1>4. new.at = "ask" => now < cl.token.at + ExpiresIn - MaxDelay
  BY <1>3 DEF ClientState, Token, Time
<1> HIDE DEF new
<1>5. ClientLifetimes(new, now)
  BY <1>2, <1>4 DEF ClientLifetimes
<1> QED
  BY <1>1, <1>5 DEF new

-----------------------------------------------------------------------------
LEMMA InitLifetimes == Init => IInv
<1> SUFFICES ASSUME Init PROVE IInv
  OBVIOUS
<1>1. TypeOK
  BY Constants, TossClientAssumption
  DEF Init, TypeOK, TossClientAssumption, ClientState, Nothing, Time, Token
<1>2. Lifetimes
  BY DEF Init, Lifetimes, ClientLifetimes, Closed, Nothing
<1> QED
  BY <1>1, <1>2 DEF IInv

\* What a step that changes only one client, by `new`, has to show.
LEMMA OneClient ==
  ASSUME IInv, NEW c \in Client, NEW new \in ClientState,
         client' = [client EXCEPT ![c] = new],
         ClientLifetimes(new, now), UNCHANGED now,
         newest' \in Token, calls' \in 0..MaxCalls,
         given' \in 0..MaxLate, late' \in 0..given',
         file' \in [token : Token, expires_at : Time],
         file'.token # None =>
           file'.expires_at <= file'.token.at + MaxDelay + ExpiresIn
  PROVE  IInv'
<1>1. client' \in [Client -> ClientState]
  BY DEF IInv, TypeOK, ClientState
<1>2. TypeOK'
  BY <1>1 DEF IInv, TypeOK, ClientState, Time, Token
<1>3. ASSUME NEW d \in Client PROVE ClientLifetimes(client'[d], now)
  <2>1. CASE d = c
    BY <2>1 DEF IInv, TypeOK
  <2>2. CASE d # c
    BY <2>2 DEF IInv, TypeOK, Lifetimes, ClientLifetimes
  <2> QED
    BY <2>1, <2>2
<1>4. Lifetimes'
  BY <1>3 DEF Lifetimes, ClientLifetimes
<1> QED
  BY <1>2, <1>4 DEF IInv

LEMMA TickKeeps == IInv /\ Tick => IInv'
<1> SUFFICES ASSUME IInv, Tick PROVE IInv'
  OBVIOUS
<1>1. TypeOK'
  BY Constants DEF IInv, Tick, TypeOK, bounds, Time, Token
<1>2. ASSUME NEW c \in Client PROVE ClientLifetimes(client[c], now')
  <2>1. ClientLifetimes(client[c], now) /\ client[c] \in ClientState /\ now \in Nat
    BY DEF IInv, Lifetimes, ClientLifetimes, TypeOK, ClientState
  <2>2. /\ now' = now + 1 /\ client[c].at # "save"
        /\ client[c].at \in {"login", "ask"} => now - client[c].since < MaxDelay
    BY DEF Tick
  <2> QED
    BY <2>1, <2>2, Constants DEF ClientLifetimes, ClientState
<1>3. Lifetimes'
  BY <1>2 DEF IInv, Lifetimes, ClientLifetimes, Tick
<1> QED
  BY <1>1, <1>3 DEF IInv

LEMMA OpenKeeps == ASSUME NEW c \in Client PROVE IInv /\ Open(c) => IInv'
<1> SUFFICES ASSUME IInv, Open(c) PROVE IInv'
  OBVIOUS
<1> DEFINE token == IF Expired(file.token, file.expires_at) THEN None ELSE file.token
           expires == IF Expired(file.token, file.expires_at) THEN 0 ELSE file.expires_at
           new == [Closed EXCEPT !.at = "idle", !.token = token, !.expires_at = expires]
<1>1. token \in Token /\ expires \in Time
  BY Constants DEF IInv, TypeOK, Time
<1>2. token # None => expires <= token.at + MaxDelay + ExpiresIn
  BY DEF IInv, Lifetimes
<1>3. client' = [client EXCEPT ![c] = new]
  BY DEF Open
<1> HIDE DEF token, expires
<1>4. new \in ClientState
  BY <1>1, Constants DEF ClientState
<1>5. ClientLifetimes(new, now)
  BY <1>2 DEF ClientLifetimes, Closed
<1> HIDE DEF new
<1> QED
  BY <1>3, <1>4, <1>5, OneClient DEF Open, IInv, TypeOK, Lifetimes, bounds

\* The state of a client in the shape the lemmas want it.
LEMMA OfClient ==
  ASSUME IInv, NEW c \in Client
  PROVE  client[c] \in ClientState /\ ClientLifetimes(client[c], now)
BY DEF IInv, TypeOK, ClientState, Lifetimes, ClientLifetimes

LEMMA CallKeeps == ASSUME NEW c \in Client PROVE IInv /\ Call(c) => IInv'
<1> SUFFICES ASSUME IInv, Call(c) PROVE IInv'
  OBVIOUS
<1> DEFINE old == [client[c] EXCEPT !.attempt = 1]
<1>1. old \in ClientState
  BY OfClient, Constants DEF ClientState
<1>2. /\ old.token # None => old.expires_at <= old.token.at + MaxDelay + ExpiresIn
      /\ old.granted = None
  BY OfClient DEF ClientLifetimes, ClientState, Call
<1>3. client' = [client EXCEPT ![c] = Headers(old, FALSE)]
  BY DEF Call
<1> HIDE DEF old
<1>4. now \in 0..LastTime
  BY DEF IInv, TypeOK
<1>5. Headers(old, FALSE) \in ClientState /\ ClientLifetimes(Headers(old, FALSE), now)
  BY <1>1, <1>2, <1>4, HeadersKeepLifetimes
<1>6. calls' \in 0..MaxCalls
  BY TossClientAssumption DEF Call, IInv, TypeOK, TossClientAssumption
<1> QED
  BY <1>3, <1>5, <1>6, OneClient DEF Call, IInv, TypeOK, Lifetimes

LEMMA GrantKeeps == ASSUME NEW c \in Client PROVE IInv /\ Grant(c) => IInv'
<1> SUFFICES ASSUME IInv, Grant(c) PROVE IInv'
  OBVIOUS
<1> DEFINE new == [client[c] EXCEPT !.granted = newest']
<1>1. newest' \in Token /\ newest'.at = now
  BY Constants DEF Grant, IInv, TypeOK, Token
<1>2. client' = [client EXCEPT ![c] = new]
  BY DEF Grant
<1>3. new \in ClientState
  BY <1>1, OfClient DEF ClientState
<1>4. ClientLifetimes(new, now)
  BY <1>1, OfClient DEF Grant, ClientLifetimes, ClientState
<1> HIDE DEF new
<1> QED
  BY <1>1, <1>2, <1>3, <1>4, OneClient DEF Grant, IInv, TypeOK, Lifetimes, bounds

\* The client once its token has arrived, and the step that brings it.
With(c, life) == [client[c] EXCEPT !.token = client[c].granted, !.granted = None,
                                   !.own = client[c].forced,
                                   !.expires_at = now + life]

Arrives(c, life) ==
  \/ /\ file' = Nothing
     /\ client' = [client EXCEPT ![c] = [With(c, life) EXCEPT !.at = "save"]]
  \/ /\ file' = file
     /\ client' = [client EXCEPT ![c] = [With(c, life) EXCEPT !.at = "ask", !.since = now]]

LEMMA ReceiveArrives ==
  ASSUME NEW c \in Client, Receive(c)
  PROVE  \E life \in {ExpiresIn, DefaultLife} : Arrives(c, life)
BY DEF Receive, Arrives, With

LEMMA ReceiveKeeps == ASSUME NEW c \in Client PROVE IInv /\ Receive(c) => IInv'
<1> SUFFICES ASSUME IInv, Receive(c) PROVE IInv'
  OBVIOUS
<1>0. PICK life \in {ExpiresIn, DefaultLife} : Arrives(c, life)
  BY ReceiveArrives
<1> DEFINE new == With(c, life)
           saving == [new EXCEPT !.at = "save"]
           asking == [new EXCEPT !.at = "ask", !.since = now]
<1> USE Constants
<1>1. now \in 0..LastTime /\ client[c] \in ClientState
  BY OfClient DEF IInv, TypeOK
<1>2. now + life \in Time /\ life <= ExpiresIn
  BY <1>1 DEF Time
<1>3. saving \in ClientState /\ asking \in ClientState
  BY <1>1, <1>2 DEF ClientState, With
<1>4. /\ client[c].granted # None /\ client[c].granted \in Token
      /\ now <= client[c].granted.at + MaxDelay
  BY <1>1, OfClient DEF Receive, ClientLifetimes, ClientState, Token
<1>5. ClientLifetimes(saving, now) /\ ClientLifetimes(asking, now)
  BY <1>1, <1>2, <1>4 DEF ClientLifetimes, ClientState, Token, With
<1>6. \/ file' = Nothing /\ client' = [client EXCEPT ![c] = saving]
      \/ file' = file /\ client' = [client EXCEPT ![c] = asking]
  BY <1>0 DEF Arrives
<1> HIDE DEF saving, asking
<1>7. /\ Nothing \in [token : Token, expires_at : Time]
      /\ Nothing.token = None
  BY DEF Nothing, Time
<1>8. /\ file' \in [token : Token, expires_at : Time]
      /\ file'.token # None =>
           file'.expires_at <= file'.token.at + MaxDelay + ExpiresIn
  BY <1>6, <1>7 DEF IInv, TypeOK, Lifetimes
<1>9. UNCHANGED <<now, newest, late, bounds>>
  BY DEF Receive
<1> QED
  BY <1>3, <1>5, <1>6, <1>8, <1>9, OneClient DEF IInv, TypeOK, bounds

LEMMA SaveKeeps == ASSUME NEW c \in Client PROVE IInv /\ Save(c) => IInv'
<1> SUFFICES ASSUME IInv, Save(c) PROVE IInv'
  OBVIOUS
<1> DEFINE new == [client[c] EXCEPT !.at = "ask", !.since = now]
           saved == [token |-> client[c].token, expires_at |-> client[c].expires_at]
<1> USE Constants
<1>1. now \in 0..LastTime /\ client[c] \in ClientState /\ ClientLifetimes(client[c], now)
  BY OfClient DEF IInv, TypeOK
<1>2. client' = [client EXCEPT ![c] = new] /\ file' \in {Nothing, saved}
  BY DEF Save
<1>3. new \in ClientState
  BY <1>1 DEF ClientState
<1>4. ClientLifetimes(new, now)
  BY <1>1 DEF Save, ClientLifetimes, ClientState, Token
<1>5. /\ file' \in [token : Token, expires_at : Time]
      /\ file'.token # None =>
           file'.expires_at <= file'.token.at + MaxDelay + ExpiresIn
  BY <1>1, <1>2 DEF Nothing, Time, ClientState, ClientLifetimes
<1> HIDE DEF new, saved
<1>6. UNCHANGED <<now, newest, late, bounds>>
  BY DEF Save
<1> QED
  BY <1>2, <1>3, <1>4, <1>5, <1>6, OneClient DEF IInv, TypeOK, bounds

\* A step that leaves Toss, the file and the clock alone and only moves one
\* client on.
LEMMA OnlyClient ==
  ASSUME IInv, NEW c \in Client, NEW new \in ClientState, ClientLifetimes(new, now),
         client' = [client EXCEPT ![c] = new],
         UNCHANGED <<now, newest, file, calls>>,
         given' \in 0..MaxLate, late' \in 0..given'
  PROVE  IInv'
BY OneClient DEF IInv, TypeOK, Lifetimes

\* The idle client a call leaves behind.
LEMMA FinishKeeps ==
  ASSUME IInv, NEW c \in Client, Finish(c), UNCHANGED <<now, newest, file, calls>>,
         given' \in 0..MaxLate, late' \in 0..given'
  PROVE  IInv'
<1> DEFINE new == [Closed EXCEPT !.at = "idle", !.token = client[c].token,
                                 !.expires_at = client[c].expires_at]
<1>1. new \in ClientState
  BY OfClient, Constants DEF ClientState
<1>2. ClientLifetimes(new, now)
  BY OfClient DEF ClientLifetimes, Closed
<1>3. client' = [client EXCEPT ![c] = new]
  BY DEF Finish
<1> HIDE DEF new
<1> QED
  BY <1>1, <1>2, <1>3, OnlyClient

LEMMA UnauthorizedKeeps ==
  ASSUME NEW c \in Client PROVE IInv /\ Unauthorized(c) => IInv'
<1> SUFFICES ASSUME IInv, Unauthorized(c) PROVE IInv'
  OBVIOUS
<1>1. /\ client[c] \in ClientState /\ ClientLifetimes(client[c], now)
      /\ now \in 0..LastTime
  BY OfClient DEF IInv, TypeOK
<1>2. /\ UNCHANGED <<now, newest, file, calls>>
      /\ given' \in 0..MaxLate /\ late' \in 0..given'
  BY DEF Unauthorized, bounds, IInv, TypeOK
<1>3. CASE client[c].forced
  <2> DEFINE new == [client[c] EXCEPT !.at = "idle", !.denied = TRUE]
  <2>1. client' = [client EXCEPT ![c] = new]
    BY <1>3 DEF Unauthorized
  <2>2. new \in ClientState
    BY <1>1 DEF ClientState
  <2>3. ClientLifetimes(new, now)
    BY <1>1 DEF ClientLifetimes, ClientState, Unauthorized
  <2> HIDE DEF new
  <2> QED
    BY <1>2, <2>1, <2>2, <2>3, OnlyClient
<1>4. CASE ~client[c].forced
  <2>1. client' = [client EXCEPT ![c] = Headers(client[c], TRUE)]
    BY <1>4 DEF Unauthorized
  <2>2. /\ Headers(client[c], TRUE) \in ClientState
        /\ ClientLifetimes(Headers(client[c], TRUE), now)
    BY <1>1, HeadersKeepLifetimes DEF ClientLifetimes, Unauthorized
  <2> QED
    BY <1>2, <2>1, <2>2, OnlyClient
<1> QED
  BY <1>3, <1>4

LEMMA AbandonBounds ==
  ASSUME IInv, NEW c \in Client, Abandon(c)
  PROVE  given' \in 0..MaxLate /\ late' \in 0..given'
BY TossClientAssumption DEF IInv, TypeOK, Abandon, TossClientAssumption

LEMMA TransportErrorKeeps ==
  ASSUME NEW c \in Client PROVE IInv /\ TransportError(c) => IInv'
<1> SUFFICES ASSUME IInv, TransportError(c) PROVE IInv'
  OBVIOUS
<1> DEFINE new == [client[c] EXCEPT !.at = "wait", !.attempt = @ + 1, !.granted = None,
                                    !.since = 0, !.forced = FALSE, !.own = FALSE]
<1>1. client[c] \in ClientState /\ ClientLifetimes(client[c], now)
  BY OfClient
<1>2. given' \in 0..MaxLate /\ late' \in 0..given'
  BY AbandonBounds DEF TransportError
<1>3. UNCHANGED <<now, newest, file, calls>>
  BY DEF TransportError
<1>4. CASE client[c].attempt < MaxAttempts
  <2>1. client' = [client EXCEPT ![c] = new]
    BY <1>4 DEF TransportError
  <2>2. client[c].attempt + 1 \in 0..MaxAttempts /\ 0 \in 0..LastTime
    BY <1>1, <1>4, Constants DEF ClientState
  <2>3. new \in ClientState
    BY <1>1, <2>2, Constants DEF ClientState
  <2>4. ClientLifetimes(new, now)
    BY <1>1 DEF ClientLifetimes, ClientState
  <2> HIDE DEF new
  <2> QED
    BY <1>2, <1>3, <2>1, <2>3, <2>4, OnlyClient
<1>5. CASE ~(client[c].attempt < MaxAttempts)
  BY <1>2, <1>3, <1>5, FinishKeeps DEF TransportError
<1> QED
  BY <1>4, <1>5

LEMMA RetryKeeps == ASSUME NEW c \in Client PROVE IInv /\ Retry(c) => IInv'
<1> SUFFICES ASSUME IInv, Retry(c) PROVE IInv'
  OBVIOUS
<1>1. /\ Headers(client[c], FALSE) \in ClientState
      /\ ClientLifetimes(Headers(client[c], FALSE), now)
  BY OfClient, HeadersKeepLifetimes DEF ClientLifetimes, Retry, IInv, TypeOK
<1> QED
  BY <1>1, OnlyClient DEF Retry, bounds, IInv, TypeOK

LEMMA CloseKeeps == ASSUME NEW c \in Client PROVE IInv /\ Close(c) => IInv'
<1> SUFFICES ASSUME IInv, Close(c) PROVE IInv'
  OBVIOUS
<1>1. ClientLifetimes(Closed, now)
  BY DEF ClientLifetimes, Closed
<1> QED
  BY <1>1, Constants, AbandonBounds, OnlyClient DEF Close

LEMMA GrantLateKeeps == IInv /\ GrantLate => IInv'
<1> SUFFICES ASSUME IInv, GrantLate PROVE IInv'
  OBVIOUS
<1>1. newest' \in Token /\ late' \in 0..given
  BY Constants, TossClientAssumption
  DEF GrantLate, IInv, TypeOK, Token, TossClientAssumption
<1> QED
  BY <1>1 DEF GrantLate, IInv, TypeOK, Lifetimes, bounds

LEMMA NextKeeps == IInv /\ [Next]_vars => IInv'
<1> SUFFICES ASSUME IInv, [Next]_vars PROVE IInv'
  OBVIOUS
<1>1. CASE UNCHANGED vars
  BY <1>1 DEF vars, bounds, IInv, TypeOK, Lifetimes
<1>2. ASSUME NEW c \in Client, Answer(c) \/ Refuse(c) PROVE IInv'
  BY <1>2, FinishKeeps DEF Answer, Refuse, bounds, IInv, TypeOK
<1>3. ASSUME NEW c \in Client, Step(c) PROVE IInv'
  BY <1>2, <1>3, GrantKeeps, ReceiveKeeps, SaveKeeps, UnauthorizedKeeps,
     TransportErrorKeeps, RetryKeeps DEF Step
<1> QED
  BY <1>1, <1>3, TickKeeps, GrantLateKeeps, OpenKeeps, CallKeeps, CloseKeeps DEF Next

\* The clients, the cached token and Toss keep their types, and no client is
\* further from what Toss knows of its token than Lifetimes says.
THEOREM Invariant == Spec => []IInv
BY InitLifetimes, NextKeeps, PTL DEF Spec

LEMMA GoodForTheRequest == IInv => NeverRunsOut
<1> SUFFICES ASSUME IInv, NEW c \in Client, client[c].at = "ask"
             PROVE  now < client[c].token.at + ExpiresIn
  BY DEF NeverRunsOut
<1> QED
  BY OfClient, Constants DEF ClientLifetimes, ClientState, Token, IInv, TypeOK

\* A request on its way to Toss never carries a token that has run out
\* (TossAuth._is_expired with its skew, _refresh, and the cache file).
THEOREM ProactiveRefresh == Spec => []NeverRunsOut
BY Invariant, GoodForTheRequest, PTL

\* The clients, the cached token and Toss keep their types.
THEOREM TypeCorrect == Spec => []TypeOK
<1>1. IInv => TypeOK
  BY DEF IInv
<1> QED
  BY <1>1, Invariant, PTL

-----------------------------------------------------------------------------
(* Who logs in, and who is denied.                                         *)

\* A token nobody forged: the newest one, or an older one.
Issued(token, last) ==
  /\ token.no <= last.no
  /\ token.no = last.no => token = last

\* What is true of a client at the time t when `last` is the newest token: a
\* request after a forced login carries the token of that login, a new attempt
\* is not forced, a denied call is over and its token outdone, and a login is
\* needed for as long as it is under way.
Standing(cl, t, last) ==
  /\ Issued(cl.token, last)
  /\ Issued(cl.granted, last)
  /\ cl.at \in {"save", "ask"} => cl.own = cl.forced
  /\ cl.at = "wait" => ~cl.forced
  /\ cl.denied => cl.at = "idle" /\ cl.own /\ cl.token.no < last.no
  /\ cl.at = "login" /\ cl.granted = None =>
       \/ cl.token = None
       \/ t >= cl.expires_at - Skew
       \/ t >= cl.token.at + ExpiresIn
       \/ OneAtATime /\ cl.token # last

\* The inductive invariant behind LogsInOnlyIfNeeded and DeniedOnlyByAnother.
StandInv ==
  /\ IInv
  /\ Issued(None, newest) /\ Issued(file.token, newest)
  /\ \A c \in Client : Standing(client[c], now, newest)

LEMMA InitStands == Init => StandInv
<1> SUFFICES ASSUME Init PROVE StandInv
  OBVIOUS
<1>1. Issued(None, None)
  BY DEF Issued, None
<1> QED
  BY <1>1, InitLifetimes DEF Init, StandInv, Standing, Closed, Nothing

\* Time passing and new tokens being issued make no login needless and no
\* denied client's token new again.
LEMMA StandingLasts ==
  ASSUME NEW cl \in ClientState, NEW t \in Nat, NEW u \in Nat, t <= u,
         NEW last \in Token, NEW next \in Token, next = last \/ next.no > last.no,
         Standing(cl, t, last)
  PROVE  Standing(cl, u, next)
<1>1. /\ cl.token \in Token /\ cl.granted \in Token /\ cl.expires_at \in Int
      /\ cl.token.at \in Int
  BY Constants DEF ClientState, Token, Time
<1>2. \A token \in Token : Issued(token, last) =>
        /\ Issued(token, next)
        /\ token # last => token # next
  BY Constants DEF Issued, Token
<1>3. \A token \in Token : token.no < last.no => token.no < next.no
  BY Constants DEF Token
<1> QED
  BY <1>1, <1>2, <1>3, Constants DEF Standing

\* What any step does to the clock and to Toss.
LEMMA TossMovesOn ==
  ASSUME IInv, [Next]_vars
  PROVE  /\ now \in Nat /\ now' \in Nat /\ now <= now'
         /\ newest \in Token /\ newest' \in Token
         /\ newest' = newest \/ newest'.no = newest.no + 1
<1>1. IInv'
  BY NextKeeps
<1>2. /\ now \in Nat /\ now' \in Nat /\ newest \in Token /\ newest' \in Token
  BY <1>1, Constants DEF IInv, TypeOK
<1>3. /\ now' = now \/ now' = now + 1
      /\ newest' = newest \/ newest' = [no |-> newest.no + 1, at |-> now]
  BY DEF Next, Step, vars, Tick, GrantLate, Open, Call, Close, Grant, Receive, Save,
         Answer, Unauthorized, Refuse, TransportError, Retry
<1> QED
  BY <1>2, <1>3

LEMMA OldOnesStay ==
  ASSUME StandInv, [Next]_vars
  PROVE  /\ Issued(None, newest') /\ Issued(file.token, newest')
         /\ \A token \in Token : Issued(token, newest) => Issued(token, newest')
<1>1. /\ file.token \in Token /\ Issued(file.token, newest)
      /\ None \in Token /\ Issued(None, newest)
  BY Constants DEF StandInv, IInv, TypeOK
<1>2. ASSUME NEW token \in Token, Issued(token, newest) PROVE Issued(token, newest')
  BY <1>2, TossMovesOn, Constants DEF StandInv, Issued, Token
<1> QED
  BY <1>1, <1>2

\* A step that changes one client, by `new`, has to show where that client and
\* the file stand.
LEMMA OneStands ==
  ASSUME StandInv, [Next]_vars, NEW c \in Client, NEW new,
         client' = [client EXCEPT ![c] = new],
         Standing(new, now', newest'),
         file' = file \/ Issued(file'.token, newest')
  PROVE  StandInv'
<1>1. IInv' /\ client \in [Client -> ClientState]
  BY NextKeeps DEF StandInv, IInv, TypeOK
<1>2. ASSUME NEW d \in Client PROVE Standing(client'[d], now', newest')
  <2>1. CASE d = c
    BY <1>1, <2>1
  <2>2. CASE d # c
    <3>1. /\ client'[d] = client[d] /\ client[d] \in ClientState
          /\ Standing(client[d], now, newest)
      BY <1>1, <2>2 DEF StandInv
    <3>2. newest' = newest \/ newest'.no > newest.no
      BY TossMovesOn DEF StandInv, Token
    <3> QED
      BY <3>1, <3>2, TossMovesOn, StandingLasts DEF StandInv
  <2> QED
    BY <2>1, <2>2
<1>3. Issued(None, newest') /\ Issued(file'.token, newest')
  BY OldOnesStay DEF StandInv
<1> QED
  BY <1>1, <1>2, <1>3 DEF StandInv

\* A step that changes no client has nothing to show.
LEMMA NoneMoves ==
  ASSUME StandInv, [Next]_vars, UNCHANGED <<client, file>>
  PROVE  StandInv'
<1>1. IInv' /\ client \in [Client -> ClientState]
  BY NextKeeps DEF StandInv, IInv, TypeOK
<1>2. ASSUME NEW d \in Client PROVE Standing(client'[d], now', newest')
  <2>1. newest' = newest \/ newest'.no > newest.no
    BY TossMovesOn DEF StandInv, Token
  <2> QED
    BY <1>1, <2>1, TossMovesOn, StandingLasts DEF StandInv
<1>3. Issued(None, newest') /\ Issued(file'.token, newest')
  BY OldOnesStay DEF StandInv
<1> QED
  BY <1>1, <1>2, <1>3 DEF StandInv

LEMMA OfStanding ==
  ASSUME StandInv, NEW c \in Client
  PROVE  /\ client[c] \in ClientState /\ ClientLifetimes(client[c], now)
         /\ Standing(client[c], now, newest)
         /\ None \in Token /\ Issued(None, newest)
         /\ now \in Nat /\ newest \in Token
<1>1. newest \in Token /\ now \in Nat
  BY Constants DEF StandInv, IInv, TypeOK
<1> QED
  BY <1>1, OfClient, Constants DEF StandInv

\* A client that begins to send a request stands well: it goes to log in only
\* when its token is about to run out, or is forced to.
LEMMA HeadersStand ==
  ASSUME NEW cl \in ClientState, NEW force \in BOOLEAN, now \in Nat,
         Issued(cl.token, newest), Issued(cl.granted, newest),
         force => ~Accepted(cl.token)
  PROVE  Standing(Headers(cl, force), now, newest)
<1> DEFINE new == Headers(cl, force)
<1>1. /\ new.token = cl.token /\ new.granted = cl.granted
      /\ new.expires_at = cl.expires_at /\ new.denied = FALSE
      /\ new.own = FALSE /\ new.forced = force
      /\ new.at \in {"login", "ask"}
      /\ new.at = "login" => force \/ Expired(cl.token, cl.expires_at)
      /\ new.at = "ask" => ~force
  BY DEF Headers, ClientState
<1>2. cl.token.at \in Int /\ cl.expires_at \in Int
  BY Constants DEF ClientState, Token, Time
<1>3. Expired(cl.token, cl.expires_at) \/ ~Accepted(cl.token) =>
        \/ cl.token = None
        \/ now >= cl.expires_at - Skew
        \/ now >= cl.token.at + ExpiresIn
        \/ OneAtATime /\ cl.token # newest
  BY <1>2, Constants DEF Expired, Accepted
<1> HIDE DEF new
<1>4. Standing(new, now, newest)
  BY <1>1, <1>3 DEF Standing
<1> QED
  BY <1>4 DEF new

LEMMA OpenStands == ASSUME NEW c \in Client PROVE StandInv /\ Open(c) => StandInv'
<1> SUFFICES ASSUME StandInv, Open(c) PROVE StandInv'
  OBVIOUS
<1> DEFINE token == IF Expired(file.token, file.expires_at) THEN None ELSE file.token
           expires == IF Expired(file.token, file.expires_at) THEN 0 ELSE file.expires_at
           new == [Closed EXCEPT !.at = "idle", !.token = token, !.expires_at = expires]
<1>1. Issued(token, newest) /\ Issued(None, newest)
  BY DEF StandInv
<1>2. client' = [client EXCEPT ![c] = new]
  BY DEF Open
<1> HIDE DEF token, expires
<1>3. Standing(new, now, newest)
  BY <1>1 DEF Standing, Closed
<1> HIDE DEF new
<1>4. [Next]_vars
  BY DEF Next
<1> QED
  BY <1>2, <1>3, <1>4, OneStands DEF Open

LEMMA CallStands == ASSUME NEW c \in Client PROVE StandInv /\ Call(c) => StandInv'
<1> SUFFICES ASSUME StandInv, Call(c) PROVE StandInv'
  OBVIOUS
<1> DEFINE old == [client[c] EXCEPT !.attempt = 1]
<1>1. /\ old \in ClientState /\ old.token = client[c].token
      /\ old.granted = client[c].granted
  BY OfStanding, Constants DEF ClientState
<1>2. client' = [client EXCEPT ![c] = Headers(old, FALSE)]
  BY DEF Call
<1> HIDE DEF old
<1>3. Standing(Headers(old, FALSE), now, newest)
  BY <1>1, OfStanding, HeadersStand DEF Standing
<1>4. [Next]_vars
  BY DEF Next
<1> QED
  BY <1>2, <1>3, <1>4, OneStands DEF Call

LEMMA GrantStands == ASSUME NEW c \in Client PROVE StandInv /\ Grant(c) => StandInv'
<1> SUFFICES ASSUME StandInv, Grant(c) PROVE StandInv'
  OBVIOUS
<1> DEFINE new == [client[c] EXCEPT !.granted = newest']
<1>1. [Next]_vars
  BY DEF Next, Step
<1>2. client' = [client EXCEPT ![c] = new]
  BY DEF Grant
<1>3. /\ new.at = "login" /\ new.token = client[c].token /\ new.granted = newest'
      /\ new.denied = client[c].denied
  BY OfStanding DEF Grant, ClientState
<1>4. newest'.no \in Nat /\ newest'.no >= 1
  BY OfStanding, Constants DEF Grant, Token
<1>5. newest' # None /\ Issued(newest', newest')
  BY <1>4 DEF Issued, None
<1>6. Issued(client[c].token, newest')
  BY <1>1, OfStanding, OldOnesStay DEF Standing, ClientState
<1>7. ~client[c].denied
  BY OfStanding DEF Standing, Grant
<1> HIDE DEF new
<1>8. Standing(new, now', newest')
  BY <1>3, <1>5, <1>6, <1>7 DEF Standing
<1> QED
  BY <1>1, <1>2, <1>8, OneStands DEF Grant

LEMMA ReceiveStands == ASSUME NEW c \in Client PROVE StandInv /\ Receive(c) => StandInv'
<1> SUFFICES ASSUME StandInv, Receive(c) PROVE StandInv'
  OBVIOUS
<1>0. PICK life \in {ExpiresIn, DefaultLife} : Arrives(c, life)
  BY ReceiveArrives
<1> DEFINE new == With(c, life)
           saving == [new EXCEPT !.at = "save"]
           asking == [new EXCEPT !.at = "ask", !.since = now]
<1>1. [Next]_vars
  BY DEF Next, Step
<1>2. \/ file' = Nothing /\ client' = [client EXCEPT ![c] = saving]
      \/ file' = file /\ client' = [client EXCEPT ![c] = asking]
  BY <1>0 DEF Arrives
<1>3. /\ saving.at = "save" /\ saving.token = client[c].granted /\ saving.granted = None
      /\ saving.own = client[c].forced /\ saving.forced = client[c].forced
      /\ saving.denied = client[c].denied
      /\ asking.at = "ask" /\ asking.token = client[c].granted /\ asking.granted = None
      /\ asking.own = client[c].forced /\ asking.forced = client[c].forced
      /\ asking.denied = client[c].denied
  BY OfStanding DEF ClientState, With
<1> HIDE DEF saving, asking
<1>4. ~client[c].denied /\ Issued(client[c].granted, newest)
  BY OfStanding DEF Standing, Receive
<1>5. Standing(saving, now, newest) /\ Standing(asking, now, newest)
  BY <1>3, <1>4, OfStanding DEF Standing
<1>6. Nothing.token = None /\ UNCHANGED <<now, newest>>
  BY DEF Nothing, Receive
<1> QED
  BY <1>1, <1>2, <1>5, <1>6, OfStanding, OneStands

LEMMA SaveStands == ASSUME NEW c \in Client PROVE StandInv /\ Save(c) => StandInv'
<1> SUFFICES ASSUME StandInv, Save(c) PROVE StandInv'
  OBVIOUS
<1> DEFINE new == [client[c] EXCEPT !.at = "ask", !.since = now]
           saved == [token |-> client[c].token, expires_at |-> client[c].expires_at]
<1>1. [Next]_vars
  BY DEF Next, Step
<1>2. /\ client' = [client EXCEPT ![c] = new] /\ file' \in {Nothing, saved}
      /\ UNCHANGED <<now, newest>>
  BY DEF Save
<1>3. /\ new.at = "ask" /\ new.token = client[c].token /\ new.granted = client[c].granted
      /\ new.own = client[c].own /\ new.forced = client[c].forced
      /\ new.denied = client[c].denied
  BY OfStanding DEF ClientState
<1> HIDE DEF new
<1>4. Standing(new, now, newest)
  BY <1>3, OfStanding DEF Standing, Save
<1>5. Issued(file'.token, newest)
  BY <1>2, OfStanding DEF Nothing, Standing
<1> QED
  BY <1>1, <1>2, <1>4, <1>5, OneStands

\* The idle client a call leaves behind.
LEMMA FinishStands ==
  ASSUME StandInv, [Next]_vars, NEW c \in Client, Finish(c),
         UNCHANGED <<now, newest, file>>
  PROVE  StandInv'
<1> DEFINE new == [Closed EXCEPT !.at = "idle", !.token = client[c].token,
                                 !.expires_at = client[c].expires_at]
<1>1. client' = [client EXCEPT ![c] = new]
  BY DEF Finish
<1>2. /\ new.at = "idle" /\ new.token = client[c].token /\ new.granted = None
      /\ new.denied = FALSE
  BY DEF Closed
<1> HIDE DEF new
<1>3. Standing(new, now, newest)
  BY <1>2, OfStanding DEF Standing
<1> QED
  BY <1>1, <1>3, OneStands

LEMMA UnauthorizedStands ==
  ASSUME NEW c \in Client PROVE StandInv /\ Unauthorized(c) => StandInv'
<1> SUFFICES ASSUME StandInv, Unauthorized(c) PROVE StandInv'
  OBVIOUS
<1>1. [Next]_vars /\ UNCHANGED <<now, newest, file>>
  BY DEF Next, Step, Unauthorized
<1>2. client[c].at = "ask" /\ ~Accepted(client[c].token) /\ client[c].granted = None
  BY OfStanding DEF Unauthorized, ClientLifetimes
<1>3. CASE client[c].forced
  <2> DEFINE new == [client[c] EXCEPT !.at = "idle", !.denied = TRUE]
  <2>1. client' = [client EXCEPT ![c] = new]
    BY <1>3 DEF Unauthorized
  <2>2. /\ new.at = "idle" /\ new.token = client[c].token /\ new.granted = None
        /\ new.own = client[c].own /\ client[c].own
    BY <1>2, <1>3, OfStanding DEF ClientState, Standing
  <2>3. now < client[c].token.at + ExpiresIn
    BY <1>2, GoodForTheRequest DEF NeverRunsOut, StandInv
  <2>4. client[c].token # newest
    BY <1>2, <2>3 DEF Accepted
  <2>5. client[c].token.no < newest.no
    BY <2>4, OfStanding, Constants DEF Standing, Issued, Token, ClientState
  <2> HIDE DEF new
  <2>6. Standing(new, now, newest)
    BY <2>2, <2>5, OfStanding DEF Standing
  <2> QED
    BY <1>1, <2>1, <2>6, OneStands
<1>4. CASE ~client[c].forced
  <2>1. client' = [client EXCEPT ![c] = Headers(client[c], TRUE)]
    BY <1>4 DEF Unauthorized
  <2>2. Standing(Headers(client[c], TRUE), now, newest)
    BY <1>2, OfStanding, HeadersStand DEF Standing
  <2> QED
    BY <1>1, <2>1, <2>2, OneStands
<1> QED
  BY <1>3, <1>4

LEMMA TransportErrorStands ==
  ASSUME NEW c \in Client PROVE StandInv /\ TransportError(c) => StandInv'
<1> SUFFICES ASSUME StandInv, TransportError(c) PROVE StandInv'
  OBVIOUS
<1> DEFINE new == [client[c] EXCEPT !.at = "wait", !.attempt = @ + 1, !.granted = None,
                                    !.since = 0, !.forced = FALSE, !.own = FALSE]
<1>1. [Next]_vars /\ UNCHANGED <<now, newest, file>>
  BY DEF Next, Step, TransportError
<1>2. CASE client[c].attempt < MaxAttempts
  <2>1. client' = [client EXCEPT ![c] = new]
    BY <1>2 DEF TransportError
  <2>2. /\ new.at = "wait" /\ new.token = client[c].token /\ new.granted = None
        /\ new.denied = client[c].denied /\ new.forced = FALSE
    BY OfStanding DEF ClientState
  <2> HIDE DEF new
  <2>3. ~client[c].denied
    BY OfStanding DEF Standing, TransportError
  <2>4. Standing(new, now, newest)
    BY <2>2, <2>3, OfStanding DEF Standing
  <2> QED
    BY <1>1, <2>1, <2>4, OneStands
<1>3. CASE ~(client[c].attempt < MaxAttempts)
  BY <1>1, <1>3, FinishStands DEF TransportError
<1> QED
  BY <1>2, <1>3

LEMMA RetryStands == ASSUME NEW c \in Client PROVE StandInv /\ Retry(c) => StandInv'
<1> SUFFICES ASSUME StandInv, Retry(c) PROVE StandInv'
  OBVIOUS
<1>1. [Next]_vars
  BY DEF Next, Step
<1>2. Standing(Headers(client[c], FALSE), now, newest)
  BY OfStanding, HeadersStand DEF Standing
<1> QED
  BY <1>1, <1>2, OneStands DEF Retry

LEMMA CloseStands == ASSUME NEW c \in Client PROVE StandInv /\ Close(c) => StandInv'
<1> SUFFICES ASSUME StandInv, Close(c) PROVE StandInv'
  OBVIOUS
<1>1. [Next]_vars
  BY DEF Next
<1>2. Standing(Closed, now, newest)
  BY OfStanding DEF Standing, Closed
<1> QED
  BY <1>1, <1>2, OneStands DEF Close

LEMMA NextStands == StandInv /\ [Next]_vars => StandInv'
<1> SUFFICES ASSUME StandInv, [Next]_vars PROVE StandInv'
  OBVIOUS
<1>1. CASE Tick \/ GrantLate \/ UNCHANGED vars
  BY <1>1, NoneMoves DEF Tick, GrantLate, vars
<1>2. ASSUME NEW c \in Client, Answer(c) \/ Refuse(c) PROVE StandInv'
  BY <1>2, FinishStands DEF Answer, Refuse
<1>3. ASSUME NEW c \in Client, Step(c) PROVE StandInv'
  BY <1>2, <1>3, GrantStands, ReceiveStands, SaveStands, UnauthorizedStands,
     TransportErrorStands, RetryStands DEF Step
<1> QED
  BY <1>1, <1>3, OpenStands, CallStands, CloseStands DEF Next

LEMMA Stands == Spec => []StandInv
BY InitStands, NextStands, PTL DEF Spec

LEMMA StandingIsNeeded == StandInv => LogsInOnlyIfNeeded /\ DeniedOnlyByAnother
<1> SUFFICES ASSUME StandInv, NEW c \in Client
             PROVE  /\ client[c].at = "login" /\ client[c].granted = None =>
                         \/ Expired(client[c].token, client[c].expires_at)
                         \/ ~Accepted(client[c].token)
                    /\ client[c].denied => client[c].own /\ client[c].token.no < newest.no
  BY DEF LogsInOnlyIfNeeded, DeniedOnlyByAnother
<1>1. client[c].token.at \in Int /\ client[c].expires_at \in Int
  BY OfStanding, Constants DEF ClientState, Token, Time
<1> QED
  BY <1>1, OfStanding, Constants DEF Standing, Expired, Accepted

\* A client waits for a login only with a token that is missing, about to run
\* out or no longer taken (TossAuth.get_token and the 401 of TossClient._request).
THEOREM LoginsAreNeeded == Spec => []LogsInOnlyIfNeeded
BY Stands, StandingIsNeeded, PTL

\* A call that ends in a 401 has logged in for itself, and another login came
\* after that one: nothing else costs a client its answer.
THEOREM DenialsAreMutual == Spec => []DeniedOnlyByAnother
BY Stands, StandingIsNeeded, PTL

-----------------------------------------------------------------------------
(* Every call ends.                                                        *)

\* How far an attempt has come, and how much of it is left.
Phase(cl) ==
  IF cl.at = "login" THEN (IF cl.granted = None THEN 3 ELSE 2)
  ELSE IF cl.at = "save" THEN 1 ELSE 0

Inside(cl) ==
  IF cl.at = "wait" THEN 8 ELSE IF cl.forced THEN Phase(cl) ELSE 4 + Phase(cl)

LEMMA Measure ==
  ASSUME NEW cl \in ClientState, cl.at = "wait" => ~cl.forced
  PROVE  /\ WorkLeft(cl) = 9 * (MaxAttempts - cl.attempt) + Inside(cl)
         /\ MaxAttempts \in Nat /\ cl.attempt \in 0..MaxAttempts
         /\ Phase(cl) \in 0..3 /\ Inside(cl) \in 0..8
<1> DEFINE phase == CASE cl.at = "login" -> IF cl.granted = None THEN 3 ELSE 2
                      [] cl.at = "save" -> 1
                      [] OTHER -> 0
           inside == CASE cl.at = "wait" -> 8
                       [] cl.forced -> phase
                       [] OTHER -> 4 + phase
<1>1. phase = Phase(cl) /\ Phase(cl) \in 0..3
  <2>1. cl.at = "login" => phase = IF cl.granted = None THEN 3 ELSE 2
    OBVIOUS
  <2>2. cl.at = "save" => phase = 1
    OBVIOUS
  <2>3. cl.at # "login" /\ cl.at # "save" => phase = 0
    OBVIOUS
  <2> HIDE DEF phase
  <2> QED
    BY <2>1, <2>2, <2>3 DEF Phase
<1>2. WorkLeft(cl) = 9 * (MaxAttempts - cl.attempt) + inside
  BY DEF WorkLeft
<1> HIDE DEF phase
<1>4. inside = Inside(cl)
  <2>1. cl.forced \in BOOLEAN
    BY DEF ClientState
  <2>2. CASE cl.at = "wait"
    BY <2>2 DEF Inside
  <2>3. CASE cl.at # "wait" /\ cl.forced
    BY <1>1, <2>3 DEF Inside
  <2>4. CASE cl.at # "wait" /\ ~cl.forced
    BY <1>1, <2>4 DEF Inside
  <2> QED
    BY <2>1, <2>2, <2>3, <2>4
<1>5. Inside(cl) \in 0..8
  BY <1>1 DEF Inside
<1>6. MaxAttempts \in Nat /\ cl.attempt \in 0..MaxAttempts
  BY Constants DEF ClientState
<1> QED
  BY <1>1, <1>2, <1>4, <1>5, <1>6

\* What has to be shown of a step that moves a client under way by `new`.
LEMMA LessToDo ==
  ASSUME NEW cl \in ClientState, NEW new \in ClientState,
         cl.at = "wait" => ~cl.forced, new.at = "wait" => ~new.forced,
         \/ new.attempt = cl.attempt /\ Inside(new) < Inside(cl)
         \/ new.attempt = cl.attempt + 1
  PROVE  0 <= WorkLeft(new) /\ WorkLeft(new) < WorkLeft(cl)
<1>1. /\ WorkLeft(cl) = 9 * (MaxAttempts - cl.attempt) + Inside(cl)
      /\ WorkLeft(new) = 9 * (MaxAttempts - new.attempt) + Inside(new)
      /\ MaxAttempts \in Nat /\ cl.attempt \in 0..MaxAttempts
      /\ new.attempt \in 0..MaxAttempts
      /\ Inside(cl) \in 0..8 /\ Inside(new) \in 0..8
  BY Measure
<1> HIDE DEF Inside, WorkLeft
<1> QED
  BY <1>1

LEMMA FinishIsIdle ==
  ASSUME client \in [Client -> ClientState], NEW c \in Client, Finish(c)
  PROVE  client'[c].at = "idle"
BY DEF Finish, Closed

LEMMA EveryStepIsProgress ==
  ASSUME StandInv, [Next]_vars, NEW c \in Client,
         client[c].at \in {"login", "save", "ask", "wait"}, client'[c] # client[c]
  PROVE  \/ client'[c].at \in {"idle", "closed"}
         \/ 0 <= WorkLeft(client'[c]) /\ WorkLeft(client'[c]) < WorkLeft(client[c])
<1> DEFINE cl == client[c]
           new == client'[c]
<1>1. /\ cl \in ClientState /\ ClientLifetimes(cl, now)
      /\ client \in [Client -> ClientState]
      /\ cl.at = "wait" => ~cl.forced
  BY OfStanding DEF Standing, StandInv, IInv, TypeOK
<1>2. new \in ClientState /\ (new.at = "wait" => ~new.forced)
  BY NextStands, NextKeeps DEF StandInv, IInv, TypeOK, Standing
<1>3. Step(c) \/ Close(c)
  <2>1. ~(UNCHANGED vars \/ Tick \/ GrantLate)
    BY DEF vars, Tick, GrantLate
  <2>2. PICK d \in Client : Open(d) \/ Call(d) \/ Step(d) \/ Close(d)
    BY <2>1 DEF Next
  <2>3. d = c
    <3>1. ASSUME d # c PROVE client'[c] = client[c]
      BY <1>1, <2>2, <3>1 DEF Open, Call, Step, Close, Grant, Receive, Save, Answer,
         Unauthorized, Refuse, TransportError, Retry, Finish
    <3> QED
      BY <3>1
  <2> QED
    <3>1. ~Open(c)
      BY DEF Open, Closed
    <3>2. ~Call(c)
      BY DEF Call
    <3> QED
      BY <2>2, <2>3, <3>1, <3>2
<1>4. CASE Close(c) \/ Answer(c) \/ Refuse(c)
  <2>1. new = Closed \/ Finish(c)
    BY <1>1, <1>4 DEF Close, Answer, Refuse
  <2> QED
    BY <1>1, <2>1, FinishIsIdle DEF Closed
<1>5. CASE Grant(c)
  <2>1. new = [cl EXCEPT !.granted = newest'] /\ cl.at = "login" /\ cl.granted = None
    BY <1>1, <1>5 DEF Grant
  <2>2. newest' # None
    BY <1>5, OfStanding, Constants DEF Grant, Token, None
  <2>3. /\ new.at = "login" /\ new.granted # None /\ new.forced = cl.forced
        /\ new.attempt = cl.attempt
    BY <1>1, <2>1, <2>2 DEF ClientState
  <2> HIDE DEF new, cl
  <2>4. Inside(new) < Inside(cl)
    BY <2>1, <2>3 DEF Inside, Phase
  <2> QED
    BY <1>1, <1>2, <2>3, <2>4, LessToDo DEF new, cl
<1>6. CASE Receive(c)
  <2>1. /\ new.at \in {"save", "ask"} /\ new.attempt = cl.attempt /\ new.forced = cl.forced
        /\ cl.at = "login" /\ cl.granted # None
    <3>0. PICK life \in {ExpiresIn, DefaultLife} : Arrives(c, life)
      BY <1>6, ReceiveArrives
    <3> DEFINE got == [cl EXCEPT !.token = cl.granted, !.granted = None, !.own = cl.forced,
                                 !.expires_at = now + life]
    <3>1. \/ new = [got EXCEPT !.at = "save"]
          \/ new = [got EXCEPT !.at = "ask", !.since = now]
      <4> HIDE DEF got
      <4>1. \/ client' = [client EXCEPT ![c] = [got EXCEPT !.at = "save"]]
            \/ client' = [client EXCEPT ![c] = [got EXCEPT !.at = "ask", !.since = now]]
        BY <3>0 DEF Arrives, With, got
      <4> QED
        BY <1>1, <4>1
    <3>2. /\ [got EXCEPT !.at = "save"].at = "save"
          /\ [got EXCEPT !.at = "save"].attempt = cl.attempt
          /\ [got EXCEPT !.at = "save"].forced = cl.forced
          /\ [got EXCEPT !.at = "ask", !.since = now].at = "ask"
          /\ [got EXCEPT !.at = "ask", !.since = now].attempt = cl.attempt
          /\ [got EXCEPT !.at = "ask", !.since = now].forced = cl.forced
      BY <1>1 DEF ClientState
    <3>3. cl.at = "login" /\ cl.granted # None
      BY <1>6 DEF Receive
    <3> HIDE DEF got, new, cl
    <3> QED
      BY <3>1, <3>2, <3>3
  <2> HIDE DEF new, cl
  <2>2. Inside(new) < Inside(cl)
    BY <2>1 DEF Inside, Phase
  <2> QED
    BY <1>1, <1>2, <2>1, <2>2, LessToDo DEF new, cl
<1>7. CASE Save(c)
  <2>1. /\ new.at = "ask" /\ new.attempt = cl.attempt /\ new.forced = cl.forced
        /\ cl.at = "save"
    BY <1>1, <1>7 DEF Save, ClientState
  <2> HIDE DEF new, cl
  <2>2. Inside(new) < Inside(cl)
    BY <2>1 DEF Inside, Phase
  <2> QED
    BY <1>1, <1>2, <2>1, <2>2, LessToDo DEF new, cl
<1>8. CASE Unauthorized(c)
  <2>1. CASE cl.forced
    BY <1>1, <1>8, <2>1 DEF Unauthorized, ClientState
  <2>2. CASE ~cl.forced
    <3>1. new = Headers(cl, TRUE) /\ cl.at = "ask"
      BY <1>1, <1>8, <2>2 DEF Unauthorized
    <3>2. new.at = "login" /\ new.attempt = cl.attempt /\ new.forced
      BY <1>1, <3>1 DEF Headers, ClientState
    <3> HIDE DEF new, cl
    <3>3. Inside(new) < Inside(cl)
      <4>1. Phase(new) \in 0..3 /\ Phase(cl) = 0
        BY <1>2, <3>1, Measure DEF new, Phase
      <4>2. new.at # "wait"
        BY <3>2
      <4>3. Inside(new) = Phase(new) /\ Inside(cl) = 4 + Phase(cl)
        BY <2>2, <3>1, <3>2, <4>2 DEF Inside
      <4> QED
        BY <4>1, <4>3
    <3> QED
      BY <1>1, <1>2, <3>2, <3>3, LessToDo DEF new, cl
  <2> QED
    BY <2>1, <2>2
<1>9. CASE TransportError(c)
  <2>1. CASE cl.attempt < MaxAttempts
    <3>1. new.attempt = cl.attempt + 1
      BY <1>1, <1>9, <2>1 DEF TransportError, ClientState
    <3> QED
      BY <1>1, <1>2, <3>1, LessToDo
  <2>2. CASE ~(cl.attempt < MaxAttempts)
    BY <1>1, <1>9, <2>2, FinishIsIdle DEF TransportError
  <2> QED
    BY <2>1, <2>2
<1>10. CASE Retry(c)
  <2>1. new = Headers(cl, FALSE) /\ cl.at = "wait"
    BY <1>1, <1>10 DEF Retry
  <2>2. new.at \in {"login", "ask"} /\ new.attempt = cl.attempt /\ new.forced = FALSE
    BY <1>1, <2>1 DEF Headers, ClientState
  <2> HIDE DEF new, cl
  <2>3. Inside(new) < Inside(cl)
    <3>1. Phase(new) \in 0..3
      BY <1>2, Measure DEF new
    <3>2. new.at # "wait" /\ ~new.forced
      BY <2>2
    <3>3. Inside(new) = 4 + Phase(new) /\ Inside(cl) = 8
      BY <2>1, <3>2 DEF Inside
    <3> QED
      BY <3>1, <3>3
  <2> QED
    BY <1>1, <1>2, <2>2, <2>3, LessToDo DEF new, cl
<1> QED
  BY <1>3, <1>4, <1>5, <1>6, <1>7, <1>8, <1>9, <1>10 DEF Step

\* Whatever Toss answers and other clients do, every step of a call leaves less
\* of it to do, so that a call is over after nine steps an attempt.
THEOREM CallsEnd == Spec => StepsLeadToTheEnd
<1> DEFINE Progress ==
      \A c \in Client :
        client[c].at \in {"login", "save", "ask", "wait"} /\ client'[c] # client[c] =>
          \/ client'[c].at \in {"idle", "closed"}
          \/ 0 <= WorkLeft(client'[c]) /\ WorkLeft(client'[c]) < WorkLeft(client[c])
<1>1. StandInv /\ [Next]_vars => [Progress]_vars
  BY EveryStepIsProgress
<1>2. StepsLeadToTheEnd <=> [][Progress]_vars
  BY DEF StepsLeadToTheEnd
<1> HIDE DEF Progress
<1> QED
  BY <1>1, <1>2, Stands, PTL DEF Spec
=============================================================================
