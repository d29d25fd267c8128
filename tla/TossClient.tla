------------------------------ MODULE TossClient ------------------------------
(***************************************************************************)
(* The clients of the Toss API (toss/client.py) and their tokens           *)
(* (toss/auth.py).  Every command, job and advisor answer opens a client   *)
(* of its own, which one thread uses; they have the credentials and the    *)
(* file of the cached token in common, and nothing that orders them.       *)
(*                                                                         *)
(* A call is made in up to MaxAttempts attempts.  An attempt logs in when  *)
(* there is no token or it is about to expire, asks, and after a 401 logs  *)
(* in and asks once more.                                                  *)
(***************************************************************************)
EXTENDS Integers

CONSTANTS
  Client,
  MaxAttempts,   \* stop_after_attempt
  Skew,          \* _EXPIRY_SKEW_S
  ExpiresIn,     \* time a token is good for, its expires_in when given
  DefaultLife,   \* the expires_in the client supposes when none is given
  MaxDelay,      \* time a request may be under way, toss_timeout_s
  OneAtATime,    \* whether Toss revokes the last token when it issues one
  LastTime,      \* bound on the clock
  MaxCalls,      \* bound on the calls made
  MaxLogins,     \* bound on the logins Toss answers
  MaxLate        \* bound on the logins answered after they were given up

\* schemas.py calls the default "conservative": no token lives shorter.
ASSUME DefaultAssumption == DefaultLife \in Nat /\ DefaultLife <= ExpiresIn

ASSUME TossClientAssumption ==
  /\ MaxAttempts \in Nat \ {0}
  /\ Skew \in Nat /\ ExpiresIn \in Nat /\ MaxDelay \in Nat /\ LastTime \in Nat
  /\ 2 * MaxDelay <= Skew
  /\ 2 * MaxDelay < ExpiresIn
  /\ OneAtATime \in BOOLEAN
  /\ MaxCalls \in Nat /\ MaxLogins \in Nat /\ MaxLate \in Nat

VARIABLES
  now,
  newest,     \* Toss: the last token issued
  late,       \* logins given up on that Toss may still answer
  file,       \* what _load_cache would read
  client,     \* each client, see Open
  calls,      \* calls made, for the bound
  given       \* late logins so far, for the bound

vars == <<now, newest, late, file, client, calls, given>>
bounds == <<calls, given>>

\* A token is the number of its login, and when Toss issued it.
None == [no |-> 0, at |-> 0]

\* The file, when it is missing or cannot be read.
Nothing == [token |-> None, expires_at |-> 0]

Closed == [at |-> "closed", attempt |-> 0, forced |-> FALSE, own |-> FALSE,
           since |-> 0, granted |-> None, token |-> None,
           expires_at |-> 0, denied |-> FALSE]

MutantExpired(token, expires_at) ==          \* mutant: no skew
  token = None \/ now >= expires_at

\* _is_expired
Expired(token, expires_at) == token = None \/ now >= expires_at - Skew

\* What Toss makes of a token it has issued.
Accepted(token) ==
  /\ now < token.at + ExpiresIn
  /\ OneAtATime => token = newest

Init ==
  /\ now = 0
  /\ newest = None
  /\ late = 0
  /\ file = Nothing
  /\ client = [c \in Client |-> Closed]
  /\ calls = 0 /\ given = 0

-----------------------------------------------------------------------------
\* Requests are answered or given up within MaxDelay; writing the file takes
\* no time.
Tick ==
  /\ now < LastTime
  /\ \A c \in Client :
       /\ client[c].at \in {"login", "ask"} => now - client[c].since < MaxDelay
       /\ client[c].at # "save"
  /\ now' = now + 1
  /\ UNCHANGED <<newest, late, file, client, bounds>>

\* A new TossClient reads the cache; what is unreadable or about to expire is
\* as good as nothing.
Open(c) ==
  /\ client[c] = Closed
  /\ calls < MaxCalls
  /\ client' = [client EXCEPT
       ![c] = [Closed EXCEPT !.at = "idle",
                 !.token = IF Expired(file.token, file.expires_at) THEN None ELSE file.token,
                 !.expires_at = IF Expired(file.token, file.expires_at) THEN 0
                                ELSE file.expires_at]]
  /\ UNCHANGED <<now, newest, late, file, bounds>>

\* _headers: get_token, then the request itself.
Headers(client_, force) ==
  [client_ EXCEPT
     !.at = IF force \/ Expired(client_.token, client_.expires_at) THEN "login" ELSE "ask",
     !.since = now, !.forced = force, !.own = FALSE, !.denied = FALSE]

Call(c) ==
  /\ client[c].at = "idle"
  /\ calls < MaxCalls
  /\ calls' = calls + 1
  /\ client' = [client EXCEPT
       ![c] = Headers([@ EXCEPT !.attempt = 1], FALSE)]
  /\ UNCHANGED <<now, newest, late, file, given>>

\* Toss answers a login.
Grant(c) ==
  /\ client[c].at = "login"
  /\ client[c].granted = None
  /\ newest.no < MaxLogins
  /\ newest' = [no |-> newest.no + 1, at |-> now]
  /\ client' = [client EXCEPT ![c].granted = newest']
  /\ UNCHANGED <<now, late, file, bounds>>

\* The token arrives; its life, as told or by default, is counted from then.
\* _save_cache empties the file, or cannot and goes on without it.
Receive(c) == \E life \in {ExpiresIn, DefaultLife} :
  LET new == [client[c] EXCEPT !.token = client[c].granted, !.granted = None,
                               !.own = client[c].forced,
                               !.expires_at = now + life]
  IN
  /\ client[c].at = "login"
  /\ client[c].granted # None
  /\ \/ /\ file' = Nothing
        /\ client' = [client EXCEPT ![c] = [new EXCEPT !.at = "save"]]
     \/ /\ UNCHANGED file
        /\ client' = [client EXCEPT ![c] = [new EXCEPT !.at = "ask", !.since = now]]
  /\ UNCHANGED <<now, newest, late, bounds>>

\* The text is written, from the start of what is in the file by now, or not.
Save(c) ==
  /\ client[c].at = "save"
  /\ file' \in {Nothing, [token |-> client[c].token, expires_at |-> client[c].expires_at]}
  /\ client' = [client EXCEPT ![c].at = "ask", ![c].since = now]
  /\ UNCHANGED <<now, newest, late, bounds>>

\* The call ends; the client keeps its token.
Finish(c) ==
  client' = [client EXCEPT ![c] = [Closed EXCEPT !.at = "idle", !.token = client[c].token,
                                                 !.expires_at = client[c].expires_at]]

Answer(c) ==
  /\ client[c].at = "ask"
  /\ Accepted(client[c].token)
  /\ Finish(c)
  /\ UNCHANGED <<now, newest, late, file, bounds>>

MutantUnauthorized(c) ==              \* mutant: asks again with the same token
  /\ client[c].at = "ask"
  /\ ~Accepted(client[c].token)
  /\ IF client[c].forced
     THEN client' = [client EXCEPT ![c].at = "idle", ![c].denied = TRUE]
     ELSE client' = [client EXCEPT ![c].forced = TRUE]
  /\ UNCHANGED <<now, newest, late, file, bounds>>

\* A 401: log in whatever the clock says and ask again; a second one is an
\* error like any other.
Unauthorized(c) ==
  /\ client[c].at = "ask"
  /\ ~Accepted(client[c].token)
  /\ IF client[c].forced
     THEN client' = [client EXCEPT ![c].at = "idle", ![c].denied = TRUE]
     ELSE client' = [client EXCEPT ![c] = Headers(@, TRUE)]
  /\ UNCHANGED <<now, newest, late, file, bounds>>

\* A refused or unreadable answer raises an exception that is not retried.
Refuse(c) ==
  /\ client[c].at \in {"login", "ask"}
  /\ Finish(c)
  /\ UNCHANGED <<now, newest, late, file, bounds>>

\* A login whose client does not wait for it any more may still reach Toss.
Abandon(c) ==
  \/ UNCHANGED <<late, given>>
  \/ /\ client[c].at = "login" /\ client[c].granted = None
     /\ given < MaxLate
     /\ late' = late + 1
     /\ given' = given + 1

MutantTransportError(c) ==            \* mutant: one attempt too many
  /\ client[c].at \in {"login", "ask"}
  /\ Abandon(c)
  /\ IF client[c].attempt <= MaxAttempts
     THEN client' = [client EXCEPT ![c].at = "wait", ![c].attempt = @ + 1,
                                   ![c].granted = None, ![c].since = 0,
                                   ![c].forced = FALSE, ![c].own = FALSE]
     ELSE Finish(c)
  /\ UNCHANGED <<now, newest, file, calls>>

\* A request that is throttled (429; not so a login, which is refused then), or
\* either of them failing on the way or not answered in time.
TransportError(c) ==
  /\ client[c].at \in {"login", "ask"}
  /\ Abandon(c)
  /\ IF client[c].attempt < MaxAttempts
     THEN client' = [client EXCEPT ![c].at = "wait", ![c].attempt = @ + 1,
                                   ![c].granted = None, ![c].since = 0,
                                   ![c].forced = FALSE, ![c].own = FALSE]
     ELSE Finish(c)
  /\ UNCHANGED <<now, newest, file, calls>>

MutantRetry(c) ==                     \* mutant: every attempt logs in
  /\ client[c].at = "wait"
  /\ client' = [client EXCEPT ![c] = Headers(@, TRUE)]
  /\ UNCHANGED <<now, newest, late, file, bounds>>

Retry(c) ==
  /\ client[c].at = "wait"
  /\ client' = [client EXCEPT ![c] = Headers(@, FALSE)]
  /\ UNCHANGED <<now, newest, late, file, bounds>>

GrantLate ==
  /\ late > 0
  /\ newest.no < MaxLogins
  /\ late' = late - 1
  /\ newest' = [no |-> newest.no + 1, at |-> now]
  /\ UNCHANGED <<now, file, client, bounds>>

\* The client is closed after its last call, or its process dies.
Close(c) ==
  /\ client[c] # Closed
  /\ Abandon(c)
  /\ client' = [client EXCEPT ![c] = Closed]
  /\ UNCHANGED <<now, newest, file, calls>>

Step(c) ==
  \/ Grant(c)
  \/ Receive(c)
  \/ Save(c)
  \/ Answer(c)
  \/ Unauthorized(c)
  \/ Refuse(c)
  \/ TransportError(c)
  \/ Retry(c)

Next ==
  \/ Tick
  \/ GrantLate
  \/ \E c \in Client : Open(c) \/ Call(c) \/ Step(c) \/ Close(c)

Spec == Init /\ [][Next]_vars

-----------------------------------------------------------------------------
(* Properties.                                                             *)

Time == 0..(LastTime + ExpiresIn)
Token == [no : 0..MaxLogins, at : 0..LastTime]

ClientState ==
  [at : {"closed", "idle", "login", "save", "ask", "wait"},
   attempt : 0..MaxAttempts, forced : BOOLEAN, own : BOOLEAN,
   since : 0..LastTime, granted : Token, token : Token, expires_at : Time,
   denied : BOOLEAN]

\* Type invariant of the clients, the cached token and Toss.
TypeOK ==
  /\ now \in 0..LastTime
  /\ newest \in Token
  /\ given \in 0..MaxLate /\ late \in 0..given
  /\ file \in [token : Token, expires_at : Time]
  /\ client \in [Client -> ClientState]
  /\ calls \in 0..MaxCalls

\* auth.py:5, "refreshes proactively before expiry": while a request is on its
\* way its token has not run out, though the client counts a token's life from
\* its arrival, may have it from a file another process wrote, and the request
\* takes its time too.
NeverRunsOut ==
  \A c \in Client : client[c].at = "ask" => now < client[c].token.at + ExpiresIn

\* How far what a client believes of a token may be from what Toss knows: a
\* token arrives at most MaxDelay after it was issued, and a request is sent at
\* least MaxDelay before its token runs out.
ClientLifetimes(cl, t) ==
  /\ cl.at # "login" => cl.granted = None
  /\ cl.token # None => cl.expires_at <= cl.token.at + MaxDelay + ExpiresIn
  /\ cl.at \in {"login", "ask"} => cl.since <= t /\ t <= cl.since + MaxDelay
  /\ cl.at = "login" /\ cl.granted # None => cl.since <= cl.granted.at
  /\ cl.at = "save" => cl.token # None /\ t <= cl.token.at + MaxDelay
  /\ cl.at = "ask" => cl.since < cl.token.at + ExpiresIn - MaxDelay

Lifetimes ==
  /\ file.token # None => file.expires_at <= file.token.at + MaxDelay + ExpiresIn
  /\ \A c \in Client : ClientLifetimes(client[c], now)

\* The inductive invariant behind NeverRunsOut.
IInv == TypeOK /\ Lifetimes

\* A client logs in only when it must: it has no token, or the one it has is
\* about to run out, or Toss does not take it any more.
LogsInOnlyIfNeeded ==
  \A c \in Client :
    client[c].at = "login" /\ client[c].granted = None =>
      Expired(client[c].token, client[c].expires_at) \/ ~Accepted(client[c].token)

\* A call ends in a 401 only after a login of its own and only because another
\* login, of another client or one given up before, came between that login and
\* the request: clients can throw each other out, and nothing else does it.
DeniedOnlyByAnother ==
  \A c \in Client :
    client[c].denied => client[c].own /\ client[c].token.no < newest.no

\* What is left of a call at most: attempts, and within an attempt the login,
\* its answer, the file and the request, once more if it has not had its 401.
WorkLeft(client_) ==
  LET phase == CASE client_.at = "login" -> IF client_.granted = None THEN 3 ELSE 2
                 [] client_.at = "save" -> 1
                 [] OTHER -> 0
  IN 9 * (MaxAttempts - client_.attempt) +
       (CASE client_.at = "wait" -> 8
          [] client_.forced -> phase
          [] OTHER -> 4 + phase)

\* A call ends, whatever Toss answers, however often it throttles and whatever
\* other clients do to the token: every step of it leaves less to do, so it is
\* over after at most nine steps an attempt.
StepsLeadToTheEnd ==
  [][\A c \in Client :
       client[c].at \in {"login", "save", "ask", "wait"} /\ client'[c] # client[c] =>
         \/ client'[c].at \in {"idle", "closed"}
         \/ 0 <= WorkLeft(client'[c]) /\ WorkLeft(client'[c]) < WorkLeft(client[c])]_vars
=============================================================================
