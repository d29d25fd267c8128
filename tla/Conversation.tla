---------------------------- MODULE Conversation ----------------------------
(***************************************************************************)
(* The advisor's conversations: Advisor.answer with its rounds of tool use *)
(* and the ConversationStore that carries a history from one question of a *)
(* user to the next (agent/advisor.py), as runner.execute_kind calls them  *)
(* from the worker threads the server's semaphore lets in.                 *)
(*                                                                         *)
(* A message is what the API distinguishes: a question of the user, an     *)
(* assistant's text, its tool calls, the results of the calls, a text cut   *)
(* off (stop_reason "max_tokens") in the middle of a tool call, and an     *)
(* answer without any text.  It carries the number of its question.        *)
(***************************************************************************)
EXTENDS Integers, Sequences, FiniteSets, SequencesExt

CONSTANTS
  User,          \* channel:user keys
  Slot,          \* worker threads the semaphore lets in
  MAX_STEPS,     \* tool-use rounds of one answer
  max_turns,     \* ConversationStore.max_turns
  ttl,           \* ConversationStore.ttl_sec, in clock steps
  Tools,         \* FALSE: Claude answers without calling tools
  MaxAsked,      \* bound on the questions asked
  LastTime       \* bound on the clock

ASSUME ConversationAssumption ==
  /\ MAX_STEPS \in Nat \ {0}
  /\ max_turns \in Nat \ {0}
  /\ ttl \in Nat
  /\ Tools \in BOOLEAN
  /\ MaxAsked \in Nat
  /\ LastTime \in Nat

VARIABLES
  time,
  asked,         \* number of questions asked so far
  owner,         \* history: who asked each question
  store,         \* _store: stamp and history of each key
  slot           \* what each worker is doing

vars == <<time, asked, owner, store, slot>>

Message == [kind : {"question", "text", "calls", "results", "cut", "empty"},
            turn : 1..MaxAsked]
Say(kind, turn) == [kind |-> kind, turn |-> turn]

\* A key without an entry and one with an empty history are read alike.
NoEntry == [stamp |-> 0, history |-> <<>>]

Idle == [state |-> "idle"]

-----------------------------------------------------------------------------
(* The store.                                                              *)

Expired(u) == time - store[u].stamp > ttl

Get(u) == IF Expired(u) THEN <<>> ELSE store[u].history

MutantTrim(history) ==              \* mutant: off by one
  SubSeq(history, IF Len(history) > max_turns THEN Len(history) - max_turns
                  ELSE 1, Len(history))

\* history[-max_turns:]
Trim(history) ==
  SubSeq(history, IF Len(history) > max_turns THEN Len(history) - max_turns + 1
                  ELSE 1, Len(history))

\* What the Messages API takes: the user speaks first, every tool call is
\* followed by its results and results follow nothing else, and no message is
\* without content.
Acceptable(messages) ==
  /\ messages[1].kind = "question"
  /\ \A i \in 1..Len(messages) :
       /\ messages[i].kind = "calls"
            => i < Len(messages) /\ messages[i + 1].kind = "results"
       /\ messages[i].kind = "results" => messages[i - 1].kind = "calls"
       /\ messages[i].kind \notin {"cut", "empty"}

-----------------------------------------------------------------------------
Init ==
  /\ time = 0
  /\ asked = 0
  /\ owner = <<>>
  /\ store = [u \in User |-> NoEntry]
  /\ slot = [w \in Slot |-> Idle]

Tick ==
  /\ time < LastTime
  /\ time' = time + 1
  /\ UNCHANGED <<asked, owner, store, slot>>

\* A worker takes a question: the history is read (and dropped when it is too
\* old) and the question is put behind it.
Ask(w, u) ==
  /\ slot[w] = Idle
  /\ asked < MaxAsked
  /\ asked' = asked + 1
  /\ owner' = Append(owner, u)
  /\ store' = IF Expired(u) THEN [store EXCEPT ![u] = NoEntry] ELSE store
  /\ slot' = [slot EXCEPT ![w] =
       [state |-> "asking", user |-> u, rounds |-> 0,
        messages |-> Append(Get(u), Say("question", asked'))]]
  /\ UNCHANGED time

Turn(w) == Last(slot[w].messages).turn

\* Claude accepts the messages and may end its answer.
Ends(w, kind) ==
  /\ slot[w].state = "asking"
  /\ Acceptable(slot[w].messages)
  /\ slot' = [slot EXCEPT ![w].messages = Append(@, Say(kind, Turn(w))),
                          ![w].state = "answered"]
  /\ UNCHANGED <<time, asked, owner, store>>

EndsTurn(w) == Ends(w, "text")
CutOff(w) == Tools /\ Ends(w, "cut")

\* Claude ends its turn without a text: _text_of has words of its own for it,
\* and the message goes into the history as it came.
EndsEmpty(w) == Ends(w, "empty")

MutantToolRound(w) ==               \* mutant: the results are not appended
  /\ Tools
  /\ slot[w].state = "asking"
  /\ Acceptable(slot[w].messages)
  /\ slot' = [slot EXCEPT
       ![w].messages = @ \o <<Say("calls", Turn(w))>>,
       ![w].rounds = @ + 1,
       ![w].state = IF slot[w].rounds + 1 = MAX_STEPS THEN "answered" ELSE "asking"]
  /\ UNCHANGED <<time, asked, owner, store>>

\* One round of tool use; run_tool never raises.  After the last round the
\* fixed closing text is returned with the history as it is.
ToolRound(w) ==
  /\ Tools
  /\ slot[w].state = "asking"
  /\ Acceptable(slot[w].messages)
  /\ slot' = [slot EXCEPT
       ![w].messages = @ \o <<Say("calls", Turn(w)), Say("results", Turn(w))>>,
       ![w].rounds = @ + 1,
       ![w].state = IF slot[w].rounds + 1 = MAX_STEPS THEN "answered" ELSE "asking"]
  /\ UNCHANGED <<time, asked, owner, store>>

MutantFails(w) ==                   \* mutant: a refused request is asked again
  /\ slot[w].state = "asking"
  /\ Acceptable(slot[w].messages)
  /\ slot' = [slot EXCEPT ![w] = Idle]
  /\ UNCHANGED <<time, asked, owner, store>>

\* The request is refused, or fails after its retries: answer raises, the user
\* gets an error message and nothing is stored.
Fails(w) ==
  /\ slot[w].state = "asking"
  /\ slot' = [slot EXCEPT ![w] = Idle]
  /\ UNCHANGED <<time, asked, owner, store>>

MutantStore(w) ==                   \* mutant: the stored history is extended
  LET u == slot[w].user IN
  /\ slot[w].state = "answered"
  /\ store' = [store EXCEPT ![u] =
       [stamp |-> time, history |-> Trim(store[u].history \o slot[w].messages)]]
  /\ slot' = [slot EXCEPT ![w] = Idle]
  /\ UNCHANGED <<time, asked, owner>>

MutantKey(w) ==                     \* mutant: the key forgets the user
  LET u == CHOOSE v \in User : TRUE IN
  /\ slot[w].state = "answered"
  /\ store' = [store EXCEPT ![u] =
       [stamp |-> time, history |-> Trim(slot[w].messages)]]
  /\ slot' = [slot EXCEPT ![w] = Idle]
  /\ UNCHANGED <<time, asked, owner>>

\* store.set(key, history), after which the answer goes to Slack.
Store(w) ==
  LET u == slot[w].user IN
  /\ slot[w].state = "answered"
  /\ store' = [store EXCEPT ![u] =
       [stamp |-> time, history |-> Trim(slot[w].messages)]]
  /\ slot' = [slot EXCEPT ![w] = Idle]
  /\ UNCHANGED <<time, asked, owner>>

Work(w) ==
  \/ EndsTurn(w)
  \/ CutOff(w)
  \/ EndsEmpty(w)
  \/ ToolRound(w)
  \/ Fails(w)
  \/ Store(w)

Next ==
  \/ Tick
  \/ \E w \in Slot, u \in User : Ask(w, u)
  \/ \E w \in Slot : Work(w)

Spec == Init /\ [][Next]_vars

\* A worker gets on with the question it took: the API calls time out.
Fairness == \A w \in Slot : WF_vars(Work(w))
FairSpec == Spec /\ Fairness

-----------------------------------------------------------------------------
(* Properties.                                                             *)

Histories == {store[u].history : u \in User}
               \cup {slot[w].messages : w \in {v \in Slot : slot[v] # Idle}}

\* Type invariant; a stored history never exceeds the cap.
TypeOK ==
  /\ time \in 0..LastTime
  /\ asked \in 0..MaxAsked
  /\ owner \in Seq(User) /\ Len(owner) = asked
  /\ \A u \in User :
       /\ store[u].stamp \in 0..time
       /\ store[u].history \in Seq(Message)
       /\ Len(store[u].history) <= max_turns
  /\ \A w \in Slot :
       \/ slot[w] = Idle
       \/ /\ slot[w].state \in {"asking", "answered"}
          /\ slot[w].user \in User
          /\ slot[w].rounds \in 0..MAX_STEPS
          /\ slot[w].messages \in Seq(Message)

\* "Keyed by (channel, user) for Slack so concurrent users don't cross
\* streams": nothing another user said is ever in a history, whatever the
\* workers interleave.
NoCrossTalk ==
  /\ \A u \in User : \A i \in DOMAIN store[u].history :
       owner[store[u].history[i].turn] = u
  /\ \A w \in Slot : slot[w] # Idle =>
       \A i \in DOMAIN slot[w].messages :
         owner[slot[w].messages[i].turn] = slot[w].user

\* A history is one thread of talk, also when two questions of a user are
\* worked on at once: its questions are in the order they were asked and each
\* is there once, with its own answer behind it.
OneThread ==
  \A h \in Histories : \A i, j \in DOMAIN h :
    i < j => /\ h[i].turn <= h[j].turn
             /\ h[j].kind = "question" => h[i].turn < h[j].turn

\* Claude is only asked with a history it refuses when the store cut the
\* history in the middle of an exchange, or an answer in it was cut off or
\* empty: the rounds of tool use always leave a well-formed history.
RefusedOnlyIfDamaged ==
  \A w \in Slot : slot[w] # Idle /\ slot[w].state = "asking" =>
    LET h == slot[w].messages IN
    \/ Acceptable(h)
    \/ h[1].kind # "question"
    \/ \E i \in DOMAIN h : h[i].kind \in {"cut", "empty"}

\* Every question taken by a worker comes to an end: MAX_STEPS bounds the
\* rounds however often Claude asks for tools, and a refused request is not
\* repeated for ever.
EveryQuestionEnds ==
  \A w \in Slot : (slot[w] # Idle) ~> (slot[w] = Idle)
=============================================================================
