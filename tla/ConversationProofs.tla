-------------------------- MODULE ConversationProofs --------------------------
(***************************************************************************)
(* What a conversation's history is, for any number of users, workers,     *)
(* tool rounds and remembered turns: one user's own thread of talk, in the *)
(* order it was asked, which Claude refuses only when it was damaged.      *)
(***************************************************************************)
EXTENDS Conversation, TLAPS

\* Tool calls and their results stand side by side; only the first message,
\* which the trim may have left without what came before it, has no partner.
Paired(h) ==
  \A i \in 1..Len(h) :
    /\ h[i].kind = "calls" => i < Len(h) /\ h[i + 1].kind = "results"
    /\ h[i].kind = "results" /\ i > 1 => h[i - 1].kind = "calls"

InOrder(h) ==
  \A i, j \in 1..Len(h) :
    i < j => /\ h[i].turn <= h[j].turn
             /\ h[j].kind = "question" => h[i].turn < h[j].turn

\* One thread of talk of the user u, when who asked what is `own`.
Thread(h, u, own) ==
  /\ h \in Seq(Message)
  /\ \A i \in 1..Len(h) : h[i].turn \in 1..Len(own) /\ own[h[i].turn] = u
  /\ InOrder(h)
  /\ Paired(h)

Busy == [state : {"asking", "answered"}, user : User, rounds : 0..MAX_STEPS,
         messages : Seq(Message)]

Kept(u) ==
  /\ store[u].stamp <= time
  /\ Len(store[u].history) <= max_turns
  /\ Thread(store[u].history, u, owner)

Held(w) ==
  slot[w] # Idle =>
    /\ Len(slot[w].messages) >= 1
    /\ Thread(slot[w].messages, slot[w].user, owner)
    /\ slot[w].state = "asking" => slot[w].rounds < MAX_STEPS

Shape ==
  /\ time \in 0..LastTime
  /\ asked \in 0..MaxAsked
  /\ owner \in Seq(User) /\ Len(owner) = asked
  /\ store \in [User -> [stamp : 0..LastTime, history : Seq(Message)]]
  /\ slot \in [Slot -> {Idle} \cup Busy]

\* The inductive invariant: every history, kept or held, is one thread.
IInv ==
  /\ Shape
  /\ \A u \in User : Kept(u)
  /\ \A w \in Slot : Held(w)

-----------------------------------------------------------------------------
(* What the operations on a history keep.                                  *)

LEMMA Constants ==
  /\ MAX_STEPS \in Nat /\ MAX_STEPS >= 1
  /\ max_turns \in Nat /\ max_turns >= 1
  /\ ttl \in Nat /\ MaxAsked \in Nat /\ LastTime \in Nat
BY ConversationAssumption DEF ConversationAssumption

LEMMA EmptyThread ==
  ASSUME NEW u, NEW own
  PROVE  Thread(<<>>, u, own)
BY DEF Thread, InOrder, Paired

\* A later question changes nothing about a thread.
LEMMA ThreadStays ==
  ASSUME NEW h, NEW u \in User, NEW v \in User, NEW own \in Seq(User),
         Thread(h, u, own)
  PROVE  Thread(h, u, Append(own, v))
<1>1. \A k \in 1..Len(own) : k \in 1..Len(Append(own, v)) /\ Append(own, v)[k] = own[k]
  OBVIOUS
<1> QED
  BY <1>1 DEF Thread

\* history[-max_turns:] is a shorter thread.
LEMMA TrimKeeps ==
  ASSUME NEW h, NEW u, NEW own, Thread(h, u, own), Len(h) >= 1
  PROVE  Thread(Trim(h), u, own) /\ Len(Trim(h)) <= max_turns
<1> DEFINE first == IF Len(h) > max_turns THEN Len(h) - max_turns + 1 ELSE 1
           t == SubSeq(h, first, Len(h))
<1> USE Constants
<1>1. h \in Seq(Message) /\ Len(h) \in Nat /\ first \in 1..Len(h)
      /\ first >= Len(h) - max_turns + 1
  BY DEF Thread
<1> HIDE DEF first
<1>2. /\ t \in Seq(Message) /\ Len(t) = Len(h) - first + 1
      /\ \A i \in 1..Len(t) : t[i] = h[first + i - 1]
  BY <1>1
<1>3. Trim(h) = t
  BY DEF Trim, first
<1> HIDE DEF t
<1>4. \A i \in 1..Len(t) : first + i - 1 \in 1..Len(h)
  BY <1>1, <1>2
<1>5. \A i \in 1..Len(t) : t[i].turn \in 1..Len(own) /\ own[t[i].turn] = u
  BY <1>2, <1>4 DEF Thread
<1>6. InOrder(t)
  <2> SUFFICES ASSUME NEW i \in 1..Len(t), NEW j \in 1..Len(t), i < j
               PROVE  /\ t[i].turn <= t[j].turn
                      /\ t[j].kind = "question" => t[i].turn < t[j].turn
    BY DEF InOrder
  <2>1. /\ first + i - 1 \in 1..Len(h) /\ first + j - 1 \in 1..Len(h)
        /\ first + i - 1 < first + j - 1
        /\ t[i] = h[first + i - 1] /\ t[j] = h[first + j - 1]
    BY <1>1, <1>2, <1>4
  <2> QED
    BY <2>1 DEF Thread, InOrder
<1>7. Paired(t)
  <2> SUFFICES ASSUME NEW i \in 1..Len(t)
               PROVE  /\ t[i].kind = "calls" => i < Len(t) /\ t[i + 1].kind = "results"
                      /\ t[i].kind = "results" /\ i > 1 => t[i - 1].kind = "calls"
    BY DEF Paired
  <2> DEFINE k == first + i - 1
  <2>1. k \in 1..Len(h) /\ t[i] = h[k]
    BY <1>2, <1>4
  <2>2. /\ h[k].kind = "calls" => k < Len(h) /\ h[k + 1].kind = "results"
        /\ h[k].kind = "results" /\ k > 1 => h[k - 1].kind = "calls"
    BY <2>1 DEF Thread, Paired
  <2>3. i < Len(t) => t[i + 1] = h[k + 1]
    BY <1>1, <1>2
  <2>4. i > 1 => t[i - 1] = h[k - 1] /\ k > 1
    BY <1>1, <1>2
  <2>5. k < Len(h) <=> i < Len(t)
    BY <1>1, <1>2
  <2> QED
    BY <2>1, <2>2, <2>3, <2>4, <2>5
<1>8. Len(t) <= max_turns
  BY <1>1, <1>2
<1> QED
  BY <1>2, <1>3, <1>5, <1>6, <1>7, <1>8 DEF Thread

\* Messages put behind a paired history only have themselves to show.
LEMMA PairedBehind ==
  ASSUME NEW h \in Seq(Message), NEW g \in Seq(Message), Paired(h),
         Len(g) >= Len(h), \A i \in 1..Len(h) : g[i] = h[i],
         \A i \in (Len(h) + 1)..Len(g) :
           /\ g[i].kind = "calls" => i < Len(g) /\ g[i + 1].kind = "results"
           /\ g[i].kind = "results" /\ i > 1 => g[i - 1].kind = "calls"
  PROVE  Paired(g)
<1> SUFFICES ASSUME NEW i \in 1..Len(h)
             PROVE  /\ g[i].kind = "calls" => i < Len(g) /\ g[i + 1].kind = "results"
                    /\ g[i].kind = "results" /\ i > 1 => g[i - 1].kind = "calls"
  BY DEF Paired
<1>1. /\ h[i].kind = "calls" => i < Len(h) /\ h[i + 1].kind = "results"
      /\ h[i].kind = "results" /\ i > 1 => h[i - 1].kind = "calls"
  BY DEF Paired
<1>2. /\ g[i] = h[i]
      /\ i < Len(h) => g[i + 1] = h[i + 1]
      /\ i > 1 => g[i - 1] = h[i - 1]
  OBVIOUS
<1> QED
  BY <1>1, <1>2

\* A question nobody has asked yet goes behind any thread of its user.
LEMMA QuestionKeeps ==
  ASSUME NEW h, NEW u \in User, NEW own \in Seq(User), Thread(h, u, own),
         Len(own) < MaxAsked
  PROVE  LET g == Append(h, Say("question", Len(own) + 1))
         IN  Len(g) >= 1 /\ g \in Seq(Message) /\ Thread(g, u, Append(own, u))
<1> DEFINE q == Say("question", Len(own) + 1)
           g == Append(h, q)
           more == Append(own, u)
<1>1. q \in Message /\ q.kind = "question" /\ q.turn = Len(own) + 1
  BY Constants DEF Say, Message
<1>2. /\ h \in Seq(Message) /\ Len(h) \in Nat
      /\ \A i \in 1..Len(h) : h[i].turn \in 1..Len(own) /\ own[h[i].turn] = u
  BY DEF Thread
<1>3. /\ Len(own) \in Nat /\ Len(more) = Len(own) + 1 /\ more[Len(own) + 1] = u
      /\ \A k \in 1..Len(own) : more[k] = own[k]
  OBVIOUS
<1> HIDE DEF q, more
<1>4. /\ g \in Seq(Message) /\ Len(g) = Len(h) + 1 /\ g[Len(h) + 1] = q
      /\ \A i \in 1..Len(h) : g[i] = h[i]
  BY <1>1, <1>2
<1> HIDE DEF g
<1>5. \A i \in 1..Len(g) : g[i].turn \in 1..Len(more) /\ more[g[i].turn] = u
  BY <1>1, <1>2, <1>3, <1>4
<1>6. InOrder(g)
  <2> SUFFICES ASSUME NEW i \in 1..Len(g), NEW j \in 1..Len(g), i < j
               PROVE  /\ g[i].turn <= g[j].turn
                      /\ g[j].kind = "question" => g[i].turn < g[j].turn
    BY DEF InOrder
  <2>1. CASE j = Len(h) + 1
    BY <1>1, <1>2, <1>3, <1>4, <2>1
  <2>2. CASE j # Len(h) + 1
    BY <1>2, <1>4, <2>2 DEF Thread, InOrder
  <2> QED
    BY <2>1, <2>2
<1>7. Paired(g)
  <2>1. \A i \in (Len(h) + 1)..Len(g) :
          /\ g[i].kind = "calls" => i < Len(g) /\ g[i + 1].kind = "results"
          /\ g[i].kind = "results" /\ i > 1 => g[i - 1].kind = "calls"
    BY <1>1, <1>2, <1>4
  <2>2. h \in Seq(Message) /\ Paired(h) /\ Len(g) >= Len(h)
    BY <1>2, <1>4 DEF Thread
  <2> QED
    BY <1>4, <2>1, <2>2, PairedBehind
<1>8. Thread(g, u, more)
  BY <1>4, <1>5, <1>6, <1>7 DEF Thread
<1> QED
  BY <1>2, <1>4, <1>8 DEF g, q, more

\* Claude's answer belongs to the last question of the thread.
LEMMA AnswerKeeps ==
  ASSUME NEW h, NEW u, NEW own, Thread(h, u, own), Len(h) >= 1,
         NEW kind \in {"text", "cut", "empty"}
  PROVE  LET g == Append(h, Say(kind, Last(h).turn))
         IN  Len(g) >= 1 /\ g \in Seq(Message) /\ Thread(g, u, own)
<1> DEFINE m == Say(kind, Last(h).turn)
           g == Append(h, m)
<1>1. /\ h \in Seq(Message) /\ Len(h) \in Nat
      /\ \A i \in 1..Len(h) :
           h[i] \in Message /\ h[i].turn \in 1..Len(own) /\ own[h[i].turn] = u
  BY DEF Thread
<1>2. /\ m \in Message /\ m.turn = h[Len(h)].turn
      /\ m.kind \notin {"question", "calls", "results"}
  BY <1>1 DEF Say, Message, Last
<1> HIDE DEF m
<1>3. /\ g \in Seq(Message) /\ Len(g) = Len(h) + 1 /\ g[Len(h) + 1] = m
      /\ \A i \in 1..Len(h) : g[i] = h[i]
  BY <1>1, <1>2
<1> HIDE DEF g
<1>4. \A i \in 1..Len(g) : g[i].turn \in 1..Len(own) /\ own[g[i].turn] = u
  BY <1>1, <1>2, <1>3
<1>5. InOrder(g)
  <2> SUFFICES ASSUME NEW i \in 1..Len(g), NEW j \in 1..Len(g), i < j
               PROVE  /\ g[i].turn <= g[j].turn
                      /\ g[j].kind = "question" => g[i].turn < g[j].turn
    BY DEF InOrder
  <2>1. CASE j = Len(h) + 1
    <3>1. i \in 1..Len(h) /\ g[i] = h[i] /\ g[j] = m
      BY <1>1, <1>3, <2>1
    <3>2. h[i].turn <= h[Len(h)].turn
      <4>1. CASE i = Len(h)
        BY <1>1, <3>1, <4>1 DEF Message
      <4>2. CASE i < Len(h)
        BY <1>1, <3>1, <4>2 DEF Thread, InOrder
      <4> QED
        BY <1>1, <3>1, <4>1, <4>2
    <3> QED
      BY <1>2, <3>1, <3>2
  <2>2. CASE j # Len(h) + 1
    BY <1>1, <1>3, <2>2 DEF Thread, InOrder
  <2> QED
    BY <2>1, <2>2
<1>6. Paired(g)
  <2>1. \A i \in (Len(h) + 1)..Len(g) :
          /\ g[i].kind = "calls" => i < Len(g) /\ g[i + 1].kind = "results"
          /\ g[i].kind = "results" /\ i > 1 => g[i - 1].kind = "calls"
    BY <1>1, <1>2, <1>3
  <2>2. h \in Seq(Message) /\ Paired(h) /\ Len(g) >= Len(h)
    BY <1>1, <1>3 DEF Thread
  <2> QED
    BY <1>3, <2>1, <2>2, PairedBehind
<1>7. Thread(g, u, own)
  BY <1>3, <1>4, <1>5, <1>6 DEF Thread
<1> QED
  BY <1>1, <1>3, <1>7 DEF g, m

\* A round of tool use appends both the calls and their results.
LEMMA RoundKeeps ==
  ASSUME NEW h, NEW u, NEW own, Thread(h, u, own), Len(h) >= 1
  PROVE  LET g == h \o <<Say("calls", Last(h).turn), Say("results", Last(h).turn)>>
         IN  Len(g) >= 1 /\ g \in Seq(Message) /\ Thread(g, u, own)
<1> DEFINE c == Say("calls", Last(h).turn)
           r == Say("results", Last(h).turn)
           g == h \o <<c, r>>
<1>1. /\ h \in Seq(Message) /\ Len(h) \in Nat
      /\ \A i \in 1..Len(h) :
           h[i] \in Message /\ h[i].turn \in 1..Len(own) /\ own[h[i].turn] = u
  BY DEF Thread
<1>2. /\ c \in Message /\ c.turn = h[Len(h)].turn /\ c.kind = "calls"
      /\ r \in Message /\ r.turn = h[Len(h)].turn /\ r.kind = "results"
  BY <1>1 DEF Say, Message, Last
<1> HIDE DEF c, r
<1>3. /\ g \in Seq(Message) /\ Len(g) = Len(h) + 2
      /\ g[Len(h) + 1] = c /\ g[Len(h) + 2] = r
      /\ \A i \in 1..Len(h) : g[i] = h[i]
  BY <1>1, <1>2
<1> HIDE DEF g
<1>4. \A i \in 1..Len(g) : i \in 1..Len(h) \/ i = Len(h) + 1 \/ i = Len(h) + 2
  BY <1>1, <1>3
<1>5. \A i \in 1..Len(g) : g[i].turn \in 1..Len(own) /\ own[g[i].turn] = u
  BY <1>1, <1>2, <1>3, <1>4
<1>6. InOrder(g)
  <2> SUFFICES ASSUME NEW i \in 1..Len(g), NEW j \in 1..Len(g), i < j
               PROVE  /\ g[i].turn <= g[j].turn
                      /\ g[j].kind = "question" => g[i].turn < g[j].turn
    BY DEF InOrder
  <2>1. \A k \in 1..Len(h) : h[k].turn <= h[Len(h)].turn
    <3> SUFFICES ASSUME NEW k \in 1..Len(h) PROVE h[k].turn <= h[Len(h)].turn
      OBVIOUS
    <3>1. CASE k = Len(h)
      BY <1>1, <3>1 DEF Message
    <3>2. CASE k < Len(h)
      BY <1>1, <3>2 DEF Thread, InOrder
    <3> QED
      BY <1>1, <3>1, <3>2
  <2>2. CASE j \in 1..Len(h)
    <3>1. i \in 1..Len(h) /\ g[i] = h[i] /\ g[j] = h[j]
      BY <1>1, <1>3, <2>2
    <3> QED
      BY <2>2, <3>1 DEF Thread, InOrder
  <2>3. CASE j \notin 1..Len(h)
    <3>1. g[j].turn = h[Len(h)].turn /\ g[j].kind # "question"
      BY <1>2, <1>3, <1>4, <2>3
    <3>2. g[i].turn <= h[Len(h)].turn
      <4>1. h[Len(h)].turn \in Nat
        BY <1>1 DEF Message
      <4> QED
        BY <1>2, <1>3, <1>4, <2>1, <4>1
    <3> QED
      BY <3>1, <3>2
  <2> QED
    BY <2>2, <2>3
<1>7. Paired(g)
  <2>1. \A i \in (Len(h) + 1)..Len(g) :
          /\ g[i].kind = "calls" => i < Len(g) /\ g[i + 1].kind = "results"
          /\ g[i].kind = "results" /\ i > 1 => g[i - 1].kind = "calls"
    BY <1>1, <1>2, <1>3, <1>4
  <2>2. h \in Seq(Message) /\ Paired(h) /\ Len(g) >= Len(h)
    BY <1>1, <1>3 DEF Thread
  <2> QED
    BY <1>3, <2>1, <2>2, PairedBehind
<1>8. Thread(g, u, own)
  BY <1>3, <1>5, <1>6, <1>7 DEF Thread
<1> QED
  BY <1>1, <1>3, <1>8 DEF g, c, r
-----------------------------------------------------------------------------
(* The steps.                                                              *)

LEMMA InitIInv == Init => IInv
<1> SUFFICES ASSUME Init PROVE IInv
  OBVIOUS
<1>1. NoEntry \in [stamp : 0..LastTime, history : Seq(Message)]
  BY Constants DEF NoEntry
<1>2. Shape
  BY <1>1, Constants DEF Init, Shape
<1>3. \A u \in User : Kept(u)
  BY EmptyThread, Constants DEF Init, Kept, NoEntry
<1>4. \A w \in Slot : Held(w)
  BY DEF Init, Held
<1> QED
  BY <1>2, <1>3, <1>4 DEF IInv

\* A worker with a question is busy with it.
LEMMA OfSlot ==
  ASSUME IInv, NEW w \in Slot, slot[w].state \in {"asking", "answered"}
  PROVE  /\ slot[w] \in Busy /\ slot[w] # Idle
         /\ Len(slot[w].messages) >= 1
         /\ Thread(slot[w].messages, slot[w].user, owner)
         /\ slot[w].state = "asking" => slot[w].rounds < MAX_STEPS
<1>1. slot[w] \in {Idle} \cup Busy /\ Held(w)
  BY DEF IInv, Shape
<1>2. slot[w] # Idle
  BY DEF Idle
<1> QED
  BY <1>1, <1>2 DEF Held

\* What a step that changes only what one worker is doing has to show.
LEMMA OneSlot ==
  ASSUME IInv, NEW w \in Slot, NEW new \in {Idle} \cup Busy,
         slot' = [slot EXCEPT ![w] = new],
         new # Idle => /\ Len(new.messages) >= 1
                       /\ Thread(new.messages, new.user, owner)
                       /\ new.state = "asking" => new.rounds < MAX_STEPS,
         UNCHANGED <<time, asked, owner>>,
         store' \in [User -> [stamp : 0..LastTime, history : Seq(Message)]],
         \A u \in User : Kept(u)'
  PROVE  IInv'
<1>1. Shape'
  BY DEF IInv, Shape
<1>2. ASSUME NEW x \in Slot PROVE Held(x)'
  <2>1. CASE x = w
    BY <2>1 DEF IInv, Shape, Held
  <2>2. CASE x # w
    BY <2>2 DEF IInv, Shape, Held
  <2> QED
    BY <2>1, <2>2
<1> QED
  BY <1>1, <1>2 DEF IInv

LEMMA OnlySlot ==
  ASSUME IInv, NEW w \in Slot, NEW new \in {Idle} \cup Busy,
         slot' = [slot EXCEPT ![w] = new],
         new # Idle => /\ Len(new.messages) >= 1
                       /\ Thread(new.messages, new.user, owner)
                       /\ new.state = "asking" => new.rounds < MAX_STEPS,
         UNCHANGED <<time, asked, owner, store>>
  PROVE  IInv'
<1>1. \A u \in User : Kept(u)'
  BY DEF IInv, Kept
<1> QED
  BY <1>1, OneSlot DEF IInv, Shape

LEMMA TickKeeps == IInv /\ Tick => IInv'
<1> SUFFICES ASSUME IInv, Tick PROVE IInv'
  OBVIOUS
<1>1. Shape'
  <2>1. time' \in 0..LastTime /\ 0..time \subseteq 0..time'
    BY Constants DEF IInv, Shape, Tick
  <2>2. [turn : 1..asked, at : 0..time] \subseteq [turn : 1..asked, at : 0..time']
    BY <2>1
  <2> QED
    BY <2>1, <2>2 DEF IInv, Shape, Tick
<1>2. ASSUME NEW u \in User PROVE Kept(u)'
  <2>1. store[u].stamp \in 0..LastTime /\ Kept(u) /\ time' = time + 1 /\ time \in 0..LastTime
    BY DEF IInv, Shape, Tick
  <2> QED
    BY <2>1 DEF Kept, Tick
<1>3. \A w \in Slot : Held(w)'
  BY DEF IInv, Held, Tick
<1> QED
  BY <1>1, <1>2, <1>3 DEF IInv

LEMMA AskKeeps ==
  ASSUME NEW w \in Slot, NEW u \in User PROVE IInv /\ Ask(w, u) => IInv'
<1> SUFFICES ASSUME IInv, Ask(w, u) PROVE IInv'
  OBVIOUS
<1> DEFINE g == Append(Get(u), Say("question", asked + 1))
           new == [state |-> "asking", user |-> u, rounds |-> 0, messages |-> g]
<1>1. /\ asked \in 0..MaxAsked /\ asked < MaxAsked /\ asked' = asked + 1
      /\ owner \in Seq(User) /\ Len(owner) = asked /\ owner' = Append(owner, u)
      /\ UNCHANGED time /\ slot' = [slot EXCEPT ![w] = new]
      /\ store' = IF Expired(u) THEN [store EXCEPT ![u] = NoEntry] ELSE store
  BY DEF Ask, IInv, Shape
<1>2. Thread(Get(u), u, owner)
  BY EmptyThread DEF Get, IInv, Kept
<1>3. Len(g) >= 1 /\ g \in Seq(Message) /\ Thread(g, u, owner')
  BY <1>1, <1>2, QuestionKeeps, Constants
<1> HIDE DEF g
<1>4. new \in Busy
  BY <1>3, Constants DEF Busy
<1>5. \A v \in User : \A h : Thread(h, v, owner) => Thread(h, v, owner')
  BY <1>1, ThreadStays
<1>6. Shape'
  <2>1. NoEntry \in [stamp : 0..LastTime, history : Seq(Message)]
    BY Constants DEF NoEntry
  <2>2. store' \in [User -> [stamp : 0..LastTime, history : Seq(Message)]]
    BY <1>1, <2>1 DEF IInv, Shape
  <2>3. slot' \in [Slot -> {Idle} \cup Busy]
    BY <1>1, <1>4 DEF IInv, Shape
  <2>4. asked' \in 0..MaxAsked /\ owner' \in Seq(User) /\ Len(owner') = asked'
    BY <1>1, Constants
  <2> QED
    BY <1>1, <2>2, <2>3, <2>4 DEF IInv, Shape
<1>7. ASSUME NEW v \in User PROVE Kept(v)'
  <2>1. store'[v] = store[v] \/ store'[v] = NoEntry
    BY <1>1 DEF IInv, Shape
  <2>2. CASE store'[v] = store[v]
    BY <1>1, <1>5, <2>2 DEF IInv, Kept
  <2>3. CASE store'[v] = NoEntry
    <3>1. NoEntry.stamp <= time' /\ Len(NoEntry.history) <= max_turns
          /\ NoEntry.history = <<>>
      BY <1>1, Constants DEF NoEntry, IInv, Shape
    <3> QED
      BY <2>3, <3>1, EmptyThread DEF Kept
  <2> QED
    BY <2>1, <2>2, <2>3
<1>8. ASSUME NEW x \in Slot PROVE Held(x)'
  <2>1. CASE x = w
    <3>1. slot'[x] = new
      BY <1>1, <2>1 DEF IInv, Shape
    <3> QED
      BY <1>3, <3>1, Constants DEF Held
  <2>2. CASE x # w
    <3>1. slot'[x] = slot[x] /\ (slot[x] # Idle => slot[x].user \in User)
      BY <1>1, <2>2 DEF IInv, Shape, Busy
    <3> QED
      BY <1>5, <3>1 DEF IInv, Held
  <2> QED
    BY <2>1, <2>2
<1> QED
  BY <1>6, <1>7, <1>8 DEF IInv

LEMMA EndsKeeps ==
  ASSUME NEW w \in Slot, NEW kind \in {"text", "cut", "empty"}
  PROVE  IInv /\ Ends(w, kind) => IInv'
<1> SUFFICES ASSUME IInv, Ends(w, kind) PROVE IInv'
  OBVIOUS
<1> DEFINE h == slot[w].messages
           g == Append(h, Say(kind, Last(h).turn))
           new == [slot[w] EXCEPT !.messages = g, !.state = "answered"]
<1>1. slot' = [slot EXCEPT ![w] = new]
  BY DEF Ends, Turn
<1>2. /\ slot[w] \in Busy /\ Len(h) >= 1 /\ Thread(h, slot[w].user, owner)
  BY OfSlot DEF Ends
<1>3. Len(g) >= 1 /\ g \in Seq(Message) /\ Thread(g, slot[w].user, owner)
  BY <1>2, AnswerKeeps
<1> HIDE DEF g
<1>4. new \in Busy /\ new.messages = g /\ new.user = slot[w].user /\ new.state = "answered"
  BY <1>2, <1>3 DEF Busy
<1> HIDE DEF new
<1> QED
  BY <1>1, <1>3, <1>4, OnlySlot DEF Ends

LEMMA ToolRoundKeeps ==
  ASSUME NEW w \in Slot PROVE IInv /\ ToolRound(w) => IInv'
<1> SUFFICES ASSUME IInv, ToolRound(w) PROVE IInv'
  OBVIOUS
<1> DEFINE h == slot[w].messages
           g == h \o <<Say("calls", Last(h).turn), Say("results", Last(h).turn)>>
           next == IF slot[w].rounds + 1 = MAX_STEPS THEN "answered" ELSE "asking"
           new == [slot[w] EXCEPT !.messages = g, !.rounds = @ + 1, !.state = next]
<1>1. slot' = [slot EXCEPT ![w] = new]
  BY DEF ToolRound, Turn
<1>2. /\ slot[w] \in Busy /\ Len(h) >= 1 /\ Thread(h, slot[w].user, owner)
      /\ slot[w].rounds < MAX_STEPS
  BY OfSlot DEF ToolRound
<1>3. Len(g) >= 1 /\ g \in Seq(Message) /\ Thread(g, slot[w].user, owner)
  BY <1>2, RoundKeeps
<1> HIDE DEF g
<1>4. slot[w].rounds \in Nat /\ slot[w].rounds + 1 \in 0..MAX_STEPS
  BY <1>2, Constants DEF Busy
<1>5. next \in {"asking", "answered"} /\ (next = "asking" => slot[w].rounds + 1 < MAX_STEPS)
  BY <1>4, Constants
<1> HIDE DEF next
<1>6. /\ new \in Busy /\ new.messages = g /\ new.user = slot[w].user
      /\ new.state = next /\ new.rounds = slot[w].rounds + 1
  BY <1>2, <1>3, <1>4, <1>5 DEF Busy
<1> HIDE DEF new
<1> QED
  BY <1>1, <1>3, <1>5, <1>6, OnlySlot DEF ToolRound

LEMMA StoreKeeps ==
  ASSUME NEW w \in Slot PROVE IInv /\ Store(w) => IInv'
<1> SUFFICES ASSUME IInv, Store(w) PROVE IInv'
  OBVIOUS
<1> DEFINE h == slot[w].messages
           u == slot[w].user
           entry == [stamp |-> time, history |-> Trim(h)]
<1>1. /\ slot[w] \in Busy /\ Len(h) >= 1 /\ Thread(h, u, owner)
  BY OfSlot DEF Store
<1>2. u \in User /\ h \in Seq(Message)
  BY <1>1 DEF Busy
<1>3. Thread(Trim(h), u, owner) /\ Len(Trim(h)) <= max_turns
  BY <1>1, TrimKeeps
<1>4. /\ store' = [store EXCEPT ![u] = entry] /\ slot' = [slot EXCEPT ![w] = Idle]
      /\ UNCHANGED <<time, asked, owner>> /\ time \in 0..LastTime
  BY DEF Store, IInv, Shape
<1>5. entry \in [stamp : 0..LastTime, history : Seq(Message)]
  BY <1>3, <1>4 DEF Thread
<1>6. store' \in [User -> [stamp : 0..LastTime, history : Seq(Message)]]
  BY <1>2, <1>4, <1>5 DEF IInv, Shape
<1>7. ASSUME NEW v \in User PROVE Kept(v)'
  <2>1. CASE v = u
    <3>1. store'[v] = entry /\ entry.stamp = time /\ entry.history = Trim(h)
      BY <1>4, <2>1 DEF IInv, Shape
    <3> QED
      BY <1>3, <1>4, <2>1, <3>1 DEF Kept
  <2>2. CASE v # u
    <3>1. store'[v] = store[v]
      BY <1>4, <2>2 DEF IInv, Shape
    <3> QED
      BY <1>4, <3>1 DEF IInv, Kept
  <2> QED
    BY <2>1, <2>2
<1> HIDE DEF entry
<1> QED
  BY <1>4, <1>6, <1>7, OneSlot

LEMMA NextKeeps == IInv /\ [Next]_vars => IInv'
<1> SUFFICES ASSUME IInv, [Next]_vars PROVE IInv'
  OBVIOUS
<1>1. CASE UNCHANGED vars
  BY <1>1 DEF vars, IInv, Shape, Kept, Held
<1>2. ASSUME NEW w \in Slot, Fails(w) PROVE IInv'
  BY <1>2, OnlySlot DEF Fails
<1>3. ASSUME NEW w \in Slot, Work(w) PROVE IInv'
  BY <1>2, <1>3, EndsKeeps, ToolRoundKeeps, StoreKeeps DEF Work, EndsTurn, CutOff, EndsEmpty
<1> QED
  BY <1>1, <1>3, TickKeeps, AskKeeps DEF Next

-----------------------------------------------------------------------------
\* Every history, kept in the store or held by a worker, is one thread of its
\* user's talk.
THEOREM Invariant == Spec => []IInv
BY InitIInv, NextKeeps, PTL DEF Spec

LEMMA ShapeIsTyped == IInv => TypeOK
<1> SUFFICES ASSUME IInv PROVE TypeOK
  OBVIOUS
<1>1. ASSUME NEW u \in User
      PROVE  /\ store[u].stamp \in 0..time
             /\ store[u].history \in Seq(Message)
             /\ Len(store[u].history) <= max_turns
  BY DEF IInv, Shape, Kept
<1>2. ASSUME NEW w \in Slot, slot[w] # Idle
      PROVE  /\ slot[w].state \in {"asking", "answered"}
             /\ slot[w].user \in User
             /\ slot[w].rounds \in 0..MAX_STEPS
             /\ slot[w].messages \in Seq(Message)
  BY <1>2 DEF IInv, Shape, Busy
<1> QED
  BY <1>1, <1>2 DEF IInv, Shape, TypeOK

\* The variables keep their types, and a stored history its cap.
THEOREM TypeCorrect == Spec => []TypeOK
BY Invariant, ShapeIsTyped, PTL

LEMMA ThreadsDoNotCross == IInv => NoCrossTalk
<1> SUFFICES ASSUME IInv PROVE NoCrossTalk
  OBVIOUS
<1>1. ASSUME NEW u \in User, NEW i \in DOMAIN store[u].history
      PROVE  owner[store[u].history[i].turn] = u
  <2>1. Thread(store[u].history, u, owner)
    BY DEF IInv, Kept
  <2> QED
    BY <2>1 DEF Thread
<1>2. ASSUME NEW w \in Slot, slot[w] # Idle, NEW i \in DOMAIN slot[w].messages
      PROVE  owner[slot[w].messages[i].turn] = slot[w].user
  <2>1. Thread(slot[w].messages, slot[w].user, owner)
    BY <1>2 DEF IInv, Held
  <2> QED
    BY <2>1 DEF Thread
<1> QED
  BY <1>1, <1>2 DEF NoCrossTalk

\* Nothing another user said is ever in a history (ConversationStore's key,
\* Advisor.answer), whatever the workers interleave.
THEOREM StreamsApart == Spec => []NoCrossTalk
BY Invariant, ThreadsDoNotCross, PTL

LEMMA ThreadsAreOrdered == IInv => OneThread
<1> SUFFICES ASSUME IInv, NEW h \in Histories, NEW i \in DOMAIN h, NEW j \in DOMAIN h,
                    i < j
             PROVE  /\ h[i].turn <= h[j].turn
                    /\ h[j].kind = "question" => h[i].turn < h[j].turn
  BY DEF OneThread
<1>1. \E u : Thread(h, u, owner)
  BY DEF Histories, IInv, Kept, Held
<1> QED
  BY <1>1 DEF Thread, InOrder

\* The questions of a history are in the order they were asked, each once and
\* with its own answer behind it.
THEOREM ThreadInOrder == Spec => []OneThread
BY Invariant, ThreadsAreOrdered, PTL

LEMMA PairedIsAcceptable == IInv => RefusedOnlyIfDamaged
<1> SUFFICES ASSUME IInv, NEW w \in Slot, slot[w] # Idle,
                    slot[w].messages[1].kind = "question",
                    \A i \in DOMAIN slot[w].messages :
                      slot[w].messages[i].kind \notin {"cut", "empty"}
             PROVE  Acceptable(slot[w].messages)
  BY DEF RefusedOnlyIfDamaged
<1> DEFINE h == slot[w].messages
<1>1. h \in Seq(Message) /\ Paired(h)
  BY DEF IInv, Held, Thread
<1> HIDE DEF h
<1>2. \A i \in 1..Len(h) : h[i].kind = "results" => i > 1
  BY <1>1 DEF h
<1> QED
  BY <1>1, <1>2 DEF Acceptable, Paired, h

\* Rounds of tool use leave a history Claude takes: one it refuses lost its
\* beginning to the trim, or holds an answer that was cut off or empty.
THEOREM RefusedOnlyWhenDamaged == Spec => []RefusedOnlyIfDamaged
BY Invariant, PairedIsAcceptable, PTL
=============================================================================
