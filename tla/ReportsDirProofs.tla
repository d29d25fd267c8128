--------------------------- MODULE ReportsDirProofs ---------------------------
(***************************************************************************)
(* The report directory, for all processes, items, jobs and bounds: its    *)
(* types, what its ledgers may hold, what a backfill may leave out and     *)
(* what a write that is cut short may spoil.                               *)
(***************************************************************************)
EXTENDS ReportsDir, SeqFacts, FiniteSetTheorems

Parts == {"head", "rest", "newline"}
TokenOf(keys) == [part : Parts, key : keys]

-----------------------------------------------------------------------------
(* The text of a ledger.                                                   *)

\* Every token is followed by the one that a line has behind it; a text ends in
\* a newline or is empty.
Chain(text) ==
  \A i \in 1..Len(text) :
    /\ text[i].part = "head" =>
         i < Len(text) /\ text[i + 1] = [part |-> "rest", key |-> text[i].key]
    /\ text[i].part = "rest" => i < Len(text) /\ text[i + 1].part = "newline"
    /\ text[i].part = "newline" => (i < Len(text) => text[i + 1].part = "head")

\* A text of whole lines.
Batch(text) == Chain(text) /\ (text # <<>> => text[1].part = "head")

Heads(text) == {text[i].key : i \in {j \in 1..Len(text) : text[j].part = "head"}}
Read(text) == {text[i].key : i \in Lines(text)}

\* A line is a batch.
LEMMA TextIsBatch ==
  ASSUME NEW K, NEW key \in K
  PROVE  Text(key) \in Seq(TokenOf(K)) /\ Batch(Text(key)) /\ Text(key)[1].part = "head"
                                       /\ Text(key)[1].key = key /\ Len(Text(key)) = 3
<1> DEFINE t == Text(key)
<1>1. /\ Len(t) = 3
      /\ t[1] = [part |-> "head", key |-> key]
      /\ t[2] = [part |-> "rest", key |-> key]
      /\ t[3] = [part |-> "newline", key |-> key]
      /\ t \in Seq(TokenOf(K))
  BY DEF Text, TokenOf, Parts
<1> HIDE DEF t
<1>2. \A i \in 1..Len(t) : i = 1 \/ i = 2 \/ i = 3
  BY <1>1
<1>3. Chain(t)
  BY <1>1, <1>2 DEF Chain
<1>4. Batch(t)
  BY <1>1, <1>3 DEF Batch
<1> QED
  BY <1>1, <1>4 DEF t

\* A chain that is not empty ends in a newline.
LEMMA ChainEnds ==
  ASSUME NEW K, NEW a \in Seq(TokenOf(K)), Chain(a), a # <<>>
  PROVE  a[Len(a)].part = "newline"
<1>1. Len(a) \in 1..Len(a)
  OBVIOUS
<1>2. a[Len(a)] \in TokenOf(K)
  BY <1>1
<1>3. a[Len(a)].part \in Parts
  BY <1>2 DEF TokenOf
<1>4. a[Len(a)].part # "head" /\ a[Len(a)].part # "rest"
  <2> DEFINE n == Len(a)
  <2>1. n \in 1..Len(a) /\ ~(n < Len(a))
    BY <1>1
  <2> HIDE DEF n
  <2>2. a[n].part # "head"
    BY <2>1 DEF Chain
  <2>3. a[n].part # "rest"
    BY <2>1 DEF Chain
  <2> QED
    BY <2>2, <2>3 DEF n
<1> QED
  BY <1>3, <1>4 DEF Parts

\* In a chain a head that is not the first token comes behind a newline.
LEMMA ChainBefore ==
  ASSUME NEW K, NEW a \in Seq(TokenOf(K)), Chain(a),
         NEW i \in 1..Len(a), i > 1, a[i].part = "head"
  PROVE  a[i - 1].part = "newline"
<1> DEFINE j == i - 1
<1>1. j \in 1..Len(a) /\ j + 1 = i
  OBVIOUS
<1> HIDE DEF j
<1>2. a[j].part \in Parts
  <2>1. a[j] \in TokenOf(K)
    BY <1>1
  <2> QED
    BY <2>1 DEF TokenOf
<1>3. a[j + 1].part = "head"
  BY <1>1
<1>4. a[j].part = "head" => a[j + 1].part = "rest"
  <2>1. a[j].part = "head" => a[j + 1] = [part |-> "rest", key |-> a[j].key]
    BY <1>1 DEF Chain
  <2> QED
    BY <2>1
<1>5. a[j].part = "rest" => a[j + 1].part = "newline"
  BY <1>1 DEF Chain
<1>6. a[j].part = "newline"
  BY <1>2, <1>3, <1>4, <1>5 DEF Parts
<1> QED
  BY <1>6 DEF j

\* Batches one behind the other are a batch.
LEMMA BatchConcat ==
  ASSUME NEW K, NEW a \in Seq(TokenOf(K)), NEW b \in Seq(TokenOf(K)), Batch(a), Batch(b)
  PROVE  a \o b \in Seq(TokenOf(K)) /\ Batch(a \o b)
<1> DEFINE c == a \o b
<1>1. c \in Seq(TokenOf(K)) /\ Len(c) = Len(a) + Len(b)
      /\ (\A i \in 1..Len(a) : c[i] = a[i])
      /\ \A i \in 1..Len(b) : c[Len(a) + i] = b[i]
  OBVIOUS
<1>2. Len(a) \in Nat /\ Len(b) \in Nat
  OBVIOUS
<1>3. a # <<>> => Len(a) >= 1 /\ a[Len(a)].part = "newline"
  BY ChainEnds DEF Batch
<1> HIDE DEF c
<1>4. ASSUME NEW i \in 1..Len(c)
      PROVE  /\ c[i].part = "head" =>
                  i < Len(c) /\ c[i + 1] = [part |-> "rest", key |-> c[i].key]
             /\ c[i].part = "rest" => i < Len(c) /\ c[i + 1].part = "newline"
             /\ c[i].part = "newline" => (i < Len(c) => c[i + 1].part = "head")
  <2>1. CASE i < Len(a)
    <3>1. i \in 1..Len(a) /\ i + 1 \in 1..Len(a) /\ c[i] = a[i] /\ c[i + 1] = a[i + 1]
      BY <1>1, <1>2, <2>1
    <3> QED
      BY <3>1, <1>1, <1>2 DEF Batch, Chain
  <2>2. CASE i = Len(a)
    <3>1. c[i] = a[i] /\ a # <<>> /\ c[i].part = "newline"
      BY <1>1, <1>2, <1>3, <2>2
    <3>2. i < Len(c) => b # <<>> /\ c[i + 1] = b[1]
      BY <1>1, <1>2, <2>2
    <3> QED
      BY <3>1, <3>2 DEF Batch
  <2>3. CASE i > Len(a)
    <3> DEFINE j == i - Len(a)
    <3>1. j \in 1..Len(b) /\ i = Len(a) + j
      BY <1>1, <1>2, <2>3
    <3> HIDE DEF j
    <3>2. c[i] = b[j] /\ (j < Len(b) => c[i + 1] = b[j + 1]) /\ (i < Len(c) <=> j < Len(b))
      <4>1. j < Len(b) => j + 1 \in 1..Len(b) /\ Len(a) + (j + 1) = i + 1
        BY <3>1, <1>2
      <4> QED
        BY <3>1, <4>1, <1>1, <1>2
    <3> QED
      BY <3>1, <3>2 DEF Batch, Chain
  <2> QED
    BY <2>1, <2>2, <2>3, <1>1, <1>2
<1>5. Chain(c)
  BY <1>4 DEF Chain
<1>6. c # <<>> => c[1].part = "head"
  <2>1. CASE a = <<>>
    BY <2>1 DEF Batch, c
  <2>2. CASE a # <<>>
    BY <2>2, <1>1, <1>3 DEF Batch
  <2> QED
    BY <2>1, <2>2
<1> QED
  BY <1>1, <1>5, <1>6 DEF Batch, c

\* What is left of a chain is one.
LEMMA ChainDrop ==
  ASSUME NEW K, NEW a \in Seq(TokenOf(K)), Chain(a), NEW n \in 1..Len(a)
  PROVE  /\ SubSeq(a, n + 1, Len(a)) \in Seq(TokenOf(K))
         /\ Chain(SubSeq(a, n + 1, Len(a)))
         /\ n < Len(a) => SubSeq(a, n + 1, Len(a)) # <<>>
<1> DEFINE c == SubSeq(a, n + 1, Len(a))
<1>1. c \in Seq(TokenOf(K)) /\ Len(c) = Len(a) - n /\ \A i \in 1..Len(c) : c[i] = a[n + i]
  OBVIOUS
<1> HIDE DEF c
<1>2. ASSUME NEW i \in 1..Len(c)
      PROVE  /\ c[i].part = "head" =>
                  i < Len(c) /\ c[i + 1] = [part |-> "rest", key |-> c[i].key]
             /\ c[i].part = "rest" => i < Len(c) /\ c[i + 1].part = "newline"
             /\ c[i].part = "newline" => (i < Len(c) => c[i + 1].part = "head")
  <2>1. n + i \in 1..Len(a) /\ c[i] = a[n + i] /\ (i < Len(c) <=> n + i < Len(a))
    BY <1>1
  <2>2. i < Len(c) => c[i + 1] = a[n + i + 1]
    <3>1. i < Len(c) => i + 1 \in 1..Len(c) /\ n + (i + 1) = n + i + 1
      BY <1>1
    <3> QED
      BY <3>1, <1>1
  <2> QED
    BY <2>1, <2>2 DEF Chain
<1>3. Chain(c)
  BY <1>2 DEF Chain
<1>4. n < Len(a) => Len(c) > 0
  BY <1>1
<1>5. n < Len(a) => c # <<>>
  BY <1>4
<1> QED
  BY <1>1, <1>3, <1>5 DEF c

\* Every line of a batch is read, and what is appended to a batch leaves it so.
LEMMA BatchLines ==
  ASSUME NEW K, NEW a \in Seq(TokenOf(K)), Batch(a), NEW i \in 1..Len(a), a[i].part = "head"
  PROVE  i \in Lines(a) /\ i + 2 <= Len(a)
<1>1. i < Len(a) /\ a[i + 1] = [part |-> "rest", key |-> a[i].key]
  BY DEF Batch, Chain
<1>2. i + 1 \in 1..Len(a) /\ a[i + 1].part = "rest"
  BY <1>1
<1>3. i + 1 < Len(a) /\ a[i + 2].part = "newline"
  <2>1. i + 1 < Len(a) /\ a[(i + 1) + 1].part = "newline"
    BY <1>2 DEF Batch, Chain
  <2> QED
    BY <2>1
<1>4. i > 1 => a[i - 1].part = "newline"
  BY ChainBefore DEF Batch
<1> QED
  BY <1>1, <1>2, <1>3, <1>4 DEF Lines

\* What a batch holds is what is read from it.
LEMMA BatchRead ==
  ASSUME NEW K, NEW a \in Seq(TokenOf(K)), Batch(a)
  PROVE  Read(a) = Heads(a)
<1>1. Lines(a) = {j \in 1..Len(a) : a[j].part = "head"}
  <2>1. Lines(a) \subseteq {j \in 1..Len(a) : a[j].part = "head"}
    BY DEF Lines
  <2>2. {j \in 1..Len(a) : a[j].part = "head"} \subseteq Lines(a)
    BY BatchLines
  <2> QED
    BY <2>1, <2>2
<1> QED
  BY <1>1 DEF Read, Heads

\* The records of two texts, one behind the other.
LEMMA HeadsConcat ==
  ASSUME NEW K, NEW a \in Seq(TokenOf(K)), NEW b \in Seq(TokenOf(K))
  PROVE  Heads(a) \cup Heads(b) \subseteq Heads(a \o b)
<1> DEFINE c == a \o b
<1>1. c \in Seq(TokenOf(K)) /\ Len(c) = Len(a) + Len(b)
      /\ (\A i \in 1..Len(a) : c[i] = a[i])
      /\ \A i \in 1..Len(b) : c[Len(a) + i] = b[i]
  OBVIOUS
<1>2. Len(a) \in Nat /\ Len(b) \in Nat
  OBVIOUS
<1> HIDE DEF c
<1>3. Heads(a) \subseteq Heads(c)
  <2> SUFFICES ASSUME NEW i \in 1..Len(a), a[i].part = "head" PROVE a[i].key \in Heads(c)
    BY DEF Heads
  <2>1. i \in 1..Len(c) /\ c[i] = a[i]
    BY <1>1, <1>2
  <2> QED
    BY <2>1 DEF Heads
<1>4. Heads(b) \subseteq Heads(c)
  <2> SUFFICES ASSUME NEW i \in 1..Len(b), b[i].part = "head" PROVE b[i].key \in Heads(c)
    BY DEF Heads
  <2>1. Len(a) + i \in 1..Len(c) /\ c[Len(a) + i] = b[i]
    BY <1>1, <1>2
  <2> QED
    BY <2>1 DEF Heads
<1> QED
  BY <1>3, <1>4 DEF c

\* A line that is read is of a record that the text has.
LEMMA ReadType ==
  ASSUME NEW K, NEW a \in Seq(TokenOf(K))
  PROVE  Read(a) \subseteq K
<1> SUFFICES ASSUME NEW i \in Lines(a) PROVE a[i].key \in K
  BY DEF Read
<1>1. i \in 1..Len(a)
  BY DEF Lines
<1>2. a[i] \in TokenOf(K)
  BY <1>1
<1> QED
  BY <1>2 DEF TokenOf

\* NewLines is a batch of lines of the records, and has those that are not known.
LEMMA NewLinesAre ==
  ASSUME NEW K, NEW records \in Seq(K), NEW known
  PROVE  LET new == NewLines(records, known)
         IN /\ new \in Seq(TokenOf(K))
            /\ Batch(new)
            /\ ToSet(records) \subseteq known \cup Heads(new)
<1> DEFINE C == {t \in Seq(TokenOf(K)) : Batch(t)}
           ss == [i \in DOMAIN records |->
                    IF records[i] \in known THEN <<>> ELSE Text(records[i])]
           none == <<>>
           new == FlattenSeq(ss)
<1>1. none \in C
  <2>1. none \in Seq(TokenOf(K)) /\ Len(none) = 0
    OBVIOUS
  <2>2. Batch(none)
    BY <2>1 DEF Batch, Chain
  <2> QED
    BY <2>1, <2>2
<1>2. \A a, b \in C : a \o b \in C
  BY BatchConcat
<1>3. DOMAIN records = 1..Len(records) /\ Len(records) \in Nat
  OBVIOUS
<1>4. \A i \in DOMAIN records : ss[i] \in C
  BY <1>1, TextIsBatch
<1>5. ss \in Seq(C) /\ Len(ss) = Len(records)
  <2> HIDE DEF C
  <2> QED
    BY <1>3, <1>4
<1>6. new \in C
  <2> HIDE DEF C, ss
  <2> QED
    BY <1>1, <1>2, <1>5, FlattenIn DEF none
<1>7. ss \in Seq(Seq(TokenOf(K)))
  <2>1. C \subseteq Seq(TokenOf(K))
    OBVIOUS
  <2> HIDE DEF C, ss
  <2> QED
    BY <1>5, <2>1
<1>8. ASSUME NEW i \in DOMAIN records, records[i] \notin known
      PROVE  records[i] \in Heads(new)
  <2>1. ss[i] = Text(records[i]) /\ i \in 1..Len(ss)
    BY <1>8, <1>3, <1>5
  <2>2. Len(ss[i]) = 3 /\ ss[i][1].part = "head" /\ ss[i][1].key = records[i]
    BY <2>1, TextIsBatch
  <2> HIDE DEF ss, new
  <2>3. PICK m \in 1..Len(new) : new[m] = ss[i][1]
    <3>1. 1 \in 1..Len(ss[i])
      BY <2>2
    <3> QED
      BY <1>7, <2>1, <3>1, FlattenHas DEF new
  <2> QED
    BY <2>2, <2>3 DEF Heads
<1>9. ToSet(records) \subseteq known \cup Heads(new)
  <2> HIDE DEF new
  <2> QED
    BY <1>8 DEF ToSet
<1>10. new = NewLines(records, known)
  BY DEF NewLines
<1> HIDE DEF new
<1> QED
  BY <1>6, <1>9, <1>10

-----------------------------------------------------------------------------
(* The damage of a write that is cut short.                                *)

\* What the token a text ends in may still cost: a head is lost already and
\* spoils the line written behind it; a rest may have its own line spoilt too.
Open(text) == text # <<>> /\ text[Len(text)].part # "newline"
OpenRest(text) == text # <<>> /\ text[Len(text)].part = "rest"
Reserve(text) == IF OpenRest(text) THEN 2 ELSE IF Open(text) THEN 1 ELSE 0

\* The positions that are lost in a text are finitely many.
LEMMA LostFinite ==
  ASSUME NEW K, NEW t \in Seq(TokenOf(K))
  PROVE  IsFiniteSet(Lost(t)) /\ Cardinality(Lost(t)) \in Nat
<1>1. Lost(t) \subseteq 1..Len(t)
  BY DEF Lost
<1>2. IsFiniteSet(1..Len(t))
  BY FS_Interval
<1>3. IsFiniteSet(Lost(t))
  BY <1>1, <1>2, FS_Subset
<1> QED
  BY <1>3, FS_CardinalityType

\* One more element.
LEMMA OneMore ==
  ASSUME NEW T, IsFiniteSet(T), NEW b \in BOOLEAN, NEW x,
         NEW S, S \subseteq T \cup (IF b THEN {x} ELSE {})
  PROVE  /\ IsFiniteSet(S) /\ Cardinality(S) \in Nat /\ Cardinality(T) \in Nat
         /\ Cardinality(S) <= Cardinality(T) + (IF b THEN 1 ELSE 0)
<1>1. Cardinality(T) \in Nat
  BY FS_CardinalityType
<1>2. CASE b
  <2>1. IsFiniteSet(T \cup {x}) /\ (Cardinality(T \cup {x}) = Cardinality(T)
                                   \/ Cardinality(T \cup {x}) = Cardinality(T) + 1)
    BY FS_AddElement
  <2>2. IsFiniteSet(S) /\ Cardinality(S) <= Cardinality(T \cup {x})
    BY <1>2, <2>1, FS_Subset
  <2>3. Cardinality(S) \in Nat
    BY <2>2, FS_CardinalityType
  <2> QED
    BY <1>1, <1>2, <2>1, <2>2, <2>3
<1>3. CASE ~b
  <2>1. IsFiniteSet(S) /\ Cardinality(S) <= Cardinality(T)
    BY <1>3, FS_Subset
  <2>2. Cardinality(S) \in Nat
    BY <2>1, FS_CardinalityType
  <2> QED
    BY <1>1, <1>3, <2>1, <2>2
<1> QED
  BY <1>2, <1>3

\* What a flush may lose: the line that the text ended in, the first record of
\* what is written, and the one that is cut.
LEMMA FlushLoses ==
  ASSUME NEW K, NEW t \in Seq(TokenOf(K)), NEW b \in Seq(TokenOf(K)), Chain(b),
         NEW n \in 1..Len(b), NEW i \in Lost(t \o SubSeq(b, 1, n))
  PROVE  \/ i \in Lost(t)
         \/ OpenRest(t) /\ i = Len(t) - 1
         \/ Open(t) /\ i = Len(t) + 1
         \/ b[n].part = "head" /\ i = Len(t) + n
<1> DEFINE u == t \o SubSeq(b, 1, n)
           m == Len(t)
<1>1. m \in Nat /\ n \in Nat /\ n >= 1 /\ Len(b) \in Nat /\ n <= Len(b)
  OBVIOUS
<1>2. Len(u) = m + n /\ (\A j \in 1..m : u[j] = t[j]) /\ \A j \in 1..n : u[m + j] = b[j]
  OBVIOUS
<1>3. DOMAIN u = 1..Len(u) /\ DOMAIN t = 1..m
  OBVIOUS
<1>4. i \in 1..(m + n) /\ u[i].part = "head" /\ i \notin Lines(u)
  BY <1>2, <1>3 DEF Lost
<1> HIDE DEF u
<1>5. CASE i <= m
  <2>1. i \in 1..m /\ t[i].part = "head"
    BY <1>2, <1>4, <1>5
  <2> SUFFICES ASSUME i \in Lines(t) PROVE OpenRest(t) /\ i = m - 1
    BY <2>1, <1>3 DEF Lost
  <2>2. i \in 1..(m - 1) /\ t[i + 1] = [part |-> "rest", key |-> t[i].key]
        /\ (i > 1 => t[i - 1].part = "newline")
        /\ (i + 2 <= m => t[i + 2].part = "newline")
    BY DEF Lines
  <2>3. t[i + 1].part = "rest" /\ i + 1 \in 1..m
    BY <2>2, <1>1
  <2>4. u[i] = t[i] /\ u[i + 1] = t[i + 1] /\ (i > 1 => u[i - 1] = t[i - 1])
        /\ (i + 2 <= m => u[i + 2] = t[i + 2])
    <3>1. i \in 1..m /\ (i > 1 => i - 1 \in 1..m) /\ (i + 2 <= m => i + 2 \in 1..m)
      BY <2>2, <1>1
    <3> HIDE DEF m
    <3> QED
      BY <2>3, <3>1, <1>2
  <2>5. i + 2 > m
    <3> SUFFICES ASSUME i + 2 <= m PROVE FALSE
      BY <2>2, <1>1
    <3>1. i \in 1..(Len(u) - 1)
      BY <2>2, <1>1, <1>2
    <3>2. i \in Lines(u)
      BY <2>1, <2>2, <2>4, <3>1 DEF Lines
    <3> QED
      BY <3>2, <1>4
  <2>6. i = m - 1 /\ i + 1 = m /\ t # <<>>
    BY <2>2, <2>5, <1>1
  <2> QED
    BY <2>3, <2>6 DEF OpenRest
<1>6. CASE i > m
  <2> DEFINE j == i - m
  <2>1. j \in 1..n /\ i = m + j /\ j \in 1..Len(b)
    BY <1>1, <1>4, <1>6
  <2> HIDE DEF j
  <2>2. u[i] = b[j] /\ b[j].part = "head"
    BY <2>1, <1>2, <1>4
  <2>3. CASE j = n
    BY <2>1, <2>2, <2>3
  <2>4. CASE j < n
    <3>1. b[j + 1] = [part |-> "rest", key |-> b[j].key] /\ j + 1 \in 1..n
          /\ j + 1 \in 1..Len(b)
      BY <1>1, <2>1, <2>2, <2>4 DEF Chain
    <3>2. b[j + 1].part = "rest"
      BY <3>1
    <3>3. b[(j + 1) + 1].part = "newline"
      BY <3>1, <3>2 DEF Chain
    <3>4. u[i + 1] = b[j + 1]
      BY <2>1, <3>1, <1>1, <1>2
    <3>5. i + 2 <= Len(u) => u[i + 2].part = "newline"
      <4> SUFFICES ASSUME i + 2 <= Len(u) PROVE u[i + 2].part = "newline"
        OBVIOUS
      <4>1. j + 2 \in 1..n /\ i + 2 = m + (j + 2) /\ (j + 1) + 1 = j + 2
        BY <2>1, <1>1, <1>2
      <4>2. u[i + 2] = b[j + 2]
        BY <4>1, <1>2
      <4> QED
        BY <4>1, <4>2, <3>3
    <3>6. j > 1 => u[i - 1].part = "newline"
      <4> SUFFICES ASSUME j > 1 PROVE u[i - 1].part = "newline"
        OBVIOUS
      <4>1. j - 1 \in 1..n /\ i - 1 = m + (j - 1)
        BY <2>1, <1>1
      <4>2. u[i - 1] = b[j - 1]
        BY <4>1, <1>2
      <4> QED
        BY <2>1, <2>2, <4>2, ChainBefore
    <3>7. i \in 1..(Len(u) - 1)
      BY <2>1, <2>4, <1>1, <1>2, <1>4
    <3>8. i > 1 /\ u[i - 1].part # "newline"
      BY <2>2, <3>1, <3>4, <3>5, <3>7, <1>4 DEF Lines
    <3>9. j = 1 /\ i = m + 1 /\ m >= 1
      BY <2>1, <3>6, <3>8, <1>1
    <3>10. u[i - 1] = t[m] /\ t # <<>>
      BY <3>9, <1>1, <1>2
    <3> QED
      BY <3>8, <3>9, <3>10 DEF Open
  <2> QED
    BY <2>1, <2>3, <2>4
<1> QED
  BY <1>1, <1>4, <1>5, <1>6

\* A flush that ends with the buffer costs nothing that was not reserved, and
\* one that is cut short costs two records at most.
LEMMA FlushCosts ==
  ASSUME NEW K, NEW t \in Seq(TokenOf(K)), NEW b \in Seq(TokenOf(K)), Chain(b),
         NEW n \in 1..Len(b)
  PROVE  Cardinality(Lost(t \o SubSeq(b, 1, n))) + Reserve(t \o SubSeq(b, 1, n))
           <= Cardinality(Lost(t)) + Reserve(t) + (IF n < Len(b) THEN 2 ELSE 0)
<1> DEFINE u == t \o SubSeq(b, 1, n)
           m == Len(t)
           L0 == Lost(t)
           L1 == L0 \cup (IF OpenRest(t) THEN {m - 1} ELSE {})
           L2 == L1 \cup (IF Open(t) THEN {m + 1} ELSE {})
           head == b[n].part = "head"
           L3 == L2 \cup (IF head THEN {m + n} ELSE {})
<1>1. u \in Seq(TokenOf(K)) /\ Len(u) = m + n /\ u[m + n] = b[n] /\ m \in Nat /\ n >= 1
  OBVIOUS
<1>2. \A i \in Lost(u) : i \in L3
  BY FlushLoses
<1>3. OpenRest(t) \in BOOLEAN /\ Open(t) \in BOOLEAN /\ head \in BOOLEAN
  BY DEF OpenRest, Open
<1>4. IsFiniteSet(L0)
  BY LostFinite
<1> HIDE DEF u, m, L0, L1, L2, L3, head
<1>5. IsFiniteSet(L1) /\ Cardinality(L1) \in Nat /\ Cardinality(L0) \in Nat
      /\ Cardinality(L1) <= Cardinality(L0) + (IF OpenRest(t) THEN 1 ELSE 0)
  BY <1>3, <1>4, OneMore DEF L1
<1>6. IsFiniteSet(L2) /\ Cardinality(L2) \in Nat
      /\ Cardinality(L2) <= Cardinality(L1) + (IF Open(t) THEN 1 ELSE 0)
  BY <1>3, <1>5, OneMore DEF L2
<1>7. IsFiniteSet(L3) /\ Cardinality(L3) \in Nat
      /\ Cardinality(L3) <= Cardinality(L2) + (IF head THEN 1 ELSE 0)
  BY <1>3, <1>6, OneMore DEF L3
<1>8. Cardinality(Lost(u)) \in Nat /\ Cardinality(Lost(u)) <= Cardinality(L3)
  <2>1. Lost(u) \subseteq L3
    BY <1>2
  <2>2. IsFiniteSet(Lost(u)) /\ Cardinality(Lost(u)) <= Cardinality(L3)
    BY <1>7, <2>1, FS_Subset
  <2> QED
    BY <2>2, FS_CardinalityType
<1>9. Reserve(t) = (IF OpenRest(t) THEN 1 ELSE 0) + (IF Open(t) THEN 1 ELSE 0)
  BY DEF Reserve, OpenRest, Open
<1>10. Reserve(u) + (IF head THEN 1 ELSE 0) <= (IF n < Len(b) THEN 2 ELSE 0)
  <2>1. u # <<>> /\ u[Len(u)].part = b[n].part
    BY <1>1
  <2>2. b[n].part \in Parts
    <3>1. b[n] \in TokenOf(K)
      OBVIOUS
    <3> QED
      BY <3>1 DEF TokenOf
  <2>3. n < Len(b) \/ b[n].part = "newline"
    <3>1. b # <<>> /\ (n < Len(b) \/ n = Len(b))
      OBVIOUS
    <3> QED
      BY <3>1, ChainEnds
  <2>4. CASE b[n].part = "newline"
    BY <2>1, <2>4 DEF Reserve, OpenRest, Open, head
  <2>5. CASE b[n].part = "head"
    BY <2>1, <2>3, <2>5 DEF Reserve, OpenRest, Open, head
  <2>6. CASE b[n].part = "rest"
    BY <2>1, <2>3, <2>6 DEF Reserve, OpenRest, Open, head
  <2> QED
    BY <2>2, <2>4, <2>5, <2>6 DEF Parts
<1>11. Reserve(u) \in Nat
  BY DEF Reserve
<1>12. Cardinality(Lost(u)) + Reserve(u)
         <= Cardinality(L0) + Reserve(t) + (IF n < Len(b) THEN 2 ELSE 0)
  <2> DEFINE r == IF OpenRest(t) THEN 1 ELSE 0
             o == IF Open(t) THEN 1 ELSE 0
             h == IF head THEN 1 ELSE 0
             c == IF n < Len(b) THEN 2 ELSE 0
  <2>1. r \in Nat /\ o \in Nat /\ h \in Nat /\ c \in Nat
    OBVIOUS
  <2> HIDE DEF r, o, h, c
  <2>2. Cardinality(L1) <= Cardinality(L0) + r /\ Cardinality(L2) <= Cardinality(L1) + o
        /\ Cardinality(L3) <= Cardinality(L2) + h
    BY <1>5, <1>6, <1>7 DEF r, o, h
  <2>3. Reserve(t) = r + o /\ Reserve(u) + h <= c
    BY <1>9, <1>10 DEF r, o, h, c
  <2>4. Cardinality(Lost(u)) + Reserve(u) <= Cardinality(L0) + Reserve(t) + c
    <3> DEFINE ku == Cardinality(Lost(u))
               k0 == Cardinality(L0)
               k1 == Cardinality(L1)
               k2 == Cardinality(L2)
               k3 == Cardinality(L3)
               ru == Reserve(u)
    <3>1. ku \in Nat /\ k0 \in Nat /\ k1 \in Nat /\ k2 \in Nat /\ k3 \in Nat /\ ru \in Nat
      BY <1>5, <1>6, <1>7, <1>8, <1>11
    <3>2. ku <= k3 /\ k3 <= k2 + h /\ k2 <= k1 + o /\ k1 <= k0 + r /\ ru + h <= c
      BY <1>8, <2>2, <2>3
    <3> HIDE DEF ku, k0, k1, k2, k3, ru
    <3>3. ku + ru <= k0 + (r + o) + c
      BY <2>1, <3>1, <3>2
    <3> QED
      BY <2>3, <3>3 DEF ku, k0, ru
  <2> QED
    BY <2>4 DEF c
<1> QED
  BY <1>12 DEF u, L0

-----------------------------------------------------------------------------
(* The inductive invariant.                                                *)

OpType == [op : {"save", "append", "fill"}, kind : Kinds]
File == [state : {"absent", "broken", "whole"}, keys : Seq(Key)]
ProcType == [todo : Seq(OpType),
             step : {"start", "open", "collected", "writing", "score"},
             second : 0..LastTime, records : Seq(Key), buffer : Seq(Token)]

Types ==
  /\ time \in 1..LastTime
  /\ files \in [Kinds -> [1..LastTime -> File]]
  /\ ledger \in [Kinds -> Seq(Token)]
  /\ made \in [Kinds -> SUBSET Key]
  /\ alerts \in BOOLEAN
  /\ proc \in [Process -> ProcType]
  /\ reports \in 0..MaxReports /\ cuts \in 0..MaxCuts /\ crashes \in 0..MaxCrashes

\* What is appended is what was saved just before.
Paired(todo) ==
  \A i \in 1..(Len(todo) - 1) :
    todo[i + 1].op = "append" => todo[i].op = "save" /\ todo[i].kind = todo[i + 1].kind

\* Which steps the operation a process is at can be at.
Control(p, pr) ==
  /\ \E job \in JobsOf[p] \cup {<<>>} : IsSuffix(pr.todo, job)
  /\ Paired(pr.todo)
  /\ pr.todo = <<>> => pr = Idle
  /\ pr.todo # <<>> =>
       /\ pr.step = "open" => Head(pr.todo).op = "save" /\ pr.second \in 1..LastTime
       /\ pr.step \in {"collected", "score"} => Head(pr.todo).op = "fill"
       /\ pr.step = "writing" => Head(pr.todo).op # "save" /\ pr.buffer # <<>>
       /\ pr.step # "writing" => pr.buffer = <<>>
  /\ Chain(pr.buffer)

\* What a process holds was in a report of the kind it works on, once it has
\* taken it up.
Genuine(pr, m) ==
  pr.todo # <<>> =>
    /\ Head(pr.todo).op = "append" \/ pr.step # "start"
         => pr.records \in Seq(m[Head(pr.todo).kind])
    /\ pr.buffer \in Seq(TokenOf(m[Head(pr.todo).kind]))

\* While no write was cut short, buffers hold whole lines, and what a backfill
\* read is in the ledger or in its buffer.
Counted(pr, led) ==
  /\ Batch(pr.buffer)
  /\ pr.todo # <<>> /\ Head(pr.todo).op = "fill" /\ pr.step \in {"writing", "score"}
       => ToSet(pr.records) \subseteq Read(led[Head(pr.todo).kind]) \cup Heads(pr.buffer)

Known ==
  \A kind \in Kinds :
    /\ ledger[kind] \in Seq(TokenOf(made[kind]))
    /\ \A second \in 1..LastTime : files[kind][second].keys \in Seq(made[kind])

Cost(text) == Cardinality(Lost(text)) + Reserve(text)

IInv ==
  /\ Types
  /\ Known
  /\ \A p \in Process : Control(p, proc[p]) /\ Genuine(proc[p], made)
  /\ cuts = 0 => /\ \A kind \in Kinds : Batch(ledger[kind])
                 /\ \A p \in Process : Counted(proc[p], ledger)
  /\ Cost(ledger["pick"]) + Cost(ledger["advice"]) <= 2 * cuts

\* Tokens are those of the keys.
LEMMA TokenIs == Token = TokenOf(Key)
BY DEF Token, TokenOf, Parts

\* Sequences over a larger set.
LEMMA SeqMono ==
  ASSUME NEW A, NEW B, A \subseteq B
  PROVE  Seq(A) \subseteq Seq(B) /\ TokenOf(A) \subseteq TokenOf(B)
         /\ Seq(TokenOf(A)) \subseteq Seq(TokenOf(B))
<1>1. \A X, Y : X \subseteq Y => Seq(X) \subseteq Seq(Y)
  OBVIOUS
<1>2. TokenOf(A) \subseteq TokenOf(B)
  BY DEF TokenOf
<1> QED
  BY <1>1, <1>2

\* The jobs: what they are made of, and a save before each append.
LEMMA JobType ==
  ASSUME NEW job \in AllJobs
  PROVE  job \in Seq(OpType) /\ job # <<>> /\ Paired(job)
<1> USE DEF Op, OpType, Kinds, Paired
<1>1. CASE job = RunOnce
  BY <1>1 DEF RunOnce
<1>2. CASE job = Daily
  BY <1>2 DEF Daily
<1>3. CASE job = DailyNoAccount
  BY <1>3 DEF DailyNoAccount
<1>4. CASE job = Portfolio
  BY <1>4 DEF Portfolio
<1>5. CASE job = Track("pick")
  BY <1>5 DEF Track
<1>6. CASE job = Track("advice")
  BY <1>6 DEF Track
<1>7. CASE job = DailyPicks
  BY <1>7 DEF DailyPicks
<1>8. CASE job = DailyPicksNoAccount
  BY <1>8 DEF DailyPicksNoAccount
<1> QED
  BY <1>1, <1>2, <1>3, <1>4, <1>5, <1>6, <1>7, <1>8 DEF AllJobs, Dailies

\* The reports of a job are counted by a number.
LEMMA SavesType ==
  ASSUME NEW job \in Seq(OpType)
  PROVE  Saves(job) \in Nat
<1> DEFINE here == {i \in DOMAIN job : job[i].op = "save"}
<1>1. here \subseteq 1..Len(job) /\ Len(job) \in Nat
  OBVIOUS
<1>2. IsFiniteSet(1..Len(job))
  BY <1>1, FS_Interval
<1>3. IsFiniteSet(here)
  BY <1>1, <1>2, FS_Subset
<1> QED
  BY <1>3, FS_CardinalityType DEF Saves

\* The empty text is a batch.
LEMMA EmptyBatch == Batch(<<>>) /\ Chain(<<>>)
<1> DEFINE none == <<>>
<1>1. Len(none) = 0 /\ none = <<>>
  OBVIOUS
<1> HIDE DEF none
<1>2. Chain(none)
  BY <1>1 DEF Chain
<1> QED
  BY <1>1, <1>2 DEF Batch

\* A process with nothing to do.
LEMMA IdleIs ==
  ASSUME NEW p \in Process
  PROVE  /\ Idle \in ProcType /\ Control(p, Idle)
         /\ \A m : Genuine(Idle, m)
         /\ \A led : Counted(Idle, led)
<1>1. Idle.todo = <<>> /\ Idle.buffer = <<>> /\ Idle.step = "start"
  BY DEF Idle
<1>2. Idle \in ProcType
  BY ReportsDirAssumption DEF Idle, ProcType
<1>3. IsSuffix(<<>>, <<>>)
  <2>1. <<>> \in Seq(OpType)
    OBVIOUS
  <2> QED
    BY <2>1, SuffixEmpty
<1>4. Paired(<<>>)
  <2> DEFINE none == <<>>
  <2>1. Len(none) = 0
    OBVIOUS
  <2> HIDE DEF none
  <2>2. Paired(none)
    BY <2>1 DEF Paired
  <2> QED
    BY <2>2 DEF none
<1>5. Control(p, Idle)
  BY <1>1, <1>3, <1>4, EmptyBatch DEF Control
<1>6. (\A m : Genuine(Idle, m)) /\ \A led : Counted(Idle, led)
  BY <1>1, EmptyBatch DEF Genuine, Counted
<1> QED
  BY <1>2, <1>5, <1>6

\* A process whose operation is over; Over(p, records) is Done(proc[p], records).
Done(pr, records) ==
  IF Len(pr.todo) = 1 THEN Idle
  ELSE [Idle EXCEPT !.todo = Tail(pr.todo), !.records = records]

\* What a process is left with when an operation is over.
LEMMA DoneIs ==
  ASSUME NEW p \in Process, NEW pr \in ProcType, Control(p, pr), pr.todo # <<>>,
         NEW records \in Seq(Key)
  PROVE  LET new == Done(pr, records)
         IN /\ new \in ProcType /\ Control(p, new)
            /\ new.step = "start" /\ new.buffer = <<>>
            /\ new.todo # <<>> =>
                 /\ new.records = records
                 /\ Head(new.todo).op = "append" =>
                      Head(pr.todo).op = "save" /\ Head(pr.todo).kind = Head(new.todo).kind
<1> DEFINE new == Done(pr, records)
           todo == pr.todo
           rest == Tail(todo)
<1>1. todo \in Seq(OpType) /\ todo # <<>>
  BY DEF ProcType
<1> HIDE DEF todo
<1>2. CASE Len(todo) = 1
  <2>1. new = Idle
    BY <1>2 DEF Done, todo
  <2>2. Idle.todo = <<>> /\ Idle.buffer = <<>> /\ Idle.step = "start"
    BY DEF Idle
  <2> HIDE DEF new
  <2> QED
    BY <2>1, <2>2, IdleIs DEF new
<1>3. CASE Len(todo) # 1
  <2>1. rest \in Seq(OpType) /\ rest # <<>> /\ Len(rest) = Len(todo) - 1
        /\ \A i \in 1..Len(rest) : rest[i] = todo[i + 1]
    <3>1. Len(todo) >= 2
      <4> DEFINE n == Len(todo)
      <4>1. n \in Nat /\ n # 0
        BY <1>1
      <4>2. n # 1
        BY <1>3
      <4> HIDE DEF n
      <4>3. n >= 2
        BY <4>1, <4>2
      <4> QED
        BY <4>3 DEF n
    <3>2. rest \in Seq(OpType) /\ Len(rest) = Len(todo) - 1
          /\ \A i \in 1..Len(rest) : rest[i] = todo[i + 1]
      BY <1>1, <3>1
    <3>3. rest # <<>>
      <4>1. Len(rest) # 0
        BY <3>1, <3>2
      <4> HIDE DEF rest
      <4> QED
        BY <3>2, <4>1
    <3> QED
      BY <3>2, <3>3
  <2>2. new = [todo |-> rest, step |-> "start", second |-> 0, records |-> records,
               buffer |-> <<>>]
    BY <1>3 DEF Done, Idle, todo
  <2> HIDE DEF new
  <2>3. new.todo = rest /\ new.step = "start" /\ new.buffer = <<>> /\ new.records = records
    BY <2>2
  <2>4. new \in ProcType
    <3>1. 0 \in 0..LastTime /\ <<>> \in Seq(Token)
      BY ReportsDirAssumption
    <3> HIDE DEF rest
    <3> QED
      BY <2>1, <2>2, <3>1 DEF ProcType
  <2>5. PICK job \in JobsOf[p] \cup {<<>>} : IsSuffix(todo, job)
    BY DEF Control, todo
  <2>6. job \in Seq(OpType)
    <3>1. JobsOf[p] \subseteq AllJobs
      BY ReportsDirAssumption
    <3>2. <<>> \in Seq(OpType)
      OBVIOUS
    <3> QED
      BY <3>1, <3>2, JobType
  <2>7. IsSuffix(rest, job)
    BY <1>1, <2>5, <2>6, SuffixTail
  <2> HIDE DEF rest
  <2>8. Paired(todo)
    BY DEF Control, todo
  <2>9. Paired(rest)
    <3> SUFFICES ASSUME NEW i \in 1..(Len(rest) - 1), rest[i + 1].op = "append"
                 PROVE  rest[i].op = "save" /\ rest[i].kind = rest[i + 1].kind
      BY DEF Paired
    <3>1. rest[i] = todo[i + 1] /\ rest[i + 1] = todo[(i + 1) + 1]
      <4>1. i \in 1..Len(rest) /\ i + 1 \in 1..Len(rest)
        BY <1>1, <2>1
      <4> QED
        BY <2>1, <4>1
    <3>2. i + 1 \in 1..(Len(todo) - 1)
      BY <1>1, <2>1
    <3> QED
      BY <2>8, <3>1, <3>2 DEF Paired
  <2>10. Control(p, new)
    BY <2>1, <2>3, <2>5, <2>7, <2>9, EmptyBatch DEF Control
  <2>11. Head(rest).op = "append" =>
           Head(todo).op = "save" /\ Head(todo).kind = Head(rest).kind
    <3>1. Head(rest) = rest[1] /\ Head(todo) = todo[1] /\ rest[1] = todo[1 + 1]
          /\ 1 \in 1..(Len(todo) - 1)
      BY <1>1, <1>3, <2>1
    <3> QED
      BY <2>8, <3>1 DEF Paired
  <2> QED
    BY <2>3, <2>4, <2>10, <2>11 DEF new, todo
<1> QED
  BY <1>2, <1>3

\* A process that is over holds what it passes on to the append behind its save.
LEMMA DoneKeeps ==
  ASSUME NEW p \in Process, NEW pr \in ProcType, Control(p, pr), pr.todo # <<>>,
         NEW records \in Seq(Key), NEW m, NEW led,
         Head(pr.todo).op = "save" => records \in Seq(m[Head(pr.todo).kind])
  PROVE  LET new == Done(pr, records)
         IN new \in ProcType /\ Control(p, new) /\ Genuine(new, m) /\ Counted(new, led)
<1> DEFINE new == Done(pr, records)
<1>1. /\ new \in ProcType /\ Control(p, new)
      /\ new.step = "start" /\ new.buffer = <<>>
      /\ new.todo # <<>> =>
           /\ new.records = records
           /\ Head(new.todo).op = "append" =>
                Head(pr.todo).op = "save" /\ Head(pr.todo).kind = Head(new.todo).kind
  BY DoneIs
<1> HIDE DEF new
<1>2. <<>> \in Seq(TokenOf(m[Head(new.todo).kind]))
  OBVIOUS
<1>3. Genuine(new, m)
  BY <1>1, <1>2 DEF Genuine
<1>4. Counted(new, led)
  BY <1>1, EmptyBatch DEF Counted
<1> QED
  BY <1>1, <1>3, <1>4 DEF new

\* More reports leave what a process holds genuine.
LEMMA GenuineMono ==
  ASSUME NEW pr \in ProcType, NEW m, NEW n, \A kind \in Kinds : m[kind] \subseteq n[kind],
         Genuine(pr, m)
  PROVE  Genuine(pr, n)
<1> SUFFICES ASSUME pr.todo # <<>>
             PROVE  /\ Head(pr.todo).op = "append" \/ pr.step # "start"
                         => pr.records \in Seq(n[Head(pr.todo).kind])
                    /\ pr.buffer \in Seq(TokenOf(n[Head(pr.todo).kind]))
  BY DEF Genuine
<1> DEFINE kind == Head(pr.todo).kind
<1>1. kind \in Kinds
  <2>1. Head(pr.todo) \in OpType
    BY DEF ProcType
  <2> QED
    BY <2>1 DEF OpType
<1> HIDE DEF kind
<1>2. Seq(m[kind]) \subseteq Seq(n[kind]) /\ Seq(TokenOf(m[kind])) \subseteq Seq(TokenOf(n[kind]))
  BY <1>1, SeqMono
<1> QED
  BY <1>2 DEF Genuine, kind

\* A step that changes one process only.
LEMMA OnlyProc ==
  ASSUME IInv, NEW p \in Process, NEW new \in ProcType,
         Control(p, new), Genuine(new, made), cuts = 0 => Counted(new, ledger),
         proc' = [proc EXCEPT ![p] = new],
         UNCHANGED <<time, files, ledger, alerts, made, cuts>>,
         reports' \in 0..MaxReports, crashes' \in 0..MaxCrashes
  PROVE  IInv'
<1> USE DEF IInv
<1>1. Types'
  BY DEF Types
<1>2. Known'
  BY DEF Known
<1>3. \A q \in Process : proc'[q] = IF q = p THEN new ELSE proc[q]
  BY DEF Types
<1>4. \A q \in Process : Control(q, proc'[q]) /\ Genuine(proc'[q], made)
  BY <1>3
<1>5. cuts = 0 => \A q \in Process : Counted(proc'[q], ledger)
  BY <1>3
<1> QED
  BY <1>1, <1>2, <1>4, <1>5

-----------------------------------------------------------------------------
(* One lemma per action.                                                   *)

\* Time, and the alerts, leave the invariant alone.
LEMMA OthersKeep ==
  ASSUME IInv, Tick \/ AlertSaved
  PROVE  IInv'
<1>1. UNCHANGED <<files, ledger, proc, made, bounds>>
  BY DEF Tick, AlertSaved
<1>2. time' \in 1..LastTime /\ alerts' \in BOOLEAN
  <2>1. time \in 1..LastTime /\ alerts \in BOOLEAN /\ LastTime \in Nat
    BY ReportsDirAssumption DEF IInv, Types
  <2>2. CASE Tick
    BY <2>1, <2>2 DEF Tick
  <2>3. CASE AlertSaved
    BY <2>1, <2>3 DEF AlertSaved
  <2> QED
    BY <2>2, <2>3
<1>3. Types'
  BY <1>1, <1>2 DEF IInv, Types, bounds
<1>4. Known'
  BY <1>1 DEF IInv, Known
<1> QED
  BY <1>1, <1>3, <1>4 DEF IInv, bounds

\* A process takes up a job.
LEMMA StartKeeps ==
  ASSUME IInv, NEW p \in Process, NEW job \in JobsOf[p], Start(p, job)
  PROVE  IInv'
<1> DEFINE new == [Idle EXCEPT !.todo = job]
<1>1. job \in Seq(OpType) /\ job # <<>> /\ Paired(job)
  BY ReportsDirAssumption, JobType
<1>2. proc' = [proc EXCEPT ![p] = new]
  BY DEF Start, IInv, Types
<1>3. new = [todo |-> job, step |-> "start", second |-> 0, records |-> <<>>, buffer |-> <<>>]
  BY DEF Idle
<1> HIDE DEF new
<1>4. new.todo = job /\ new.step = "start" /\ new.records = <<>> /\ new.buffer = <<>>
  BY <1>3
<1>5. new \in ProcType
  <2>1. 0 \in 0..LastTime /\ <<>> \in Seq(Token) /\ <<>> \in Seq(Key)
    BY ReportsDirAssumption
  <2> QED
    BY <1>1, <1>3, <2>1 DEF ProcType
<1>6. Control(p, new)
  <2>1. IsSuffix(job, job)
    BY <1>1, SuffixSelf
  <2> QED
    BY <1>1, <1>4, <2>1, EmptyBatch DEF Control
<1>7. Genuine(new, made)
  <2>1. <<>> \in Seq(made[Head(job).kind]) /\ <<>> \in Seq(TokenOf(made[Head(job).kind]))
    OBVIOUS
  <2> QED
    BY <1>4, <2>1 DEF Genuine
<1>8. Counted(new, ledger)
  BY <1>4, EmptyBatch DEF Counted
<1>9. reports' \in 0..MaxReports /\ UNCHANGED <<time, files, ledger, alerts, made, cuts, crashes>>
  <2>1. Saves(job) \in Nat
    BY <1>1, SavesType
  <2> QED
    BY <2>1, ReportsDirAssumption DEF Start, IInv, Types
<1>10. crashes' \in 0..MaxCrashes
  BY <1>9 DEF IInv, Types
<1> QED
  BY <1>2, <1>5, <1>6, <1>7, <1>8, <1>9, <1>10, OnlyProc

\* A process that dies, or whose job ends in an exception.
LEMMA EndKeeps ==
  ASSUME IInv, NEW p \in Process, Crash(p) \/ ChokeOnAlerts(p)
  PROVE  IInv'
<1>1. proc' = [proc EXCEPT ![p] = Idle] /\ UNCHANGED <<time, files, ledger, alerts, made, cuts>>
  BY DEF Crash, ChokeOnAlerts, bounds
<1>2. reports' \in 0..MaxReports /\ crashes' \in 0..MaxCrashes
  BY ReportsDirAssumption DEF Crash, ChokeOnAlerts, bounds, IInv, Types
<1>3. /\ Idle \in ProcType /\ Control(p, Idle)
      /\ Genuine(Idle, made) /\ Counted(Idle, ledger)
  BY IdleIs
<1> QED
  BY <1>1, <1>2, <1>3, OnlyProc

\* What a process at work is.
LEMMA Working ==
  ASSUME IInv, NEW p \in Process, proc[p].todo # <<>>
  PROVE  /\ proc[p] \in ProcType /\ Control(p, proc[p]) /\ Genuine(proc[p], made)
         /\ Kind(p) \in Kinds /\ Kind(p) = Head(proc[p].todo).kind
         /\ Head(proc[p].todo).op \in {"save", "append", "fill"}
         /\ ledger[Kind(p)] \in Seq(Token) /\ made[Kind(p)] \subseteq Key
<1>1. proc[p] \in ProcType /\ Control(p, proc[p]) /\ Genuine(proc[p], made)
  BY DEF IInv, Types
<1>2. Head(proc[p].todo) \in OpType
  BY <1>1 DEF ProcType
<1>3. Kind(p) \in Kinds /\ Head(proc[p].todo).op \in {"save", "append", "fill"}
  BY <1>2 DEF OpType, Kind
<1> QED
  BY <1>1, <1>3 DEF Kind, IInv, Types

\* The ledger is loaded and scored.
LEMMA ScoreKeeps ==
  ASSUME IInv, NEW p \in Process, Score(p)
  PROVE  IInv'
<1> DEFINE none == <<>>
           new == Done(proc[p], none)
<1>1. proc[p].todo # <<>> /\ Head(proc[p].todo).op = "fill"
  BY DEF Score, At
<1>2. proc' = [proc EXCEPT ![p] = new]
  BY DEF Score, Over, Done
<1>3. none \in Seq(Key)
  OBVIOUS
<1>4. new \in ProcType /\ Control(p, new) /\ Genuine(new, made) /\ Counted(new, ledger)
  BY <1>1, <1>3, Working, DoneKeeps
<1> HIDE DEF new
<1>5. UNCHANGED <<time, files, ledger, alerts, made, cuts, reports, crashes>>
  BY DEF Score, bounds
<1>6. reports' \in 0..MaxReports /\ crashes' \in 0..MaxCrashes
  BY <1>5 DEF IInv, Types
<1> QED
  BY <1>2, <1>4, <1>5, <1>6, OnlyProc

\* The saved reports of a kind are read.
LEMMA CollectKeeps ==
  ASSUME IInv, NEW p \in Process, Collect(p)
  PROVE  IInv'
<1> DEFINE k == Kind(p)
           saved == Saved(k)
           new == [proc[p] EXCEPT !.step = "collected", !.records = saved]
<1>1. proc[p].todo # <<>> /\ Head(proc[p].todo).op = "fill" /\ proc[p].step = "start"
  BY DEF Collect, At
<1>2. proc[p] \in ProcType /\ Control(p, proc[p]) /\ Genuine(proc[p], made)
      /\ k \in Kinds /\ k = Head(proc[p].todo).kind /\ made[k] \subseteq Key
  BY <1>1, Working
<1>3. proc' = [proc EXCEPT ![p] = new]
  BY DEF Collect, IInv, Types
<1>4. saved \in Seq(made[k])
  <2> DEFINE M == made[k]
             ss == [second \in 1..LastTime |-> files[k][second].keys]
  <2>1. \A second \in 1..LastTime : files[k][second].keys \in Seq(M)
    BY <1>2 DEF IInv, Known
  <2>2. LastTime \in Nat
    BY ReportsDirAssumption
  <2> HIDE DEF M
  <2>3. ss \in Seq(Seq(M))
    BY <2>1, <2>2
  <2> HIDE DEF ss
  <2>4. FlattenSeq(ss) \in Seq(M)
    BY <2>3, FlattenType
  <2> QED
    BY <2>4 DEF Saved, ss, M
<1>5. saved \in Seq(Key)
  BY <1>2, <1>4, SeqMono
<1> HIDE DEF saved, k
<1>6. /\ new.todo = proc[p].todo /\ new.step = "collected" /\ new.second = proc[p].second
      /\ new.records = saved /\ new.buffer = proc[p].buffer /\ new \in ProcType
  BY <1>2, <1>5 DEF ProcType
<1> HIDE DEF new
<1>7. proc[p].buffer = <<>>
  BY <1>1, <1>2 DEF Control
<1>8. Control(p, new)
  BY <1>1, <1>2, <1>6, <1>7 DEF Control
<1>9. Genuine(new, made)
  BY <1>2, <1>4, <1>6 DEF Genuine
<1>10. Counted(new, ledger)
  BY <1>6, <1>7, EmptyBatch DEF Counted
<1>11. UNCHANGED <<time, files, ledger, alerts, made, cuts, reports, crashes>>
  BY DEF Collect, bounds
<1>12. reports' \in 0..MaxReports /\ crashes' \in 0..MaxCrashes
  BY <1>11 DEF IInv, Types
<1> QED
  BY <1>3, <1>6, <1>8, <1>9, <1>10, <1>11, <1>12, OnlyProc

\* The records that the ledger does not have are buffered.
LEMMA ReadLedgerKeeps ==
  ASSUME IInv, NEW p \in Process, ReadLedger(p)
  PROVE  IInv'
<1> DEFINE k == Kind(p)
           known == LoadLedger(k)
           lines == NewLines(proc[p].records, known)
           none == <<>>
           new == IF lines # <<>>
                  THEN [proc[p] EXCEPT !.step = "writing", !.buffer = lines]
                  ELSE IF Head(proc[p].todo).op = "append" THEN Done(proc[p], none)
                  ELSE [proc[p] EXCEPT !.step = "score"]
<1>1. /\ proc[p].todo # <<>> /\ proc[p].step # "writing"
      /\ \/ Head(proc[p].todo).op = "append"
         \/ Head(proc[p].todo).op = "fill" /\ proc[p].step = "collected"
  BY DEF ReadLedger, At
<1>2. proc[p] \in ProcType /\ Control(p, proc[p]) /\ Genuine(proc[p], made)
      /\ k \in Kinds /\ k = Head(proc[p].todo).kind /\ made[k] \subseteq Key
  BY <1>1, Working
<1>3. proc' = [proc EXCEPT ![p] = new]
  BY DEF ReadLedger, IInv, Types, Over, Done
<1>4. proc[p].records \in Seq(made[k]) /\ proc[p].records \in Seq(Key)
  BY <1>1, <1>2 DEF Genuine, ProcType
<1>5. known = Read(ledger[k])
  BY DEF LoadLedger, Read
<1>6. /\ lines \in Seq(TokenOf(made[k])) /\ Batch(lines)
      /\ ToSet(proc[p].records) \subseteq known \cup Heads(lines)
  BY <1>4, NewLinesAre
<1>7. lines \in Seq(Token)
  BY <1>2, <1>6, SeqMono, TokenIs
<1>8. proc[p].buffer = <<>>
  BY <1>1, <1>2 DEF Control
<1>9. none \in Seq(Key)
  OBVIOUS
<1> HIDE DEF k, known, lines, none
<1>10. new \in ProcType /\ Control(p, new) /\ Genuine(new, made) /\ Counted(new, ledger)
  <2>1. CASE lines # <<>>
    <3>1. new = [proc[p] EXCEPT !.step = "writing", !.buffer = lines]
      BY <2>1
    <3> HIDE DEF new
    <3>2. /\ new.todo = proc[p].todo /\ new.step = "writing" /\ new.second = proc[p].second
          /\ new.records = proc[p].records /\ new.buffer = lines /\ new \in ProcType
      BY <1>2, <1>7, <3>1 DEF ProcType
    <3>3. Control(p, new)
      BY <1>1, <1>2, <1>6, <2>1, <3>2 DEF Control, Batch
    <3>4. Genuine(new, made)
      BY <1>2, <1>4, <1>6, <3>2 DEF Genuine
    <3>5. Counted(new, ledger)
      BY <1>2, <1>5, <1>6, <3>2 DEF Counted
    <3> QED
      BY <3>2, <3>3, <3>4, <3>5
  <2>2. CASE lines = <<>> /\ Head(proc[p].todo).op = "append"
    <3>1. new = Done(proc[p], none)
      BY <2>2
    <3> HIDE DEF new
    <3> QED
      BY <1>1, <1>2, <1>9, <2>2, <3>1, DoneKeeps
  <2>3. CASE lines = <<>> /\ Head(proc[p].todo).op # "append"
    <3>1. new = [proc[p] EXCEPT !.step = "score"]
      BY <2>3
    <3> HIDE DEF new
    <3>2. /\ new.todo = proc[p].todo /\ new.step = "score" /\ new.second = proc[p].second
          /\ new.records = proc[p].records /\ new.buffer = lines /\ new \in ProcType
      BY <1>2, <1>8, <2>3, <3>1 DEF ProcType
    <3>3. Control(p, new)
      BY <1>1, <1>2, <1>6, <2>3, <3>2 DEF Control, Batch
    <3>4. Genuine(new, made)
      BY <1>2, <1>4, <1>6, <3>2 DEF Genuine
    <3>5. Counted(new, ledger)
      BY <1>2, <1>5, <1>6, <3>2 DEF Counted
    <3> QED
      BY <3>2, <3>3, <3>4, <3>5
  <2> QED
    BY <2>1, <2>2, <2>3
<1> HIDE DEF new
<1>11. UNCHANGED <<time, files, ledger, alerts, made, cuts, reports, crashes>>
  BY DEF ReadLedger, bounds
<1>12. reports' \in 0..MaxReports /\ crashes' \in 0..MaxCrashes
  BY <1>11 DEF IInv, Types
<1> QED
  BY <1>3, <1>10, <1>11, <1>12, OnlyProc

\* A report is named by the date of its second.
LEMMA DateType ==
  ASSUME NEW t \in 1..LastTime
  PROVE  t \div PerDay \in 0..(LastTime \div PerDay)
<1> DEFINE d == PerDay
           last == LastTime
<1>1. d \in Nat /\ d > 0 /\ last \in Nat /\ t \in Nat /\ t <= last
  BY ReportsDirAssumption
<1> HIDE DEF d, last
<1> DEFINE a == t \div d
           b == last \div d
<1>2. a \in Int /\ b \in Int /\ d * a <= t /\ last < d * (b + 1)
  BY <1>1
<1>3. a >= 0
  BY <1>1
<1> HIDE DEF a, b
<1>4. a <= b
  <2> SUFFICES ASSUME b + 1 <= a PROVE FALSE
    BY <1>2
  <2>1. d * (b + 1) <= d * a
    BY <1>1, <1>2
  <2> QED
    BY <1>1, <1>2, <2>1
<1>5. a \in 0..b
  BY <1>2, <1>3, <1>4
<1> QED
  BY <1>5 DEF a, b, d, last

\* A report is made and its file emptied.
LEMMA OpenReportKeeps ==
  ASSUME IInv, NEW p \in Process, OpenReport(p)
  PROVE  IInv'
<1> DEFINE k == Kind(p)
<1>1. proc[p].todo # <<>> /\ Head(proc[p].todo).op = "save" /\ proc[p].step = "start"
  BY DEF OpenReport, At
<1>2. proc[p] \in ProcType /\ Control(p, proc[p]) /\ Genuine(proc[p], made)
      /\ k \in Kinds /\ k = Head(proc[p].todo).kind
  BY <1>1, Working
<1>3. PICK result \in Results :
        LET keys == [i \in DOMAIN result |-> [date |-> Today, item |-> result[i]]]
        IN /\ proc' = [proc EXCEPT ![p].step = "open", ![p].second = time,
                                   ![p].records = keys]
           /\ made' = [made EXCEPT ![k] = @ \cup ToSet(keys)]
  BY DEF OpenReport
<1> DEFINE keys == [i \in DOMAIN result |-> [date |-> Today, item |-> result[i]]]
           new == [proc[p] EXCEPT !.step = "open", !.second = time, !.records = keys]
<1>4. proc' = [proc EXCEPT ![p] = new] /\ made' = [made EXCEPT ![k] = made[k] \cup ToSet(keys)]
  BY <1>2, <1>3 DEF IInv, Types
<1>5. files' = [files EXCEPT ![k][time] = Broken]
      /\ UNCHANGED <<time, ledger, alerts, reports, cuts, crashes>>
  BY DEF OpenReport, bounds
<1>6. time \in 1..LastTime /\ Today \in 0..(LastTime \div PerDay)
  BY DateType DEF IInv, Types, Today
<1>7. keys \in Seq(Key)
  <2>1. result \in Seq(Item)
    BY ReportsDirAssumption
  <2>2. DOMAIN result = 1..Len(result) /\ Len(result) \in Nat
        /\ \A i \in 1..Len(result) : result[i] \in Item
    BY <2>1
  <2>3. \A i \in 1..Len(result) : [date |-> Today, item |-> result[i]] \in Key
    BY <1>6, <2>2 DEF Key
  <2> QED
    BY <2>2, <2>3
<1> HIDE DEF keys, k
<1>8. keys \in Seq(ToSet(keys)) /\ ToSet(keys) \subseteq Key
  BY <1>7 DEF ToSet
<1>9. /\ new.todo = proc[p].todo /\ new.step = "open" /\ new.second = time
      /\ new.records = keys /\ new.buffer = proc[p].buffer /\ new \in ProcType
  <2>1. time \in 0..LastTime
    BY <1>6
  <2> QED
    BY <1>2, <1>7, <2>1 DEF ProcType
<1> HIDE DEF new
<1>10. proc[p].buffer = <<>>
  BY <1>1, <1>2 DEF Control
<1>11. Control(p, new)
  BY <1>1, <1>2, <1>6, <1>9, <1>10 DEF Control
<1>12. made \in [Kinds -> SUBSET Key] /\ made' \in [Kinds -> SUBSET Key]
  BY <1>2, <1>4, <1>8 DEF IInv, Types
<1>13. \A j \in Kinds : made[j] \subseteq made'[j]
  BY <1>4, <1>12
<1>14. Genuine(new, made')
  <2>1. ToSet(keys) \subseteq made'[k]
    BY <1>2, <1>4, <1>12
  <2>2. keys \in Seq(made'[k])
    BY <1>8, <2>1, SeqMono
  <2>3. <<>> \in Seq(TokenOf(made'[k]))
    OBVIOUS
  <2> QED
    BY <1>2, <1>9, <1>10, <2>2, <2>3 DEF Genuine
<1>15. Counted(new, ledger)
  BY <1>9, <1>10, EmptyBatch DEF Counted
<1>16. \A q \in Process : proc'[q] = IF q = p THEN new ELSE proc[q]
  BY <1>4 DEF IInv, Types
<1>17. \A q \in Process : proc[q] \in ProcType /\ Control(q, proc[q]) /\ Genuine(proc[q], made)
  BY DEF IInv, Types
<1>18. \A q \in Process : Control(q, proc'[q]) /\ Genuine(proc'[q], made')
  <2> SUFFICES ASSUME NEW q \in Process PROVE Control(q, proc'[q]) /\ Genuine(proc'[q], made')
    OBVIOUS
  <2>1. CASE q = p
    BY <1>11, <1>14, <1>16, <2>1
  <2>2. CASE q # p
    <3>1. Genuine(proc[q], made')
      BY <1>13, <1>17, GenuineMono
    <3> QED
      BY <1>16, <1>17, <2>2, <3>1
  <2> QED
    BY <2>1, <2>2
<1>19. cuts' = 0 => (\A j \in Kinds : Batch(ledger'[j]))
                    /\ \A q \in Process : Counted(proc'[q], ledger')
  BY <1>5, <1>15, <1>16 DEF IInv
<1>20. files' \in [Kinds -> [1..LastTime -> File]]
       /\ \A j \in Kinds, second \in 1..LastTime :
            files'[j][second].keys = files[j][second].keys \/ files'[j][second].keys = <<>>
  <2>1. files \in [Kinds -> [1..LastTime -> File]]
    BY DEF IInv, Types
  <2>2. Broken \in File /\ Broken.keys = <<>>
    BY DEF Broken, File
  <2> HIDE DEF File
  <2>3. files' \in [Kinds -> [1..LastTime -> File]]
    BY <1>2, <1>5, <1>6, <2>1, <2>2
  <2>4. \A j \in Kinds, second \in 1..LastTime :
          files'[j][second] = files[j][second] \/ files'[j][second] = Broken
    BY <1>2, <1>5, <1>6, <2>1
  <2> QED
    BY <2>2, <2>3, <2>4
<1>21. Types'
  <2>1. proc' \in [Process -> ProcType]
    BY <1>4, <1>9 DEF IInv, Types
  <2> QED
    BY <1>5, <1>12, <1>20, <2>1 DEF IInv, Types
<1>22. Known'
  <2> SUFFICES ASSUME NEW j \in Kinds
               PROVE  /\ ledger'[j] \in Seq(TokenOf(made'[j]))
                      /\ \A second \in 1..LastTime : files'[j][second].keys \in Seq(made'[j])
    BY DEF Known
  <2>1. Seq(made[j]) \subseteq Seq(made'[j]) /\ Seq(TokenOf(made[j])) \subseteq Seq(TokenOf(made'[j]))
    BY <1>13, SeqMono
  <2>2. ledger[j] \in Seq(TokenOf(made[j]))
        /\ \A second \in 1..LastTime : files[j][second].keys \in Seq(made[j])
    BY DEF IInv, Known
  <2>3. <<>> \in Seq(made'[j])
    OBVIOUS
  <2> QED
    BY <1>5, <1>20, <2>1, <2>2, <2>3
<1>23. Cost(ledger'["pick"]) + Cost(ledger'["advice"]) <= 2 * cuts'
  BY <1>5 DEF IInv
<1> QED
  BY <1>18, <1>19, <1>21, <1>22, <1>23 DEF IInv

\* The file of a report is written.
LEMMA WriteReportKeeps ==
  ASSUME IInv, NEW p \in Process, WriteReport(p)
  PROVE  IInv'
<1> DEFINE k == Kind(p)
           second == proc[p].second
           records == proc[p].records
           new == Done(proc[p], records)
<1>1. proc[p].todo # <<>> /\ Head(proc[p].todo).op = "save" /\ proc[p].step = "open"
  BY DEF WriteReport, At
<1>2. proc[p] \in ProcType /\ Control(p, proc[p]) /\ Genuine(proc[p], made)
      /\ k \in Kinds /\ k = Head(proc[p].todo).kind
  BY <1>1, Working
<1>3. records \in Seq(made[k]) /\ records \in Seq(Key) /\ second \in 1..LastTime
  BY <1>1, <1>2 DEF Genuine, Control, ProcType
<1>4. proc' = [proc EXCEPT ![p] = new]
      /\ UNCHANGED <<time, ledger, alerts, made, reports, cuts, crashes>>
  BY DEF WriteReport, Over, Done, bounds
<1>5. new \in ProcType /\ Control(p, new) /\ Genuine(new, made) /\ Counted(new, ledger)
  BY <1>1, <1>2, <1>3, DoneKeeps
<1>6. PICK file \in {Whole(records), Broken} : files' = [files EXCEPT ![k][second] = file]
  BY DEF WriteReport
<1>7. file \in File /\ (file.keys = records \/ file.keys = <<>>)
  <2> HIDE DEF records, second, k
  <2>1. CASE file = Whole(records)
    BY <1>3, <2>1 DEF Whole, File
  <2>2. CASE file = Broken
    BY <2>2 DEF Broken, File
  <2> QED
    BY <1>6, <2>1, <2>2
<1> HIDE DEF new, k, second, records
<1>8. \A q \in Process : proc'[q] = IF q = p THEN new ELSE proc[q]
  BY <1>4 DEF IInv, Types
<1>9. files \in [Kinds -> [1..LastTime -> File]]
  BY DEF IInv, Types
<1>10. files' \in [Kinds -> [1..LastTime -> File]]
       /\ \A j \in Kinds, s \in 1..LastTime :
            \/ files'[j][s] = files[j][s]
            \/ j = k /\ files'[j][s] = file
  <2> HIDE DEF File
  <2> QED
    BY <1>2, <1>3, <1>6, <1>7, <1>9
<1>11. Types'
  <2>1. proc' \in [Process -> ProcType]
    BY <1>4, <1>5 DEF IInv, Types
  <2> QED
    BY <1>4, <1>10, <2>1 DEF IInv, Types
<1>12. Known'
  <2>1. <<>> \in Seq(made[k])
    OBVIOUS
  <2>2. file.keys \in Seq(made[k])
    BY <1>3, <1>7, <2>1
  <2> QED
    BY <1>4, <1>10, <2>2 DEF IInv, Known
<1>13. \A q \in Process : Control(q, proc'[q]) /\ Genuine(proc'[q], made')
  BY <1>4, <1>5, <1>8 DEF IInv
<1>14. cuts' = 0 => (\A j \in Kinds : Batch(ledger'[j]))
                    /\ \A q \in Process : Counted(proc'[q], ledger')
  BY <1>4, <1>5, <1>8 DEF IInv
<1>15. Cost(ledger'["pick"]) + Cost(ledger'["advice"]) <= 2 * cuts'
  BY <1>4 DEF IInv
<1> QED
  BY <1>11, <1>12, <1>13, <1>14, <1>15 DEF IInv

\* The buffer of a process is appended to its ledger, up to some point.
LEMMA FlushKeeps ==
  ASSUME IInv, NEW p \in Process, Flush(p)
  PROVE  IInv'
<1> DEFINE k == Kind(p)
           buffer == proc[p].buffer
           todo == proc[p].todo
<1>1. PICK n \in 1..Len(buffer) :
        /\ proc[p].step = "writing"
        /\ cuts' = cuts + (IF n < Len(buffer) THEN 1 ELSE 0)
        /\ cuts' <= MaxCuts
        /\ ledger' = [ledger EXCEPT ![k] = @ \o SubSeq(buffer, 1, n)]
        /\ proc' = [proc EXCEPT ![p] = Written(p, n)]
        /\ UNCHANGED <<time, files, alerts, made, reports, crashes>>
  BY DEF Flush
<1>2. todo # <<>>
  <2>1. Control(p, proc[p])
    BY DEF IInv
  <2>2. Idle.step = "start"
    BY DEF Idle
  <2> QED
    BY <1>1, <2>1, <2>2 DEF Control
<1>3. proc[p] \in ProcType /\ Control(p, proc[p]) /\ Genuine(proc[p], made)
      /\ k \in Kinds /\ k = Head(todo).kind /\ made[k] \subseteq Key
      /\ Head(todo).op \in {"save", "append", "fill"}
  BY <1>2, Working
<1>4. Head(todo).op \in {"append", "fill"} /\ Chain(buffer)
      /\ buffer \in Seq(Token) /\ buffer \in Seq(TokenOf(made[k]))
      /\ proc[p].records \in Seq(made[k])
  BY <1>1, <1>2, <1>3 DEF Control, Genuine, ProcType
<1> DEFINE none == <<>>
           new == IF n < Len(buffer)
                  THEN [proc[p] EXCEPT !.buffer = SubSeq(buffer, n + 1, Len(buffer))]
                  ELSE IF Head(todo).op = "append" THEN Done(proc[p], none)
                  ELSE [proc[p] EXCEPT !.step = "score", !.buffer = none]
           piece == SubSeq(buffer, 1, n)
           text == ledger[k]
<1>5. proc' = [proc EXCEPT ![p] = new]
  BY <1>1 DEF Written, Over, Done
<1>6. text \in Seq(TokenOf(made[k])) /\ text \in Seq(Token) /\ piece \in Seq(TokenOf(made[k]))
      /\ piece \in Seq(Token) /\ n \in Nat /\ Len(buffer) \in Nat
  <2>1. text \in Seq(TokenOf(made[k])) /\ text \in Seq(Token)
    BY <1>3 DEF IInv, Known, Types
  <2> QED
    BY <1>4, <2>1
<1>7. n = Len(buffer) => piece = buffer
  BY <1>4
<1>8. none \in Seq(Key) /\ none \in Seq(Token) /\ none \in Seq(TokenOf(made[k]))
      /\ Batch(none) /\ Chain(none)
  BY EmptyBatch
<1>9. ledger' = [ledger EXCEPT ![k] = text \o piece]
  BY <1>1
<1> HIDE DEF k, new, piece, text, none
<1>10. ledger \in [Kinds -> Seq(Token)]
       /\ \A j \in Kinds : ledger'[j] = IF j = k THEN text \o piece ELSE ledger[j]
  BY <1>3, <1>9 DEF IInv, Types
<1>11. text \o piece \in Seq(TokenOf(made[k])) /\ text \o piece \in Seq(Token)
  BY <1>6
<1>12. cuts \in Nat /\ cuts' \in 0..MaxCuts /\ (n < Len(buffer) => cuts' = cuts + 1)
       /\ (~(n < Len(buffer)) => cuts' = cuts)
  BY <1>1, ReportsDirAssumption DEF IInv, Types
<1>13. cuts' = 0 => cuts = 0 /\ n = Len(buffer)
  BY <1>6, <1>12, <1>1
<1>14. cuts = 0 => /\ \A j \in Kinds : Batch(ledger[j])
                   /\ \A q \in Process : Counted(proc[q], ledger)
  BY DEF IInv
<1>15. cuts' = 0 => /\ \A j \in Kinds : Batch(ledger'[j])
                    /\ \A j \in Kinds : Read(ledger[j]) \subseteq Read(ledger'[j])
                    /\ Heads(buffer) \subseteq Read(ledger'[k])
  <2> SUFFICES ASSUME cuts' = 0
               PROVE  /\ \A j \in Kinds : Batch(ledger'[j])
                      /\ \A j \in Kinds : Read(ledger[j]) \subseteq Read(ledger'[j])
                      /\ Heads(buffer) \subseteq Read(ledger'[k])
    OBVIOUS
  <2>1. Batch(text) /\ Batch(buffer) /\ piece = buffer
    BY <1>3, <1>7, <1>13, <1>14 DEF Counted, text
  <2>2. Batch(text \o buffer)
    BY <1>4, <1>6, <2>1, BatchConcat
  <2>3. Read(text) = Heads(text)
    BY <1>6, <2>1, BatchRead
  <2>4. Read(text \o buffer) = Heads(text \o buffer)
    BY <1>11, <2>1, <2>2, BatchRead
  <2>5. Heads(text) \cup Heads(buffer) \subseteq Heads(text \o buffer)
    BY <1>4, <1>6, HeadsConcat
  <2>6. ledger'[k] = text \o buffer /\ ledger[k] = text
    BY <1>3, <1>10, <2>1 DEF text
  <2> QED
    BY <1>10, <1>13, <1>14, <2>2, <2>3, <2>4, <2>5, <2>6
<1>16. new \in ProcType /\ Control(p, new) /\ Genuine(new, made)
       /\ (cuts' = 0 => Counted(new, ledger'))
  <2>1. CASE n < Len(buffer)
    <3> DEFINE left == SubSeq(buffer, n + 1, Len(buffer))
    <3>1. left \in Seq(TokenOf(made[k])) /\ Chain(left) /\ left # <<>>
      BY <1>4, <2>1, ChainDrop
    <3>2. left \in Seq(Token)
      BY <1>3, <3>1, SeqMono, TokenIs
    <3>3. new = [proc[p] EXCEPT !.buffer = left]
      BY <2>1 DEF new
    <3> HIDE DEF left
    <3>4. /\ new.todo = todo /\ new.step = "writing" /\ new.second = proc[p].second
          /\ new.records = proc[p].records /\ new.buffer = left /\ new \in ProcType
      BY <1>1, <1>3, <3>2, <3>3 DEF ProcType
    <3>5. Control(p, new)
      BY <1>1, <1>2, <1>3, <3>1, <3>4 DEF Control
    <3>6. Genuine(new, made)
      BY <1>3, <1>4, <3>1, <3>4 DEF Genuine
    <3> QED
      BY <1>13, <2>1, <3>4, <3>5, <3>6
  <2>2. CASE ~(n < Len(buffer)) /\ Head(todo).op = "append"
    <3>1. new = Done(proc[p], none)
      BY <2>2 DEF new
    <3>2. Head(todo).op # "save"
      BY <2>2
    <3>3. /\ Done(proc[p], none) \in ProcType /\ Control(p, Done(proc[p], none))
          /\ Genuine(Done(proc[p], none), made) /\ \A led : Counted(Done(proc[p], none), led)
      BY <1>2, <1>3, <1>8, <3>2, DoneKeeps
    <3> QED
      BY <3>1, <3>3
  <2>3. CASE ~(n < Len(buffer)) /\ Head(todo).op # "append"
    <3>1. new = [proc[p] EXCEPT !.step = "score", !.buffer = none]
      BY <2>3 DEF new
    <3>2. /\ new.todo = todo /\ new.step = "score" /\ new.second = proc[p].second
          /\ new.records = proc[p].records /\ new.buffer = none /\ new \in ProcType
      BY <1>3, <1>8, <3>1 DEF ProcType
    <3>3. Head(todo).op = "fill" /\ none = <<>>
      BY <1>4, <2>3 DEF none
    <3>4. Control(p, new)
      BY <1>2, <1>3, <1>8, <3>2, <3>3 DEF Control
    <3>5. Genuine(new, made)
      BY <1>3, <1>4, <1>8, <3>2 DEF Genuine
    <3>6. cuts' = 0 => ToSet(new.records) \subseteq Read(ledger'[k])
      <4> SUFFICES ASSUME cuts' = 0 PROVE ToSet(new.records) \subseteq Read(ledger'[k])
        OBVIOUS
      <4>1. Counted(proc[p], ledger)
        BY <1>13, <1>14
      <4>2. ToSet(proc[p].records) \subseteq Read(ledger[k]) \cup Heads(buffer)
        BY <1>1, <1>2, <1>3, <3>3, <4>1 DEF Counted
      <4> QED
        BY <1>3, <1>15, <3>2, <4>2
    <3>7. cuts' = 0 => Counted(new, ledger')
      BY <1>3, <1>8, <3>2, <3>6 DEF Counted
    <3> QED
      BY <3>2, <3>4, <3>5, <3>7
  <2> QED
    BY <2>1, <2>2, <2>3
<1>17. \A q \in Process : proc'[q] = IF q = p THEN new ELSE proc[q]
  BY <1>5 DEF IInv, Types
<1>18. \A q \in Process : Control(q, proc'[q]) /\ Genuine(proc'[q], made')
  BY <1>1, <1>16, <1>17 DEF IInv
<1>19. cuts' = 0 => \A q \in Process : Counted(proc'[q], ledger')
  <2> SUFFICES ASSUME cuts' = 0, NEW q \in Process, q # p PROVE Counted(proc[q], ledger')
    BY <1>16, <1>17
  <2>1. Counted(proc[q], ledger) /\ proc[q] \in ProcType
    BY <1>13, <1>14 DEF IInv, Types
  <2>2. proc[q].todo # <<>> => Head(proc[q].todo).kind \in Kinds
    <3>1. proc[q].todo # <<>> => Head(proc[q].todo) \in OpType
      BY <2>1 DEF ProcType
    <3> QED
      BY <3>1 DEF OpType
  <2> QED
    BY <1>15, <2>1, <2>2 DEF Counted
<1>20. Types'
  <2>1. ledger' \in [Kinds -> Seq(Token)]
    BY <1>9, <1>10, <1>11
  <2>2. proc' \in [Process -> ProcType]
    BY <1>5, <1>16 DEF IInv, Types
  <2> QED
    BY <1>1, <1>12, <2>1, <2>2 DEF IInv, Types
<1>21. Known'
  <2>1. \A j \in Kinds : ledger'[j] \in Seq(TokenOf(made[j]))
    BY <1>10, <1>11 DEF IInv, Known
  <2> QED
    BY <1>1, <2>1 DEF IInv, Known
<1>22. Cost(ledger'["pick"]) + Cost(ledger'["advice"]) <= 2 * cuts'
  <2>1. Cost(text \o piece) <= Cost(text) + (IF n < Len(buffer) THEN 2 ELSE 0)
    BY <1>4, <1>6, FlushCosts DEF Cost, piece
  <2>2. \A t \in Seq(Token) : Cost(t) \in Nat
    BY LostFinite, TokenIs DEF Cost, Reserve
  <2> DEFINE a == Cost(ledger["pick"])
             b == Cost(ledger["advice"])
             c == Cost(text)
             d == Cost(text \o piece)
  <2>3. a \in Nat /\ b \in Nat /\ c \in Nat /\ d \in Nat /\ a + b <= 2 * cuts
    BY <1>6, <1>10, <1>11, <2>2 DEF IInv, Kinds
  <2>4. d <= c \/ (d <= c + 2 /\ n < Len(buffer))
    <3>1. CASE n < Len(buffer)
      BY <2>1, <3>1
    <3>2. CASE ~(n < Len(buffer))
      <4>1. d <= c + 0
        BY <2>1, <3>2
      <4> HIDE DEF c, d
      <4> QED
        BY <2>3, <4>1
    <3> QED
      BY <3>1, <3>2
  <2>5. CASE k = "pick"
    <3>1. ledger'["pick"] = text \o piece /\ ledger'["advice"] = ledger["advice"] /\ c = a
      BY <1>10, <2>5 DEF Kinds, text
    <3> HIDE DEF a, b, c, d
    <3>2. d + b <= 2 * cuts'
      <4> DEFINE was == cuts
                 is == cuts'
      <4>1. /\ was \in Nat /\ is \in Nat /\ (is = was \/ is = was + 1)
            /\ (n < Len(buffer) => is = was + 1)
        BY <1>12
      <4>2. a + b <= 2 * was
        BY <2>3
      <4> HIDE DEF was, is
      <4>3. d + b <= 2 * is
        BY <2>3, <2>4, <3>1, <4>1, <4>2
      <4> QED
        BY <4>3 DEF is
    <3> QED
      BY <3>1, <3>2 DEF d, b
  <2>6. CASE k = "advice"
    <3>1. ledger'["advice"] = text \o piece /\ ledger'["pick"] = ledger["pick"] /\ c = b
      BY <1>10, <2>6 DEF Kinds, text
    <3> HIDE DEF a, b, c, d
    <3>2. a + d <= 2 * cuts'
      <4> DEFINE was == cuts
                 is == cuts'
      <4>1. /\ was \in Nat /\ is \in Nat /\ (is = was \/ is = was + 1)
            /\ (n < Len(buffer) => is = was + 1)
        BY <1>12
      <4>2. a + b <= 2 * was
        BY <2>3
      <4> HIDE DEF was, is
      <4>3. a + d <= 2 * is
        BY <2>3, <2>4, <3>1, <4>1, <4>2
      <4> QED
        BY <4>3 DEF is
    <3> QED
      BY <3>1, <3>2 DEF d, a
  <2> QED
    BY <1>3, <2>5, <2>6 DEF Kinds
<1> QED
  BY <1>18, <1>15, <1>19, <1>20, <1>21, <1>22 DEF IInv

-----------------------------------------------------------------------------
(* The theorems.                                                           *)

\* The invariant holds at the start.
LEMMA InitInvariant == Init => IInv
<1> SUFFICES ASSUME Init PROVE IInv
  OBVIOUS
<1> USE DEF Init
<1>1. \A kind \in Kinds : ledger[kind] = <<>>
  OBVIOUS
<1>2. Types
  <2>1. 1 \in 1..LastTime /\ MaxReports \in Nat /\ MaxCuts \in Nat /\ MaxCrashes \in Nat
    BY ReportsDirAssumption
  <2>2. Absent \in File
    BY DEF Absent, File
  <2>3. files \in [Kinds -> [1..LastTime -> File]]
    BY <2>2
  <2>4. proc \in [Process -> ProcType]
    BY IdleIs
  <2>5. ledger \in [Kinds -> Seq(Token)] /\ made \in [Kinds -> SUBSET Key]
    <3>1. <<>> \in Seq(Token)
      OBVIOUS
    <3> QED
      BY <3>1
  <2>6. 0 \in 0..MaxReports /\ 0 \in 0..MaxCuts /\ 0 \in 0..MaxCrashes
    BY <2>1
  <2>7. alerts \in BOOLEAN /\ time \in 1..LastTime
    BY <2>1
  <2> QED
    BY <2>3, <2>4, <2>5, <2>6, <2>7 DEF Types
<1>3. Known
  <2>1. \A kind \in Kinds, second \in 1..LastTime : files[kind][second].keys = <<>>
    BY DEF Absent
  <2>2. \A S : <<>> \in Seq(S)
    OBVIOUS
  <2> QED
    BY <1>1, <2>1, <2>2 DEF Known
<1>4. \A p \in Process : Control(p, proc[p]) /\ Genuine(proc[p], made) /\ Counted(proc[p], ledger)
  BY IdleIs
<1>5. \A kind \in Kinds : Batch(ledger[kind])
  BY <1>1, EmptyBatch
<1>6. Cost(<<>>) = 0
  <2> DEFINE none == <<>>
  <2>1. DOMAIN none = {} /\ none = <<>>
    OBVIOUS
  <2> HIDE DEF none
  <2>2. Lost(none) = {}
    BY <2>1 DEF Lost
  <2>3. Reserve(none) = 0
    BY <2>1 DEF Reserve, OpenRest, Open
  <2>4. Cost(none) = 0
    BY <2>2, <2>3, FS_EmptySet DEF Cost
  <2> QED
    BY <2>4 DEF none
<1>7. Cost(ledger["pick"]) + Cost(ledger["advice"]) <= 2 * cuts
  BY <1>1, <1>6 DEF Kinds
<1> QED
  BY <1>2, <1>3, <1>4, <1>5, <1>7 DEF IInv

\* The invariant is inductive.
THEOREM Invariant == Spec => []IInv
<1>1. Init => IInv
  BY InitInvariant
<1>2. IInv /\ [Next]_vars => IInv'
  <2> SUFFICES ASSUME IInv, [Next]_vars PROVE IInv'
    OBVIOUS
  <2>1. CASE Tick \/ AlertSaved
    BY <2>1, OthersKeep
  <2>2. ASSUME NEW p \in Process, NEW job \in JobsOf[p], Start(p, job) PROVE IInv'
    BY <2>2, StartKeeps
  <2>3. ASSUME NEW p \in Process, Step(p) PROVE IInv'
    <3>1. CASE OpenReport(p)
      BY <3>1, OpenReportKeeps
    <3>2. CASE WriteReport(p)
      BY <3>2, WriteReportKeeps
    <3>3. CASE ChokeOnAlerts(p)
      BY <3>3, EndKeeps
    <3>4. CASE Collect(p)
      BY <3>4, CollectKeeps
    <3>5. CASE ReadLedger(p)
      BY <3>5, ReadLedgerKeeps
    <3>6. CASE Flush(p)
      BY <3>6, FlushKeeps
    <3>7. CASE Score(p)
      BY <3>7, ScoreKeeps
    <3> QED
      BY <2>3, <3>1, <3>2, <3>3, <3>4, <3>5, <3>6, <3>7 DEF Step
  <2>4. ASSUME NEW p \in Process, Crash(p) PROVE IInv'
    BY <2>4, EndKeeps
  <2>5. CASE UNCHANGED vars
    BY <2>5 DEF vars, bounds, IInv, Types, Known
  <2> QED
    BY <2>1, <2>2, <2>3, <2>4, <2>5 DEF Next
<1> QED
  BY <1>1, <1>2, PTL DEF Spec

\* The directory and the processes keep their types, for every set of processes,
\* jobs, results and bounds.
THEOREM TypeCorrect == Spec => []TypeOK
<1>1. IInv => TypeOK
  <2> SUFFICES ASSUME IInv PROVE TypeOK
    OBVIOUS
  <2>1. Types
    BY DEF IInv
  <2>2. \A kind \in Kinds :
          /\ \A second \in 1..LastTime :
               /\ files[kind][second].state \in {"absent", "broken", "whole"}
               /\ files[kind][second].keys \in Seq(Key)
          /\ ledger[kind] \in Seq(Token)
          /\ made[kind] \subseteq Key
    <3>1. \A kind \in Kinds, second \in 1..LastTime : files[kind][second] \in File
      BY <2>1 DEF Types
    <3> QED
      BY <2>1, <3>1 DEF Types, File
  <2>3. \A p \in Process :
          /\ \E job \in JobsOf[p] \cup {<<>>} : IsSuffix(proc[p].todo, job)
          /\ proc[p].step \in {"start", "open", "collected", "writing", "score"}
          /\ proc[p].records \in Seq(Key)
          /\ proc[p].buffer \in Seq(Token)
    BY <2>1 DEF IInv, Types, Control, ProcType
  <2> QED
    BY <2>1, <2>2, <2>3 DEF Types, TypeOK
<1> QED
  BY <1>1, Invariant, PTL

\* What is scored was recommended, whatever was torn, merged, filled in later or
\* written by several processes at once.
THEOREM NothingIsInvented == Spec => []NothingInvented
<1>1. IInv => NothingInvented
  <2> SUFFICES ASSUME IInv, NEW kind \in Kinds PROVE LoadLedger(kind) \subseteq made[kind]
    BY DEF NothingInvented
  <2>1. ledger[kind] \in Seq(TokenOf(made[kind]))
    BY DEF IInv, Known
  <2>2. Read(ledger[kind]) \subseteq made[kind]
    BY <2>1, ReadType
  <2> QED
    BY <2>2 DEF LoadLedger, Read
<1> QED
  BY <1>1, Invariant, PTL

\* A scoring behind a backfill sees every report that the backfill read, as long
\* as no write was cut short.
THEOREM NothingReadIsMissed == Spec => []ScoresWhatItRead
<1>1. IInv => ScoresWhatItRead
  <2> SUFFICES ASSUME IInv, NEW p \in Process, At(p, "fill", "score"), cuts = 0
               PROVE  ToSet(proc[p].records) \subseteq LoadLedger(Kind(p))
    BY DEF ScoresWhatItRead
  <2>1. Counted(proc[p], ledger) /\ Control(p, proc[p])
    BY DEF IInv
  <2>2. ToSet(proc[p].records) \subseteq Read(ledger[Kind(p)]) \cup Heads(proc[p].buffer)
    BY <2>1 DEF At, Counted, Kind
  <2>3. proc[p].buffer = <<>>
    BY <2>1 DEF At, Control
  <2>4. Heads(<<>>) = {}
    <3> DEFINE none == <<>>
    <3>1. 1..Len(none) = {}
      OBVIOUS
    <3> HIDE DEF none
    <3>2. Heads(none) = {}
      BY <3>1 DEF Heads
    <3> QED
      BY <3>2 DEF none
  <2> QED
    BY <2>2, <2>3, <2>4 DEF LoadLedger, Read
<1> QED
  BY <1>1, Invariant, PTL

\* A write that was cut short spoils two records at most, whatever follows.
THEOREM CutsAreContained == Spec => []DamageIsBounded
<1>1. IInv => DamageIsBounded
  <2> SUFFICES ASSUME IInv PROVE DamageIsBounded
    OBVIOUS
  <2>1. ledger["pick"] \in Seq(Token) /\ ledger["advice"] \in Seq(Token) /\ cuts \in Nat
    BY ReportsDirAssumption DEF IInv, Types, Kinds
  <2> DEFINE a == Cardinality(Lost(ledger["pick"]))
             b == Cardinality(Lost(ledger["advice"]))
             c == Reserve(ledger["pick"])
             d == Reserve(ledger["advice"])
  <2>2. a \in Nat /\ b \in Nat
    BY <2>1, LostFinite, TokenIs
  <2>3. c \in Nat /\ d \in Nat
    BY DEF Reserve
  <2>4. (a + c) + (b + d) <= 2 * cuts
    BY DEF IInv, Cost
  <2> HIDE DEF a, b, c, d
  <2>5. a + b <= 2 * cuts
    BY <2>1, <2>2, <2>3, <2>4
  <2> QED
    BY <2>5 DEF a, b, DamageIsBounded
<1> QED
  BY <1>1, Invariant, PTL
=============================================================================
