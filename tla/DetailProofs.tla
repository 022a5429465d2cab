---------------------------- MODULE DetailProofs ----------------------------
(***************************************************************************)
(* Proofs about the row and the detail of a session, for any logs and any  *)
(* limits.                                                                 *)
(***************************************************************************)
EXTENDS DetailView, TLAPS, SequenceTheorems, FunctionTheorems, FiniteSetTheorems

\* Folds that do not depend on their operator: the smallest number.
First(x, y) == x
Numbers == INSTANCE FoldLemmas WITH Op <- First, Base <- 0

LEMMA Least ==
  ASSUME NEW T \in SUBSET Nat, T # {}
  PROVE  \E x \in T : \A y \in T : x <= y
BY Numbers!SmallestNat

-----------------------------------------------------------------------------
(* FlattenSeq.                                                             *)

\* f is the function by which FlattenSeq goes through s, up to n.
Flattens(f, s, n) ==
    f = [i \in 1 .. n |-> IF i = 1 THEN s[i] ELSE f[i - 1] \o s[i]]

LEMMA FlattenIs ==
  ASSUME NEW s, Len(s) # 0
  PROVE  FlattenSeq(s) = (CHOOSE f : Flattens(f, s, Len(s)))[Len(s)]
BY Zenon DEF FlattenSeq, Flattens

LEMMA FlattenExists ==
  ASSUME NEW s, NEW n \in Nat
  PROVE  \E f : Flattens(f, s, n)
<1> DEFINE T == {k \in Nat : ~\E f : Flattens(f, s, k)}
<1> SUFFICES ASSUME T # {} PROVE FALSE
  OBVIOUS
<1>1. PICK k \in T : \A y \in T : k <= y
  BY Least
<1>2. k \in Nat /\ ~\E f : Flattens(f, s, k)
  OBVIOUS
<1>3. CASE k = 0
  <2> DEFINE f == [i \in 1 .. 0 |-> s[i]]
  <2>1. \A i : i \notin 1 .. 0
    OBVIOUS
  <2>2. Flattens(f, s, 0)
    BY <2>1 DEF Flattens
  <2> QED
    BY <1>2, <1>3, <2>2
<1>4. CASE k # 0
  <2>1. k - 1 \in Nat /\ k - 1 \notin T
    BY <1>1, <1>2, <1>4
  <2>2. PICK f : Flattens(f, s, k - 1)
    BY <2>1
  <2> DEFINE g == [i \in 1 .. k |->
                     IF i < k THEN f[i]
                     ELSE IF i = 1 THEN s[i] ELSE f[i - 1] \o s[i]]
  <2>3. ASSUME NEW i \in 1 .. k
        PROVE  g[i] = IF i = 1 THEN s[i] ELSE g[i - 1] \o s[i]
    <3>1. i \in Int /\ i <= k /\ i >= 1
      OBVIOUS
    <3>2. i # 1 => i - 1 \in 1 .. k /\ i - 1 < k /\ g[i - 1] = f[i - 1]
      BY <1>2, <3>1
    <3>3. CASE i = k
      <4>1. ~(i < k)
        BY <1>2, <3>3
      <4>2. g[i] = IF i = 1 THEN s[i] ELSE f[i - 1] \o s[i]
        BY <4>1, Zenon
      <4> HIDE DEF g
      <4> QED
        BY <3>2, <4>2
    <3>4. CASE i # k
      <4>1. i \in 1 .. k - 1 /\ i < k
        BY <1>2, <3>1, <3>4
      <4>2. f[i] = IF i = 1 THEN s[i] ELSE f[i - 1] \o s[i]
        BY <2>2, <4>1, Zenon DEF Flattens
      <4>3. g[i] = f[i]
        BY <4>1
      <4> HIDE DEF g
      <4> QED
        BY <3>2, <4>2, <4>3
    <3> QED
      BY <3>3, <3>4
  <2>4. Flattens(g, s, k)
    <3> DEFINE h == [i \in 1 .. k |->
                       IF i = 1 THEN s[i] ELSE g[i - 1] \o s[i]]
    <3>1. \A i \in 1 .. k : g[i] = h[i]
      BY <2>3
    <3>2. g = h
      <4>1. DOMAIN g = 1 .. k /\ DOMAIN h = 1 .. k
        OBVIOUS
      <4>2. g \in [1 .. k -> {g[i] : i \in 1 .. k}]
        OBVIOUS
      <4>3. h = [i \in DOMAIN h |-> h[i]] /\ g = [i \in DOMAIN g |-> g[i]]
        OBVIOUS
      <4> HIDE DEF g, h
      <4> QED
        BY <3>1, <4>1, <4>3
    <3> QED
      BY <3>2 DEF Flattens
  <2> QED
    BY <1>2, <2>4
<1> QED
  BY <1>3, <1>4

\* What has been joined depends on the elements so far only.
LEMMA FlattenPrefix ==
  ASSUME NEW f, NEW g, NEW s, NEW t, NEW n \in Nat, NEW m \in Nat, n <= m,
         Flattens(f, s, n), Flattens(g, t, m), \A i \in 1 .. n : s[i] = t[i],
         NEW i \in 1 .. n
  PROVE  f[i] = g[i]
<1> DEFINE T == {k \in 1 .. n : f[k] # g[k]}
<1> SUFFICES ASSUME T # {} PROVE FALSE
  OBVIOUS
<1>1. T \in SUBSET Nat
  OBVIOUS
<1>2. PICK k \in T : \A y \in T : k <= y
  BY <1>1, Least
<1>3. k \in 1 .. n /\ f[k] # g[k] /\ k \in 1 .. m /\ k \in Int
  OBVIOUS
<1>4. /\ f[k] = IF k = 1 THEN s[k] ELSE f[k - 1] \o s[k]
      /\ g[k] = IF k = 1 THEN t[k] ELSE g[k - 1] \o t[k]
  BY <1>3, Zenon DEF Flattens
<1>5. k # 1 => f[k - 1] = g[k - 1]
  <2> SUFFICES ASSUME k # 1 PROVE f[k - 1] = g[k - 1]
    OBVIOUS
  <2>1. k - 1 \in 1 .. n /\ ~(k <= k - 1)
    BY <1>3
  <2>2. k - 1 \notin T
    BY <1>2, <2>1
  <2> QED
    BY <2>1, <2>2
<1>6. s[k] = t[k]
  BY <1>3
<1> QED
  BY <1>3, <1>4, <1>5, <1>6

LEMMA FlattenEmpty == FlattenSeq(<<>>) = <<>>
<1>1. Len(<<>>) = 0
  BY EmptySeq
<1> QED
  BY <1>1, Zenon DEF FlattenSeq

LEMMA FlattenOne ==
  ASSUME NEW s, Len(s) = 1
  PROVE  FlattenSeq(s) = s[1]
<1> DEFINE f == CHOOSE f : Flattens(f, s, 1)
<1>1. Flattens(f, s, 1)
  <2>1. \E g : Flattens(g, s, 1)
    BY FlattenExists
  <2> QED
    BY <2>1
<1>2. FlattenSeq(s) = f[1]
  BY FlattenIs
<1> HIDE DEF f
<1>3. 1 \in 1 .. 1
  OBVIOUS
<1>4. f[1] = s[1]
  BY <1>1, <1>3, Zenon DEF Flattens
<1> QED
  BY <1>2, <1>4

\* One sequence more is joined behind the others.
LEMMA FlattenAppend ==
  ASSUME NEW S, NEW s \in Seq(Seq(S)), NEW e \in Seq(S)
  PROVE  /\ s = <<>> => FlattenSeq(Append(s, e)) = e
         /\ s # <<>> => FlattenSeq(Append(s, e)) = FlattenSeq(s) \o e
<1> DEFINE n == Len(s)
           t == Append(s, e)
<1>1. /\ n \in Nat /\ Len(t) = n + 1 /\ t[n + 1] = e
      /\ \A i \in 1 .. n : s[i] = t[i]
  BY AppendProperties, LenProperties
<1>2. ASSUME s = <<>> PROVE FlattenSeq(t) = e
  <2>1. n = 0
    BY <1>2, EmptySeq
  <2>2. Len(t) = 1 /\ t[1] = e
    BY <1>1, <2>1
  <2> HIDE DEF t
  <2> QED
    BY <2>2, FlattenOne
<1>3. ASSUME s # <<>> PROVE FlattenSeq(t) = FlattenSeq(s) \o e
  <2>1. n # 0
    BY <1>3, EmptySeq
  <2> DEFINE f == CHOOSE f : Flattens(f, s, n)
             g == CHOOSE g : Flattens(g, t, n + 1)
  <2>2. Flattens(f, s, n)
    <3>1. \E h : Flattens(h, s, n)
      BY <1>1, FlattenExists
    <3> QED
      BY <3>1, Zenon
  <2>3. Flattens(g, t, n + 1)
    <3> HIDE DEF t, n
    <3>0. n + 1 \in Nat
      BY <1>1
    <3>1. \E h : Flattens(h, t, n + 1)
      BY <3>0, FlattenExists
    <3> QED
      BY <3>1, Zenon
  <2>4. FlattenSeq(s) = f[n]
    BY <2>1, FlattenIs
  <2>5. FlattenSeq(t) = g[n + 1]
    <3>1. Len(t) # 0
      BY <1>1
    <3>2. FlattenSeq(t) = (CHOOSE h : Flattens(h, t, Len(t)))[Len(t)]
      BY <3>1, FlattenIs
    <3> HIDE DEF t, n
    <3> QED
      BY <1>1, <3>2, Zenon
  <2> HIDE DEF f, g, t, n
  <2>6. f[n] = g[n]
    <3>1. n \in 1 .. n /\ n + 1 \in Nat /\ n <= n + 1
      BY <1>1, <2>1
    <3> QED
      BY <1>1, <2>2, <2>3, <3>1, FlattenPrefix
  <2>7. g[n + 1] = g[n] \o t[n + 1]
    <3>1. n + 1 \in 1 .. n + 1 /\ n + 1 # 1 /\ (n + 1) - 1 = n
      BY <1>1, <2>1
    <3>2. g[n + 1] = IF n + 1 = 1 THEN t[n + 1] ELSE g[(n + 1) - 1] \o t[n + 1]
      BY <2>3, <3>1, Zenon DEF Flattens
    <3> QED
      BY <3>1, <3>2
  <2> QED
    BY <1>1, <2>4, <2>5, <2>6, <2>7
<1> QED
  BY <1>2, <1>3

LEMMA FlattenType ==
  ASSUME NEW S, NEW s \in Seq(Seq(S))
  PROVE  FlattenSeq(s) \in Seq(S)
<1> DEFINE Bad == {n \in Nat : \E t \in Seq(Seq(S)) :
                                 Len(t) = n /\ FlattenSeq(t) \notin Seq(S)}
<1> SUFFICES ASSUME Bad # {} PROVE FALSE
  BY LenProperties
<1>1. PICK n \in Bad : \A m \in Bad : n <= m
  BY Least
<1>2. PICK t \in Seq(Seq(S)) : Len(t) = n /\ FlattenSeq(t) \notin Seq(S)
  BY <1>1
<1>3. t # <<>>
  BY <1>2, FlattenEmpty, EmptySeq
<1>4. PICK u \in Seq(Seq(S)), e \in Seq(S) : t = Append(u, e)
  BY <1>3, SequenceEmptyOrAppend
<1>5. Len(u) \in Nat /\ n = Len(u) + 1
  BY <1>2, <1>4, AppendProperties, LenProperties
<1>6. FlattenSeq(u) \in Seq(S)
  <2>1. ~(n <= Len(u))
    BY <1>5
  <2>2. Len(u) \notin Bad
    BY <1>1, <2>1
  <2> QED
    BY <1>5, <2>2
<1>7. u # <<>> => FlattenSeq(u) \o e \in Seq(S)
  BY <1>6, ConcatProperties
<1> QED
  BY <1>2, <1>4, <1>7, FlattenAppend

-----------------------------------------------------------------------------
(* The events of a line.                                                   *)

AddRunes(sum, part) == sum + part.runes
AllRunes == INSTANCE FoldLemmas WITH Op <- AddRunes, Base <- 0

LEMMA RunesType ==
  ASSUME NEW parts \in Seq(Parts)
  PROVE  Runes(parts) \in Nat
<1>1. \A x \in Nat, part \in Parts : AddRunes(x, part) \in Nat
  BY DEF AddRunes, Parts
<1>2. AllRunes!Folded(parts) \in Nat
  BY <1>1, AllRunes!FoldKeeps
<1>3. AllRunes!Folded(parts) = Runes(parts)
  BY Zenon DEF Runes, AddRunes, FoldLeft, MapThenFoldSet, Max,
     AllRunes!Folded, AllRunes!FoldLeft, AllRunes!MapThenFoldSet, AllRunes!Max
<1> QED
  BY <1>2, <1>3

LEMMA CutType ==
  ASSUME NEW n \in Nat \ {0}
  PROVE  Cut(n) \in Nat \ {0}
BY DetailAssumption DEF Cut, Dots

\* The sequence with one element, or with none.
LEMMA OneOrNone ==
  ASSUME NEW S
  PROVE  <<>> \in Seq(S) /\ \A e \in S : <<e>> \in Seq(S) /\ Len(<<e>>) = 1
                                         /\ <<e>>[1] = e
BY EmptySeq

LEMMA OnlyType ==
  ASSUME NEW parts \in Seq(Parts), NEW kinds
  PROVE  Only(parts, kinds) \in Seq(Parts)
<1> DEFINE e(i) == IF parts[i].part \in kinds THEN <<parts[i]>> ELSE <<>>
<1>1. /\ Len(parts) \in Nat /\ DOMAIN parts = 1 .. Len(parts)
      /\ \A i \in 1 .. Len(parts) : parts[i] \in Parts
  BY LenProperties, ElementOfSeq
<1>2. \A i \in 1 .. Len(parts) : e(i) \in Seq(Parts)
  BY <1>1, OneOrNone
<1>3. [i \in 1 .. Len(parts) |-> e(i)] \in Seq(Seq(Parts))
  <2> HIDE DEF e
  <2> QED
    BY <1>1, <1>2, IsASeq
<1>4. Only(parts, kinds) = FlattenSeq([i \in 1 .. Len(parts) |-> e(i)])
  BY <1>1, Zenon DEF Only
<1> HIDE DEF e
<1> QED
  BY <1>3, <1>4, FlattenType

LEMMA EventType1 ==
  ASSUME NEW kind \in Kinds, NEW runes \in Nat, NEW line \in Lines
  PROVE  /\ Event(kind, runes, line) \in Seq(Events)
         /\ \A i \in 1 .. Len(Event(kind, runes, line)) :
               /\ Event(kind, runes, line)[i].source = line.outer
               /\ Event(kind, runes, line)[i].kind = kind
<1>1. CASE runes = 0
  <2>1. Event(kind, runes, line) = <<>>
    BY <1>1 DEF Event
  <2>2. 1 .. Len(<<>>) = {}
    BY EmptySeq
  <2> QED
    BY <2>1, <2>2, OneOrNone
<1>2. CASE runes # 0
  <2> DEFINE e == [kind |-> kind, content |-> Cut(runes), source |-> line.outer,
                   at |-> line.at]
  <2>1. Event(kind, runes, line) = <<e>>
    BY <1>2 DEF Event
  <2>2. e \in Events
    BY <1>2, CutType DEF Events, Lines
  <2>3. e.source = line.outer /\ e.kind = kind
    OBVIOUS
  <2>4. 1 .. Len(<<e>>) = {1} /\ <<e>>[1] = e /\ <<e>> \in Seq(Events)
    <3> HIDE DEF e
    <3> QED
      BY <2>2, OneOrNone
  <2> HIDE DEF e
  <2> QED
    BY <2>1, <2>3, <2>4
<1> QED
  BY <1>1, <1>2

\* A message of Codex is an event_msg or a response_item.
FromCodex(event) ==
    event.kind \in Messages => event.source \in {"event_msg", "response_item"}

LEMMA CodexEventsType ==
  ASSUME NEW line \in Lines
  PROVE  /\ CodexEvents(line) \in Seq(Events)
         /\ \A i \in 1 .. Len(CodexEvents(line)) : FromCodex(CodexEvents(line)[i])
<1>1. Runes(line.parts) \in Nat
  BY RunesType DEF Lines
<1>2. CASE CodexKind(line) = "none"
  <2>1. CodexEvents(line) = <<>> /\ 1 .. Len(<<>>) = {}
    BY <1>2, EmptySeq DEF CodexEvents
  <2> QED
    BY <2>1, OneOrNone
<1>3. CASE CodexKind(line) # "none"
  <2>1. CodexKind(line) \in Kinds
    BY <1>3 DEF CodexKind, Kinds, Messages
  <2>2. line.outer \in {"event_msg", "response_item"}
    BY <1>3 DEF CodexKind
  <2>3. CodexEvents(line) = Event(CodexKind(line), Runes(line.parts), line)
    BY <1>3 DEF CodexEvents
  <2> QED
    BY <1>1, <2>1, <2>2, <2>3, EventType1 DEF FromCodex
<1> QED
  BY <1>2, <1>3

LEMMA ClaudeEventsType ==
  ASSUME NEW line \in Lines
  PROVE  ClaudeEvents(line) \in Seq(Events)
<1> DEFINE parts == line.parts
           results == Only(parts, {"tool_result"})
<1>1. /\ parts \in Seq(Parts) /\ Len(parts) \in Nat
      /\ DOMAIN parts = 1 .. Len(parts)
      /\ \A i \in 1 .. Len(parts) : parts[i] \in Parts
  BY LenProperties, ElementOfSeq DEF Lines
<1>2. results \in Seq(Parts) /\ Runes(Only(parts, {"text"})) \in Nat
  BY <1>1, OnlyType, RunesType
<1>3. "tool_result" \in Kinds /\ "user_message" \in Kinds
      /\ "assistant_message" \in Kinds /\ "tool_call" \in Kinds
  BY DEF Kinds, Messages
<1>4. CASE line.outer = "user" /\ results # <<>>
  <2>1. Head(results) \in Parts
    <3> HIDE DEF results
    <3> QED
      BY <1>2, <1>4, HeadTailProperties
  <2>2. Head(results).runes \in Nat
    BY <2>1 DEF Parts
  <2>3. ClaudeEvents(line) = Event("tool_result", Head(results).runes, line)
    BY <1>4 DEF ClaudeEvents
  <2> DEFINE runes == Head(results).runes
  <2> HIDE DEF runes
  <2>4. Event("tool_result", runes, line) \in Seq(Events)
    BY <1>3, <2>2, EventType1 DEF runes
  <2> QED
    BY <2>3, <2>4 DEF runes
<1>5. CASE line.outer = "user" /\ results = <<>>
  <2>1. ClaudeEvents(line)
          = Event("user_message", Runes(Only(parts, {"text"})), line)
    BY <1>5 DEF ClaudeEvents
  <2> QED
    BY <1>2, <1>3, <2>1, EventType1
<1>6. CASE line.outer = "assistant"
  <2> DEFINE e(i) == CASE parts[i].part = "text"
                            -> Event("assistant_message", parts[i].runes, line)
                       [] parts[i].part = "tool_use"
                            -> Event("tool_call", 1, line)
                       [] OTHER -> <<>>
  <2>1. ASSUME NEW i \in 1 .. Len(parts) PROVE e(i) \in Seq(Events)
    <3>1. parts[i].runes \in Nat
      BY <1>1 DEF Parts
    <3>2. Event("assistant_message", parts[i].runes, line) \in Seq(Events)
      BY <1>3, <3>1, EventType1
    <3>3. Event("tool_call", 1, line) \in Seq(Events)
      BY <1>3, EventType1
    <3> QED
      BY <3>2, <3>3, OneOrNone
  <2>2. [i \in 1 .. Len(parts) |-> e(i)] \in Seq(Seq(Events))
    <3> HIDE DEF e, parts
    <3> QED
      BY <1>1, <2>1, IsASeq
  <2>3. ClaudeEvents(line) = FlattenSeq([i \in DOMAIN parts |-> e(i)])
    BY <1>6 DEF ClaudeEvents
  <2> HIDE DEF e
  <2> QED
    BY <1>1, <2>2, <2>3, FlattenType
<1>7. CASE line.outer \notin {"user", "assistant"}
  <2>1. ClaudeEvents(line) = <<>>
    BY <1>7 DEF ClaudeEvents
  <2> QED
    BY <2>1, OneOrNone
<1> QED
  BY <1>4, <1>5, <1>6, <1>7

LEMMA GeminiEventsType ==
  ASSUME NEW line \in Lines
  PROVE  GeminiEvents(line) \in Seq(Events)
<1>1. Runes(line.parts) \in Nat
  BY RunesType DEF Lines
<1>2. "user_message" \in Kinds /\ "assistant_message" \in Kinds
  BY DEF Kinds, Messages
<1>3. /\ Event("user_message", Runes(line.parts), line) \in Seq(Events)
      /\ Event("assistant_message", Runes(line.parts), line) \in Seq(Events)
  BY <1>1, <1>2, EventType1
<1> QED
  BY <1>3, OneOrNone DEF GeminiEvents

LEMMA EventsOfType ==
  ASSUME log \in DOMAIN Logs, NEW line \in Lines
  PROVE  /\ EventsOf(line) \in Seq(Events)
         /\ adapter = "codex" =>
               \A i \in 1 .. Len(EventsOf(line)) : FromCodex(EventsOf(line)[i])
<1>1. adapter \in Adapters
  BY DetailAssumption DEF adapter
<1>2. CASE adapter = "codex"
  BY <1>2, CodexEventsType DEF EventsOf
<1>3. CASE adapter = "claude"
  BY <1>3, ClaudeEventsType DEF EventsOf
<1>4. CASE adapter = "gemini"
  BY <1>4, GeminiEventsType DEF EventsOf
<1> QED
  BY <1>1, <1>2, <1>3, <1>4 DEF Adapters

-----------------------------------------------------------------------------
(* The sum of the contents.                                                *)

AddContent(sum, e) == sum + e.content
Contents == INSTANCE FoldLemmas WITH Op <- AddContent, Base <- 0

\* The runes of some events.
Sum(events) == FoldLeft(LAMBDA sum, e : sum + e.content, 0, events)

LEMMA SumIs ==
  ASSUME NEW events
  PROVE  Sum(events) = Contents!Folded(events)
BY Zenon DEF Sum, AddContent, FoldLeft, MapThenFoldSet, Max, Contents!Folded,
   Contents!FoldLeft, Contents!MapThenFoldSet, Contents!Max

LEMMA SumEmpty == Sum(<<>>) = 0
BY SumIs, Contents!FoldEmpty

LEMMA SumAppend ==
  ASSUME NEW s \in Seq(Events), NEW e \in Events
  PROVE  Sum(Append(s, e)) = Sum(s) + e.content
<1>1. Contents!Folded(Append(s, e)) = AddContent(Contents!Folded(s), e)
  BY Contents!FoldAppend
<1> QED
  BY <1>1, SumIs DEF AddContent

LEMMA SumType ==
  ASSUME NEW s \in Seq(Events)
  PROVE  Sum(s) \in Nat
<1>1. \A x \in Nat, e \in Events : AddContent(x, e) \in Nat
  BY DEF AddContent, Events
<1>2. Contents!Folded(s) \in Nat
  BY <1>1, Contents!FoldKeeps
<1> QED
  BY <1>2, SumIs

\* The length of the sequence before its last element was appended.
LEMMA LastApart ==
  ASSUME NEW S, NEW s \in Seq(S), s # <<>>
  PROVE  \E t \in Seq(S), x \in S :
            /\ s = Append(t, x) /\ Len(t) \in Nat /\ Len(s) = Len(t) + 1
            /\ s[Len(s)] = x
            /\ \A i \in 1 .. Len(t) : s[i] = t[i]
BY SequenceEmptyOrAppend, AppendProperties, LenProperties

\* Another event at one place changes the sum by the difference.
LEMMA SumReplace ==
  ASSUME NEW s \in Seq(Events), NEW i \in 1 .. Len(s), NEW e \in Events
  PROVE  Sum([s EXCEPT ![i] = e]) = Sum(s) - s[i].content + e.content
<1> DEFINE Fails(t, j) == Sum([t EXCEPT ![j] = e])
                            # Sum(t) - t[j].content + e.content
           Bad == {n \in Nat : \E t \in Seq(Events) :
                      Len(t) = n /\ \E j \in 1 .. n : Fails(t, j)}
<1> SUFFICES ASSUME Bad # {} PROVE FALSE
  BY LenProperties
<1>1. PICK n \in Bad : \A m \in Bad : n <= m
  BY Least
<1>2. PICK t \in Seq(Events) : Len(t) = n /\ \E j \in 1 .. n : Fails(t, j)
  BY <1>1
<1>3. PICK j \in 1 .. n : Fails(t, j)
  BY <1>2
<1>4. n \in Nat /\ t # <<>> /\ j \in Int
  BY <1>2, <1>3, EmptySeq, LenProperties
<1>5. PICK u \in Seq(Events), x \in Events :
            /\ t = Append(u, x) /\ Len(u) \in Nat /\ Len(t) = Len(u) + 1
            /\ t[Len(t)] = x
            /\ \A i_1 \in 1 .. Len(u) : t[i_1] = u[i_1]
  BY <1>4, LastApart
<1> DEFINE r == [t EXCEPT ![j] = e]
<1>6. /\ r \in Seq(Events) /\ Len(r) = n
      /\ \A k \in 1 .. n : r[k] = IF k = j THEN e ELSE t[k]
  BY <1>2, <1>3, ExceptSeq
<1>7. Sum(t) = Sum(u) + x.content /\ Sum(u) \in Nat
  BY <1>5, SumAppend, SumType
<1>c. x.content \in Nat /\ e.content \in Nat
  BY DEF Events
<1> HIDE DEF r
<1>8. CASE j = n
  <2>1. r = Append(u, e)
    <3>1. /\ Append(u, e) \in Seq(Events) /\ Len(Append(u, e)) = n
          /\ \A k \in 1 .. Len(u) : Append(u, e)[k] = u[k]
          /\ Append(u, e)[n] = e
      BY <1>2, <1>5, AppendProperties
    <3>2. \A k \in 1 .. n : r[k] = Append(u, e)[k]
      <4> SUFFICES ASSUME NEW k \in 1 .. n PROVE r[k] = Append(u, e)[k]
        OBVIOUS
      <4>1. k # n => k \in 1 .. Len(u)
        BY <1>2, <1>4, <1>5
      <4> QED
        BY <1>5, <1>6, <1>8, <3>1, <4>1
    <3> QED
      BY <1>6, <3>1, <3>2, SeqEqual
  <2>2. Sum(r) = Sum(u) + e.content
    BY <2>1, SumAppend
  <2>3. t[j] = x
    BY <1>2, <1>5, <1>8
  <2>4. Sum(r) = Sum(t) - t[j].content + e.content
    BY <1>7, <1>c, <2>2, <2>3
  <2> QED
    BY <1>3, <2>4 DEF r
<1>9. CASE j # n
  <2>1. j \in 1 .. Len(u) /\ Len(u) \notin Bad
    <3>1. j \in 1 .. Len(u) /\ ~(n <= Len(u))
      BY <1>2, <1>3, <1>4, <1>5, <1>9
    <3> QED
      BY <1>1, <3>1
  <2> DEFINE v == [u EXCEPT ![j] = e]
  <2>2. /\ v \in Seq(Events) /\ Len(v) = Len(u)
        /\ \A k \in 1 .. Len(u) : v[k] = IF k = j THEN e ELSE u[k]
    BY <2>1, ExceptSeq
  <2>3. Sum(v) = Sum(u) - u[j].content + e.content
    BY <1>5, <2>1
  <2> HIDE DEF v
  <2>4. r = Append(v, x)
    <3>1. /\ Append(v, x) \in Seq(Events) /\ Len(Append(v, x)) = n
          /\ \A k \in 1 .. Len(u) : Append(v, x)[k] = v[k]
          /\ Append(v, x)[n] = x
      BY <1>2, <1>5, <2>2, AppendProperties
    <3>2. \A k \in 1 .. n : r[k] = Append(v, x)[k]
      <4> SUFFICES ASSUME NEW k \in 1 .. n PROVE r[k] = Append(v, x)[k]
        OBVIOUS
      <4>1. k # n => k \in 1 .. Len(u)
        BY <1>2, <1>4, <1>5
      <4>2. CASE k = n
        BY <1>2, <1>5, <1>6, <1>9, <3>1, <4>2
      <4>3. CASE k # n
        BY <1>5, <1>6, <2>2, <3>1, <4>1, <4>3
      <4> QED
        BY <4>2, <4>3
    <3> QED
      BY <1>6, <3>1, <3>2, SeqEqual
  <2>5. Sum(r) = Sum(v) + x.content
    BY <2>2, <2>4, SumAppend
  <2>6. t[j] = u[j] /\ u[j].content \in Nat
    <3>1. u[j] \in Events
      BY <1>5, <2>1, ElementOfSeq
    <3> QED
      BY <1>5, <2>1, <3>1 DEF Events
  <2>7. Sum(r) = Sum(t) - t[j].content + e.content
    <3> DEFINE a == Sum(u)
               b == u[j].content
               c == x.content
               d == e.content
    <3>1. Sum(r) = (a - b + d) + c /\ Sum(t) = a + c /\ t[j].content = b
      BY <1>7, <2>3, <2>5, <2>6
    <3>2. a \in Nat /\ b \in Nat /\ c \in Nat /\ d \in Nat
      BY <1>7, <1>c, <2>6
    <3> HIDE DEF a, b, c, d
    <3>3. (a - b + d) + c = (a + c) - b + d
      BY <3>2
    <3> QED
      BY <3>1, <3>3 DEF d
  <2> QED
    BY <1>3, <2>7 DEF r
<1> QED
  BY <1>8, <1>9

\* A permutation of the indices.
Permutes(f, n) ==
    /\ f \in [1 .. n -> 1 .. n]
    /\ \A i, j \in 1 .. n : i # j => f[i] # f[j]

Permuted(s, f) == [i \in 1 .. Len(s) |-> s[f[i]]]

LEMMA PermutedType ==
  ASSUME NEW s \in Seq(Events), NEW f, Permutes(f, Len(s))
  PROVE  /\ Permuted(s, f) \in Seq(Events) /\ Len(Permuted(s, f)) = Len(s)
         /\ \A i \in 1 .. Len(s) : Permuted(s, f)[i] = s[f[i]]
<1> DEFINE e(i) == s[f[i]]
<1>1. Len(s) \in Nat /\ \A i \in 1 .. Len(s) : s[i] \in Events
  BY LenProperties, ElementOfSeq
<1>2. \A i \in 1 .. Len(s) : e(i) \in Events
  BY <1>1 DEF Permutes
<1>3. Permuted(s, f) = [i \in 1 .. Len(s) |-> e(i)]
  BY DEF Permuted
<1> HIDE DEF e
<1>4. Permuted(s, f) \in Seq(Events)
  BY <1>1, <1>2, <1>3, IsASeq
<1>5. Len(Permuted(s, f)) = Len(s)
  BY <1>1, <1>3, <1>4, LenProperties
<1> QED
  BY <1>4, <1>5 DEF Permuted

\* The sum does not depend on the order.
LEMMA SumPermuted ==
  ASSUME NEW s \in Seq(Events), NEW f, Permutes(f, Len(s))
  PROVE  Sum(Permuted(s, f)) = Sum(s)
<1> DEFINE Bad == {n \in Nat : \E t \in Seq(Events) :
                      /\ Len(t) = n
                      /\ \E g : Permutes(g, n) /\ Sum(Permuted(t, g)) # Sum(t)}
<1> SUFFICES ASSUME Bad # {} PROVE FALSE
  BY LenProperties
<1>1. PICK n \in Bad : \A m \in Bad : n <= m
  BY Least
<1>2. PICK t \in Seq(Events) :
         /\ Len(t) = n
         /\ \E g : Permutes(g, n) /\ Sum(Permuted(t, g)) # Sum(t)
  BY <1>1
<1>3. PICK g : Permutes(g, n) /\ Sum(Permuted(t, g)) # Sum(t)
  BY <1>2
<1> DEFINE p == Permuted(t, g)
<1>4. /\ p \in Seq(Events) /\ Len(p) = n /\ n \in Nat
      /\ \A i \in 1 .. n : p[i] = t[g[i]]
  BY <1>2, <1>3, PermutedType
<1> HIDE DEF p
<1>5. t # <<>> /\ n # 0
  <2>1. ASSUME n = 0 PROVE FALSE
    <3>1. t = <<>> /\ p = <<>>
      BY <1>2, <1>4, <2>1, EmptySeq
    <3> QED
      BY <1>3, <3>1 DEF p
  <2> QED
    BY <1>2, <2>1, EmptySeq
<1>6. PICK u \in Seq(Events), x \in Events :
            /\ t = Append(u, x) /\ Len(u) \in Nat /\ Len(t) = Len(u) + 1
            /\ t[Len(t)] = x
            /\ \A i_1 \in 1 .. Len(u) : t[i_1] = u[i_1]
  BY <1>5, LastApart
<1>7. PICK q \in Seq(Events), y \in Events :
            /\ p = Append(q, y) /\ Len(q) \in Nat /\ Len(p) = Len(q) + 1
            /\ p[Len(p)] = y
            /\ \A i_1 \in 1 .. Len(q) : p[i_1] = q[i_1]
  BY <1>4, <1>5, EmptySeq, LastApart
<1> DEFINE m == n - 1
           k == g[n]
<1>8. /\ m \in Nat /\ n = m + 1 /\ Len(u) = m /\ Len(q) = m
      /\ m \notin Bad
  <2>1. m \in Nat /\ n = m + 1 /\ ~(n <= m)
    BY <1>4, <1>5
  <2>2. Len(u) = m /\ Len(q) = m
    BY <1>2, <1>4, <1>6, <1>7, <2>1
  <2>3. m \notin Bad
    <3> HIDE DEF m, Bad
    <3> QED
      BY <1>1, <2>1
  <2> QED
    BY <2>1, <2>2, <2>3
<1>9. /\ Sum(t) = Sum(u) + x.content /\ Sum(p) = Sum(q) + y.content
      /\ Sum(u) \in Nat /\ Sum(q) \in Nat
      /\ x.content \in Nat /\ y.content \in Nat
  BY <1>6, <1>7, SumAppend, SumType DEF Events
<1>10. /\ n \in 1 .. n /\ k \in 1 .. n /\ y = t[k]
       /\ \A i \in 1 .. m : i \in 1 .. n /\ i # n /\ g[i] \in 1 .. n /\ g[i] # k
                            /\ q[i] = t[g[i]]
  <2>1. n \in 1 .. n
    BY <1>8
  <2>2. k \in 1 .. n /\ y = t[k]
    BY <1>3, <1>4, <1>7, <2>1 DEF Permutes
  <2>3. ASSUME NEW i \in 1 .. m
        PROVE  i \in 1 .. n /\ i # n /\ g[i] \in 1 .. n /\ g[i] # k
               /\ q[i] = t[g[i]]
    <3>1. i \in 1 .. n /\ i # n
      BY <1>8
    <3>2. g[i] \in 1 .. n /\ g[i] # k
      BY <1>3, <2>1, <3>1 DEF Permutes
    <3>3. q[i] = t[g[i]]
      BY <1>4, <1>7, <1>8, <3>1
    <3> QED
      BY <3>1, <3>2, <3>3
  <2> QED
    BY <2>1, <2>2, <2>3
<1>11. \A v \in Seq(Events) : \A h :
          Len(v) = m /\ Permutes(h, m) => Sum(Permuted(v, h)) = Sum(v)
  BY <1>8
<1> DEFINE h == [i \in 1 .. m |-> IF g[i] = n THEN k ELSE g[i]]
<1> HIDE DEF m, k, Bad
<1>12. Permutes(h, m) /\ \A i \in 1 .. m : h[i] = IF g[i] = n THEN k ELSE g[i]
  <2>1. ASSUME NEW i \in 1 .. m PROVE h[i] \in 1 .. m
    <3>1. g[i] \in 1 .. n /\ g[i] # k
      BY <1>10
    <3>2. CASE g[i] = n
      <4>1. k # n
        BY <3>1, <3>2
      <4> QED
        BY <1>8, <1>10, <3>2, <4>1
    <3>3. CASE g[i] # n
      BY <1>8, <3>1, <3>3
    <3> QED
      BY <3>2, <3>3
  <2>2. ASSUME NEW i \in 1 .. m, NEW j \in 1 .. m, i # j PROVE h[i] # h[j]
    <3>1. g[i] # g[j] /\ g[i] # k /\ g[j] # k
      BY <1>3, <1>10, <2>2 DEF Permutes
    <3> QED
      BY <3>1
  <2>3. h \in [1 .. m -> 1 .. m]
    BY <2>1
  <2> QED
    BY <2>2, <2>3 DEF Permutes
<1> HIDE DEF h
<1>13. CASE k = n
  <2>1. \A i \in 1 .. m : h[i] = g[i] /\ g[i] \in 1 .. m
    <3> SUFFICES ASSUME NEW i \in 1 .. m PROVE h[i] = g[i] /\ g[i] \in 1 .. m
      OBVIOUS
    <3>1. g[i] \in 1 .. n /\ g[i] # n
      BY <1>10, <1>13
    <3> QED
      BY <1>8, <1>12, <3>1
  <2>2. q = Permuted(u, h)
    <3>1. /\ Permuted(u, h) \in Seq(Events) /\ Len(Permuted(u, h)) = m
          /\ \A i \in 1 .. m : Permuted(u, h)[i] = u[h[i]]
      BY <1>8, <1>12, PermutedType
    <3>2. ASSUME NEW i \in 1 .. m PROVE q[i] = Permuted(u, h)[i]
      <4>1. q[i] = t[g[i]] /\ h[i] = g[i] /\ g[i] \in 1 .. m
        BY <1>10, <2>1
      <4>2. t[g[i]] = u[g[i]]
        BY <1>6, <1>8, <4>1
      <4> QED
        BY <3>1, <4>1, <4>2
    <3> QED
      BY <1>8, <3>1, <3>2, SeqEqual
  <2>3. Sum(q) = Sum(u)
    BY <1>8, <1>11, <1>12, <2>2
  <2>4. y = x
    BY <1>2, <1>6, <1>10, <1>13
  <2>5. Sum(p) = Sum(t)
    BY <1>9, <2>3, <2>4
  <2> QED
    BY <1>3, <2>5 DEF p
<1>14. CASE k # n
  <2>1. k \in 1 .. m
    BY <1>8, <1>10, <1>14
  <2> DEFINE v == [u EXCEPT ![k] = x]
  <2>2. /\ v \in Seq(Events) /\ Len(v) = m
        /\ \A i \in 1 .. m : v[i] = IF i = k THEN x ELSE u[i]
    BY <1>8, <2>1, ExceptSeq
  <2>3. Sum(v) = Sum(u) - u[k].content + x.content
    BY <1>8, <2>1, SumReplace
  <2> HIDE DEF v
  <2>4. q = Permuted(v, h)
    <3>1. /\ Permuted(v, h) \in Seq(Events) /\ Len(Permuted(v, h)) = m
          /\ \A i \in 1 .. m : Permuted(v, h)[i] = v[h[i]]
      BY <1>12, <2>2, PermutedType
    <3>2. ASSUME NEW i \in 1 .. m PROVE q[i] = Permuted(v, h)[i]
      <4>1. /\ g[i] \in 1 .. n /\ g[i] # k /\ q[i] = t[g[i]]
            /\ h[i] = IF g[i] = n THEN k ELSE g[i]
        BY <1>10, <1>12
      <4>2. CASE g[i] = n
        BY <1>2, <1>6, <2>1, <2>2, <3>1, <4>1, <4>2
      <4>3. CASE g[i] # n
        <5>1. g[i] \in 1 .. m
          BY <1>8, <4>1, <4>3
        <5> QED
          BY <1>6, <1>8, <2>2, <3>1, <4>1, <4>3, <5>1
      <4> QED
        BY <4>2, <4>3
    <3> QED
      BY <1>8, <3>1, <3>2, SeqEqual
  <2>5. Sum(q) = Sum(v)
    BY <1>11, <1>12, <2>2, <2>4
  <2>6. y = u[k] /\ u[k].content \in Nat
    BY <1>6, <1>8, <1>9, <1>10, <2>1
  <2>7. Sum(p) = Sum(t)
    BY <1>9, <2>3, <2>5, <2>6
  <2> QED
    BY <1>3, <2>7 DEF p
<1> QED
  BY <1>13, <1>14

-----------------------------------------------------------------------------
(* The order of the answer.                                                *)

Earlier(j) == {i \in DOMAIN candidates : Before(i, j)}
Rank(j) == Cardinality(Earlier(j))

\* The answer has the events that were kept, each once.
LEMMA SortedPermutes ==
  ASSUME candidates \in Seq(Events)
  PROVE  \E f : /\ Permutes(f, Len(candidates))
                /\ \A i \in 1 .. Len(candidates) :
                      \E m \in 1 .. Len(candidates) : f[m] = i
                /\ Sorted = Permuted(candidates, f)
<1> DEFINE n == Len(candidates)
<1>1. /\ n \in Nat /\ DOMAIN candidates = 1 .. n
      /\ \A i \in 1 .. n : candidates[i].at \in Nat
  <2>1. n \in Nat /\ DOMAIN candidates = 1 .. n
    BY LenProperties
  <2>2. \A i \in 1 .. n : candidates[i] \in Events
    BY ElementOfSeq
  <2> QED
    BY <2>1, <2>2 DEF Events
<1> HIDE DEF n
<1>2. IsFiniteSet(1 .. n) /\ Cardinality(1 .. n) = n
  BY <1>1, FS_Interval
<1>3. \A i, j \in 1 .. n : Before(i, j) \/ Before(j, i)
  BY <1>1 DEF Before
<1>4. \A i, j \in 1 .. n : i # j => ~(Before(i, j) /\ Before(j, i))
  BY <1>1 DEF Before
<1>5. \A i, j, k \in 1 .. n : Before(i, j) /\ Before(j, k) => Before(i, k)
  <2> SUFFICES ASSUME NEW i \in 1 .. n, NEW j \in 1 .. n, NEW k \in 1 .. n,
                      Before(i, j), Before(j, k)
               PROVE  Before(i, k)
    OBVIOUS
  <2> DEFINE a == candidates[i].at
             b == candidates[j].at
             c == candidates[k].at
  <2>1. /\ a \in Nat /\ b \in Nat /\ c \in Nat
        /\ i \in Int /\ j \in Int /\ k \in Int
    BY <1>1
  <2>2. a < b \/ (a = b /\ i <= j)
    BY DEF Before
  <2>3. b < c \/ (b = c /\ j <= k)
    BY DEF Before
  <2> HIDE DEF a, b, c
  <2>4. a < c \/ (a = c /\ i <= k)
    BY <2>1, <2>2, <2>3
  <2> QED
    BY <2>4 DEF a, c, Before
<1>6. \A j \in 1 .. n : IsFiniteSet(Earlier(j)) /\ Earlier(j) \in SUBSET (1 .. n)
                         /\ j \in Earlier(j)
  <2> SUFFICES ASSUME NEW j \in 1 .. n
               PROVE  IsFiniteSet(Earlier(j)) /\ Earlier(j) \in SUBSET (1 .. n)
                      /\ j \in Earlier(j)
    OBVIOUS
  <2>1. Earlier(j) \in SUBSET (1 .. n) /\ j \in Earlier(j)
    BY <1>1, <1>3 DEF Earlier
  <2> QED
    BY <1>2, <2>1, FS_Subset
<1>7. ASSUME NEW j \in 1 .. n PROVE Rank(j) \in 1 .. n
  <2>1. Rank(j) \in Nat /\ Rank(j) <= n
    BY <1>2, <1>6, FS_Subset, FS_CardinalityType DEF Rank
  <2>2. Rank(j) # 0
    BY <1>6, FS_EmptySet DEF Rank
  <2> QED
    BY <1>1, <2>1, <2>2
<1>8. ASSUME NEW i \in 1 .. n, NEW j \in 1 .. n, i # j, Before(i, j)
      PROVE  Rank(i) # Rank(j)
  <2>1. Earlier(i) \in SUBSET Earlier(j)
    BY <1>1, <1>5, <1>8 DEF Earlier
  <2>2. j \in Earlier(j) /\ j \notin Earlier(i)
    BY <1>4, <1>6, <1>8 DEF Earlier
  <2>3. Earlier(i) # Earlier(j)
    BY <2>2
  <2>4. IsFiniteSet(Earlier(j))
    BY <1>6
  <2> QED
    BY <2>1, <2>3, <2>4, FS_Subset DEF Rank
<1>9. \A i, j \in 1 .. n : i # j => Rank(i) # Rank(j)
  BY <1>3, <1>8
<1> DEFINE rank == [j \in 1 .. n |-> Rank(j)]
<1>10. rank \in Surjection(1 .. n, 1 .. n)
  <2>1. rank \in Injection(1 .. n, 1 .. n)
    BY <1>7, <1>9 DEF Injection, IsInjective
  <2> HIDE DEF rank
  <2> QED
    BY <1>2, <2>1, FS_Injection
<1>11. \A m \in 1 .. n : \E j \in 1 .. n : Rank(j) = m
  BY <1>10 DEF Surjection
<1> DEFINE f == [m \in 1 .. n |-> CHOOSE j \in 1 .. n : Rank(j) = m]
<1>12. \A m \in 1 .. n : f[m] \in 1 .. n /\ Rank(f[m]) = m
  <2> SUFFICES ASSUME NEW m \in 1 .. n PROVE f[m] \in 1 .. n /\ Rank(f[m]) = m
    OBVIOUS
  <2>1. f[m] = CHOOSE j \in 1 .. n : Rank(j) = m
    OBVIOUS
  <2>2. \E j \in 1 .. n : Rank(j) = m
    BY <1>11
  <2> HIDE DEF f
  <2> QED
    BY <2>1, <2>2
<1>13. Sorted = Permuted(candidates, f)
  <2>1. Sorted = [m \in 1 .. n |->
                    candidates[CHOOSE j \in 1 .. n : Rank(j) = m]]
    <3>1. Sorted = [m \in DOMAIN candidates |->
                      candidates[CHOOSE j \in DOMAIN candidates : Rank(j) = m]]
      BY Zenon DEF Sorted, Rank, Earlier
    <3> QED
      BY <1>1, <3>1
  <2>2. \A m \in 1 .. n : f[m] = CHOOSE j \in 1 .. n : Rank(j) = m
    OBVIOUS
  <2>3. Permuted(candidates, f) = [m \in 1 .. n |-> candidates[f[m]]]
    BY DEF Permuted, n
  <2> HIDE DEF f
  <2> QED
    BY <2>1, <2>2, <2>3
<1>14. Permutes(f, n)
  <2>1. f \in [1 .. n -> 1 .. n]
    BY <1>12
  <2> HIDE DEF f
  <2> QED
    BY <1>12, <2>1 DEF Permutes
<1>15. \A i \in 1 .. n : f[Rank(i)] = i /\ Rank(i) \in 1 .. n
  <2> HIDE DEF f
  <2> QED
    BY <1>7, <1>9, <1>12
<1> HIDE DEF f
<1> QED
  BY <1>13, <1>14, <1>15 DEF n

LEMMA SortedType ==
  ASSUME candidates \in Seq(Events)
  PROVE  /\ Sorted \in Seq(Events) /\ Len(Sorted) = Len(candidates)
         /\ Sum(Sorted) = Sum(candidates)
         /\ \A i \in 1 .. Len(candidates) :
               \E m \in 1 .. Len(Sorted) : Sorted[m] = candidates[i]
<1>1. PICK f : /\ Permutes(f, Len(candidates))
               /\ \A i \in 1 .. Len(candidates) :
                     \E m \in 1 .. Len(candidates) : f[m] = i
               /\ Sorted = Permuted(candidates, f)
  BY SortedPermutes
<1>2. /\ Sorted \in Seq(Events) /\ Len(Sorted) = Len(candidates)
      /\ \A m \in 1 .. Len(candidates) : Sorted[m] = candidates[f[m]]
  BY <1>1, PermutedType
<1>3. Sum(Sorted) = Sum(candidates)
  BY <1>1, SumPermuted
<1>4. ASSUME NEW i \in 1 .. Len(candidates)
      PROVE  \E m \in 1 .. Len(Sorted) : Sorted[m] = candidates[i]
  <2>1. PICK m \in 1 .. Len(candidates) : f[m] = i
    BY <1>1
  <2>2. m \in 1 .. Len(Sorted) /\ Sorted[m] = candidates[f[m]]
    BY <1>2
  <2> QED
    BY <2>1, <2>2
<1> QED
  BY <1>2, <1>3, <1>4

-----------------------------------------------------------------------------
(* Types.                                                                  *)

\* A line of the present logs.
LEMMA LineType ==
  ASSUME log \in DOMAIN Logs, NEW line \in Logs[log].lines
  PROVE  line \in Lines /\ line.at <= Now /\ line.at \in Nat /\ Now \in Nat
BY DetailAssumption DEF Lines

LEMMA RowType ==
  ASSUME log \in DOMAIN Logs, row \in Rows, NEW line \in Lines
  PROVE  RowAfter(line) \in Rows
<1>0. line.at \in Nat /\ Now \in Nat
  BY DetailAssumption DEF Lines
<1>1. adapter \in Adapters
  BY DetailAssumption DEF adapter
<1>2. CASE line.outer = "unreadable"
  BY <1>0, <1>2 DEF RowAfter, Unreadable, Rows
<1>3. CASE line.outer # "unreadable" /\ adapter = "codex"
  <2>1. [row EXCEPT !.at = line.at] \in Rows
    BY <1>0 DEF Rows
  <2>2. ASSUME NEW r \in Rows, NEW type PROVE Told(r, type) \in Rows
    <3>1. Finished(r) \in {"none", "running", "finished"}
      BY DEF Finished, Rows
    <3>2. /\ [r EXCEPT !.status = "active"] \in Rows
          /\ [r EXCEPT !.status = "completed"] \in Rows
          /\ [r EXCEPT !.status = "aborted"] \in Rows
          /\ [r EXCEPT !.status = "idle"] \in Rows
          /\ [r EXCEPT !.status = "active", !.tool = "running"] \in Rows
          /\ [r EXCEPT !.tool = Finished(r)] \in Rows
      BY <3>1 DEF Rows
    <3> QED
      BY <3>2 DEF Told
  <2>3. CodexRow(row, line, continued) \in Rows
    BY <2>1, <2>2 DEF CodexRow
  <2>4. RowAfter(line) = CodexRow(row, line, continued)
    BY <1>3 DEF RowAfter
  <2> QED
    BY <2>3, <2>4
<1>4. CASE line.outer # "unreadable" /\ adapter = "claude"
  <2> DEFINE next == [row EXCEPT !.at = line.at]
             tool == IF Has(line, "tool_result") THEN Finished(row) ELSE next.tool
  <2>1. next \in Rows /\ next.tool = row.tool
    BY <1>0 DEF Rows
  <2>2. tool \in {"none", "running", "finished"}
    BY <2>1 DEF Finished, Rows
  <2> HIDE DEF next, tool
  <2>3. /\ [next EXCEPT !.status = "active", !.tool = tool] \in Rows
        /\ [next EXCEPT !.status = "active", !.tool = "running"] \in Rows
        /\ [next EXCEPT !.status = "idle"] \in Rows
        /\ [next EXCEPT !.status = "aborted"] \in Rows
    BY <2>1, <2>2 DEF Rows
  <2>4. ClaudeRow(row, line) \in
          {[next EXCEPT !.status = "active", !.tool = tool],
           [next EXCEPT !.status = "active", !.tool = "running"],
           [next EXCEPT !.status = "idle"], [next EXCEPT !.status = "aborted"],
           next}
    BY DEF ClaudeRow, next, tool
  <2>5. RowAfter(line) = ClaudeRow(row, line)
    BY <1>4 DEF RowAfter
  <2> QED
    BY <2>1, <2>3, <2>4, <2>5
<1>5. CASE line.outer # "unreadable" /\ adapter = "gemini"
  <2>1. GeminiRow(row, line) \in Rows
    BY <1>0 DEF GeminiRow, Rows
  <2>2. RowAfter(line) = GeminiRow(row, line)
    BY <1>5 DEF RowAfter
  <2> QED
    BY <2>1, <2>2
<1> QED
  BY <1>1, <1>2, <1>3, <1>4, <1>5 DEF Adapters

\* In the detail of a Codex session every message has one of two sources.
Sourced(events) ==
    adapter = "codex" => \A i \in 1 .. Len(events) : FromCodex(events[i])

TypesInv == TypeOK /\ Sourced(queue) /\ Sourced(candidates)

LEMMA InitTypes == Init => TypesInv
<1> SUFFICES ASSUME Init PROVE TypesInv
  OBVIOUS
<1>1. <<>> \in Seq(Events) /\ <<>> \in Seq(Lines) /\ Len(<<>>) = 0
  BY EmptySeq
<1>2. 1 .. Len(<<>>) = {}
  BY <1>1
<1>3. RuneLimit \in Nat
  BY DetailAssumption
<1>4. NewRow(Logs[log].adapter) \in Rows
  BY DEF NewRow, Rows
<1>5. 0 \in 0 .. Len(<<>>) /\ 0 \in 0 .. RuneLimit
  BY <1>1, <1>3
<1>6. TypeOK
  BY <1>1, <1>4, <1>5 DEF Init, TypeOK
<1>7. Sourced(queue) /\ Sourced(candidates)
  BY <1>2 DEF Init, Sourced
<1> QED
  BY <1>6, <1>7 DEF TypesInv

\* The last of the events that may be replaced.
LEMMA LastDuplicate ==
  ASSUME candidates \in Seq(Events), NEW event, Duplicates(event) # {}
  PROVE  LET k == Max(Duplicates(event)) IN
         /\ adapter = "codex" /\ k \in 1 .. Len(candidates)
         /\ SameMessage(candidates[k], event) /\ candidates[k] \in Events
<1>1. /\ Len(candidates) \in Nat /\ DOMAIN candidates = 1 .. Len(candidates)
      /\ \A i \in 1 .. Len(candidates) : candidates[i] \in Events
  BY LenProperties, ElementOfSeq
<1>2. adapter = "codex"
  BY DEF Duplicates
<1>3. Duplicates(event)
        = {i \in DOMAIN candidates : SameMessage(candidates[i], event)}
  BY <1>2 DEF Duplicates
<1>4. Duplicates(event) \in SUBSET (1 .. Len(candidates))
  BY <1>1, <1>3
<1>5. Numbers!Max(Duplicates(event)) \in Duplicates(event)
  BY <1>1, <1>4, Numbers!LargestIndex
<1>6. Max(Duplicates(event)) = Numbers!Max(Duplicates(event))
  BY Zenon DEF Max, Numbers!Max
<1> QED
  BY <1>1, <1>2, <1>3, <1>5, <1>6

\* Taking an event leaves the one that was replaced, if any, at its place.
LEMMA MergeType ==
  ASSUME candidates \in Seq(Events), NEW event \in Events, Merge(event)
  PROVE  /\ adapter = "codex"
         /\ candidates' \in Seq(Events) /\ Len(candidates') = Len(candidates)
         /\ Sum(candidates') = Sum(candidates)
         /\ \E k \in 1 .. Len(candidates) :
               /\ SameMessage(candidates[k], event) /\ candidates[k] \in Events
               /\ \A i \in 1 .. Len(candidates) :
                     candidates'[i] = IF i = k /\ event.source = "event_msg"
                                      THEN event ELSE candidates[i]
<1> DEFINE k == Max(Duplicates(event))
           c == candidates[k].content
<1>1. /\ adapter = "codex" /\ k \in 1 .. Len(candidates)
      /\ SameMessage(candidates[k], event) /\ candidates[k] \in Events
  BY LastDuplicate DEF Merge
<1>2. candidates' = IF event.source = "event_msg"
                    THEN [candidates EXCEPT ![k] = event] ELSE candidates
  BY DEF Merge, ReplaceAt
<1> HIDE DEF k
<1>3. /\ [candidates EXCEPT ![k] = event] \in Seq(Events)
      /\ Len([candidates EXCEPT ![k] = event]) = Len(candidates)
      /\ \A i \in 1 .. Len(candidates) :
            [candidates EXCEPT ![k] = event][i]
               = IF i = k THEN event ELSE candidates[i]
  BY <1>1, ExceptSeq
<1>4. Sum([candidates EXCEPT ![k] = event]) = Sum(candidates)
  <2>1. Sum([candidates EXCEPT ![k] = event]) = Sum(candidates) - c + event.content
    BY <1>1, SumReplace
  <2>2. c = event.content /\ c \in Nat /\ Sum(candidates) \in Nat
    BY <1>1, SumType DEF SameMessage, Events
  <2> HIDE DEF c
  <2> QED
    BY <2>1, <2>2
<1>5. CASE event.source = "event_msg"
  <2>1. candidates' = [candidates EXCEPT ![k] = event]
    BY <1>2, <1>5
  <2> QED
    BY <1>1, <1>3, <1>4, <1>5, <2>1
<1>6. CASE event.source # "event_msg"
  <2>1. candidates' = candidates
    BY <1>2, <1>6
  <2> QED
    BY <1>1, <1>6, <2>1
<1> QED
  BY <1>5, <1>6

LEMMA KeepType ==
  ASSUME candidates \in Seq(Events), NEW event \in Events, Keep(event)
  PROVE  /\ candidates' \in Seq(Events)
         /\ Len(candidates') = Len(candidates) + 1
         /\ candidates'[Len(candidates) + 1] = event
         /\ \A i \in 1 .. Len(candidates) : candidates'[i] = candidates[i]
         /\ Sum(candidates') = Sum(candidates) + event.content
BY AppendProperties, SumAppend DEF Keep

LEMMA TypesStep == TypesInv /\ [Next]_vars => TypesInv'
<1> SUFFICES ASSUME TypesInv, [Next]_vars PROVE TypesInv'
  OBVIOUS
<1>0. /\ TypeOK /\ RuneLimit \in Nat
      /\ queue \in Seq(Events) /\ candidates \in Seq(Events)
      /\ Len(read) \in Nat /\ read \in Seq(Lines)
  BY DetailAssumption, LenProperties DEF TypesInv, TypeOK
<1>1. ASSUME NEW line \in Logs[log].lines, Read(line) PROVE TypesInv'
  <2>1. line \in Lines
    BY <1>0, LineType DEF TypeOK
  <2>2. RowAfter(line) \in Rows
    BY <1>0, <2>1, RowType DEF TypeOK
  <2>3. /\ EventsOf(line) \in Seq(Events)
        /\ adapter = "codex" =>
              \A i \in 1 .. Len(EventsOf(line)) : FromCodex(EventsOf(line)[i])
    BY <1>0, <2>1, EventsOfType DEF TypeOK
  <2>4. Append(read, line) \in Seq(Lines) /\ Len(Append(read, line)) = Len(read) + 1
    BY <1>0, <2>1, AppendProperties
  <2>5. own' \in 0 .. Len(read')
    <3>1. own \in 0 .. Len(read) /\ own' \in {own, own + 1}
          /\ Len(read') = Len(read) + 1
      BY <1>0, <1>1, <2>4 DEF Read, TypeOK
    <3> QED
      BY <1>0, <3>1
  <2>6. TypeOK'
    BY <1>0, <1>1, <2>2, <2>3, <2>4, <2>5 DEF Read, TypeOK, view
  <2>7. queue' = EventsOf(line) /\ candidates' = candidates /\ adapter' = adapter
    BY <1>1 DEF Read, view, adapter
  <2>8. Sourced(queue)' /\ Sourced(candidates)'
    BY <2>3, <2>7 DEF TypesInv, Sourced
  <2> QED
    BY <2>6, <2>8 DEF TypesInv
<1>2. ASSUME NEW at \in Logs[log].resumed, ReadContinuation(at) PROVE TypesInv'
  <2>1. at \in Nat
    BY <1>0, DetailAssumption DEF TypeOK
  <2>2. Continued(row, at) \in Rows
    BY <1>0, <2>1 DEF Continued, Rows, TypeOK
  <2>3. TypeOK'
    BY <1>0, <1>2, <2>1, <2>2 DEF ReadContinuation, TypeOK, view
  <2>4. UNCHANGED <<queue, candidates, adapter>>
    BY <1>2 DEF ReadContinuation, view, adapter
  <2> QED
    BY <2>3, <2>4 DEF TypesInv, Sourced
<1>3. CASE Take
  <2>1. /\ Head(queue) \in Events /\ Tail(queue) \in Seq(Events)
        /\ Len(Tail(queue)) = Len(queue) - 1 /\ Len(queue) \in Nat \ {0}
        /\ \A i \in 1 .. Len(Tail(queue)) : Tail(queue)[i] = queue[i + 1]
        /\ Head(queue) = queue[1]
    BY <1>0, <1>3, HeadTailProperties, EmptySeq DEF Take
  <2>2. UNCHANGED <<log, read, own, began, row, phase, adapter>>
        /\ queue' = Tail(queue)
    BY <1>3 DEF Take, position, adapter
  <2>3. Sourced(queue)'
    <3>1. \A i \in 1 .. Len(Tail(queue)) : i + 1 \in 1 .. Len(queue)
      BY <2>1
    <3> QED
      BY <2>1, <2>2, <3>1 DEF TypesInv, Sourced
  <2>4. adapter = "codex" => FromCodex(Head(queue))
    <3>1. 1 \in 1 .. Len(queue)
      BY <2>1
    <3> QED
      BY <2>1, <3>1 DEF TypesInv, Sourced
  <2>5. CASE Merge(Head(queue))
    <3>1. candidates' \in Seq(Events) /\ Len(candidates') = Len(candidates)
          /\ adapter = "codex"
      BY <1>0, <2>1, <2>5, MergeType
    <3>2. Sourced(candidates)'
      <4>1. \E k \in 1 .. Len(candidates) :
               \A i \in 1 .. Len(candidates) :
                 candidates'[i] = IF i = k /\ Head(queue).source = "event_msg"
                                  THEN Head(queue) ELSE candidates[i]
        BY <1>0, <2>1, <2>5, MergeType
      <4>2. \A i \in 1 .. Len(candidates) : candidates'[i] \in {Head(queue),
                                                              candidates[i]}
        BY <4>1
      <4> QED
        BY <2>2, <2>4, <3>1, <4>2 DEF TypesInv, Sourced
    <3>3. UNCHANGED <<totalRunes, truncated>>
      BY <2>5 DEF Merge
    <3> QED
      BY <1>0, <2>1, <2>2, <2>3, <3>1, <3>2, <3>3 DEF TypesInv, TypeOK
  <2>6. CASE Keep(Head(queue))
    <3>1. /\ candidates' \in Seq(Events) /\ Len(candidates') = Len(candidates) + 1
          /\ candidates'[Len(candidates) + 1] = Head(queue)
          /\ \A i \in 1 .. Len(candidates) : candidates'[i] = candidates[i]
      BY <1>0, <2>1, <2>6, KeepType
    <3>2. Sourced(candidates)'
      <4>1. Len(candidates) \in Nat
        BY <1>0, LenProperties
      <4>2. \A i \in 1 .. Len(candidates) + 1 :
               i \in 1 .. Len(candidates) \/ i = Len(candidates) + 1
        BY <4>1
      <4> QED
        BY <2>2, <2>4, <3>1, <4>2 DEF TypesInv, Sourced
    <3>3. totalRunes' \in 0 .. RuneLimit /\ truncated' = truncated
      <4>1. totalRunes' = totalRunes + Head(queue).content
            /\ totalRunes + Head(queue).content <= RuneLimit
            /\ truncated' = truncated
        BY <2>6 DEF Keep, Fits
      <4>2. Head(queue).content \in Nat /\ totalRunes \in 0 .. RuneLimit
        BY <1>0, <2>1 DEF Events, TypeOK
      <4> QED
        BY <1>0, <4>1, <4>2
    <3> QED
      BY <1>0, <2>1, <2>2, <2>3, <3>1, <3>2, <3>3 DEF TypesInv, TypeOK
  <2>7. CASE Drop(Head(queue))
    <3>1. UNCHANGED <<candidates, totalRunes>> /\ truncated' = TRUE
      BY <2>7 DEF Drop
    <3> QED
      BY <1>0, <2>1, <2>2, <2>3, <3>1 DEF TypesInv, TypeOK, Sourced
  <2> QED
    BY <1>3, <2>5, <2>6, <2>7 DEF Take
<1>4. CASE Fail
  <2>1. /\ UNCHANGED <<log, read, own, began, row, queue, totalRunes, truncated,
                        adapter>>
        /\ phase' = "failed" /\ candidates' = <<>>
    BY <1>4 DEF Fail, position, adapter
  <2>2. <<>> \in Seq(Events) /\ 1 .. Len(<<>>) = {}
    BY EmptySeq
  <2> QED
    BY <1>0, <2>1, <2>2 DEF TypesInv, TypeOK, Sourced
<1>5. CASE Answer
  <2>1. /\ UNCHANGED <<log, read, own, began, row, queue, totalRunes, truncated,
                        adapter>>
        /\ phase' = "answered" /\ candidates' = Sorted
    BY <1>5 DEF Answer, position, adapter
  <2>2. PICK f : Permutes(f, Len(candidates)) /\ Sorted = Permuted(candidates, f)
    BY <1>0, SortedPermutes
  <2>3. /\ candidates' \in Seq(Events) /\ Len(candidates') = Len(candidates)
        /\ \A i \in 1 .. Len(candidates) :
              candidates'[i] = candidates[f[i]] /\ f[i] \in 1 .. Len(candidates)
    <3>1. /\ Permuted(candidates, f) \in Seq(Events)
          /\ Len(Permuted(candidates, f)) = Len(candidates)
          /\ \A i \in 1 .. Len(candidates) :
                Permuted(candidates, f)[i] = candidates[f[i]]
      BY <1>0, <2>2, PermutedType
    <3>2. \A i \in 1 .. Len(candidates) : f[i] \in 1 .. Len(candidates)
      BY <2>2 DEF Permutes
    <3> QED
      BY <2>1, <2>2, <3>1, <3>2
  <2> QED
    BY <1>0, <2>1, <2>3 DEF TypesInv, TypeOK, Sourced
<1>6. CASE UNCHANGED vars
  BY <1>6 DEF vars, position, view, TypesInv, TypeOK, Sourced, adapter
<1> QED
  BY <1>1, <1>2, <1>3, <1>4, <1>5, <1>6 DEF Next

LEMMA TypesAlways == Spec => []TypesInv
BY InitTypes, TypesStep, PTL DEF Spec

\* Every variable keeps its type, for all logs and all limits.
THEOREM DetailTypes == Spec => []TypeOK
<1>1. TypesInv => TypeOK
  BY DEF TypesInv
<1> QED
  BY <1>1, TypesAlways, PTL

-----------------------------------------------------------------------------
(* The limits.                                                             *)

Limited ==
    phase # "failed" =>
       /\ Len(candidates) <= EventLimit /\ Sum(candidates) = totalRunes
       /\ totalRunes <= RuneLimit

LEMMA LimitStep == TypesInv /\ Limited /\ [Next]_vars => Limited'
<1> SUFFICES ASSUME TypesInv, Limited, [Next]_vars PROVE Limited'
  OBVIOUS
<1>0. /\ queue \in Seq(Events) /\ candidates \in Seq(Events)
      /\ EventLimit \in Nat /\ totalRunes \in Nat
      /\ Len(candidates) \in Nat
  BY DetailAssumption, LenProperties DEF TypesInv, TypeOK
<1>1. CASE \/ \E line \in Logs[log].lines : Read(line)
           \/ \E at \in Logs[log].resumed : ReadContinuation(at)
           \/ UNCHANGED vars
  <2>1. UNCHANGED <<candidates, totalRunes, phase>>
    BY <1>1 DEF Read, ReadContinuation, vars, view
  <2> QED
    BY <2>1 DEF Limited
<1>2. CASE Take
  <2>1. Head(queue) \in Events
    BY <1>0, <1>2, HeadTailProperties DEF Take
  <2>2. phase = "reading" /\ phase' = phase
    BY <1>2 DEF Take
  <2>3. CASE Merge(Head(queue))
    BY <1>0, <2>1, <2>2, <2>3, MergeType DEF Limited, Merge
  <2>4. CASE Keep(Head(queue))
    <3>1. /\ Len(candidates') = Len(candidates) + 1
          /\ Sum(candidates') = Sum(candidates) + Head(queue).content
      BY <1>0, <2>1, <2>4, KeepType
    <3>2. /\ Len(candidates) < EventLimit
          /\ totalRunes' = totalRunes + Head(queue).content
          /\ totalRunes' <= RuneLimit
      BY <2>4 DEF Keep, Fits
    <3> QED
      BY <1>0, <2>2, <3>1, <3>2 DEF Limited
  <2>5. CASE Drop(Head(queue))
    BY <2>2, <2>5 DEF Limited, Drop
  <2> QED
    BY <1>2, <2>3, <2>4, <2>5 DEF Take
<1>3. CASE Fail
  BY <1>3 DEF Fail, Limited
<1>4. CASE Answer
  BY <1>0, <1>4, SortedType DEF Answer, Limited
<1> QED
  BY <1>1, <1>2, <1>3, <1>4 DEF Next

\* What View details shows respects the limits of events and runes, and neither
\* is spent on what is not shown, however events replace each other and
\* whatever order they are sorted into.
THEOREM LimitsHold == Spec => []LimitsKept
<1>1. Init => Limited
  <2> SUFFICES ASSUME Init PROVE Limited
    OBVIOUS
  <2>1. candidates = <<>> /\ totalRunes = 0 /\ Len(<<>>) = 0
        /\ EventLimit \in Nat /\ RuneLimit \in Nat
    BY DetailAssumption, EmptySeq DEF Init
  <2> QED
    BY <2>1, SumEmpty DEF Limited
<1>2. Limited => LimitsKept
  BY Zenon DEF Limited, LimitsKept, Sum
<1> QED
  BY <1>1, <1>2, TypesAlways, LimitStep, PTL DEF Spec

-----------------------------------------------------------------------------
(* Nothing is forgotten.                                                   *)

\* The events of a line and of the lines read do not depend on what changes.
LEMMA EventsStay ==
  ASSUME log' = log
  PROVE  \A line : EventsOf(line)' = EventsOf(line)
<1>1. adapter' = adapter
  BY DEF adapter
<1> SUFFICES ASSUME NEW line PROVE EventsOf(line)' = EventsOf(line)
  OBVIOUS
<1>2. \A n : Cut(n)' = Cut(n)
  BY <1>1 DEF Cut
<1>3. \A kind, runes : Event(kind, runes, line)' = Event(kind, runes, line)
  BY <1>2 DEF Event
<1>4. CodexEvents(line)' = CodexEvents(line)
  BY <1>3 DEF CodexEvents
<1>5. ClaudeEvents(line)' = ClaudeEvents(line)
  BY <1>3, Zenon DEF ClaudeEvents
<1>6. GeminiEvents(line)' = GeminiEvents(line)
  BY <1>3 DEF GeminiEvents
<1> QED
  BY <1>1, <1>4, <1>5, <1>6 DEF EventsOf

LEMMA AllType ==
  ASSUME log \in DOMAIN Logs, read \in Seq(Lines)
  PROVE  /\ [i \in DOMAIN read |-> EventsOf(read[i])] \in Seq(Seq(Events))
         /\ AllEvents \in Seq(Events)
<1> DEFINE e(i) == EventsOf(read[i])
<1>1. /\ Len(read) \in Nat /\ DOMAIN read = 1 .. Len(read)
      /\ \A i \in 1 .. Len(read) : read[i] \in Lines
  BY LenProperties, ElementOfSeq
<1>2. \A i \in 1 .. Len(read) : e(i) \in Seq(Events)
  BY <1>1, EventsOfType
<1>3. AllEvents = FlattenSeq([i \in DOMAIN read |-> e(i)])
  BY DEF AllEvents
<1> HIDE DEF e
<1>4. [i \in 1 .. Len(read) |-> e(i)] \in Seq(Seq(Events))
  BY <1>1, <1>2, IsASeq
<1>5. AllEvents \in Seq(Events)
  BY <1>1, <1>3, <1>4, FlattenType
<1> QED
  BY <1>1, <1>4, <1>5 DEF e

LEMMA AllStays ==
  ASSUME UNCHANGED <<log, read>>
  PROVE  AllEvents' = AllEvents
<1>1. \A line : EventsOf(line)' = EventsOf(line)
  BY EventsStay
<1>2. [i \in DOMAIN read |-> EventsOf(read[i])]'
        = [i \in DOMAIN read |-> EventsOf(read[i])]
  BY <1>1
<1> QED
  BY <1>2 DEF AllEvents

\* A line's events come behind those of the lines before it.
LEMMA AllRead ==
  ASSUME log \in DOMAIN Logs, read \in Seq(Lines), NEW line \in Lines,
         log' = log, read' = Append(read, line)
  PROVE  AllEvents' = AllEvents \o EventsOf(line)
<1> DEFINE s == [i \in DOMAIN read |-> EventsOf(read[i])]
           t == [i \in DOMAIN read' |-> EventsOf(read'[i])]
<1>1. s \in Seq(Seq(Events)) /\ AllEvents \in Seq(Events)
      /\ EventsOf(line) \in Seq(Events)
  BY AllType, EventsOfType
<1>2. AllEvents' = FlattenSeq(t)
  <2>1. \A l : EventsOf(l)' = EventsOf(l)
    BY EventsStay
  <2>2. AllEvents' = FlattenSeq([i \in DOMAIN read |-> EventsOf(read[i])]')
    BY DEF AllEvents
  <2>3. [i \in DOMAIN read |-> EventsOf(read[i])]' = t
    BY <2>1
  <2> HIDE DEF t
  <2> QED
    BY <2>2, <2>3
<1>3. t = Append(s, EventsOf(line))
  <2>1. /\ Len(read) \in Nat /\ DOMAIN read = 1 .. Len(read)
        /\ Len(read') = Len(read) + 1 /\ DOMAIN read' = 1 .. Len(read) + 1
        /\ read'[Len(read) + 1] = line
        /\ \A i \in 1 .. Len(read) : read'[i] = read[i]
    BY AppendProperties, LenProperties
  <2>2. DOMAIN s = 1 .. Len(read) /\ Len(s) = Len(read)
    <3>1. DOMAIN s = 1 .. Len(read)
      BY <2>1
    <3> HIDE DEF s
    <3>2. DOMAIN s = 1 .. Len(s) /\ Len(s) \in Nat
      BY <1>1, LenProperties
    <3> QED
      BY <2>1, <3>1, <3>2
  <2>3. \A i \in 1 .. Len(read) : s[i] = EventsOf(read[i])
    BY <2>1
  <2> DEFINE a == Append(s, EventsOf(line))
  <2>4. /\ a \in Seq(Seq(Events)) /\ Len(a) = Len(read) + 1
        /\ a[Len(read) + 1] = EventsOf(line)
        /\ \A i \in 1 .. Len(read) : a[i] = s[i]
    <3> HIDE DEF s
    <3> QED
      BY <1>1, <2>2, AppendProperties
  <2>5. DOMAIN a = 1 .. Len(read) + 1
    <3> HIDE DEF a
    <3> QED
      BY <2>4, LenProperties
  <2>6. DOMAIN t = 1 .. Len(read) + 1
        /\ \A i \in 1 .. Len(read) + 1 : t[i] = EventsOf(read'[i])
    BY <2>1
  <2>7. \A i \in 1 .. Len(read) + 1 : t[i] = a[i]
    <3> HIDE DEF s, t, a
    <3> SUFFICES ASSUME NEW i \in 1 .. Len(read) + 1 PROVE t[i] = a[i]
      OBVIOUS
    <3>1. CASE i \in 1 .. Len(read)
      <4>1. t[i] = EventsOf(read[i])
        BY <2>1, <2>6, <3>1
      <4> QED
        BY <2>3, <2>4, <3>1, <4>1
    <3>2. CASE i = Len(read) + 1
      BY <2>1, <2>4, <2>6, <3>2
    <3>3. i \in 1 .. Len(read) \/ i = Len(read) + 1
      BY <2>1
    <3> QED
      BY <3>1, <3>2, <3>3
  <2>8. t = [i \in DOMAIN t |-> t[i]] /\ a = [i \in DOMAIN a |-> a[i]]
    <3>1. t = [i \in DOMAIN t |-> t[i]]
      OBVIOUS
    <3>2. a = [i \in DOMAIN a |-> a[i]]
      <4> HIDE DEF a
      <4> QED
        BY <2>4, LenProperties
    <3> QED
      BY <3>1, <3>2
  <2> HIDE DEF s, t, a
  <2>9. t = a
    BY <2>5, <2>6, <2>7, <2>8
  <2> QED
    BY <2>9 DEF a
<1>4. AllEvents = FlattenSeq(s)
  BY DEF AllEvents
<1> HIDE DEF s, t
<1>5. CASE s = <<>>
  <2>1. AllEvents = <<>>
    BY <1>4, <1>5, FlattenEmpty
  <2>2. <<>> \o EventsOf(line) = EventsOf(line)
    BY <1>1, ConcatEmptySeq
  <2>3. FlattenSeq(t) = EventsOf(line)
    BY <1>1, <1>3, <1>5, FlattenAppend
  <2> QED
    BY <1>2, <2>1, <2>2, <2>3
<1>6. CASE s # <<>>
  BY <1>1, <1>2, <1>3, <1>4, <1>6, FlattenAppend
<1> QED
  BY <1>5, <1>6

\* shown is event, or has replaced it or been kept before it: as an event_msg,
\* in place of a response_item.  (Unlike Stands this tells which of the two
\* representations is shown, so that what is replaced has replaced nothing.)
Shows(shown, event) ==
    \/ shown = event
    \/ /\ adapter = "codex" /\ event.kind \in Messages
       /\ shown.kind = event.kind /\ shown.content = event.content
       /\ shown.source = "event_msg" /\ event.source = "response_item"
       /\ shown.at - event.at \in -Window .. Window

\* The queue is the end of all events, and what is before it is shown.
Queued ==
    /\ Len(queue) <= Len(AllEvents)
    /\ \A k \in 1 .. Len(queue) :
          queue[k] = AllEvents[(Len(AllEvents) - Len(queue)) + k]

Shown ==
    truncated \/ phase = "failed" \/
       \A i \in 1 .. Len(AllEvents) - Len(queue) :
          \E j \in 1 .. Len(candidates) : Shows(candidates[j], AllEvents[i])

LEMMA QueuedStep == TypesInv /\ Queued /\ [Next]_vars => Queued'
<1> SUFFICES ASSUME TypesInv, Queued, [Next]_vars PROVE Queued'
  OBVIOUS
<1> DEFINE all == AllEvents
           n == Len(queue)
           m == Len(all)
<1>0. /\ log \in DOMAIN Logs /\ read \in Seq(Lines)
      /\ queue \in Seq(Events) /\ all \in Seq(Events)
      /\ n \in Nat /\ m \in Nat
  BY AllType, LenProperties DEF TypesInv, TypeOK
<1>1. ASSUME NEW line \in Logs[log].lines, Read(line) PROVE Queued'
  <2>1. line \in Lines
    BY <1>0, LineType
  <2> DEFINE e == EventsOf(line)
  <2>2. /\ queue = <<>> /\ queue' = e /\ log' = log
        /\ read' = Append(read, line)
    BY <1>1 DEF Read
  <2>3. AllEvents' = all \o e
    BY <1>0, <2>1, <2>2, AllRead
  <2>4. e \in Seq(Events) /\ Len(e) \in Nat
    BY <1>0, <2>1, EventsOfType, LenProperties
  <2> HIDE DEF e, all
  <2>5. /\ Len(all \o e) = m + Len(e)
        /\ \A i \in 1 .. m + Len(e) :
              (all \o e)[i] = IF i <= m THEN all[i] ELSE e[i - m]
    BY <1>0, <2>4, ConcatProperties
  <2>6. \A k \in 1 .. Len(e) : (all \o e)[(Len(all \o e) - Len(e)) + k] = e[k]
    <3> SUFFICES ASSUME NEW k \in 1 .. Len(e)
                 PROVE  (all \o e)[(Len(all \o e) - Len(e)) + k] = e[k]
      OBVIOUS
    <3>1. /\ (Len(all \o e) - Len(e)) + k = m + k
          /\ m + k \in 1 .. m + Len(e) /\ ~(m + k <= m) /\ (m + k) - m = k
      BY <1>0, <2>4, <2>5
    <3> QED
      BY <2>5, <3>1
  <2>7. Len(e) <= Len(all \o e)
    BY <1>0, <2>4, <2>5
  <2> QED
    BY <2>2, <2>3, <2>6, <2>7 DEF Queued
<1>2. CASE Take
  <2>1. UNCHANGED <<log, read>> /\ queue' = Tail(queue) /\ queue # <<>>
    BY <1>2 DEF Take, position
  <2>2. AllEvents' = all
    BY <2>1, AllStays
  <2>3. /\ Len(Tail(queue)) = n - 1 /\ n \in Nat \ {0}
        /\ \A i \in 1 .. Len(Tail(queue)) : Tail(queue)[i] = queue[i + 1]
    BY <1>0, <2>1, HeadTailProperties, EmptySeq
  <2>4. ASSUME NEW k \in 1 .. Len(Tail(queue))
        PROVE  Tail(queue)[k] = all[(m - Len(Tail(queue))) + k]
    <3>1. k + 1 \in 1 .. n /\ (m - n) + (k + 1) = (m - Len(Tail(queue))) + k
      BY <1>0, <2>3
    <3>2. queue[k + 1] = all[(m - n) + (k + 1)]
      BY <3>1 DEF Queued
    <3> QED
      BY <2>3, <3>1, <3>2
  <2>5. Len(Tail(queue)) <= m
    BY <1>0, <2>3 DEF Queued
  <2> QED
    BY <2>1, <2>2, <2>4, <2>5 DEF Queued
<1>3. CASE \/ \E at \in Logs[log].resumed : ReadContinuation(at)
           \/ Fail \/ Answer \/ UNCHANGED vars
  <2>1. UNCHANGED <<log, read, queue>>
    BY <1>3 DEF ReadContinuation, Fail, Answer, vars, position
  <2>2. AllEvents' = all
    BY <2>1, AllStays
  <2> QED
    BY <2>1, <2>2 DEF Queued
<1> QED
  BY <1>1, <1>2, <1>3 DEF Next

\* The events of the lines read are from two sources, as those that are kept.
LEMMA ShownStep ==
  TypesInv /\ Queued /\ Shown /\ [Next]_vars => Shown'
<1> SUFFICES ASSUME TypesInv, Queued, Shown, [Next]_vars,
                    ~truncated', phase' # "failed"
             PROVE  \A i \in 1 .. Len(AllEvents') - Len(queue') :
                       \E j \in 1 .. Len(candidates') :
                          Shows(candidates[j], AllEvents[i])'
  BY DEF Shown
<1> DEFINE all == AllEvents
           n == Len(queue)
           m == Len(all)
           taken == m - n
<1>0. /\ log \in DOMAIN Logs /\ read \in Seq(Lines)
      /\ queue \in Seq(Events) /\ candidates \in Seq(Events)
      /\ all \in Seq(Events) /\ Window \in Nat
      /\ n \in Nat /\ m \in Nat /\ n <= m
  BY AllType, LenProperties, DetailAssumption DEF TypesInv, TypeOK, Queued
<1> HIDE DEF all, n, m
<1>s. ASSUME ~truncated, phase # "failed", NEW i \in 1 .. taken
      PROVE  \E j \in 1 .. Len(candidates) : Shows(candidates[j], all[i])
  BY <1>s DEF Shown, all, m, n
<1>1. ASSUME NEW line \in Logs[log].lines, Read(line)
      PROVE  \A i \in 1 .. Len(AllEvents') - Len(queue') :
                \E j \in 1 .. Len(candidates') :
                   Shows(candidates[j], AllEvents[i])'
  <2>1. line \in Lines
    BY <1>0, LineType
  <2> DEFINE e == EventsOf(line)
  <2>2. /\ queue = <<>> /\ queue' = e /\ log' = log
        /\ read' = Append(read, line) /\ candidates' = candidates
        /\ ~truncated /\ phase = "reading"
    BY <1>1 DEF Read, view
  <2>3. AllEvents' = all \o e
    BY <1>0, <2>1, <2>2, AllRead DEF all
  <2>4. e \in Seq(Events) /\ Len(e) \in Nat
    BY <1>0, <2>1, EventsOfType, LenProperties
  <2> HIDE DEF e
  <2>5. /\ Len(all \o e) = m + Len(e)
        /\ \A i \in 1 .. m + Len(e) :
              (all \o e)[i] = IF i <= m THEN all[i] ELSE e[i - m]
    BY <1>0, <2>4, ConcatProperties DEF m
  <2>6. n = 0 /\ taken = m
    <3>1. n = 0
      BY <2>2, EmptySeq DEF n
    <3> QED
      BY <1>0, <3>1
  <2>7. ASSUME NEW i \in 1 .. Len(AllEvents') - Len(queue')
        PROVE  \E j \in 1 .. Len(candidates') : Shows(candidates[j], AllEvents[i])'
    <3>1. i \in 1 .. m /\ i \in 1 .. m + Len(e) /\ i <= m
      BY <1>0, <2>2, <2>3, <2>4, <2>5
    <3>2. AllEvents'[i] = all[i]
      BY <2>3, <2>5, <3>1
    <3>3. PICK j \in 1 .. Len(candidates) : Shows(candidates[j], all[i])
      BY <1>s, <2>2, <2>6, <3>1
    <3>4. Shows(candidates[j], AllEvents[i])'
      <4>1. adapter' = adapter
        BY <2>2 DEF adapter
      <4> QED
        BY <2>2, <3>2, <3>3, <4>1 DEF Shows
    <3> QED
      BY <2>2, <3>4
  <2> QED
    BY <2>7
<1>2. ASSUME UNCHANGED <<log, read, queue>>, ~truncated, phase # "failed",
             \A i \in 1 .. Len(candidates) :
                \E j \in 1 .. Len(candidates') : candidates'[j] = candidates[i]
      PROVE  \A i \in 1 .. Len(AllEvents') - Len(queue') :
                \E j \in 1 .. Len(candidates') :
                   Shows(candidates[j], AllEvents[i])'
  <2>1. AllEvents' = all /\ adapter' = adapter
    BY <1>2, AllStays DEF all, adapter
  <2>2. ASSUME NEW i \in 1 .. taken
        PROVE  \E j \in 1 .. Len(candidates') : Shows(candidates[j], AllEvents[i])'
    <3>1. PICK j \in 1 .. Len(candidates) : Shows(candidates[j], all[i])
      BY <1>2, <1>s
    <3>2. PICK k \in 1 .. Len(candidates') : candidates'[k] = candidates[j]
      BY <1>2
    <3>3. Shows(candidates[k], AllEvents[i])'
      BY <2>1, <3>1, <3>2 DEF Shows
    <3> QED
      BY <3>3
  <2> QED
    BY <1>2, <2>1, <2>2 DEF m, n
<1>3. CASE \/ \E at \in Logs[log].resumed : ReadContinuation(at)
           \/ UNCHANGED vars
  <2>1. UNCHANGED <<log, read, queue, candidates, truncated, phase>>
    BY <1>3 DEF ReadContinuation, vars, position, view
  <2> QED
    BY <1>2, <2>1
<1>4. CASE Fail
  BY <1>4 DEF Fail
<1>5. CASE Answer
  <2>1. /\ UNCHANGED <<log, read, queue, truncated>> /\ phase = "reading"
        /\ candidates' = Sorted
    BY <1>5 DEF Answer, position
  <2>2. \A i \in 1 .. Len(candidates) :
           \E j \in 1 .. Len(candidates') : candidates'[j] = candidates[i]
    BY <1>0, <2>1, SortedType
  <2> QED
    BY <1>2, <2>1, <2>2
<1>6. CASE Take
  <2> DEFINE event == Head(queue)
  <2>1. /\ UNCHANGED <<log, read, phase, adapter>> /\ queue' = Tail(queue)
        /\ queue # <<>> /\ phase = "reading"
    BY <1>6 DEF Take, position, adapter
  <2>2. AllEvents' = all
    BY <2>1, AllStays DEF all
  <2>3. /\ Len(Tail(queue)) = n - 1 /\ n \in Nat \ {0}
        /\ event = queue[1] /\ event \in Events
    BY <1>0, <2>1, HeadTailProperties, EmptySeq DEF n
  <2>4. event = all[taken + 1]
    <3>1. 1 \in 1 .. n
      BY <2>3
    <3> QED
      BY <2>3, <3>1 DEF Queued, all, m, n
  <2>5. adapter = "codex" => FromCodex(event)
    <3>1. 1 \in 1 .. n
      BY <2>3
    <3> QED
      BY <2>3, <3>1 DEF TypesInv, Sourced, n
  <2>6. m - Len(queue') = taken + 1 /\ taken \in Nat
    <3>1. Len(queue') = n - 1
      BY <2>1, <2>3
    <3>2. m - (n - 1) = (m - n) + 1 /\ m - n \in Nat
      BY <1>0
    <3> QED
      BY <3>1, <3>2
  <2> HIDE DEF event
  <2> SUFFICES ASSUME NEW i \in 1 .. taken + 1
               PROVE  \E j \in 1 .. Len(candidates') :
                         Shows(candidates[j], AllEvents[i])'
    BY <2>2, <2>6 DEF m
  <2>7. i \in 1 .. taken \/ i = taken + 1
    BY <2>6
  <2>8. CASE Keep(event)
    <3>1. /\ Len(candidates') = Len(candidates) + 1
          /\ candidates'[Len(candidates) + 1] = event
          /\ \A j \in 1 .. Len(candidates) : candidates'[j] = candidates[j]
          /\ Len(candidates) \in Nat
      BY <1>0, <2>3, <2>8, KeepType, LenProperties
    <3>2. CASE i = taken + 1
      <4>1. PICK j \in 1 .. Len(candidates') : candidates'[j] = event
        BY <3>1
      <4>2. AllEvents'[i] = event
        BY <2>2, <2>4, <3>2
      <4>3. Shows(candidates'[j], event)
        BY <4>1 DEF Shows
      <4>4. Shows(candidates[j], AllEvents[i])'
        BY <2>1, <4>2, <4>3 DEF Shows
      <4> QED
        BY <4>4
    <3>3. CASE i \in 1 .. taken
      <4>1. ~truncated
        BY <2>8 DEF Keep
      <4>2. PICK j \in 1 .. Len(candidates) : Shows(candidates[j], all[i])
        BY <1>s, <2>1, <3>3, <4>1
      <4>3. j \in 1 .. Len(candidates') /\ candidates'[j] = candidates[j]
        BY <3>1
      <4>4. Shows(candidates[j], AllEvents[i])'
        BY <2>1, <2>2, <4>2, <4>3 DEF Shows
      <4> QED
        BY <4>3, <4>4
    <3> QED
      BY <2>7, <3>2, <3>3
  <2>9. CASE Merge(event)
    <3>1. adapter = "codex" /\ Len(candidates') = Len(candidates)
      BY <1>0, <2>3, <2>9, MergeType
    <3>2. PICK k \in 1 .. Len(candidates) :
               /\ SameMessage(candidates[k], event) /\ candidates[k] \in Events
               /\ \A j \in 1 .. Len(candidates) :
                     candidates'[j] = IF j = k /\ event.source = "event_msg"
                                      THEN event ELSE candidates[j]
      BY <1>0, <2>3, <2>9, MergeType
    <3> DEFINE old == candidates[k]
    <3>3. /\ old.kind \in Messages /\ old.kind = event.kind
          /\ old.content = event.content /\ old.source # event.source
          /\ old.at - event.at \in -Window .. Window
          /\ old.at \in Nat /\ event.at \in Nat
      BY <2>3, <3>2 DEF SameMessage, Cross, Together, Events
    <3>4. /\ old.source \in {"event_msg", "response_item"}
          /\ event.source \in {"event_msg", "response_item"}
      BY <2>5, <3>1, <3>2, <3>3 DEF TypesInv, Sourced, FromCodex
    <3>5. event.at - old.at \in -Window .. Window
      <4> DEFINE a == old.at
                 b == event.at
      <4>1. a \in Nat /\ b \in Nat /\ a - b \in -Window .. Window
        BY <3>3
      <4> HIDE DEF a, b
      <4>2. b - a \in -Window .. Window
        BY <1>0, <4>1
      <4> QED
        BY <4>2 DEF a, b
    <3>6. CASE i = taken + 1
      <4>1. Shows(candidates'[k], event)
        <5>1. CASE event.source = "event_msg"
          BY <3>2, <5>1 DEF Shows
        <5>2. CASE event.source # "event_msg"
          <6>1. candidates'[k] = old
            BY <3>2, <5>2
          <6>2. old.source = "event_msg" /\ event.source = "response_item"
            BY <3>3, <3>4, <5>2
          <6> HIDE DEF old
          <6> QED
            BY <3>1, <3>3, <6>1, <6>2 DEF Shows
        <5> QED
          BY <5>1, <5>2
      <4>2. Shows(candidates[k], AllEvents[i])'
        BY <2>1, <2>2, <2>4, <3>6, <4>1 DEF Shows
      <4> QED
        BY <3>1, <4>2
    <3>7. CASE i \in 1 .. taken
      <4>1. ~truncated
        BY <2>9 DEF Merge
      <4>2. PICK j \in 1 .. Len(candidates) : Shows(candidates[j], all[i])
        BY <1>s, <2>1, <3>7, <4>1
      <4>3. Shows(candidates'[j], all[i])
        <5>1. CASE j = k /\ event.source = "event_msg"
          <6>1. candidates'[j] = event
            BY <3>2, <5>1
          <6>2. old.source = "response_item"
            BY <3>3, <3>4, <5>1
          <6>3. old = all[i]
            BY <4>2, <5>1, <6>2 DEF Shows
          <6> HIDE DEF old
          <6> QED
            BY <3>1, <3>3, <3>5, <5>1, <6>1, <6>2, <6>3 DEF Shows
        <5>2. CASE ~(j = k /\ event.source = "event_msg")
          <6>1. candidates'[j] = candidates[j]
            BY <3>2, <5>2
          <6> QED
            BY <4>2, <6>1
        <5> QED
          BY <5>1, <5>2
      <4>4. Shows(candidates[j], AllEvents[i])'
        BY <2>1, <2>2, <4>3 DEF Shows
      <4> QED
        BY <3>1, <4>4
    <3> QED
      BY <2>7, <3>6, <3>7
  <2>10. ~Drop(event)
    BY DEF Drop
  <2> QED
    BY <1>6, <2>8, <2>9, <2>10 DEF Take, event
<1> QED
  BY <1>1, <1>3, <1>4, <1>5, <1>6 DEF Next

\* Every event that was read is shown, itself or the other representation of
\* the same message, unless the answer says that it is truncated.
THEOREM AllShown == Spec => []NothingForgotten
<1>1. Init => Queued /\ Shown
  <2> SUFFICES ASSUME Init PROVE Queued /\ Shown
    OBVIOUS
  <2>1. read = <<>> /\ queue = <<>> /\ Len(<<>>) = 0
    BY EmptySeq DEF Init
  <2>2. DOMAIN read = {}
    BY <2>1, EmptySeq, LenProperties
  <2> DEFINE s == [i \in DOMAIN read |-> EventsOf(read[i])]
  <2>3. s = <<>>
    BY <2>2
  <2>4. AllEvents = FlattenSeq(s)
    BY DEF AllEvents
  <2>5. AllEvents = <<>>
    BY <2>3, <2>4, FlattenEmpty
  <2> QED
    BY <2>1, <2>5 DEF Queued, Shown
<1>2. TypesInv /\ Queued /\ Shown => NothingForgotten
  <2> SUFFICES ASSUME TypesInv, Queued, Shown, ~truncated, phase # "failed",
                      NEW i \in 1 .. Len(AllEvents) - Len(queue)
               PROVE  \E j \in DOMAIN candidates : Stands(candidates[j], AllEvents[i])
    BY DEF NothingForgotten
  <2>1. PICK j \in 1 .. Len(candidates) : Shows(candidates[j], AllEvents[i])
    BY DEF Shown
  <2>2. Stands(candidates[j], AllEvents[i])
    BY <2>1 DEF Shows, Stands
  <2>3. j \in DOMAIN candidates
    BY LenProperties DEF TypesInv, TypeOK
  <2> QED
    BY <2>2, <2>3
<1> QED
  BY <1>1, <1>2, QueuedStep, ShownStep, TypesAlways, PTL DEF Spec

-----------------------------------------------------------------------------
(* The row of a Codex session.  What it says is what the latest line calls  *)
(* for; to keep that, its time must be one that something read had.         *)

LEMMA ToldSays ==
  ASSUME NEW r \in Rows, NEW type
  PROVE  /\ Told(r, type).at = r.at
         /\ type = "task_started" => Told(r, type).status = "active"
         /\ type = "task_complete" => Told(r, type).status = "completed"
         /\ type = "turn_aborted" => Told(r, type).status = "aborted"
         /\ type \in Calls => /\ Told(r, type).status = "active"
                              /\ Told(r, type).tool = "running"
         /\ type \in Outputs => Told(r, type).tool # "running"
<1>1. /\ Finished(r) # "running"
      /\ [r EXCEPT !.status = "active"].at = r.at
      /\ [r EXCEPT !.status = "active"].status = "active"
      /\ [r EXCEPT !.status = "completed"].at = r.at
      /\ [r EXCEPT !.status = "completed"].status = "completed"
      /\ [r EXCEPT !.status = "aborted"].at = r.at
      /\ [r EXCEPT !.status = "aborted"].status = "aborted"
      /\ [r EXCEPT !.status = "idle"].at = r.at
      /\ [r EXCEPT !.tool = Finished(r)].at = r.at
      /\ [r EXCEPT !.tool = Finished(r)].tool = Finished(r)
  BY DEF Finished, Rows
<1>2. /\ [r EXCEPT !.status = "active", !.tool = "running"].at = r.at
      /\ [r EXCEPT !.status = "active", !.tool = "running"].status = "active"
      /\ [r EXCEPT !.status = "active", !.tool = "running"].tool = "running"
  BY DEF Rows
<1>3. /\ type \in Calls => type \notin Outputs
      /\ type \in Calls \cup Outputs =>
            type \notin {"task_started", "task_complete", "turn_aborted",
                         "user_message"}
  BY DEF Calls, Outputs
<1>4. CASE type \in Calls
  <2>1. Told(r, type) = [r EXCEPT !.status = "active", !.tool = "running"]
    BY <1>3, <1>4 DEF Told
  <2> QED
    BY <1>2, <1>3, <1>4, <2>1
<1>5. CASE type \in Outputs
  <2>1. Told(r, type) = [r EXCEPT !.tool = Finished(r)]
    BY <1>3, <1>5 DEF Told
  <2> QED
    BY <1>1, <1>3, <1>5, <2>1
<1>6. CASE type \notin Calls \cup Outputs
  <2>1. \/ type = "task_started" /\ Told(r, type) = [r EXCEPT !.status = "active"]
        \/ type = "task_complete" /\ Told(r, type) = [r EXCEPT !.status = "completed"]
        \/ type = "turn_aborted" /\ Told(r, type) = [r EXCEPT !.status = "aborted"]
        \/ /\ type \notin {"task_started", "task_complete", "turn_aborted"}
           /\ Told(r, type) \in {r, [r EXCEPT !.status = "idle"]}
    BY <1>6 DEF Told
  <2> QED
    BY <1>1, <1>6, <2>1
<1> QED
  BY <1>4, <1>5, <1>6

Latest(i) == \A j \in 1 .. Len(read) : Later(i, j)

RowFollows ==
    /\ \A i \in 1 .. Len(read) : row.at >= read[i].at
    /\ continued => row.at >= began
    /\ Readable => \/ row.at \in {0, began}
                   \/ \E i \in 1 .. Len(read) : row.at = read[i].at
    /\ \A i \in 1 .. Len(read) : Latest(i) => Agrees(read[i])

RowInv ==
    /\ continued \/ own = Len(read)
    /\ adapter = "codex" /\ InOrder /\ (continued => Readable) => RowFollows

\* A line after the others: it is the latest, or an earlier one still is.
LEMMA LatestAfter ==
  ASSUME NEW line, read' = Append(read, line), read \in Seq(Lines),
         line \in Lines, NEW n, n = Len(read)
  PROVE  /\ Len(read') = n + 1 /\ n \in Nat
         /\ DOMAIN read = 1 .. n /\ DOMAIN read' = 1 .. n + 1
         /\ read'[n + 1] = line
         /\ \A i \in 1 .. n : read'[i] = read[i] /\ read[i].at \in Nat
         /\ \A i \in 1 .. n :
               Latest(i)' => Latest(i) /\ read[i].at > line.at
         /\ Latest(n + 1)' =>
               \A i \in 1 .. n : line.at >= read[i].at
<1>1. /\ Len(read') = n + 1 /\ n \in Nat
      /\ read'[n + 1] = line
      /\ \A i \in 1 .. n : read'[i] = read[i]
      /\ DOMAIN read = 1 .. n /\ read' \in Seq(Lines)
      /\ \A i \in 1 .. n : read[i] \in Lines
  BY AppendProperties, LenProperties, ElementOfSeq
<1>2. DOMAIN read' = 1 .. n + 1
  BY <1>1, LenProperties
<1>3. line.at \in Nat /\ \A i \in 1 .. n : read[i].at \in Nat
  BY <1>1 DEF Lines
<1>4. ASSUME NEW i \in 1 .. n, Latest(i)'
      PROVE  Latest(i) /\ read[i].at > line.at
  <2>1. \A j \in 1 .. n + 1 : \/ read'[i].at > read'[j].at
                              \/ read'[i].at = read'[j].at /\ i >= j
    BY <1>1, <1>4 DEF Latest, Later
  <2>2. Latest(i)
    <3>1. \A j \in 1 .. n : j \in 1 .. n + 1
      BY <1>1
    <3> QED
      BY <1>1, <2>1, <3>1 DEF Latest, Later
  <2>3. read[i].at > line.at
    <3>1. n + 1 \in 1 .. n + 1 /\ ~(i >= n + 1)
      BY <1>1
    <3> QED
      BY <1>1, <2>1, <3>1
  <2> QED
    BY <2>2, <2>3
<1>5. ASSUME Latest(n + 1)', NEW i \in 1 .. n
      PROVE  line.at >= read[i].at
  <2>1. i \in 1 .. n + 1
    BY <1>1
  <2>2. \/ read'[n + 1].at > read'[i].at
        \/ read'[n + 1].at = read'[i].at /\ n + 1 >= i
    BY <1>1, <1>5, <2>1 DEF Latest, Later
  <2> QED
    BY <1>1, <1>3, <2>2
<1> QED
  BY <1>1, <1>2, <1>3, <1>4, <1>5

LEMMA RowRead ==
  ASSUME TypesInv, RowInv, NEW line \in Logs[log].lines, Read(line),
         NEW n, n = Len(read)
  PROVE  RowInv'
<1>0. /\ log \in DOMAIN Logs /\ row \in Rows /\ read \in Seq(Lines)
      /\ own \in 0 .. n /\ began \in Nat \cup {NotYet}
      /\ line \in Lines /\ line.at \in Nat /\ Now \in Nat /\ line.at <= Now
      /\ row.at \in Nat
  BY LineType DEF TypesInv, TypeOK, Rows
<1>1. /\ read' = Append(read, line) /\ log' = log /\ began' = began
      /\ own' = (IF continued THEN own ELSE own + 1) /\ row' = RowAfter(line)
      /\ adapter' = adapter /\ continued' = continued
  BY DEF Read, adapter, continued
<1>2. /\ Len(read') = n + 1 /\ n \in Nat
      /\ DOMAIN read = 1 .. n /\ DOMAIN read' = 1 .. n + 1
      /\ read'[n + 1] = line
      /\ \A i \in 1 .. n : read'[i] = read[i] /\ read[i].at \in Nat
      /\ \A i \in 1 .. n : Latest(i)' => Latest(i) /\ read[i].at > line.at
      /\ Latest(n + 1)' => \A i \in 1 .. n : line.at >= read[i].at
  BY <1>0, <1>1, LatestAfter
<1>3. continued' \/ own' = Len(read')
  BY <1>1, <1>2 DEF RowInv
<1>4. SUFFICES ASSUME adapter = "codex", InOrder', continued => Readable'
               PROVE  RowFollows'
  BY <1>1, <1>3 DEF RowInv
<1>5. \A i \in 1 .. n : i \in 1 .. n + 1
  BY <1>2
<1>6. n + 1 \in 1 .. n + 1
  BY <1>2
<1>7. /\ \A i \in 1 .. n + 1 : i > own' => read'[i].at >= began
      /\ \A i \in 1 .. n + 1 : \A j \in 1 .. i :
            i <= own' \/ j > own' => \/ read'[i].at > read'[j].at
                                     \/ read'[i].at = read'[j].at /\ i >= j
  BY <1>1, <1>2, <1>4 DEF InOrder, Later
<1>8. InOrder
  <2>1. continued \/ own = n
    BY DEF RowInv
  <2>2. own' >= own /\ \A i \in 1 .. n : i > own => i > own' /\ continued
    BY <1>0, <1>1, <1>2, <2>1
  <2>3. \A i \in 1 .. n : i > own => read[i].at >= began
    BY <1>2, <1>5, <1>7, <2>2
  <2>4. ASSUME NEW i \in 1 .. n, NEW j \in 1 .. i, i <= own \/ j > own
        PROVE  Later(i, j)
    <3>1. j \in 1 .. n /\ i \in 1 .. n + 1
      BY <1>2
    <3>2. i <= own' \/ j > own'
      <4>1. own \in Int /\ own' \in Int /\ i \in Int /\ j \in Int
        BY <1>0, <1>1, <1>2, <3>1
      <4>2. CASE i <= own
        BY <2>2, <4>1, <4>2
      <4>3. CASE j > own
        <5>1. j > own' \/ own' = own + 1
          BY <1>1, <4>1, <4>3
        <5>2. j \in 1 .. i
          OBVIOUS
        <5>3. continued \/ own = n
          BY DEF RowInv
        <5> QED
          BY <1>1, <1>2, <3>1, <4>1, <4>3, <5>3
      <4> QED
        BY <2>4, <4>2, <4>3
    <3>3. \/ read'[i].at > read'[j].at
          \/ read'[i].at = read'[j].at /\ i >= j
      BY <1>7, <2>4, <3>1, <3>2
    <3> QED
      BY <1>2, <3>1, <3>3 DEF Later
  <2> QED
    BY <1>2, <2>3, <2>4 DEF InOrder
<1>9. Readable' => Readable /\ line.outer # "unreadable"
  BY <1>2, <1>5, <1>6 DEF Readable
<1>10. RowFollows
  BY <1>4, <1>8, <1>9 DEF RowInv
\* The new line is told: it is the latest, and the row's time is its own.
<1>11. ASSUME row'.at >= line.at, line.outer # "unreadable" => row'.at = line.at,
              \A i \in 1 .. n : row'.at >= read[i].at,
              \A i \in 1 .. n : ~Latest(i)',
              continued => row'.at >= began,
              Agrees(line)'
       PROVE  RowFollows'
  <2>1. ASSUME NEW i \in 1 .. n + 1 PROVE row'.at >= read'[i].at
    <3>1. i \in 1 .. n \/ i = n + 1
      BY <1>2
    <3> QED
      BY <1>2, <1>11, <3>1
  <2>2. Readable' => \E i \in 1 .. n + 1 : row'.at = read'[i].at
    BY <1>2, <1>6, <1>9, <1>11
  <2>3. ASSUME NEW i \in 1 .. n + 1, Latest(i)' PROVE Agrees(read[i])'
    <3>1. i = n + 1
      BY <1>2, <1>11, <2>3
    <3>2. read'[i] = line
      BY <1>2, <3>1
    <3> QED
      BY <1>11, <3>2 DEF Agrees
  <2> QED
    BY <1>1, <1>2, <1>11, <2>1, <2>2, <2>3 DEF RowFollows
<1>12. ASSUME row' = Told([row EXCEPT !.at = line.at], EventType(line)),
              line.outer # "unreadable"
       PROVE  row'.at = line.at /\ Agrees(line)'
  <2> DEFINE r == [row EXCEPT !.at = line.at]
  <2>1. r \in Rows /\ r.at = line.at
    BY <1>0 DEF Rows
  <2> HIDE DEF r
  <2>2. row' = Told(r, EventType(line))
    BY <1>12 DEF r
  <2> QED
    BY <1>12, <2>1, <2>2, ToldSays DEF Agrees
<1>13. CASE ~continued
  <2>1. own' = n + 1
    BY <1>1, <1>13 DEF RowInv
  <2>2. \A i \in 1 .. n : line.at >= read[i].at
    <3> SUFFICES ASSUME NEW i \in 1 .. n PROVE line.at >= read[i].at
      OBVIOUS
    <3>1. i \in 1 .. n + 1 /\ n + 1 <= own'
      BY <1>2, <2>1
    <3>2. \/ read'[n + 1].at > read'[i].at
          \/ read'[n + 1].at = read'[i].at /\ n + 1 >= i
      BY <1>6, <1>7, <3>1
    <3> QED
      BY <1>0, <1>2, <3>2
  <2>3. \A i \in 1 .. n : ~Latest(i)'
    BY <1>0, <1>2, <2>2
  <2>4. CASE line.outer = "unreadable"
    <3>1. row' = [row EXCEPT !.status = "unknown", !.at = Now]
      BY <1>1, <1>4, <2>4 DEF RowAfter, Unreadable
    <3>2. row'.at = Now /\ row'.status = "unknown"
      BY <1>0, <3>1 DEF Rows
    <3>3. EventType(line) = "unreadable"
      BY <2>4 DEF EventType
    <3>4. Agrees(line)'
      BY <3>2, <3>3 DEF Agrees, Calls, Outputs
    <3>5. \A i \in 1 .. n : Now >= read[i].at
      BY <1>0, <1>2, <2>2
    <3> QED
      BY <1>0, <1>11, <1>13, <2>3, <2>4, <3>2, <3>4, <3>5
  <2>5. CASE line.outer # "unreadable"
    <3>1. row' = Told([row EXCEPT !.at = line.at], EventType(line))
      BY <1>1, <1>4, <1>13, <2>5 DEF RowAfter, CodexRow
    <3>2. row'.at = line.at /\ Agrees(line)'
      BY <1>12, <2>5, <3>1
    <3> QED
      BY <1>0, <1>11, <1>13, <2>2, <2>3, <3>2
  <2> QED
    BY <2>4, <2>5
<1>14. CASE continued
  <2>1. Readable /\ line.outer # "unreadable" /\ row.at >= began
    BY <1>4, <1>9, <1>10, <1>14 DEF RowFollows
  <2>2. line.at >= began
    <3>1. n + 1 > own'
      BY <1>0, <1>1, <1>2, <1>14
    <3> QED
      BY <1>2, <1>6, <1>7, <3>1
  <2>3. row' = CodexRow(row, line, continued)
    BY <1>1, <1>4, <2>1 DEF RowAfter
  <2>4. CASE row.at > line.at
    <3>1. row' = row
      BY <1>14, <2>3, <2>4 DEF CodexRow
    <3>2. row.at # 0 /\ row.at # began
      <4>1. began \in Nat
        BY <1>0, <1>14 DEF continued
      <4> QED
        BY <1>0, <2>2, <2>4, <4>1
    <3>3. PICK k \in 1 .. n : row.at = read[k].at
      BY <1>10, <2>1, <3>2 DEF RowFollows
    <3>4. ~Latest(n + 1)'
      BY <1>0, <1>2, <2>4, <3>3
    <3>5. ASSUME NEW i \in 1 .. n + 1 PROVE row'.at >= read'[i].at
      <4>1. i \in 1 .. n \/ i = n + 1
        BY <1>2
      <4>2. \A j \in 1 .. n : row.at >= read[j].at
        BY <1>10 DEF RowFollows
      <4> QED
        BY <1>0, <1>2, <2>4, <3>1, <4>1, <4>2
    <3>6. \E i \in 1 .. n + 1 : row'.at = read'[i].at
      BY <1>2, <1>5, <3>1, <3>3
    <3>7. ASSUME NEW i \in 1 .. n + 1, Latest(i)' PROVE Agrees(read[i])'
      <4>0. i # n + 1
        BY <3>4, <3>7
      <4>1. i \in 1 .. n
        BY <1>2, <4>0
      <4>2. Latest(i) /\ read'[i] = read[i]
        BY <1>2, <3>7, <4>1
      <4>3. Agrees(read[i])
        BY <1>10, <4>1, <4>2 DEF RowFollows
      <4> QED
        BY <3>1, <4>2, <4>3 DEF Agrees
    <3> QED
      BY <1>1, <1>2, <2>1, <3>1, <3>5, <3>6, <3>7 DEF RowFollows
  <2>5. CASE ~(row.at > line.at)
    <3>1. row' = Told([row EXCEPT !.at = line.at], EventType(line))
      BY <2>3, <2>5 DEF CodexRow
    <3>2. row'.at = line.at /\ Agrees(line)'
      BY <1>12, <2>1, <3>1
    <3>3. \A i \in 1 .. n : line.at >= read[i].at
      <4>1. \A i \in 1 .. n : row.at >= read[i].at
        BY <1>10 DEF RowFollows
      <4> QED
        BY <1>0, <1>2, <2>5, <4>1
    <3>4. \A i \in 1 .. n : ~Latest(i)'
      BY <1>0, <1>2, <3>3
    <3> QED
      BY <1>0, <1>11, <2>2, <3>2, <3>3, <3>4
  <2> QED
    BY <2>4, <2>5
<1> QED
  BY <1>13, <1>14

LEMMA RowContinued ==
  ASSUME TypesInv, RowInv, NEW at \in Logs[log].resumed, ReadContinuation(at)
  PROVE  RowInv'
<1>0. /\ log \in DOMAIN Logs /\ row \in Rows /\ read \in Seq(Lines)
      /\ row.at \in Nat /\ at \in Nat /\ Len(read) \in Nat
      /\ DOMAIN read = 1 .. Len(read)
  BY DetailAssumption, LenProperties DEF TypesInv, TypeOK, Rows
<1>1. /\ UNCHANGED <<log, read, own, adapter>> /\ began = NotYet
      /\ began' = at /\ row' = Continued(row, at) /\ ~continued /\ continued'
  BY <1>0 DEF ReadContinuation, continued, adapter, NotYet
<1>2. own = Len(read)
  BY <1>1 DEF RowInv
<1>3. SUFFICES ASSUME adapter = "codex", InOrder', Readable' PROVE RowFollows'
  BY <1>1 DEF RowInv
<1>4. InOrder /\ Readable
  <2>1. Readable
    BY <1>1, <1>3 DEF Readable
  <2>2. \A i \in 1 .. Len(read) : ~(i > own)
    BY <1>0, <1>2
  <2>3. \A i \in DOMAIN read : \A j \in 1 .. i : i <= own \/ j > own => Later(i, j)
    BY <1>1, <1>3 DEF InOrder, Later
  <2> QED
    BY <1>0, <2>1, <2>2, <2>3 DEF InOrder
<1>5. RowFollows
  BY <1>1, <1>3, <1>4 DEF RowInv
<1>6. /\ row'.at >= row.at /\ row'.at >= at /\ row'.at \in {row.at, at}
      /\ row'.status = row.status /\ row'.tool = row.tool /\ row'.at \in Nat
  <2>1. CASE at > row.at
    <3>1. row' = [row EXCEPT !.at = at]
      BY <1>1, <2>1 DEF Continued
    <3> QED
      BY <1>0, <2>1, <3>1 DEF Rows
  <2>2. CASE ~(at > row.at)
    BY <1>0, <1>1, <2>2 DEF Continued
  <2> QED
    BY <2>1, <2>2
<1>7. \A i \in 1 .. Len(read) : row'.at >= read[i].at
  <2>1. \A i \in 1 .. Len(read) : read[i].at \in Nat
    <3>1. \A i \in 1 .. Len(read) : read[i] \in Lines
      BY <1>0, ElementOfSeq
    <3> QED
      BY <3>1 DEF Lines
  <2> QED
    BY <1>0, <1>5, <1>6, <2>1 DEF RowFollows
<1>8. \/ row'.at \in {0, at} \/ \E i \in 1 .. Len(read) : row'.at = read[i].at
  <2>1. row.at # began
    BY <1>0, <1>1 DEF NotYet
  <2> QED
    BY <1>4, <1>5, <1>6, <2>1 DEF RowFollows
<1>9. ASSUME NEW i \in 1 .. Len(read), Latest(i)' PROVE Agrees(read[i])'
  <2>1. Latest(i)
    BY <1>1, <1>9 DEF Latest, Later
  <2>2. Agrees(read[i])
    BY <1>5, <2>1 DEF RowFollows
  <2> QED
    BY <1>1, <1>6, <2>2 DEF Agrees
<1> QED
  BY <1>1, <1>6, <1>7, <1>8, <1>9 DEF RowFollows

LEMMA RowStep == TypesInv /\ RowInv /\ [Next]_vars => RowInv'
<1> SUFFICES ASSUME TypesInv, RowInv, [Next]_vars PROVE RowInv'
  OBVIOUS
<1>1. ASSUME NEW line \in Logs[log].lines, Read(line) PROVE RowInv'
  <2>1. PICK n : n = Len(read)
    OBVIOUS
  <2> QED
    BY <1>1, <2>1, RowRead
<1>2. ASSUME NEW at \in Logs[log].resumed, ReadContinuation(at) PROVE RowInv'
  BY <1>2, RowContinued
<1>3. CASE Take \/ Fail \/ Answer \/ UNCHANGED vars
  <2>1. UNCHANGED <<log, read, own, began, row>>
    BY <1>3 DEF Take, Fail, Answer, vars, position
  <2> QED
    BY <2>1 DEF RowInv, RowFollows, InOrder, Readable, Latest, Later, Agrees,
                continued, adapter
<1> QED
  BY <1>1, <1>2, <1>3 DEF Next

\* The logs of a Codex session and of its continuation, read again after a
\* restart, give the row that the latest of all lines calls for, whichever log
\* it is in and in whatever order the two are interleaved in time.
THEOREM LatestLineDecides == Spec => []LatestDecides
<1>1. Init => RowInv
  <2> SUFFICES ASSUME Init PROVE RowInv
    OBVIOUS
  <2>1. /\ read = <<>> /\ Len(read) = 0 /\ own = 0 /\ began = NotYet
        /\ row.at = 0
    BY EmptySeq DEF Init, NewRow
  <2>2. 1 .. Len(read) = {} /\ ~continued
    BY <2>1 DEF continued
  <2> QED
    BY <2>1, <2>2 DEF RowInv, RowFollows
<1>2. TypesInv /\ RowInv => LatestDecides
  <2> SUFFICES ASSUME TypesInv, RowInv PROVE LatestDecides
    OBVIOUS
  <2>1. DOMAIN read = 1 .. Len(read)
    BY LenProperties DEF TypesInv, TypeOK
  <2> QED
    BY <2>1 DEF RowInv, RowFollows, Latest, LatestDecides
<1> QED
  BY <1>1, <1>2, RowStep, TypesAlways, PTL DEF Spec

-----------------------------------------------------------------------------
(* The two halves of a message.  While events are taken, as many messages   *)
(* are shown as pairs of halves have been taken; after the first half of a  *)
(* pair it depends on that half and on what is shown already.               *)

\* What an event adds to the messages.
Picked(event) == IF event.kind \in Messages THEN <<event>> ELSE <<>>

LEMMA PickedType ==
  ASSUME NEW event \in Events
  PROVE  Picked(event) \in Seq(Events)
BY OneOrNone DEF Picked

LEMMA MessagesType ==
  ASSUME NEW s \in Seq(Events)
  PROVE  /\ [i \in DOMAIN s |-> Picked(s[i])] \in Seq(Seq(Events))
         /\ MessagesOf(s) = FlattenSeq([i \in DOMAIN s |-> Picked(s[i])])
         /\ MessagesOf(s) \in Seq(Events)
<1> DEFINE e(i) == Picked(s[i])
<1>1. /\ Len(s) \in Nat /\ DOMAIN s = 1 .. Len(s)
      /\ \A i \in 1 .. Len(s) : s[i] \in Events
  BY LenProperties, ElementOfSeq
<1>2. \A i \in 1 .. Len(s) : e(i) \in Seq(Events)
  BY <1>1, PickedType
<1>3. MessagesOf(s) = FlattenSeq([i \in DOMAIN s |-> e(i)])
  BY Zenon DEF MessagesOf, Picked
<1> HIDE DEF e
<1>4. [i \in 1 .. Len(s) |-> e(i)] \in Seq(Seq(Events))
  BY <1>1, <1>2, IsASeq
<1>5. MessagesOf(s) \in Seq(Events)
  BY <1>1, <1>3, <1>4, FlattenType
<1> QED
  BY <1>1, <1>3, <1>4, <1>5 DEF e

LEMMA MessagesAppend ==
  ASSUME NEW s \in Seq(Events), NEW event \in Events
  PROVE  MessagesOf(Append(s, event)) = MessagesOf(s) \o Picked(event)
<1> DEFINE a == Append(s, event)
           g == [i \in DOMAIN s |-> Picked(s[i])]
           h == [i \in DOMAIN a |-> Picked(a[i])]
           n == Len(s)
<1>1. /\ n \in Nat /\ DOMAIN s = 1 .. n /\ a \in Seq(Events)
      /\ Len(a) = n + 1 /\ a[n + 1] = event
      /\ \A i \in 1 .. n : a[i] = s[i]
  BY AppendProperties, LenProperties
<1>2. DOMAIN a = 1 .. n + 1
  <2> HIDE DEF a
  <2> QED
    BY <1>1, LenProperties
<1>3. /\ g \in Seq(Seq(Events)) /\ MessagesOf(s) = FlattenSeq(g)
      /\ MessagesOf(s) \in Seq(Events)
  BY MessagesType
<1>4. h \in Seq(Seq(Events)) /\ MessagesOf(a) = FlattenSeq(h)
  <2> HIDE DEF a
  <2> QED
    BY <1>1, MessagesType
<1>5. /\ DOMAIN g = 1 .. n /\ \A i \in 1 .. n : g[i] = Picked(s[i])
      /\ DOMAIN h = 1 .. n + 1 /\ \A i \in 1 .. n + 1 : h[i] = Picked(a[i])
  BY <1>1, <1>2
<1>6. Picked(event) \in Seq(Events)
  BY PickedType
<1> HIDE DEF g, h, a
<1>7. Len(g) = n /\ Len(h) = n + 1
  <2>1. /\ Len(g) \in Nat /\ DOMAIN g = 1 .. Len(g)
        /\ Len(h) \in Nat /\ DOMAIN h = 1 .. Len(h)
    BY <1>3, <1>4, LenProperties
  <2> HIDE DEF n
  <2> QED
    BY <1>1, <1>5, <2>1
<1> HIDE DEF n
<1>8. h = Append(g, Picked(event))
  <2> DEFINE p == Append(g, Picked(event))
  <2>1. /\ p \in Seq(Seq(Events)) /\ Len(p) = n + 1
        /\ p[n + 1] = Picked(event)
        /\ \A i \in 1 .. n : p[i] = g[i]
    BY <1>3, <1>6, <1>7, AppendProperties
  <2> HIDE DEF p
  <2>2. \A i \in 1 .. n + 1 : i \in 1 .. n \/ i = n + 1
    BY <1>1
  <2>3. \A i \in 1 .. n + 1 : h[i] = p[i]
    BY <1>1, <1>5, <2>1, <2>2
  <2>4. h = p
    BY <1>4, <1>7, <2>1, <2>3, SeqEqual
  <2> QED
    BY <2>4 DEF p
<1>9. CASE g = <<>>
  <2>1. MessagesOf(s) = <<>>
    BY <1>3, <1>9, FlattenEmpty
  <2>2. <<>> \o Picked(event) = Picked(event)
    BY <1>6, ConcatEmptySeq
  <2>3. MessagesOf(a) = Picked(event)
    BY <1>3, <1>4, <1>6, <1>8, <1>9, FlattenAppend
  <2> QED
    BY <2>1, <2>2, <2>3 DEF a
<1>10. CASE g # <<>>
  <2>1. MessagesOf(a) = FlattenSeq(g) \o Picked(event)
    BY <1>3, <1>4, <1>6, <1>8, <1>10, FlattenAppend
  <2> QED
    BY <1>3, <2>1 DEF a
<1> QED
  BY <1>9, <1>10

\* detailEvents returns at most one event for a line of Codex.
LEMMA CodexOne ==
  ASSUME log \in DOMAIN Logs, adapter = "codex", NEW line \in Lines
  PROVE  \/ EventsOf(line) = <<>>
         \/ \E event \in Events : EventsOf(line) = <<event>>
<1>1. EventsOf(line) = CodexEvents(line)
  BY DEF EventsOf
<1>2. \/ EventsOf(line) = <<>>
      \/ \E event : EventsOf(line) = <<event>>
  BY <1>1 DEF CodexEvents, Event
<1>3. EventsOf(line) \in Seq(Events)
  BY EventsOfType
<1>4. ASSUME NEW event, EventsOf(line) = <<event>> PROVE event \in Events
  <2>1. /\ <<event>> \in Seq(Events) /\ Len(<<event>>) = 1
        /\ <<event>>[1] = event /\ 1 \in 1 .. 1
    BY <1>3, <1>4
  <2> QED
    BY <2>1, ElementOfSeq
<1> QED
  BY <1>2, <1>4

ToCome == IF queue = <<>> THEN <<>> ELSE Picked(Head(queue))

ShownMessages == {i \in DOMAIN candidates : candidates[i].kind \in Messages}

\* The first half of every message is followed by the second.
Paired(done) ==
    \A i \in 1 .. Len(done) :
       i % 2 = 1 /\ i + 1 \in 1 .. Len(done) =>
          done[i] # done[i + 1] /\ Stands(done[i], done[i + 1])

\* Each message is shown as its event_msg, except that a first half that is a
\* response_item may be shown until the second comes, or stand for nothing
\* because it equals a message shown before.
Balanced(done) ==
    LET n == Len(done)
        shown == Cardinality(ShownMessages)
        Typed(i) == candidates[i].source = "event_msg" IN
    \/ n % 2 = 0 /\ 2 * shown = n /\ \A i \in ShownMessages : Typed(i)
    \/ /\ n % 2 = 1 /\ 2 * shown = n + 1 /\ \A i \in ShownMessages : Typed(i)
       /\ \E i \in ShownMessages : candidates[i] = done[n]
    \/ /\ n % 2 = 1 /\ 2 * shown = n - 1 /\ \A i \in ShownMessages : Typed(i)
       /\ done[n].source = "response_item"
    \/ /\ n % 2 = 1 /\ 2 * shown = n + 1 /\ done[n].source = "response_item"
       /\ \E i \in ShownMessages :
             /\ candidates[i] = done[n]
             /\ \A j \in ShownMessages \ {i} : Typed(j)

LEMMA ShownFinite ==
  ASSUME candidates \in Seq(Events)
  PROVE  /\ Len(candidates) \in Nat /\ DOMAIN candidates = 1 .. Len(candidates)
         /\ ShownMessages = {i \in 1 .. Len(candidates) :
                               candidates[i].kind \in Messages}
         /\ IsFiniteSet(ShownMessages) /\ Cardinality(ShownMessages) \in Nat
<1>1. Len(candidates) \in Nat /\ DOMAIN candidates = 1 .. Len(candidates)
  BY LenProperties
<1>2. ShownMessages = {i \in 1 .. Len(candidates) :
                         candidates[i].kind \in Messages}
  BY <1>1 DEF ShownMessages
<1>3. IsFiniteSet(1 .. Len(candidates))
  BY <1>1, FS_Interval
<1>4. ShownMessages \in SUBSET (1 .. Len(candidates))
  BY <1>2
<1>5. IsFiniteSet(ShownMessages)
  BY <1>3, <1>4, FS_Subset
<1> QED
  BY <1>1, <1>2, <1>5, FS_CardinalityType

\* What the three things that may happen to an event make of the messages.
LEMMA KeepMessage ==
  ASSUME candidates \in Seq(Events), NEW event \in Events, Keep(event),
         NEW l, l = Len(candidates) + 1
  PROVE  /\ \A i \in ShownMessages : candidates'[i] = candidates[i]
         /\ event.kind \notin Messages => ShownMessages' = ShownMessages
         /\ event.kind \in Messages =>
               /\ ShownMessages' = ShownMessages \cup {l}
               /\ Cardinality(ShownMessages)' = Cardinality(ShownMessages) + 1
               /\ candidates'[l] = event
<1>1. /\ candidates' \in Seq(Events) /\ Len(candidates') = l
      /\ candidates'[l] = event
      /\ \A i \in 1 .. Len(candidates) : candidates'[i] = candidates[i]
  BY KeepType
<1>2. /\ Len(candidates) \in Nat
      /\ ShownMessages = {i \in 1 .. Len(candidates) :
                            candidates[i].kind \in Messages}
      /\ IsFiniteSet(ShownMessages)
  BY ShownFinite
<1>3. ShownMessages' = {i \in 1 .. l : candidates'[i].kind \in Messages}
  BY <1>1, LenProperties DEF ShownMessages
<1>4. /\ l \notin 1 .. Len(candidates) /\ l \in 1 .. l
      /\ \A i \in 1 .. l : i \in 1 .. Len(candidates) \/ i = l
      /\ \A i \in 1 .. Len(candidates) : i \in 1 .. l
  BY <1>2
<1>5. event.kind \notin Messages => ShownMessages' = ShownMessages
  BY <1>1, <1>2, <1>3, <1>4
<1>6. event.kind \in Messages => ShownMessages' = ShownMessages \cup {l}
  BY <1>1, <1>2, <1>3, <1>4
<1>7. l \notin ShownMessages
  BY <1>2, <1>4
<1>8. Cardinality(ShownMessages \cup {l}) = Cardinality(ShownMessages) + 1
  BY <1>2, <1>7, FS_AddElement
<1> QED
  BY <1>1, <1>2, <1>5, <1>6, <1>8

LEMMA MergeMessage ==
  ASSUME candidates \in Seq(Events), NEW event \in Events, Merge(event)
  PROVE  /\ ShownMessages' = ShownMessages /\ event.kind \in Messages
         /\ \E k \in ShownMessages :
               /\ candidates[k].source # event.source
               /\ \A i \in ShownMessages :
                     candidates'[i] = IF i = k /\ event.source = "event_msg"
                                      THEN event ELSE candidates[i]
<1>1. candidates' \in Seq(Events) /\ Len(candidates') = Len(candidates)
  BY MergeType
<1>2. PICK k \in 1 .. Len(candidates) :
         /\ SameMessage(candidates[k], event) /\ candidates[k] \in Events
         /\ \A i \in 1 .. Len(candidates) :
               candidates'[i] = IF i = k /\ event.source = "event_msg"
                                THEN event ELSE candidates[i]
  BY MergeType
<1>3. /\ candidates[k].kind \in Messages /\ candidates[k].kind = event.kind
      /\ candidates[k].source # event.source
  BY <1>2 DEF SameMessage, Cross
<1>4. ShownMessages = {i \in 1 .. Len(candidates) :
                         candidates[i].kind \in Messages}
  BY ShownFinite
<1>5. ShownMessages' = {i \in 1 .. Len(candidates) :
                          candidates'[i].kind \in Messages}
  BY <1>1, LenProperties DEF ShownMessages
<1>6. ShownMessages' = ShownMessages
  BY <1>2, <1>3, <1>4, <1>5
<1> QED
  BY <1>2, <1>3, <1>4, <1>6

\* A representation of which all the messages shown are is no duplicate.
LEMMA NoDuplicate ==
  ASSUME candidates \in Seq(Events), adapter = "codex", NEW event \in Events,
         \A i \in ShownMessages : candidates[i].source = event.source
  PROVE  ~Merge(event)
<1>1. \A i \in DOMAIN candidates : ~SameMessage(candidates[i], event)
  BY DEF SameMessage, Cross, ShownMessages
<1> QED
  BY <1>1 DEF Duplicates, Merge

\* A half that is shown is a duplicate of the other.
LEMMA OtherHalf ==
  ASSUME candidates \in Seq(Events), adapter = "codex", NEW event \in Events,
         NEW i \in ShownMessages, candidates[i] # event,
         Stands(candidates[i], event)
  PROVE  ~Keep(event)
<1>1. SameMessage(candidates[i], event)
  BY DEF Stands, SameMessage, Cross, Together, ShownMessages
<1>2. i \in Duplicates(event)
  BY <1>1 DEF Duplicates, ShownMessages
<1> QED
  BY <1>2 DEF Keep

LEMMA TakeMessage ==
  ASSUME candidates \in Seq(Events), adapter = "codex", NEW event \in Events,
         event.kind \in Messages, FromCodex(event), Merge(event) \/ Keep(event),
         NEW done \in Seq(Events), Balanced(done), Paired(Append(done, event))
  PROVE  Balanced(Append(done, event))'
<1> DEFINE n == Len(done)
           next == Append(done, event)
           c == Cardinality(ShownMessages)
           Typed(i) == candidates[i].source = "event_msg"
<1>1. /\ n \in Nat /\ next \in Seq(Events) /\ Len(next) = n + 1
      /\ next[n + 1] = event /\ \A i \in 1 .. n : next[i] = done[i]
  BY AppendProperties, LenProperties
<1>2. event.source \in {"event_msg", "response_item"}
  BY DEF FromCodex
<1>3. c \in Nat
  BY ShownFinite
<1>4. PICK l : l = Len(candidates) + 1
  OBVIOUS
<1>5. ASSUME Keep(event)
      PROVE  /\ ShownMessages' = ShownMessages \cup {l}
             /\ Cardinality(ShownMessages)' = c + 1
             /\ candidates'[l] = event
             /\ \A i \in ShownMessages : candidates'[i] = candidates[i]
  BY <1>4, <1>5, KeepMessage
<1>6. ASSUME Merge(event)
      PROVE  /\ ShownMessages' = ShownMessages
             /\ Cardinality(ShownMessages)' = c
             /\ \E k \in ShownMessages :
                   /\ candidates[k].source # event.source
                   /\ \A i \in ShownMessages :
                         candidates'[i] = IF i = k /\ event.source = "event_msg"
                                          THEN event ELSE candidates[i]
  BY <1>6, MergeMessage
<1>7. ASSUME n % 2 = 1
      PROVE  done[n] # event /\ Stands(done[n], event) /\ (n + 1) % 2 = 0
  <2>1. n \in 1 .. n + 1 /\ n + 1 \in 1 .. n + 1 /\ n \in 1 .. n
        /\ (n + 1) % 2 = 0
    BY <1>1, <1>7
  <2>2. next[n] # next[n + 1] /\ Stands(next[n], next[n + 1])
    BY <1>1, <1>7, <2>1 DEF Paired
  <2> QED
    BY <1>1, <2>1, <2>2
<1> HIDE DEF next, c
<1>8. CASE n % 2 = 0 /\ 2 * c = n /\ \A i \in ShownMessages : Typed(i)
  <2>0. (n + 1) % 2 = 1
    BY <1>1, <1>8
  <2>1. CASE event.source = "event_msg"
    <3>1. ~Merge(event)
      BY <1>8, <2>1, NoDuplicate
    <3>2. /\ ShownMessages' = ShownMessages \cup {l}
          /\ Cardinality(ShownMessages)' = c + 1
          /\ candidates'[l] = event
          /\ \A i \in ShownMessages : candidates'[i] = candidates[i]
      BY <1>5, <3>1
    <3>3. 2 * (c + 1) = (n + 1) + 1
      <4>1. 2 * c = n /\ n \in Nat
        BY <1>1, <1>8
      <4> QED
        BY <1>3, <4>1
    <3>4. /\ \A i \in ShownMessages' : candidates'[i].source = "event_msg"
          /\ \E i \in ShownMessages' : candidates'[i] = next[n + 1]
      BY <1>1, <1>8, <2>1, <3>2
    <3> QED
      BY <1>1, <2>0, <3>2, <3>3, <3>4 DEF Balanced, next
  <2>2. CASE event.source = "response_item" /\ Merge(event)
    <3>1. /\ ShownMessages' = ShownMessages
          /\ Cardinality(ShownMessages)' = c
          /\ \A i \in ShownMessages : candidates'[i] = candidates[i]
      BY <1>6, <2>2
    <3>2. 2 * c = (n + 1) - 1 /\ next[n + 1].source = "response_item"
      <4>1. 2 * c = (n + 1) - 1
        <5>1. 2 * c = n /\ n \in Nat
          BY <1>1, <1>8
        <5> QED
          BY <1>3, <5>1
      <4> QED
        BY <1>1, <2>2, <4>1
    <3>3. \A i \in ShownMessages' : candidates'[i].source = "event_msg"
      BY <1>8, <3>1
    <3> QED
      BY <1>1, <2>0, <3>1, <3>2, <3>3 DEF Balanced, next
  <2>3. CASE event.source = "response_item" /\ Keep(event)
    <3>1. /\ ShownMessages' = ShownMessages \cup {l}
          /\ Cardinality(ShownMessages)' = c + 1
          /\ candidates'[l] = event
          /\ \A i \in ShownMessages : candidates'[i] = candidates[i]
      BY <1>5, <2>3
    <3>2. 2 * (c + 1) = (n + 1) + 1 /\ next[n + 1].source = "response_item"
      <4>1. 2 * (c + 1) = (n + 1) + 1
        <5>1. 2 * c = n /\ n \in Nat
          BY <1>1, <1>8
        <5> QED
          BY <1>3, <5>1
      <4> QED
        BY <1>1, <2>3, <4>1
    <3>3. \E i \in ShownMessages' :
             /\ candidates'[i] = next[n + 1]
             /\ \A j \in ShownMessages' \ {i} :
                   candidates'[j].source = "event_msg"
      BY <1>1, <1>8, <3>1
    <3> QED
      BY <1>1, <2>0, <3>1, <3>2, <3>3 DEF Balanced, next
  <2> QED
    BY <1>2, <2>1, <2>2, <2>3
\* After the second half every message is its event_msg.
<1>9. ASSUME n % 2 = 1, 2 * Cardinality(ShownMessages)' = n + 1,
             \A i \in ShownMessages' : candidates'[i].source = "event_msg"
      PROVE  Balanced(next)'
  BY <1>1, <1>7, <1>9 DEF Balanced, next
<1>10. CASE /\ n % 2 = 1 /\ 2 * c = n + 1 /\ \A i \in ShownMessages : Typed(i)
            /\ \E i \in ShownMessages : candidates[i] = done[n]
  <2>1. PICK i \in ShownMessages : candidates[i] = done[n]
    BY <1>10
  <2>2. ~Keep(event)
    BY <1>7, <1>10, <2>1, OtherHalf
  <2>3. done[n].source # event.source
    BY <1>7, <1>10 DEF Stands
  <2>4. event.source = "response_item"
    BY <1>2, <1>10, <2>1, <2>3
  <2>5. /\ ShownMessages' = ShownMessages
        /\ Cardinality(ShownMessages)' = c
        /\ \A j \in ShownMessages : candidates'[j] = candidates[j]
    BY <1>6, <2>2, <2>4
  <2> QED
    BY <1>9, <1>10, <2>5 DEF next
<1>11. CASE /\ n % 2 = 1 /\ 2 * c = n - 1 /\ \A i \in ShownMessages : Typed(i)
            /\ done[n].source = "response_item"
  <2>1. event.source = "event_msg"
    BY <1>2, <1>7, <1>11 DEF Stands
  <2>2. ~Merge(event)
    BY <1>11, <2>1, NoDuplicate
  <2>3. /\ ShownMessages' = ShownMessages \cup {l}
        /\ Cardinality(ShownMessages)' = c + 1
        /\ candidates'[l] = event
        /\ \A i \in ShownMessages : candidates'[i] = candidates[i]
    BY <1>5, <2>2
  <2>4. 2 * (c + 1) = n + 1
    <3>1. 2 * c = n - 1 /\ n \in Nat
      BY <1>1, <1>11
    <3> QED
      BY <1>3, <3>1
  <2>5. \A i \in ShownMessages' : candidates'[i].source = "event_msg"
    BY <1>11, <2>1, <2>3
  <2> QED
    BY <1>9, <1>11, <2>3, <2>4, <2>5 DEF next
<1>12. CASE /\ n % 2 = 1 /\ 2 * c = n + 1 /\ done[n].source = "response_item"
            /\ \E i \in ShownMessages :
                  /\ candidates[i] = done[n]
                  /\ \A j \in ShownMessages \ {i} : Typed(j)
  <2>1. PICK i \in ShownMessages :
                  /\ candidates[i] = done[n]
                  /\ \A j \in ShownMessages \ {i} : Typed(j)
    BY <1>12
  <2>2. event.source = "event_msg"
    BY <1>2, <1>7, <1>12 DEF Stands
  <2>3. ~Keep(event)
    BY <1>7, <1>12, <2>1, OtherHalf
  <2>4. PICK k \in ShownMessages :
           /\ candidates[k].source # event.source
           /\ \A j \in ShownMessages :
                 candidates'[j] = IF j = k /\ event.source = "event_msg"
                                  THEN event ELSE candidates[j]
    BY <1>6, <2>3
  <2>5. k = i
    BY <2>1, <2>2, <2>4
  <2>6. ShownMessages' = ShownMessages /\ Cardinality(ShownMessages)' = c
    BY <1>6, <2>3
  <2>7. \A j \in ShownMessages' : candidates'[j].source = "event_msg"
    BY <2>1, <2>2, <2>4, <2>5, <2>6
  <2> QED
    BY <1>9, <1>12, <2>6, <2>7 DEF next
<1> QED
  BY <1>8, <1>10, <1>11, <1>12 DEF Balanced, c, next

\* An event that is no message changes nothing of the messages.
LEMMA TakeOther ==
  ASSUME candidates \in Seq(Events), NEW event \in Events,
         event.kind \notin Messages, Merge(event) \/ Keep(event),
         NEW done, Balanced(done)
  PROVE  Balanced(done)'
<1>1. Keep(event)
  BY MergeMessage
<1>2. PICK l : l = Len(candidates) + 1
  OBVIOUS
<1>3. /\ ShownMessages' = ShownMessages
      /\ \A i \in ShownMessages : candidates'[i] = candidates[i]
  BY <1>1, <1>2, KeepMessage
<1>4. Cardinality(ShownMessages)' = Cardinality(ShownMessages)
  BY <1>3
<1> QED
  BY <1>3, <1>4 DEF Balanced

\* Sorting moves the messages and keeps their number.
LEMMA SortMessages ==
  ASSUME candidates \in Seq(Events), candidates' = Sorted,
         NEW done, Balanced(done)
  PROVE  Balanced(done)'
<1>1. PICK f : /\ Permutes(f, Len(candidates))
               /\ \A i \in 1 .. Len(candidates) :
                     \E m \in 1 .. Len(candidates) : f[m] = i
               /\ Sorted = Permuted(candidates, f)
  BY SortedPermutes
<1> DEFINE n == Len(candidates)
           S == ShownMessages
           T == {i \in 1 .. n : candidates'[i].kind \in Messages}
           g == [i \in T |-> f[i]]
<1>2. /\ candidates' \in Seq(Events) /\ Len(candidates') = n
      /\ \A i \in 1 .. n : candidates'[i] = candidates[f[i]] /\ f[i] \in 1 .. n
  <2>1. /\ Permuted(candidates, f) \in Seq(Events)
        /\ Len(Permuted(candidates, f)) = n
        /\ \A i \in 1 .. n : Permuted(candidates, f)[i] = candidates[f[i]]
    BY <1>1, PermutedType
  <2>2. candidates' = Permuted(candidates, f)
    BY <1>1
  <2>3. \A i \in 1 .. n : f[i] \in 1 .. n
    BY <1>1 DEF Permutes
  <2> QED
    BY <2>1, <2>2, <2>3
<1>3. /\ S = {i \in 1 .. n : candidates[i].kind \in Messages}
      /\ IsFiniteSet(S)
  BY ShownFinite
<1>4. ShownMessages' = T
  BY <1>2, LenProperties DEF ShownMessages
<1>5. \A i, j \in 1 .. n : i # j => f[i] # f[j]
  BY <1>1 DEF Permutes
<1>6. \A i \in S : \E m \in T : f[m] = i
  <2> SUFFICES ASSUME NEW i \in S PROVE \E m \in T : f[m] = i
    OBVIOUS
  <2>1. i \in 1 .. n /\ candidates[i].kind \in Messages
    BY <1>3
  <2>2. PICK m \in 1 .. n : f[m] = i
    BY <1>1, <2>1
  <2>3. candidates'[m] = candidates[i]
    BY <1>2, <2>2
  <2> QED
    BY <2>1, <2>2, <2>3
<1>7. \A m \in T : f[m] \in S /\ candidates'[m] = candidates[f[m]]
  BY <1>2, <1>3
<1>8. T \subseteq 1 .. n
  OBVIOUS
<1> HIDE DEF S, T
<1>9. g \in Bijection(T, S)
  <2>1. g \in [T -> S] /\ \A i \in T : g[i] = f[i]
    BY <1>7
  <2> HIDE DEF g
  <2>2. \A i, j \in T : g[i] = g[j] => i = j
    BY <1>5, <1>8, <2>1
  <2>3. \A i \in S : \E m \in T : g[m] = i
    BY <1>6, <2>1
  <2> QED
    BY <2>1, <2>2, <2>3, Fun_IsBij
<1>10. Cardinality(T) = Cardinality(S)
  <2>1. ExistsBijection(S, T)
    <3>1. Inverse(g, T, S) \in Bijection(S, T)
      BY <1>9, Fun_BijInverse
    <3> QED
      BY <3>1, Fun_ExistsBij
  <2> QED
    BY <1>3, <2>1, FS_Bijection
<1> DEFINE d == Len(done)
           Typed(i) == candidates[i].source = "event_msg"
<1>12. (\A i \in S : Typed(i)) => \A m \in T : candidates'[m].source = "event_msg"
  BY <1>7
<1>13. (\E i \in S : candidates[i] = done[d])
          => \E m \in T : candidates'[m] = done[d]
  BY <1>6, <1>7
<1>14. (\E i \in S : /\ candidates[i] = done[d]
                     /\ \A j \in S \ {i} : Typed(j))
          => \E m \in T : /\ candidates'[m] = done[d]
                          /\ \A j \in T \ {m} :
                                candidates'[j].source = "event_msg"
  <2> SUFFICES ASSUME NEW i \in S, candidates[i] = done[d],
                      \A j \in S \ {i} : Typed(j)
               PROVE  \E m \in T : /\ candidates'[m] = done[d]
                                   /\ \A j \in T \ {m} :
                                         candidates'[j].source = "event_msg"
    OBVIOUS
  <2>1. PICK m \in T : f[m] = i
    BY <1>6
  <2>2. candidates'[m] = done[d]
    BY <1>7, <2>1
  <2>3. ASSUME NEW j \in T \ {m} PROVE candidates'[j].source = "event_msg"
    <3>1. f[j] # i /\ f[j] \in S
      BY <1>5, <1>7, <1>8, <2>1
    <3> QED
      BY <1>7, <3>1
  <2> QED
    BY <2>2, <2>3
<1>15. Cardinality(ShownMessages)' = Cardinality(S)
  BY <1>4, <1>10
<1> QED
  BY <1>4, <1>12, <1>13, <1>14, <1>15 DEF Balanced, S

Once(done) ==
    Halves = done \o ToCome /\ (Paired(done) => Balanced(done))

OnceInv ==
    adapter = "codex" =>
       /\ queue = <<>> \/ \E event \in Events : queue = <<event>>
       /\ truncated \/ phase = "failed" \/ \E done \in Seq(Events) : Once(done)

LEMMA OnceStep == TypesInv /\ OnceInv /\ [Next]_vars => OnceInv'
<1> SUFFICES ASSUME TypesInv, OnceInv, [Next]_vars PROVE OnceInv'
  OBVIOUS
<1> SUFFICES ASSUME adapter = "codex" PROVE OnceInv'
  <2>1. log' = log
    <3>1. ASSUME NEW line, Read(line) PROVE log' = log
      BY <3>1 DEF Read
    <3>2. ASSUME NEW at, ReadContinuation(at) PROVE log' = log
      BY <3>2 DEF ReadContinuation
    <3>3. CASE Take \/ Fail \/ Answer \/ UNCHANGED vars
      BY <3>3 DEF Take, Fail, Answer, vars, position
    <3> QED
      BY <3>1, <3>2, <3>3 DEF Next
  <2>2. adapter' = adapter
    BY <2>1 DEF adapter
  <2> QED
    BY <2>2 DEF OnceInv
<1>0. /\ log \in DOMAIN Logs /\ read \in Seq(Lines)
      /\ queue \in Seq(Events) /\ candidates \in Seq(Events)
      /\ AllEvents \in Seq(Events) /\ Halves \in Seq(Events)
  BY AllType, MessagesType DEF TypesInv, TypeOK, Halves
<1>1. ASSUME NEW line \in Logs[log].lines, Read(line) PROVE OnceInv'
  <2>1. line \in Lines
    BY <1>0, LineType
  <2>2. /\ queue = <<>> /\ queue' = EventsOf(line) /\ log' = log
        /\ read' = Append(read, line)
        /\ UNCHANGED <<candidates, truncated, adapter>> /\ phase' = phase
    BY <1>1 DEF Read, view, adapter
  <2>3. AllEvents' = AllEvents \o EventsOf(line)
    BY <1>0, <2>1, <2>2, AllRead
  <2>4. ASSUME ~truncated', phase' # "failed",
               EventsOf(line) = <<>> \/ \E event \in Events : EventsOf(line) = <<event>>
        PROVE  \E done \in Seq(Events) : Once(done)'
    <3>1. PICK done \in Seq(Events) : Once(done)
      BY <2>2, <2>4 DEF OnceInv
    <3>2. Halves = done
      <4>1. done \o <<>> = done
        BY ConcatEmptySeq
      <4> QED
        BY <2>2, <3>1, <4>1 DEF Once, ToCome
    <3>3. Halves' = done \o ToCome'
      <4>1. CASE EventsOf(line) = <<>>
        <5>1. AllEvents' = AllEvents /\ done \o <<>> = done
          BY <1>0, <2>3, <4>1, ConcatEmptySeq
        <5> QED
          BY <2>2, <3>2, <4>1, <5>1 DEF ToCome, Halves
      <4>2. ASSUME NEW event \in Events, EventsOf(line) = <<event>>
            PROVE  Halves' = done \o ToCome'
        <5>1. AllEvents' = Append(AllEvents, event)
          BY <1>0, <2>3, <4>2, AppendIsConcat
        <5>2. Halves' = Halves \o Picked(event)
          BY <1>0, <5>1, MessagesAppend DEF Halves
        <5>3. queue' # <<>> /\ Head(queue') = event
          BY <2>2, <4>2
        <5>4. ToCome' = Picked(event)
          BY <5>3 DEF ToCome, Picked
        <5> QED
          BY <3>2, <5>2, <5>4
      <4> QED
        BY <2>4, <4>1, <4>2
    <3>4. (Paired(done) => Balanced(done))'
      BY <2>2, <3>1 DEF Once, Paired, Stands, Balanced, ShownMessages
    <3> QED
      BY <3>3, <3>4 DEF Once
  <2>5. EventsOf(line) = <<>> \/ \E event \in Events : EventsOf(line) = <<event>>
    BY <1>0, <2>1, CodexOne
  <2> QED
    BY <2>2, <2>4, <2>5 DEF OnceInv
<1>2. CASE Take
  <2>1. PICK event \in Events : queue = <<event>>
    BY <1>2 DEF OnceInv, Take
  <2>2. Head(queue) = event /\ Tail(queue) = <<>> /\ queue # <<>>
    BY <2>1
  <2>3. /\ queue' = <<>> /\ UNCHANGED <<log, read, phase, adapter>>
        /\ Merge(event) \/ Keep(event) \/ Drop(event)
    BY <1>2, <2>2 DEF Take, position, adapter
  <2>4. FromCodex(event)
    <3>1. Len(queue) = 1 /\ queue[1] = event /\ 1 \in 1 .. 1
      BY <2>1
    <3> QED
      BY <3>1 DEF TypesInv, Sourced
  <2>5. Halves' = Halves /\ ToCome' = <<>> /\ ToCome = Picked(event)
    <3>1. AllEvents' = AllEvents
      BY <2>3, AllStays
    <3> QED
      BY <2>2, <2>3, <3>1 DEF Halves, ToCome
  <2>6. ASSUME ~truncated', phase' # "failed"
        PROVE  \E done \in Seq(Events) : Once(done)'
    <3>1. Merge(event) \/ Keep(event)
      BY <2>3, <2>6 DEF Drop
    <3>2. ~truncated
      BY <2>6, <3>1 DEF Merge, Keep
    <3>3. PICK done \in Seq(Events) : Once(done)
      BY <2>3, <2>6, <3>2 DEF OnceInv
    <3>4. CASE event.kind \notin Messages
      <4>1. Halves' = done \o ToCome'
        BY <2>5, <3>3, <3>4 DEF Once, Picked
      <4>2. Paired(done)' => Paired(done)
        BY <2>3 DEF Paired, Stands
      <4>3. Balanced(done) => Balanced(done)'
        BY <1>0, <3>1, <3>4, TakeOther
      <4> QED
        BY <3>3, <4>1, <4>2, <4>3 DEF Once
    <3>5. CASE event.kind \in Messages
      <4> DEFINE next == Append(done, event)
      <4>1. /\ next \in Seq(Events) /\ next = done \o <<event>>
            /\ Len(next) = Len(done) + 1 /\ Len(done) \in Nat
            /\ \A i \in 1 .. Len(done) : next[i] = done[i]
        BY AppendProperties, AppendIsConcat, LenProperties
      <4>2. Halves' = next \o ToCome'
        <5>1. Halves = done \o <<event>>
          BY <2>5, <3>3, <3>5 DEF Once, Picked
        <5>2. next \o <<>> = next
          BY <4>1, ConcatEmptySeq
        <5> QED
          BY <2>5, <4>1, <5>1, <5>2
      <4>3. Paired(next)' => Paired(next)
        <5> HIDE DEF next
        <5> QED
          BY <2>3 DEF Paired, Stands
      <4>4. Paired(next) => Paired(done)
        <5> HIDE DEF next
        <5>1. \A i \in 1 .. Len(done) : i \in 1 .. Len(next)
          BY <4>1
        <5> QED
          BY <4>1, <5>1 DEF Paired
      <4>5. Balanced(done) /\ Paired(next) => Balanced(next)'
        BY <1>0, <2>4, <3>1, <3>5, TakeMessage
      <4> HIDE DEF next
      <4>6. (Paired(next) => Balanced(next))'
        BY <3>3, <4>3, <4>4, <4>5 DEF Once
      <4> QED
        BY <4>1, <4>2, <4>6 DEF Once
    <3> QED
      BY <3>4, <3>5
  <2> QED
    BY <2>3, <2>6 DEF OnceInv
<1>3. CASE Answer
  <2>1. /\ UNCHANGED <<log, read, queue, truncated, adapter>>
        /\ phase = "reading" /\ candidates' = Sorted
    BY <1>3 DEF Answer, position, adapter
  <2>2. Halves' = Halves /\ ToCome' = ToCome
    BY <2>1, AllStays DEF Halves, ToCome
  <2>3. ASSUME NEW done \in Seq(Events), Once(done) PROVE Once(done)'
    <3>1. Paired(done)' => Paired(done)
      BY <2>1 DEF Paired, Stands
    <3>2. Balanced(done) => Balanced(done)'
      BY <1>0, <2>1, SortMessages
    <3> QED
      BY <2>2, <2>3, <3>1, <3>2 DEF Once
  <2> QED
    BY <2>1, <2>3 DEF OnceInv
<1>4. CASE Fail
  <2>1. phase' = "failed" /\ queue' = queue
    BY <1>4 DEF Fail
  <2> QED
    BY <2>1 DEF OnceInv
<1>5. CASE \/ \E at \in Logs[log].resumed : ReadContinuation(at)
           \/ UNCHANGED vars
  <2>1. UNCHANGED <<log, read, queue, candidates, truncated, phase, adapter>>
    BY <1>5 DEF ReadContinuation, vars, position, view, adapter
  <2>2. Halves' = Halves /\ ToCome' = ToCome
    BY <2>1, AllStays DEF Halves, ToCome
  <2>3. ASSUME NEW done \in Seq(Events), Once(done) PROVE Once(done)'
    BY <2>1, <2>2, <2>3 DEF Once, Paired, Stands, Balanced, ShownMessages
  <2> QED
    BY <2>1, <2>3 DEF OnceInv
<1> QED
  BY <1>1, <1>2, <1>3, <1>4, <1>5 DEF Next

\* When Codex writes every message twice, one half after the other in either
\* order, each message is shown exactly once, however many messages have the
\* same text within the Window and whatever else is written between them.
THEOREM ShownOnce == Spec => []MessagesShownOnce
<1>1. Init => OnceInv
  <2> SUFFICES ASSUME Init PROVE OnceInv
    OBVIOUS
  <2>1. read = <<>> /\ queue = <<>> /\ candidates = <<>>
    BY DEF Init
  <2>2. AllEvents = <<>>
    <3> DEFINE s == [i \in DOMAIN read |-> EventsOf(read[i])]
    <3>1. DOMAIN read = {}
      BY <2>1, EmptySeq, LenProperties
    <3>2. s = <<>>
      BY <3>1
    <3>3. AllEvents = FlattenSeq(s)
      BY DEF AllEvents
    <3> QED
      BY <3>2, <3>3, FlattenEmpty
  <2>3. Halves = <<>>
    <3> DEFINE s == [i \in DOMAIN <<>> |-> Picked(<<>>[i])]
    <3>1. s = <<>>
      OBVIOUS
    <3>2. MessagesOf(<<>>) = FlattenSeq(s)
      BY MessagesType, EmptySeq
    <3> QED
      BY <2>2, <3>1, <3>2, FlattenEmpty DEF Halves
  <2>4. <<>> \in Seq(Events) /\ <<>> \o <<>> = <<>> /\ Len(<<>>) = 0
    BY EmptySeq, ConcatEmptySeq
  <2>5. ShownMessages = {} /\ Cardinality(ShownMessages) = 0
    <3>1. ShownMessages = {}
      BY <2>1, EmptySeq, LenProperties DEF ShownMessages
    <3> QED
      BY <3>1, FS_EmptySet
  <2>6. Balanced(<<>>)
    BY <2>4, <2>5 DEF Balanced
  <2>7. Once(<<>>)
    BY <2>1, <2>3, <2>4, <2>6 DEF Once, ToCome
  <2> QED
    BY <2>1, <2>4, <2>7 DEF OnceInv
<1>2. TypesInv /\ OnceInv => MessagesShownOnce
  <2> SUFFICES ASSUME TypesInv, OnceInv, adapter = "codex", queue = <<>>,
                      ~truncated, phase # "failed", WrittenTwice(Halves)
               PROVE  2 * Cardinality(ShownMessages) = Len(Halves)
    BY DEF MessagesShownOnce, ShownMessages
  <2>1. PICK done \in Seq(Events) : Once(done)
    BY DEF OnceInv
  <2>2. Halves = done
    <3>1. done \o <<>> = done
      BY ConcatEmptySeq
    <3> QED
      BY <2>1, <3>1 DEF Once, ToCome
  <2>3. Len(done) \in Nat /\ DOMAIN done = 1 .. Len(done)
    BY LenProperties
  <2>4. Paired(done) /\ Len(done) % 2 = 0
    BY <2>2, <2>3 DEF WrittenTwice, Paired
  <2>5. Balanced(done) /\ Len(done) % 2 # 1
    BY <2>1, <2>4 DEF Once
  <2> QED
    BY <2>2, <2>5 DEF Balanced
<1> QED
  BY <1>1, <1>2, OnceStep, TypesAlways, PTL DEF Spec
=============================================================================
