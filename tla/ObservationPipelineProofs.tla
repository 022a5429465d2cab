--------------------- MODULE ObservationPipelineProofs ---------------------
(***************************************************************************)
(* Proofs about the way of a session's state to the dashboard, for any     *)
(* sessions, capacities and bounds.                                        *)
(***************************************************************************)
EXTENDS ObservationPipeline, TLAPS, SequenceTheorems

USE DEF adapterVars, multiVars, relayVars, forwarderVars, readerVars

LEMMA Bounded ==
  ASSUME NEW S, NEW n \in Nat
  PROVE  \A s : s \in BoundedSeq(S, n) <=> s \in Seq(S) /\ Len(s) <= n
<1>1. ASSUME NEW s \in BoundedSeq(S, n) PROVE s \in Seq(S) /\ Len(s) <= n
  BY <1>1, IsASeq DEF BoundedSeq, SeqOf
<1>2. ASSUME NEW s \in Seq(S), Len(s) <= n PROVE s \in BoundedSeq(S, n)
  BY <1>2, LenProperties DEF BoundedSeq, SeqOf
<1> QED
  BY <1>1, <1>2

\* A channel after a send, which may have been dropped.
LEMMA SendBounded ==
  ASSUME NEW S, NEW capacity \in Nat, NEW channel \in BoundedSeq(S, capacity),
         NEW value \in S
  PROVE  /\ Send(channel, value, capacity) \in BoundedSeq(S, capacity)
         /\ Len(channel) # capacity
              => Send(channel, value, capacity) = Append(channel, value)
<1>1. channel \in Seq(S) /\ Len(channel) \in Nat /\ Len(channel) <= capacity
  BY Bounded, LenProperties
<1>2. /\ Append(channel, value) \in Seq(S)
      /\ Len(Append(channel, value)) = Len(channel) + 1
  BY <1>1, AppendProperties
<1>3. Len(channel) < capacity => Append(channel, value) \in BoundedSeq(S, capacity)
  <2>1. Len(channel) < capacity => Len(Append(channel, value)) <= capacity
    BY <1>1, <1>2
  <2> QED
    BY <1>2, <2>1, Bounded
<1> QED
  BY <1>1, <1>3 DEF Send

\* A channel that is received from.
LEMMA TakeBounded ==
  ASSUME NEW S, NEW capacity \in Nat, NEW channel \in BoundedSeq(S, capacity),
         channel # <<>>
  PROVE  /\ Head(channel) \in S /\ Tail(channel) \in BoundedSeq(S, capacity)
         /\ channel \in Seq(S) /\ Head(channel) = channel[1]
         /\ Len(channel) \in Nat \ {0}
         /\ Len(Tail(channel)) = Len(channel) - 1
         /\ \A i \in 1 .. Len(Tail(channel)) : Tail(channel)[i] = channel[i + 1]
<1>1. channel \in Seq(S) /\ Len(channel) \in Nat /\ Len(channel) <= capacity
  BY Bounded, LenProperties
<1>2. Len(channel) # 0
  BY <1>1, EmptySeq
<1>3. /\ Head(channel) \in S /\ Tail(channel) \in Seq(S)
      /\ Head(channel) = channel[1]
      /\ Len(Tail(channel)) = Len(channel) - 1
      /\ \A i \in 1 .. Len(Tail(channel)) : Tail(channel)[i] = channel[i + 1]
  BY <1>1, HeadTailProperties
<1>4. Tail(channel) \in BoundedSeq(S, capacity)
  <2>1. Len(Tail(channel)) <= capacity
    BY <1>1, <1>3
  <2> QED
    BY <1>3, <2>1, Bounded
<1> QED
  BY <1>1, <1>2, <1>3, <1>4

LEMMA EmptyBounded ==
  ASSUME NEW S, NEW n \in Nat
  PROVE  <<>> \in BoundedSeq(S, n)
<1>1. <<>> \in Seq(S) /\ Len(<<>>) = 0
  BY EmptySeq
<1>2. Len(<<>>) <= n
  BY <1>1
<1> QED
  BY <1>1, <1>2, Bounded

-----------------------------------------------------------------------------
(* Types.                                                                  *)

LEMMA States0 == 0 \in States /\ Nothing \notin States
BY PipelineAssumption DEF States, Nothing

LEMMA InitTypes == Init => TypeOK
<1> SUFFICES ASSUME Init PROVE TypeOK
  OBVIOUS
<1>1. /\ <<>> \in BoundedSeq(Sessions \X States, AdapterCap)
      /\ <<>> \in BoundedSeq(Sessions \X States, MultiCap)
      /\ <<>> \in BoundedSeq(Sessions, AdapterCap)
      /\ <<>> \in BoundedSeq(Sessions, MultiCap)
  BY EmptyBounded, PipelineAssumption
<1>2. /\ NoSessions \in [Sessions -> States]
      /\ NoSnapshot \in [Sessions -> States \cup {Nothing}]
  BY States0 DEF NoSessions, NoSnapshot
<1>3. 0 \in 0 .. MaxRemovals /\ 0 \in 0 .. MaxSubscribes
  BY PipelineAssumption
<1>4. /\ current \in [Sessions -> States] /\ versions \in [Sessions -> States]
      /\ projection \in [Sessions -> States]
      /\ dashboard \in [Sessions -> States]
      /\ pending \in [Sessions -> States \cup {Nothing}]
      /\ snapshot \in [Sessions -> States] \cup {NoSnapshot}
  BY <1>2, Zenon DEF Init
<1>5. /\ aUpdates \in BoundedSeq(Sessions \X States, AdapterCap)
      /\ mUpdates \in BoundedSeq(Sessions \X States, MultiCap)
      /\ aRemovals \in BoundedSeq(Sessions, AdapterCap)
      /\ mRemovals \in BoundedSeq(Sessions, MultiCap)
  BY <1>1, Zenon DEF Init
<1>6. /\ phase \in {"scanning", "running"} /\ dropped \in BOOLEAN
      /\ connected \in BOOLEAN /\ flushing \in BOOLEAN
      /\ subscribed \in BOOLEAN /\ reading \in BOOLEAN
      /\ overtaken \in SUBSET Sessions
      /\ removed \in 0 .. MaxRemovals /\ subscribes \in 0 .. MaxSubscribes
  BY <1>3, Zenon DEF Init
<1> QED
  BY <1>4, <1>5, <1>6, Zenon DEF TypeOK

LEMMA TypeStep == TypeOK /\ [Next]_vars => TypeOK'
<1> SUFFICES ASSUME TypeOK, [Next]_vars PROVE TypeOK'
  OBVIOUS
<1> USE PipelineAssumption, States0
<1>1. ASSUME NEW s \in Sessions, SetSession(s) PROVE TypeOK'
  <2>1. versions[s] + 1 \in States /\ versions[s] \in States
    BY <1>1 DEF SetSession, TypeOK, States
  <2>2. Send(aUpdates, <<s, versions[s] + 1>>, AdapterCap)
          \in BoundedSeq(Sessions \X States, AdapterCap)
    BY <2>1, SendBounded DEF TypeOK
  <2>3. dropped' \in BOOLEAN
    BY <1>1 DEF SetSession, NoteDrop
  <2>4. /\ versions' \in [Sessions -> States] /\ current' \in [Sessions -> States]
    BY <1>1, <2>1 DEF SetSession, TypeOK
  <2> QED
    BY <1>1, <2>2, <2>3, <2>4 DEF SetSession, TypeOK
<1>2. ASSUME NEW s \in Sessions, RemoveSession(s) PROVE TypeOK'
  <2>1. Send(aRemovals, s, AdapterCap) \in BoundedSeq(Sessions, AdapterCap)
    BY SendBounded DEF TypeOK
  <2>2. dropped' \in BOOLEAN
    BY <1>2 DEF RemoveSession, NoteDrop
  <2>3. current' \in [Sessions -> States] /\ removed' \in 0 .. MaxRemovals
    BY <1>2 DEF RemoveSession, TypeOK
  <2> QED
    BY <1>2, <2>1, <2>2, <2>3 DEF RemoveSession, TypeOK
<1>3. CASE Rebuild
  BY <1>3 DEF Rebuild, TypeOK
<1>4. CASE ForwardUpdate
  <2>1. /\ Head(aUpdates) \in Sessions \X States
        /\ Tail(aUpdates) \in BoundedSeq(Sessions \X States, AdapterCap)
    BY <1>4, TakeBounded DEF ForwardUpdate, TypeOK
  <2>2. Send(mUpdates, Head(aUpdates), MultiCap)
          \in BoundedSeq(Sessions \X States, MultiCap)
    BY <2>1, SendBounded DEF TypeOK
  <2>3. dropped' \in BOOLEAN
    BY <1>4 DEF ForwardUpdate, NoteDrop
  <2>4. projection' \in [Sessions -> States]
    BY <1>4, <2>1 DEF ForwardUpdate, TypeOK
  <2> QED
    BY <1>4, <2>1, <2>2, <2>3, <2>4 DEF ForwardUpdate, TypeOK
<1>5. CASE ForwardRemoval
  <2>1. /\ Head(aRemovals) \in Sessions
        /\ Tail(aRemovals) \in BoundedSeq(Sessions, AdapterCap)
    BY <1>5, TakeBounded DEF ForwardRemoval, TypeOK
  <2>2. Send(mRemovals, Head(aRemovals), MultiCap) \in BoundedSeq(Sessions, MultiCap)
    BY <2>1, SendBounded DEF TypeOK
  <2>3. dropped' \in BOOLEAN
    BY <1>5 DEF ForwardRemoval, NoteDrop
  <2>4. projection' \in [Sessions -> States]
    BY <1>5, <2>1 DEF ForwardRemoval, TypeOK
  <2> QED
    BY <1>5, <2>1, <2>2, <2>3, <2>4 DEF ForwardRemoval, TypeOK
<1>6. CASE TakeUpdate
  <2>1. /\ Head(mUpdates) \in Sessions \X States
        /\ Tail(mUpdates) \in BoundedSeq(Sessions \X States, MultiCap)
    BY <1>6, TakeBounded DEF TakeUpdate, TypeOK
  <2>2. pending' \in [Sessions -> States \cup {Nothing}]
    BY <1>6, <2>1 DEF TakeUpdate, Pending, TypeOK
  <2> QED
    BY <1>6, <2>1, <2>2 DEF TakeUpdate, TypeOK
<1>7. CASE TakeRemoval
  <2>1. /\ Head(mRemovals) \in Sessions
        /\ Tail(mRemovals) \in BoundedSeq(Sessions, MultiCap)
    BY <1>7, TakeBounded DEF TakeRemoval, TypeOK
  <2>2. pending' \in [Sessions -> States \cup {Nothing}]
    BY <1>7, <2>1 DEF TakeRemoval, Pending, TypeOK
  <2> QED
    BY <1>7, <2>1, <2>2 DEF TakeRemoval, TypeOK
<1>8. CASE Flush
  <2>1. pending' \in [Sessions -> States \cup {Nothing}]
    BY <1>8 DEF Flush, TypeOK, NoSnapshot
  <2> QED
    BY <1>8, <2>1 DEF Flush, MayFlush, TypeOK
<1>9. ASSUME NEW s \in Sessions, WriteDelta(s) PROVE TypeOK'
  <2>1. /\ dashboard' \in [Sessions -> States]
        /\ pending' \in [Sessions -> States \cup {Nothing}]
        /\ flushing' \in BOOLEAN /\ overtaken' \in SUBSET Sessions
    BY <1>9 DEF WriteDelta, TypeOK
  <2> QED
    BY <1>9, <2>1 DEF WriteDelta, TypeOK
<1>10. CASE Subscribe
  BY <1>10 DEF Subscribe, TypeOK
<1>11. CASE Connect \/ ReadProjection \/ WriteSnapshot \/ Unsubscribe
  BY <1>11 DEF Connect, ReadProjection, WriteSnapshot, Unsubscribe, TypeOK
<1>12. CASE UNCHANGED vars
  BY <1>12 DEF vars, TypeOK
<1> QED
  BY <1>1, <1>2, <1>3, <1>4, <1>5, <1>6, <1>7, <1>8, <1>9, <1>10, <1>11, <1>12
     DEF Next

LEMMA TypesAlways == Spec => []TypeOK
BY InitTypes, TypeStep, PTL DEF Spec

\* Every variable keeps its type, and no channel grows beyond its capacity: a
\* send to a full one is dropped (the select with a default in
\* setSessionLocked, emitRemovalLocked and forward).
THEOREM PipelineTypes == Spec => []TypeOK
BY TypesAlways

-----------------------------------------------------------------------------
(* Silence before the subscription.                                        *)

SilentInv ==
    subscribes = 0 => /\ dashboard = NoSessions /\ snapshot = NoSnapshot
                      /\ ~subscribed /\ ~reading /\ ~flushing

\* With any backlog of updates, nothing reaches the dashboard before it has
\* subscribed: the forwarder throws away what it has collected (the flush in
\* forwardObservation).
THEOREM SilentBefore == Spec => []SilentUntilSubscribed
<1>1. Init => SilentInv
  BY DEF Init, SilentInv
<1>2. TypeOK /\ SilentInv /\ [Next]_vars => SilentInv'
  <2> SUFFICES ASSUME TypeOK, SilentInv, [Next]_vars PROVE SilentInv'
    OBVIOUS
  <2>1. CASE Subscribe
    BY <2>1, PipelineAssumption DEF Subscribe, SilentInv, TypeOK
  <2>2. CASE \/ Rebuild \/ ForwardUpdate \/ ForwardRemoval \/ Connect
             \/ TakeUpdate \/ TakeRemoval \/ Flush
             \/ ReadProjection \/ WriteSnapshot
             \/ Unsubscribe \/ UNCHANGED vars
             \/ \E s \in Sessions : \/ SetSession(s) \/ RemoveSession(s)
                                    \/ WriteDelta(s)
    BY <2>2 DEF SilentInv, Rebuild, ForwardUpdate, ForwardRemoval, Connect,
       TakeUpdate, TakeRemoval, Flush, MayFlush, ReadProjection,
       WriteSnapshot, Unsubscribe,
       SetSession, RemoveSession, WriteDelta, vars
  <2> QED
    BY <2>1, <2>2 DEF Next
<1>3. SilentInv => SilentUntilSubscribed
  BY DEF SilentInv, SilentUntilSubscribed
<1> QED
  BY <1>1, <1>2, <1>3, TypesAlways, PTL DEF Spec

-----------------------------------------------------------------------------
(* What the projection comes to.                                           *)

\* The last update of a session that waits in the adapter's channel, if there
\* is one, has its current state; if there is none, the projection has it.
LastOf(s, i) ==
    /\ i \in DOMAIN aUpdates /\ aUpdates[i][1] = s
    /\ \A j \in DOMAIN aUpdates : j > i => aUpdates[j][1] # s

NoneOf(s) == \A i \in DOMAIN aUpdates : aUpdates[i][1] # s

Followed(s) ==
    /\ \A i \in DOMAIN aUpdates : LastOf(s, i) => aUpdates[i][2] = current[s]
    /\ phase = "running" /\ NoneOf(s) => projection[s] = current[s]

\* Nothing that was removed waits where nothing was removed.
FollowInv ==
    /\ removed = 0 => aRemovals = <<>>
    /\ Undisturbed => \A s \in Sessions : current[s] = versions[s] /\ Followed(s)

LEMMA InitFollows == Init => FollowInv
<1> SUFFICES ASSUME Init PROVE FollowInv
  OBVIOUS
<1>1. aUpdates = <<>> /\ aRemovals = <<>> /\ current = versions
      /\ phase = "scanning"
  BY DEF Init
<1>2. DOMAIN aUpdates = {}
  BY <1>1, EmptySeq, LenProperties
<1>3. \A s \in Sessions : Followed(s)
  BY <1>1, <1>2 DEF Followed, LastOf, NoneOf
<1> QED
  BY <1>1, <1>3 DEF FollowInv

LEMMA SetFollows ==
  ASSUME TypeOK, FollowInv, NEW s \in Sessions, SetSession(s)
  PROVE  FollowInv'
<1>1. removed' = 0 => aRemovals' = <<>>
  BY DEF SetSession, FollowInv
<1>2. ASSUME Undisturbed' PROVE Undisturbed /\ Len(aUpdates) # AdapterCap
  BY <1>2 DEF Undisturbed, SetSession, NoteDrop
<1>3. ASSUME Undisturbed', NEW t \in Sessions
      PROVE  current[t]' = versions[t]' /\ Followed(t)'
  <2> DEFINE v == versions[s] + 1
             n == Len(aUpdates)
  <2>1. v \in States
    BY PipelineAssumption DEF SetSession, TypeOK, States
  <2>2. /\ aUpdates \in Seq(Sessions \X States)
        /\ aUpdates' = Append(aUpdates, <<s, v>>)
    <3>1. AdapterCap \in Nat
      BY PipelineAssumption
    <3>2. aUpdates \in BoundedSeq(Sessions \X States, AdapterCap)
      BY DEF TypeOK
    <3>3. aUpdates' = Send(aUpdates, <<s, v>>, AdapterCap)
      BY DEF SetSession
    <3>4. <<s, v>> \in Sessions \X States
      BY <2>1
    <3>5. Len(aUpdates) # AdapterCap
      BY <1>2, <1>3
    <3> HIDE DEF v
    <3>6. Send(aUpdates, <<s, v>>, AdapterCap) = Append(aUpdates, <<s, v>>)
      BY <3>1, <3>2, <3>4, <3>5, SendBounded
    <3>7. aUpdates \in Seq(Sessions \X States)
      BY <3>1, <3>2, Bounded
    <3> QED
      BY <3>3, <3>6, <3>7
  <2> HIDE DEF n
  <2>3. /\ n \in Nat /\ DOMAIN aUpdates = 1 .. n /\ DOMAIN aUpdates' = 1 .. n + 1
        /\ aUpdates'[n + 1] = <<s, v>>
        /\ \A i \in 1 .. n : aUpdates'[i] = aUpdates[i]
    <3>1. <<s, v>> \in Sessions \X States
      BY <2>1
    <3> HIDE DEF v
    <3>2. /\ Append(aUpdates, <<s, v>>) \in Seq(Sessions \X States)
          /\ Len(Append(aUpdates, <<s, v>>)) = n + 1
          /\ Append(aUpdates, <<s, v>>)[n + 1] = <<s, v>>
          /\ \A i \in 1 .. n : Append(aUpdates, <<s, v>>)[i] = aUpdates[i]
      BY <2>2, <3>1, AppendProperties DEF n
    <3>3. n \in Nat /\ DOMAIN aUpdates = 1 .. n
      BY <2>2, LenProperties DEF n
    <3>4. DOMAIN Append(aUpdates, <<s, v>>) = 1 .. n + 1
      BY <3>2, LenProperties
    <3> QED
      BY <2>2, <3>2, <3>3, <3>4
  <2>4. /\ current'[s] = v /\ versions'[s] = v
        /\ t # s => current'[t] = current[t] /\ versions'[t] = versions[t]
        /\ projection' = projection /\ phase' = phase
    BY DEF SetSession, TypeOK
  <2>5. current[t] = versions[t] /\ Followed(t)
    BY <1>2, <1>3 DEF FollowInv
  <2> HIDE DEF v
  <2>6. CASE t = s
    <3>1. n + 1 \in DOMAIN aUpdates' /\ aUpdates'[n + 1][1] = s
          /\ aUpdates'[n + 1][2] = v
      BY <2>3
    <3>2. ~NoneOf(t)'
      BY <2>6, <3>1 DEF NoneOf
    <3>3. ASSUME NEW i \in DOMAIN aUpdates', LastOf(t, i)'
          PROVE  aUpdates'[i][2] = current'[t]
      <4>1. i = n + 1
        <5>1. ~(n + 1 > i)
          BY <2>6, <3>1, <3>3 DEF LastOf
        <5>2. i \in 1 .. n + 1
          BY <2>3
        <5> QED
          BY <2>3, <5>1, <5>2
      <4> QED
        BY <2>4, <2>6, <3>1, <4>1
    <3> QED
      BY <2>4, <2>6, <3>2, <3>3 DEF Followed
  <2>7. CASE t # s
    <3>1. ASSUME NEW i \in DOMAIN aUpdates', LastOf(t, i)'
          PROVE  aUpdates'[i][2] = current'[t]
      <4>1. i \in 1 .. n /\ i \in DOMAIN aUpdates /\ aUpdates'[i] = aUpdates[i]
        <5>1. i \in 1 .. n + 1 /\ i # n + 1
          BY <2>3, <2>7, <3>1 DEF LastOf
        <5> QED
          BY <2>3, <5>1
      <4>2. LastOf(t, i)
        <5>1. \A j \in 1 .. n : j \in 1 .. n + 1
          BY <2>3
        <5> QED
          BY <2>3, <3>1, <4>1, <5>1 DEF LastOf
      <4> QED
        BY <2>4, <2>5, <2>7, <4>1, <4>2 DEF Followed
    <3>2. NoneOf(t)' => NoneOf(t)
      <4>1. \A i \in 1 .. n : i \in 1 .. n + 1
        BY <2>3
      <4> QED
        BY <2>3, <4>1 DEF NoneOf
    <3> QED
      BY <2>4, <2>5, <2>7, <3>1, <3>2 DEF Followed
  <2> QED
    BY <2>6, <2>7
<1> QED
  BY <1>1, <1>3 DEF FollowInv

LEMMA ForwardFollows ==
  ASSUME TypeOK, FollowInv, ForwardUpdate
  PROVE  FollowInv'
<1>1. removed' = 0 => aRemovals' = <<>>
  BY DEF ForwardUpdate, FollowInv
<1>2. ASSUME Undisturbed' PROVE Undisturbed
  BY <1>2 DEF Undisturbed, ForwardUpdate, NoteDrop
<1>3. ASSUME Undisturbed', NEW t \in Sessions
      PROVE  current[t]' = versions[t]' /\ Followed(t)'
  <2> DEFINE n == Len(aUpdates')
             h == Head(aUpdates)
  <2>1. /\ aUpdates' = Tail(aUpdates) /\ aUpdates # <<>>
        /\ projection' = [projection EXCEPT ![h[1]] = h[2]]
        /\ phase = "running"
        /\ UNCHANGED <<current, versions, phase>>
    BY DEF ForwardUpdate
  <2>2. /\ n \in Nat /\ DOMAIN aUpdates = 1 .. n + 1 /\ DOMAIN aUpdates' = 1 .. n
        /\ h = aUpdates[1] /\ h \in Sessions \X States
        /\ \A i \in 1 .. n : aUpdates'[i] = aUpdates[i + 1]
    <3>1. aUpdates \in BoundedSeq(Sessions \X States, AdapterCap)
          /\ AdapterCap \in Nat
      BY PipelineAssumption DEF TypeOK
    <3>2. /\ h \in Sessions \X States
          /\ Tail(aUpdates) \in BoundedSeq(Sessions \X States, AdapterCap)
          /\ aUpdates \in Seq(Sessions \X States) /\ h = aUpdates[1]
          /\ Len(aUpdates) \in Nat \ {0}
          /\ Len(Tail(aUpdates)) = Len(aUpdates) - 1
          /\ \A i \in 1 .. Len(Tail(aUpdates)) :
                Tail(aUpdates)[i] = aUpdates[i + 1]
      BY <2>1, <3>1, TakeBounded
    <3>3. Tail(aUpdates) \in Seq(Sessions \X States)
      BY <3>1, <3>2, Bounded
    <3>4. DOMAIN aUpdates = 1 .. Len(aUpdates) /\ DOMAIN aUpdates' = 1 .. n
      BY <2>1, <3>2, <3>3, LenProperties
    <3>5. n \in Nat /\ Len(aUpdates) = n + 1
      BY <2>1, <3>2
    <3> QED
      BY <2>1, <3>2, <3>4, <3>5
  <2> HIDE DEF n, h
  <2>3. current[t] = versions[t] /\ Followed(t)
    BY <1>2, <1>3 DEF FollowInv
  <2>4. ASSUME NEW i \in DOMAIN aUpdates', LastOf(t, i)'
        PROVE  aUpdates'[i][2] = current'[t]
    <3>1. i \in 1 .. n /\ i \in Int /\ i + 1 \in DOMAIN aUpdates
          /\ aUpdates'[i] = aUpdates[i + 1]
      BY <2>2
    <3>2. ASSUME NEW j \in DOMAIN aUpdates, j > i + 1 PROVE aUpdates[j][1] # t
      <4>1. j - 1 \in 1 .. n /\ j - 1 > i /\ (j - 1) + 1 = j
        BY <2>2, <3>1, <3>2
      <4>2. aUpdates'[j - 1] = aUpdates[j]
        BY <2>2, <4>1
      <4>3. aUpdates'[j - 1][1] # t
        BY <2>2, <2>4, <4>1 DEF LastOf
      <4> QED
        BY <4>2, <4>3
    <3>3. LastOf(t, i + 1)
      BY <2>4, <3>1, <3>2 DEF LastOf
    <3> QED
      BY <2>1, <2>3, <3>1, <3>3 DEF Followed
  <2>5. ASSUME NoneOf(t)' PROVE projection'[t] = current'[t]
    <3>1. ASSUME NEW j \in DOMAIN aUpdates, j > 1 PROVE aUpdates[j][1] # t
      <4>1. j - 1 \in 1 .. n /\ (j - 1) + 1 = j
        BY <2>2, <3>1
      <4>2. aUpdates'[j - 1] = aUpdates[j]
        BY <2>2, <4>1
      <4> QED
        BY <2>2, <2>5, <4>1, <4>2 DEF NoneOf
    <3>2. 1 \in DOMAIN aUpdates
      BY <2>2
    <3>3. CASE h[1] = t
      <4>1. LastOf(t, 1)
        BY <2>2, <3>1, <3>2, <3>3 DEF LastOf
      <4>2. h[2] = current[t]
        BY <2>2, <2>3, <3>2, <4>1 DEF Followed
      <4>3. projection'[t] = h[2]
        BY <2>1, <3>3 DEF TypeOK
      <4> QED
        BY <2>1, <4>2, <4>3
    <3>4. CASE h[1] # t
      <4>1. NoneOf(t)
        <5>1. \A j \in DOMAIN aUpdates : j = 1 \/ j > 1
          BY <2>2
        <5> QED
          BY <2>2, <3>1, <3>4, <5>1 DEF NoneOf
      <4>2. projection'[t] = projection[t]
        BY <2>1, <3>4 DEF TypeOK
      <4> QED
        BY <2>1, <2>3, <4>1, <4>2 DEF Followed
    <3> QED
      BY <3>3, <3>4
  <2> QED
    BY <2>1, <2>3, <2>4, <2>5 DEF Followed
<1> QED
  BY <1>1, <1>3 DEF FollowInv

LEMMA FollowStep == TypeOK /\ FollowInv /\ [Next]_vars => FollowInv'
<1> SUFFICES ASSUME TypeOK, FollowInv, [Next]_vars PROVE FollowInv'
  OBVIOUS
<1>1. ASSUME NEW s \in Sessions, SetSession(s) PROVE FollowInv'
  BY <1>1, SetFollows
<1>2. ASSUME NEW s \in Sessions, RemoveSession(s) PROVE FollowInv'
  <2>1. removed' # 0
    BY <1>2, PipelineAssumption DEF RemoveSession, TypeOK
  <2> QED
    BY <2>1 DEF FollowInv, Undisturbed
<1>3. CASE Rebuild
  <2>1. \A s \in Sessions : projection'[s] = current'[s]
    BY <1>3 DEF Rebuild
  <2>2. UNCHANGED <<aUpdates, aRemovals, current, versions, removed, dropped>>
    BY <1>3 DEF Rebuild
  <2> QED
    BY <2>1, <2>2 DEF FollowInv, Undisturbed, Followed, LastOf, NoneOf
<1>4. CASE ForwardUpdate
  BY <1>4, ForwardFollows
<1>5. CASE ForwardRemoval
  <2>1. removed' # 0
    BY <1>5 DEF ForwardRemoval, FollowInv
  <2> QED
    BY <2>1 DEF FollowInv, Undisturbed
<1>6. CASE UNCHANGED <<phase, adapterVars, projection>>
  BY <1>6 DEF FollowInv, Undisturbed, Followed, LastOf, NoneOf
<1>7. CASE \/ Connect \/ TakeUpdate \/ TakeRemoval \/ Flush \/ WriteSnapshot
           \/ Subscribe \/ ReadProjection \/ Unsubscribe \/ UNCHANGED vars
           \/ \E s \in Sessions : WriteDelta(s)
  <2>1. UNCHANGED <<phase, adapterVars, projection>>
    BY <1>7 DEF Connect, TakeUpdate, TakeRemoval, Flush, WriteSnapshot,
       Subscribe, ReadProjection, Unsubscribe, WriteDelta, vars
  <2> QED
    BY <1>6, <2>1
<1> QED
  BY <1>1, <1>2, <1>3, <1>4, <1>5, <1>7 DEF Next

\* The largest of some indices.
First(x, y) == x
Index == INSTANCE FoldLemmas WITH Op <- First, Base <- 0

LEMMA LargestOf ==
  ASSUME NEW n \in Nat, NEW S \in SUBSET (1 .. n), S # {}
  PROVE  Max(S) \in S /\ \A y \in S : y <= Max(S)
<1>1. Max(S) = Index!Max(S)
  BY Zenon DEF Max, Index!Max
<1>2. Index!Max(S) \in S /\ \A y \in S : y <= Index!Max(S)
  BY Index!LargestIndex
<1> QED
  BY <1>1, <1>2

\* Whatever backlog the first scan leaves in the channels, and although
\* rebuild has overtaken it, with nothing removed and no channel full the
\* projection comes to the adapter's own state (Scan, rebuild and forward of
\* multiobserver).
THEOREM ProjectionComesTo == Spec => []ProjectionFollows
<1>1. TypeOK /\ FollowInv => ProjectionFollows
  <2> SUFFICES ASSUME TypeOK, FollowInv, phase = "running", Undisturbed,
                      NEW s \in Sessions
               PROVE  Newest(s) = current[s]
    BY DEF ProjectionFollows
  <2> DEFINE mine == {i \in DOMAIN aUpdates : aUpdates[i][1] = s}
  <2>1. Followed(s)
    BY DEF FollowInv
  <2>2. CASE mine = {}
    <3>1. NoneOf(s)
      BY <2>2 DEF NoneOf
    <3>2. Newest(s) = projection[s]
      BY <2>2, Zenon DEF Newest
    <3> QED
      BY <2>1, <3>1, <3>2 DEF Followed
  <2>3. CASE mine # {}
    <3>1. Len(aUpdates) \in Nat /\ DOMAIN aUpdates = 1 .. Len(aUpdates)
      <4>1. aUpdates \in Seq(Sessions \X States)
        BY PipelineAssumption, Bounded DEF TypeOK
      <4> QED
        BY <4>1, LenProperties
    <3>2. Max(mine) \in mine /\ \A y \in mine : y <= Max(mine)
      <4>1. mine \in SUBSET (1 .. Len(aUpdates))
        BY <3>1
      <4> HIDE DEF mine
      <4> QED
        BY <2>3, <3>1, <4>1, LargestOf
    <3>3. LastOf(s, Max(mine))
      <4>1. Max(mine) \in DOMAIN aUpdates /\ aUpdates[Max(mine)][1] = s
        BY <3>2
      <4>2. ASSUME NEW j \in DOMAIN aUpdates, j > Max(mine)
            PROVE  aUpdates[j][1] # s
        <5>1. j \notin mine
          <6>1. j \in Int /\ Max(mine) \in Int
            BY <3>1, <4>1
          <6> HIDE DEF mine
          <6> QED
            BY <3>2, <4>2, <6>1
        <5> QED
          BY <5>1
      <4> QED
        BY <4>1, <4>2 DEF LastOf
    <3>4. Newest(s) = aUpdates[Max(mine)][2]
      BY <2>3, Zenon DEF Newest
    <3> QED
      BY <2>1, <3>3, <3>4 DEF Followed, LastOf
  <2> QED
    BY <2>2, <2>3
<1> QED
  BY <1>1, InitFollows, FollowStep, TypesAlways, PTL DEF Spec
=============================================================================
