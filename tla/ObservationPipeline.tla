------------------------ MODULE ObservationPipeline ------------------------
(***************************************************************************)
(* The way of a session's state from an adapter to the dashboard: the      *)
(* adapter's updates and removals channels (codexobserver and              *)
(* lineobserver setSessionLocked, emitRemovalLocked), the projection and   *)
(* its own two channels (multiobserver Scan, rebuild, forward), the        *)
(* pending map of the connection's forwarder with its 250 ms flush         *)
(* (observerrelay forwardObservation) and the snapshot that answers a      *)
(* subscription (readLoop).                                                *)
(*                                                                         *)
(* The state of a session is a version number, 0 when there is no such     *)
(* session.  One adapter and one connection are enough: adapters share     *)
(* nothing but multiobserver's channels.                                   *)
(***************************************************************************)
EXTENDS Integers, SequencesExt

CONSTANTS
    Sessions,        \* session ids
    MaxVersion,      \* bound: states a session goes through
    Busy,            \* bound: sessions with more than one state
    MaxRemovals,     \* bound: removals of sessions
    MaxSubscribes,   \* bound: observe.subscribe messages
    AdapterCap,      \* capacity of an adapter's updates and removals channels
    MultiCap         \* capacity of multiobserver's updates and removals

ASSUME PipelineAssumption ==
    /\ MaxVersion \in Nat /\ MaxRemovals \in Nat /\ MaxSubscribes \in Nat
    /\ AdapterCap \in Nat \ {0} /\ MultiCap \in Nat \ {0}

VARIABLES
    phase,        \* "scanning", or "running" once the projection is built
    current,      \* the adapter's sessions map
    versions,     \* states each session went through
    removed,      \* removals so far
    dropped,      \* history: some send has met a full channel
    aUpdates, aRemovals,   \* the adapter's channels
    projection,   \* multiobserver.sessions
    mUpdates, mRemovals,   \* multiobserver's channels
    connected,    \* a connection is ready, its forwarder runs
    pending,      \* the forwarder's map: Nothing, 0 for a removal, or a state
    flushing,     \* the forwarder ranges over pending
    subscribed,   \* relay.subscribed
    subscribes,   \* subscriptions so far
    reading,      \* readLoop has set subscribed and not read the projection yet
    snapshot,     \* the snapshot that waits for the socket, or NoSnapshot
    overtaken,    \* history: sessions whose delta went out before the snapshot,
                  \* which was read earlier and tells another state
    dashboard     \* external: the sessions the browser shows

adapterVars == <<current, versions, removed, dropped, aUpdates, aRemovals>>
multiVars == <<projection, mUpdates, mRemovals>>
forwarderVars == <<connected, pending, flushing>>
readerVars == <<subscribed, subscribes, reading, snapshot>>
relayVars == <<forwarderVars, readerVars, overtaken>>
vars == <<phase, adapterVars, multiVars, relayVars, dashboard>>

Nothing == -1
NoSnapshot == [s \in Sessions |-> Nothing]
NoSessions == [s \in Sessions |-> 0]

SendBlocking(channel, value, capacity) == Append(channel, value)
                                              \* mutant of Send
\* A send in a select with a default case: dropped when the channel is full.
Send(channel, value, capacity) ==
    IF Len(channel) < capacity THEN Append(channel, value) ELSE channel

NoteDrop(channel, capacity) == dropped' = (dropped \/ Len(channel) = capacity)

Init ==
    /\ phase = "scanning"
    /\ current = NoSessions /\ versions = NoSessions /\ removed = 0
    /\ dropped = FALSE
    /\ aUpdates = <<>> /\ aRemovals = <<>>
    /\ projection = NoSessions /\ mUpdates = <<>> /\ mRemovals = <<>>
    /\ connected = FALSE /\ pending = NoSnapshot /\ flushing = FALSE
    /\ subscribed = FALSE /\ subscribes = 0
    /\ reading = FALSE /\ snapshot = NoSnapshot
    /\ overtaken = {} /\ dashboard = NoSessions

-----------------------------------------------------------------------------
(* The adapter, while the first Scan runs and afterwards.                  *)

\* setSessionLocked.
SetSession(s) ==
    /\ versions[s] < MaxVersion /\ (s \in Busy \/ versions[s] = 0)
    /\ versions' = [versions EXCEPT ![s] = @ + 1]
    /\ current' = [current EXCEPT ![s] = versions[s] + 1]
    /\ aUpdates' = Send(aUpdates, <<s, versions[s] + 1>>, AdapterCap)
    /\ NoteDrop(aUpdates, AdapterCap)
    /\ UNCHANGED <<phase, removed, aRemovals, multiVars, relayVars, dashboard>>

\* A log file is truncated or gone: delete and emitRemovalLocked.
RemoveSession(s) ==
    /\ current[s] # 0 /\ removed < MaxRemovals
    /\ removed' = removed + 1
    /\ current' = [current EXCEPT ![s] = 0]
    /\ aRemovals' = Send(aRemovals, s, AdapterCap)
    /\ NoteDrop(aRemovals, AdapterCap)
    /\ UNCHANGED <<phase, versions, aUpdates, multiVars, relayVars, dashboard>>

-----------------------------------------------------------------------------
(* multiobserver.                                                          *)

\* The end of the first Scan: rebuild takes over the adapter's sessions.  The
\* adapter's channels keep what the scan has put into them.
Rebuild ==
    /\ phase = "scanning"
    /\ phase' = "running"
    /\ projection' = current
    /\ UNCHANGED <<adapterVars, mUpdates, mRemovals, relayVars, dashboard>>

ForwardUpdateUnstored ==                      \* mutant of ForwardUpdate
    /\ phase = "running" /\ aUpdates # <<>>
    /\ aUpdates' = Tail(aUpdates)
    /\ mUpdates' = Send(mUpdates, Head(aUpdates), MultiCap)
    /\ NoteDrop(mUpdates, MultiCap)
    /\ UNCHANGED <<phase, current, versions, removed, aRemovals, projection,
                   mRemovals, relayVars, dashboard>>

\* forward: the select takes either channel when both are ready.
ForwardUpdate ==
    /\ phase = "running" /\ aUpdates # <<>>
    /\ aUpdates' = Tail(aUpdates)
    /\ LET s == Head(aUpdates)[1]
           v == Head(aUpdates)[2] IN
       projection' = [projection EXCEPT ![s] = v]
    /\ mUpdates' = Send(mUpdates, Head(aUpdates), MultiCap)
    /\ NoteDrop(mUpdates, MultiCap)
    /\ UNCHANGED <<phase, current, versions, removed, aRemovals, mRemovals,
                   relayVars, dashboard>>

ForwardRemoval ==
    /\ phase = "running" /\ aRemovals # <<>>
    /\ aRemovals' = Tail(aRemovals)
    /\ projection' = [projection EXCEPT ![Head(aRemovals)] = 0]
    /\ mRemovals' = Send(mRemovals, Head(aRemovals), MultiCap)
    /\ NoteDrop(mRemovals, MultiCap)
    /\ UNCHANGED <<phase, current, versions, removed, aUpdates, mUpdates,
                   relayVars, dashboard>>

-----------------------------------------------------------------------------
(* observerrelay: the forwarder of the connection.                         *)

Connect ==
    /\ phase = "running" /\ ~connected
    /\ connected' = TRUE
    /\ UNCHANGED <<phase, adapterVars, multiVars, pending, flushing,
                   readerVars, overtaken, dashboard>>

PendingFirst(s, v) ==                         \* mutant of Pending
    IF pending[s] = Nothing THEN [pending EXCEPT ![s] = v] ELSE pending
Pending(s, v) == [pending EXCEPT ![s] = v]

TakeUpdate ==
    /\ connected /\ ~flushing /\ mUpdates # <<>>
    /\ mUpdates' = Tail(mUpdates)
    /\ pending' = Pending(Head(mUpdates)[1], Head(mUpdates)[2])
    /\ UNCHANGED <<phase, adapterVars, projection, mRemovals, connected,
                   flushing, readerVars, overtaken, dashboard>>

TakeRemovalForgets ==                         \* mutant of TakeRemoval
    /\ connected /\ ~flushing /\ mRemovals # <<>>
    /\ mRemovals' = Tail(mRemovals)
    /\ pending' = [pending EXCEPT ![Head(mRemovals)] = Nothing]
    /\ UNCHANGED <<phase, adapterVars, projection, mUpdates, connected,
                   flushing, readerVars, overtaken, dashboard>>

TakeRemoval ==
    /\ connected /\ ~flushing /\ mRemovals # <<>>
    /\ mRemovals' = Tail(mRemovals)
    /\ pending' = Pending(Head(mRemovals), 0)
    /\ UNCHANGED <<phase, adapterVars, projection, mUpdates, connected,
                   flushing, readerVars, overtaken, dashboard>>

FlushAlways == TRUE                           \* mutant of MayFlush
MayFlush == subscribed

\* The ticker: nothing is kept for a dashboard that is not subscribed.
Flush ==
    /\ connected /\ ~flushing /\ pending # NoSnapshot
    /\ flushing' = MayFlush
    /\ pending' = IF MayFlush THEN pending ELSE NoSnapshot
    /\ UNCHANGED <<phase, adapterVars, multiVars, connected, readerVars,
                   overtaken, dashboard>>

\* A delta of s that says something else than the snapshot still to be written.
Overtakes(s) == snapshot[s] \notin {Nothing, pending[s]}

\* One observe.delta; the range over the map takes the sessions in any order,
\* and the write may come before that of a snapshot that was read earlier.
WriteDelta(s) ==
    /\ flushing /\ pending[s] # Nothing
    /\ dashboard' = [dashboard EXCEPT ![s] = pending[s]]
    /\ pending' = [pending EXCEPT ![s] = Nothing]
    /\ flushing' = (pending' # NoSnapshot)
    /\ overtaken' = IF Overtakes(s) THEN overtaken \cup {s}
                                    ELSE overtaken \ {s}
    /\ UNCHANGED <<phase, adapterVars, multiVars, connected, readerVars>>

-----------------------------------------------------------------------------
(* observerrelay: readLoop, one message at a time.                         *)

Between == ~reading /\ snapshot = NoSnapshot

\* observe.subscribe: from setSubscribed(true) on the ticker flushes.
Subscribe ==
    /\ connected /\ Between /\ subscribes < MaxSubscribes
    /\ subscribed' = TRUE /\ subscribes' = subscribes + 1
    /\ reading' = TRUE
    /\ UNCHANGED <<phase, adapterVars, multiVars, forwarderVars, snapshot,
                   overtaken, dashboard>>

\* The argument of write: Sessions() is read before write takes writeMu.
ReadProjection ==
    /\ reading
    /\ reading' = FALSE
    /\ snapshot' = projection
    /\ overtaken' = {}
    /\ UNCHANGED <<phase, adapterVars, multiVars, forwarderVars, subscribed,
                   subscribes, dashboard>>

WriteSnapshot ==
    /\ snapshot # NoSnapshot
    /\ dashboard' = snapshot
    /\ snapshot' = NoSnapshot
    /\ UNCHANGED <<phase, adapterVars, multiVars, forwarderVars, subscribed,
                   subscribes, reading, overtaken>>

Unsubscribe ==
    /\ connected /\ Between /\ subscribed
    /\ subscribed' = FALSE
    /\ UNCHANGED <<phase, adapterVars, multiVars, forwarderVars, subscribes,
                   reading, snapshot, overtaken, dashboard>>

Next ==
    \/ \E s \in Sessions : SetSession(s) \/ RemoveSession(s)
    \/ Rebuild \/ ForwardUpdate \/ ForwardRemoval
    \/ Connect \/ TakeUpdate \/ TakeRemoval
    \/ Flush \/ \E s \in Sessions : WriteDelta(s)
    \/ Subscribe \/ ReadProjection \/ WriteSnapshot \/ Unsubscribe

Spec == Init /\ [][Next]_vars

\* The goroutines run and the ticker ticks.  A select that always has two
\* channels to choose from takes each of them again and again.
Fairness ==
    /\ WF_vars(Rebuild)
    /\ WF_vars(ForwardUpdate) /\ WF_vars(ForwardRemoval)
    /\ SF_vars(TakeUpdate) /\ SF_vars(TakeRemoval) /\ SF_vars(Flush)
    /\ \A s \in Sessions : WF_vars(WriteDelta(s))
    /\ WF_vars(ReadProjection) /\ WF_vars(WriteSnapshot)

FairSpec == Spec /\ Fairness
-----------------------------------------------------------------------------
(* Properties.                                                             *)

States == 0 .. MaxVersion

\* Every variable keeps its type, and no channel grows beyond its capacity.
TypeOK ==
    /\ phase \in {"scanning", "running"}
    /\ current \in [Sessions -> States] /\ versions \in [Sessions -> States]
    /\ removed \in 0 .. MaxRemovals /\ dropped \in BOOLEAN
    /\ aUpdates \in BoundedSeq(Sessions \X States, AdapterCap)
    /\ mUpdates \in BoundedSeq(Sessions \X States, MultiCap)
    /\ aRemovals \in BoundedSeq(Sessions, AdapterCap)
    /\ mRemovals \in BoundedSeq(Sessions, MultiCap)
    /\ projection \in [Sessions -> States]
    /\ connected \in BOOLEAN /\ flushing \in BOOLEAN /\ subscribed \in BOOLEAN
    /\ pending \in [Sessions -> States \cup {Nothing}]
    /\ subscribes \in 0 .. MaxSubscribes /\ reading \in BOOLEAN
    /\ overtaken \in SUBSET Sessions
    /\ snapshot \in [Sessions -> States] \cup {NoSnapshot}
    /\ dashboard \in [Sessions -> States]

\* The guide: the Connector "waits for the dashboard subscription before
\* sending snapshots and deltas": with a backlog of updates from the first
\* scan nothing reaches the browser until it asks.
SilentUntilSubscribed == subscribes = 0 => dashboard = NoSessions

\* The state of s that the projection reaches once the adapter's channel is
\* drained.
Newest(s) ==
    LET mine == {i \in DOMAIN aUpdates : aUpdates[i][1] = s} IN
    IF mine = {} THEN projection[s] ELSE aUpdates[Max(mine)][2]

\* Nothing was removed, and no channel was ever full.
Undisturbed == removed = 0 /\ ~dropped

\* The backlog of the first scan, which rebuild has overtaken, is replayed but
\* does no lasting harm: with nothing removed and no channel full, draining
\* the adapter's channel always leads to the adapter's own state.
ProjectionFollows ==
    phase = "running" /\ Undisturbed =>
        \A s \in Sessions : Newest(s) = current[s]

\* README.md:183 promises "session snapshot and subsequent status updates":
\* when the log files come to rest and a dashboard stays subscribed, it ends
\* up showing exactly the adapter's sessions in their latest state.
CatchesUp ==
    <>[](subscribed /\ phase = "running") => <>[](dashboard = current)

\* Every row shows the adapter's latest state, save those of which a delta was
\* written before a snapshot read earlier: the snapshot puts the older state
\* back, and no later delta or subscription has corrected it.
RowsRight ==
    \A s \in Sessions : dashboard[s] = current[s] \/ s \in overtaken

\* The same promise (README.md:183) as far as no channel is ever full and no
\* snapshot was overtaken: then nothing that an adapter has sent is lost.
CatchesUpUndropped ==
    []~dropped /\ <>[](subscribed /\ phase = "running") => <>[]RowsRight

\* With nothing removed and no channel ever full, the rows end up right.
CatchesUpUndisturbed ==
    []Undisturbed /\ <>[](subscribed /\ phase = "running") => <>[]RowsRight

\* A removal of s is on its way, no update of s is, and multiobserver's
\* removals channel has room for it and for those before it.
RemovalAlone(s) ==
    /\ connected /\ subscribed /\ current[s] = 0
    /\ \E i \in DOMAIN aRemovals :
          aRemovals[i] = s /\ i + Len(mRemovals) <= MultiCap
    /\ \A i \in DOMAIN aUpdates : aUpdates[i][1] # s
    /\ \A i \in DOMAIN mUpdates : mUpdates[i][1] # s

\* The row is empty, and no snapshot waits that would bring it back.
Gone(s) == dashboard[s] = 0 /\ snapshot[s] \in {Nothing, 0}

\* A removal that no update of the session is racing with and that the removals
\* channel has room for empties its row for good, however full the updates
\* channels are and whatever is pending: unless its delta overtakes a snapshot.
LoneRemovalArrives ==
    \A s \in Sessions :
       RemovalAlone(s) ~> \/ Gone(s) \/ s \in overtaken
                          \/ current[s] # 0 \/ ~subscribed
=============================================================================
