------------------------------ MODULE PushQueue ------------------------------
(***************************************************************************)
(* Proactive delivery to the Swift client: the one PushQueue of the        *)
(* service process (delivery/push.rs), the tasks that fill it through      *)
(* PushAdapter, and the connection tasks of the Unix socket that empty it  *)
(* (ipc/connection.rs, ipc/transport.rs, ipc/reconnect.rs).                *)
(*                                                                         *)
(* A message is its place in the order of the pushes; an entry carries it  *)
(* with the urgency that the push_* method gave it.  A connection task is  *)
(* a program counter and the message it has popped and not yet written.    *)
(* tokio's Notify is its stored permit and the set of tasks it has woken.  *)
(***************************************************************************)
EXTENDS Integers, Sequences, FiniteSets, SequencesExt

CONSTANTS
    Conns,        \* the connections a client may open, each of them once
    Capacity,     \* push_queue_capacity
    MaxErrors,    \* malformed messages that end a connection
    MaxMessages,  \* bound: how many messages are pushed
    MaxLive,      \* bound: connections served at the same time
    Nothing       \* no message in hand

ASSUME CapacityIsNat == Capacity \in Nat
ASSUME MaxErrorsIsPositive == MaxErrors \in Nat \ {0}
ASSUME BoundsAreNat == MaxMessages \in Nat /\ MaxLive \in Nat
ASSUME NothingIsNoEntry == Nothing \notin [id : Nat, urgent : BOOLEAN]

VARIABLES
    queue,      \* PushQueue.inner
    pushed,     \* how many messages have been pushed so far
    permit,     \* Notify: a notification stored for the next waiter
    owed,       \* notify_one calls that are due: the lock is released before them
    pc,         \* where each connection task is
    holding,    \* the message a connection task has popped
    errors,     \* malformed messages of each connection
    peer,       \* whether the client still has its end of the socket open
    stage,      \* of the shutdown sequence: "up", "announced", "cancelled"
    farewell,   \* the ShuttingDown entry, once it has been pushed
    received,   \* what each client has been sent, in order
    evicted,    \* what enqueue dropped to keep to the capacity
    lost        \* what was popped and could not be written

qvars == <<queue, pushed, permit, owed>>
cvars == <<pc, holding, errors, peer>>
svars == <<stage, farewell>>
ghosts == <<received, evicted, lost>>
vars == <<qvars, cvars, svars, ghosts>>

Entries == [id : 1 .. MaxMessages, urgent : BOOLEAN]

\* The select! of the connection loop: entered, parked in it, woken by Notify.
Selecting == {"listen", "wait", "woken"}

\* The handshake is done and the connection loop runs.
InLoop == Selecting \cup {"drain", "write", "route"}

Serving(c) == pc[c] \in InLoop

TypeOK ==
    /\ queue \in Seq(Entries)
    /\ pushed \in 0 .. MaxMessages
    /\ permit \in BOOLEAN
    /\ owed \in Nat
    /\ pc \in [Conns -> InLoop \cup {"new", "hello", "flush", "flushed", "closed"}]
    /\ holding \in [Conns -> Entries \cup {Nothing}]
    /\ errors \in [Conns -> 0 .. MaxErrors]
    /\ peer \in [Conns -> {"open", "gone"}]
    /\ stage \in {"up", "announced", "cancelled"}
    /\ farewell \in Entries \cup {Nothing}
    /\ received \in [Conns -> Seq(Entries)]
    /\ evicted \in SUBSET Entries
    /\ lost \in SUBSET Entries

Init ==
    /\ queue = <<>>
    /\ pushed = 0
    /\ permit = FALSE
    /\ owed = 0
    /\ pc = [c \in Conns |-> "new"]
    /\ holding = [c \in Conns |-> Nothing]
    /\ errors = [c \in Conns |-> 0]
    /\ peer = [c \in Conns |-> "open"]
    /\ stage = "up"
    /\ farewell = Nothing
    /\ received = [c \in Conns |-> <<>>]
    /\ evicted = {}
    /\ lost = {}

----------------------------------------------------------------------------
(* The producers.                                                          *)

\* Mutant: evict the front entry whatever its urgency.
FrontEvictable(q) == {i \in DOMAIN q : i = 1}

\* Where the oldest entry that may be evicted is, if there is one.
Evictable(q) ==
    {i \in DOMAIN q : ~q[i].urgent /\ \A j \in DOMAIN q : j < i => q[j].urgent}

\* At capacity: a new entry displaces another or is itself refused.
IsFull(q) == Len(q) >= Capacity

\* The queue after push_back.
PushedBack(q, msg) == Append(q, msg)

\* PushQueue::enqueue, up to the release of the lock: routine messages go to
\* the back.
Enqueue ==
    LET msg == [id |-> pushed + 1, urgent |-> FALSE]
    IN  /\ pushed < MaxMessages
        /\ pushed' = pushed + 1
        /\ \/ /\ ~IsFull(queue)
              /\ queue' = PushedBack(queue, msg)
              /\ owed' = owed + 1
              /\ UNCHANGED evicted
           \/ /\ IsFull(queue)
              /\ \E index \in Evictable(queue) :
                    /\ queue' = PushedBack(RemoveAt(queue, index), msg)
                    /\ evicted' = evicted \cup {queue[index]}
              /\ owed' = owed + 1
           \/ /\ IsFull(queue) /\ Evictable(queue) = {}
              /\ evicted' = evicted \cup {msg}
              /\ UNCHANGED <<queue, owed>>
        /\ UNCHANGED <<permit, cvars, svars, received, lost>>

\* The queue after push_front.
PushedFront(q, msg) == <<msg>> \o q

\* Mutant: enqueue_urgent without notify_one.
EnqueueUrgentSilently ==
    LET msg == [id |-> pushed + 1, urgent |-> TRUE]
    IN  /\ pushed < MaxMessages
        /\ pushed' = pushed + 1
        /\ queue' = PushedFront(queue, msg)
        /\ UNCHANGED <<permit, owed, cvars, svars, ghosts>>

\* PushQueue::enqueue_urgent, up to the release of the lock: privacy alerts,
\* device_revoked, needs_reauth and auth_session_updated go to the front.
EnqueueUrgent ==
    LET msg == [id |-> pushed + 1, urgent |-> TRUE]
    IN  /\ pushed < MaxMessages
        /\ pushed' = pushed + 1
        /\ queue' = PushedFront(queue, msg)
        /\ owed' = owed + 1
        /\ UNCHANGED <<permit, cvars, svars, ghosts>>

\* Notify::notify_one: wake one parked task or leave a permit.
NotifyOne ==
    /\ owed > 0
    /\ owed' = owed - 1
    /\ \/ \E c \in Conns :
             /\ pc[c] = "wait"
             /\ pc' = [pc EXCEPT ![c] = "woken"]
             /\ UNCHANGED permit
       \/ /\ \A c \in Conns : pc[c] # "wait"
          /\ permit' = TRUE
          /\ UNCHANGED pc
    /\ UNCHANGED <<queue, pushed, holding, errors, peer, svars, ghosts>>

\* The shutdown sequence announces itself through the queue ...
PushShuttingDown ==
    LET msg == [id |-> pushed + 1, urgent |-> TRUE]
    IN  /\ stage = "up" /\ pushed < MaxMessages
        /\ stage' = "announced"
        /\ farewell' = msg
        /\ pushed' = pushed + 1
        /\ queue' = PushedFront(queue, msg)
        /\ owed' = owed + 1
        /\ UNCHANGED <<permit, cvars, ghosts>>

\* ... before it cancels the tasks.
CancelFrom == {"announced"}

Cancel ==
    /\ stage \in CancelFrom
    /\ stage' = "cancelled"
    /\ UNCHANGED <<farewell, qvars, cvars, ghosts>>

----------------------------------------------------------------------------
(* The connection tasks.                                                   *)

\* Connection c goes on at l; a task that leaves select! by another branch
\* after it was woken drops a delivered notification, which tokio passes on.
GoTo(c, l) == pc' = [pc EXCEPT ![c] = l]
PassOn(c) == owed' = IF pc[c] = "woken" THEN owed + 1 ELSE owed

\* The accept loop spawns one task per connection, whatever the others do.
Accept(c) ==
    /\ pc[c] = "new" /\ stage # "cancelled"
    /\ Cardinality({d \in Conns : pc[d] \notin {"new", "flushed", "closed"}}) < MaxLive
    /\ GoTo(c, "hello")
    /\ UNCHANGED <<qvars, holding, errors, peer, svars, ghosts>>

\* The client's process ends, or it closes the socket.
PeerLeaves(c) ==
    /\ pc[c] \notin {"new", "flushed", "closed"} /\ peer[c] = "open"
    /\ peer' = [peer EXCEPT ![c] = "gone"]
    /\ UNCHANGED <<qvars, pc, holding, errors, svars, ghosts>>

\* A hello of the right version is acknowledged and the loop begins.
HelloAccepted(c) ==
    /\ pc[c] = "hello" /\ peer[c] = "open"
    /\ GoTo(c, "drain")
    /\ UNCHANGED <<qvars, holding, errors, peer, svars, ghosts>>

\* A hello of another version, the end of the stream, or a failed write.
HelloEnds(c) ==
    /\ pc[c] = "hello"
    /\ GoTo(c, "closed")
    /\ UNCHANGED <<qvars, holding, errors, peer, svars, ghosts>>

\* write_malformed: too many errors, or a client that is gone, end the
\* connection.
AfterMalformed(c, next) ==
    IF errors'[c] >= MaxErrors \/ peer[c] = "gone" THEN "closed" ELSE next

\* A frame that does not decode, in the handshake or in the loop.
Malformed(c) ==
    /\ pc[c] \in Selecting \cup {"hello"}
    /\ errors' = [errors EXCEPT ![c] = @ + 1]
    /\ GoTo(c, AfterMalformed(c, IF pc[c] = "hello" THEN "hello" ELSE "drain"))
    /\ PassOn(c)
    /\ UNCHANGED <<queue, pushed, permit, holding, peer, svars, ghosts>>

\* Mutant: try_pop reads the front entry and leaves it there.
StillThere(q) == q

\* PushQueue::try_pop: the front entry and the queue without it.
Popped(q) == Head(q)
WithoutPopped(q) == Tail(q)

\* The top of the loop: pop a message to write it ...
TakeNext(c) ==
    /\ pc[c] = "drain" /\ queue # <<>>
    /\ holding' = [holding EXCEPT ![c] = Popped(queue)]
    /\ queue' = WithoutPopped(queue)
    /\ GoTo(c, "write")
    /\ UNCHANGED <<pushed, permit, owed, errors, peer, svars, ghosts>>

\* ... until there is none.
Drained(c) ==
    /\ pc[c] = "drain" /\ queue = <<>>
    /\ GoTo(c, "listen")
    /\ UNCHANGED <<qvars, holding, errors, peer, svars, ghosts>>

\* write_with_timeout: the client took the message ...
WriteDone(c) ==
    /\ pc[c] = "write" /\ peer[c] = "open"
    /\ received' = [received EXCEPT ![c] = Append(@, holding[c])]
    /\ holding' = [holding EXCEPT ![c] = Nothing]
    /\ GoTo(c, "drain")
    /\ UNCHANGED <<qvars, errors, peer, svars, evicted, lost>>

\* ... or it is gone or slow: the connection ends and the message, which is
\* no longer in the queue, with it.
WriteFails(c) ==
    /\ pc[c] = "write"
    /\ lost' = lost \cup {holding[c]}
    /\ holding' = [holding EXCEPT ![c] = Nothing]
    /\ GoTo(c, "closed")
    /\ UNCHANGED <<qvars, errors, peer, svars, received, evicted>>

\* select! polls notified(): a stored permit completes it, else it parks.
Park(c) ==
    /\ pc[c] = "listen"
    /\ permit' = FALSE
    /\ GoTo(c, IF permit THEN "woken" ELSE "wait")
    /\ UNCHANGED <<queue, pushed, owed, holding, errors, peer, svars, ghosts>>

\* The notified() branch wins: back to the top of the loop.
Wake(c) ==
    /\ pc[c] = "woken"
    /\ GoTo(c, "drain")
    /\ UNCHANGED <<qvars, holding, errors, peer, svars, ghosts>>

\* The auth state changed: it is written here, past the queue.
AuthStateChanged(c) ==
    /\ pc[c] \in Selecting
    /\ GoTo(c, IF peer[c] = "open" THEN "drain" ELSE "closed")
    /\ PassOn(c)
    /\ UNCHANGED <<queue, pushed, permit, holding, errors, peer, svars, ghosts>>

\* A frame arrived, perhaps the last of a client that is gone by now; the
\* loop waits for the router to handle it.
FrameArrives(c) ==
    /\ pc[c] \in Selecting
    /\ GoTo(c, "route")
    /\ PassOn(c)
    /\ UNCHANGED <<queue, pushed, permit, holding, errors, peer, svars, ghosts>>

\* The router answered, with a response, without one, or with an error.
Routed(c) ==
    /\ pc[c] = "route"
    /\ \/ GoTo(c, "drain") /\ UNCHANGED errors
       \/ peer[c] = "gone" /\ GoTo(c, "closed") /\ UNCHANGED errors
       \/ /\ errors' = [errors EXCEPT ![c] = @ + 1]
          /\ GoTo(c, AfterMalformed(c, "drain"))
    /\ UNCHANGED <<qvars, holding, peer, svars, ghosts>>

\* The end of the stream.
StreamEnds(c) ==
    /\ pc[c] \in Selecting /\ peer[c] = "gone"
    /\ GoTo(c, "closed")
    /\ PassOn(c)
    /\ UNCHANGED <<queue, pushed, permit, holding, errors, peer, svars, ghosts>>

\* A frame over the size limit is an error of the transport.
FrameTooLarge(c) ==
    /\ pc[c] \in Selecting
    /\ GoTo(c, "closed")
    /\ PassOn(c)
    /\ UNCHANGED <<queue, pushed, permit, holding, errors, peer, svars, ghosts>>

\* The shutdown branch: what is left is written, whether or not that works.
ShutdownSeen(c) ==
    /\ pc[c] \in Selecting /\ stage = "cancelled"
    /\ GoTo(c, "flush")
    /\ PassOn(c)
    /\ UNCHANGED <<queue, pushed, permit, holding, errors, peer, svars, ghosts>>

FlushNext(c) ==
    /\ pc[c] = "flush" /\ queue # <<>>
    /\ queue' = WithoutPopped(queue)
    /\ IF peer[c] = "open"
       THEN /\ received' = [received EXCEPT ![c] = Append(@, Popped(queue))]
            /\ UNCHANGED lost
       ELSE /\ lost' = lost \cup {Popped(queue)}
            /\ UNCHANGED received
    /\ UNCHANGED <<pushed, permit, owed, cvars, svars, evicted>>

FlushEnds(c) ==
    /\ pc[c] = "flush" /\ queue = <<>>
    /\ GoTo(c, "flushed")
    /\ UNCHANGED <<qvars, holding, errors, peer, svars, ghosts>>

----------------------------------------------------------------------------
\* The steps a connection task takes by itself; the others wait for a client.
OwnStep(c) ==
    \/ TakeNext(c) \/ Drained(c) \/ WriteDone(c) \/ WriteFails(c)
    \/ Park(c) \/ Wake(c) \/ Routed(c)
    \/ StreamEnds(c) \/ ShutdownSeen(c) \/ FlushNext(c) \/ FlushEnds(c)

Producers == Enqueue \/ EnqueueUrgent \/ NotifyOne \/ PushShuttingDown \/ Cancel

ClientStep(c) ==
    \/ Accept(c) \/ PeerLeaves(c) \/ HelloAccepted(c) \/ HelloEnds(c)
    \/ Malformed(c) \/ AuthStateChanged(c) \/ FrameArrives(c) \/ FrameTooLarge(c)

Next == Producers \/ \E c \in Conns : ClientStep(c) \/ OwnStep(c)

Spec == Init /\ [][Next]_vars

\* The runtime polls every ready task; a handler ends, because every request
\* it makes has a timeout.
FairSpec ==
    /\ Spec
    /\ WF_vars(NotifyOne)
    /\ \A c \in Conns : WF_vars(OwnStep(c))
----------------------------------------------------------------------------
(* Properties.                                                             *)

Ids(S) == {m.id : m \in S}

\* The messages that have left the queue for a connection.
Held == {holding[c] : c \in Conns} \ {Nothing}
Got == UNION {ToSet(received[c]) : c \in Conns}

(* Urgent messages overtake: no urgent entry ever waits behind a routine   *)
(* one, whatever enqueue, enqueue_urgent and the eviction do to the deque. *)
UrgentAhead ==
    \A i, j \in DOMAIN queue : i < j /\ queue[j].urgent => queue[i].urgent

(* The queue is bounded in what enqueue adds: from the oldest routine      *)
(* entry to the back there are never more than Capacity entries, although  *)
(* enqueue_urgent grows the deque past its capacity at will.               *)
RoutineBounded ==
    \A i \in DOMAIN queue : ~queue[i].urgent => Len(queue) - i < Capacity

(* The eviction never costs an urgent message: a full queue gives up a     *)
(* routine entry or the incoming routine message.                          *)
UrgentNeverEvicted == \A m \in evicted : ~m.urgent

(* Every message pushed is in exactly one place, through evictions, failed *)
(* writes, connections that end and the shutdown flush: still queued, in   *)
(* the hands of one connection, received once by one client, evicted, or   *)
(* lost in a write.                                                        *)
OneFate ==
    /\ 1 .. pushed = Ids(ToSet(queue) \cup Held \cup Got \cup evicted \cup lost)
    /\ \A i, j \in DOMAIN queue : queue[i].id = queue[j].id => i = j
    /\ \A c, d \in Conns : \A i \in DOMAIN received[c], j \in DOMAIN received[d] :
          received[c][i].id = received[d][j].id => c = d /\ i = j
    /\ \A c, d \in Conns :
          holding[c] # Nothing /\ holding[d] # Nothing /\ holding[c].id = holding[d].id
          => c = d
    /\ Ids(ToSet(queue)) \cap Ids(Held \cup Got \cup evicted \cup lost) = {}
    /\ Ids(Held) \cap Ids(Got \cup evicted \cup lost) = {}
    /\ Ids(Got) \cap Ids(evicted \cup lost) = {}
    /\ Ids(evicted) \cap Ids(lost) = {}

(* No client sees two routine messages in another order than they were     *)
(* pushed in, although entries are evicted from the middle of the deque    *)
(* and another connection may take some of them.                           *)
RoutineInOrder ==
    \A c \in Conns : \A i, j \in DOMAIN received[c] :
        i < j /\ ~received[c][i].urgent /\ ~received[c][j].urgent
        => received[c][i].id < received[c][j].id

(* A connection that left through the shutdown branch did not leave the    *)
(* ShuttingDown message behind: it was pushed before the cancellation.     *)
FlushedMeansAnnounced ==
    \A c \in Conns : pc[c] = "flushed" =>
        farewell # Nothing /\ farewell \notin ToSet(queue)

(* What enqueue, enqueue_urgent and the eviction promise of the order: the *)
(* urgent entries come first, the routine ones are bounded and give way    *)
(* first, and they reach a client in the order they were pushed in.        *)
PushOrder == UrgentAhead /\ RoutineBounded /\ UrgentNeverEvicted /\ RoutineInOrder

(* Nothing pushed is doubled or forgotten, and a connection that said      *)
(* goodbye has said it to its client.                                      *)
PushesAccountedFor == OneFate /\ FlushedMeansAnnounced

\* The connections the listener is serving.
Live == {c \in Conns : pc[c] \notin {"new", "flushed", "closed"}}

(* No lost wakeup: as long as clients come one after the other, what is in *)
(* the queue while a connection is served gets out of it, even when it is  *)
(* pushed between the last try_pop and the moment the task parks in        *)
(* select!.  Two connections served together share one permit, and then a  *)
(* push can stay behind (connection.rs, push_loop).                        *)
PushesArrive ==
    [](Cardinality(Live) <= 1) =>
        \A c \in Conns :
            (queue # <<>> /\ Serving(c)) ~> (queue = <<>> \/ ~Serving(c))
=============================================================================
