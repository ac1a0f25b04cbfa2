------------------------------ MODULE IpcStream ------------------------------
(***************************************************************************)
(* The daemon's side of its socket: the connection slots and the tick of   *)
(* src/cmd/jawakad/main.c over the framed, non-blocking streams of         *)
(* src/internal/ipc/ipc_stream.c.  A connection carries one-shot requests, *)
(* answered and closed, or the subscription of the one service modelled    *)
(* here, which is also sent events.                                        *)
(*                                                                         *)
(* A client's bytes are items: "half" is the beginning of a frame, and any *)
(* other item is a frame, or the rest of the one begun.  What an exchange  *)
(* does with a status message and what an active game adds to a reply are  *)
(* in GameLaunch.  A tick reads up to eight frames of each connection and  *)
(* then flushes it; reads and flushes are single steps here, in any order. *)
(***************************************************************************)
EXTENDS Naturals, Sequences, FiniteSets

CONSTANTS
    NClients,           \* clients, numbered in the order they connect
    Slots,              \* JW_DAEMON_IPC_CONNECTION_MAX
    QueueMax,           \* JW_IPC_STREAM_QUEUE_MAX
    MaxMoves,           \* bound: items the clients write, stalls and hang-ups
    MaxEvents           \* bound: events broadcast

VARIABLES
    peer,       \* each client's end: phase, unread items, requests owed, reading
    slot,       \* each connection slot
    events,     \* bound: events sent to subscribers
    moves       \* bound: what the clients did

ipcVars == <<peer, slot, events, moves>>

Clients == 1..NClients
NoClient == 0
Frames == {"subscribe", "state", "once", "bad", "oversize"}
Free == [client |-> NoClient, partial |-> FALSE, late |-> FALSE, queue |-> <<>>,
         subscribed |-> FALSE, closing |-> FALSE]

TypeOK ==
    /\ peer \in [Clients -> [phase : {"away", "open", "gone", "closed"},
                             sent : Seq(Frames \cup {"half"}), owed : 0..MaxMoves,
                             reads : BOOLEAN]]
    /\ slot \in [1..Slots -> [client : Clients \cup {NoClient}, partial : BOOLEAN,
                              late : BOOLEAN, queue : Seq({"reply", "event"}),
                              subscribed : BOOLEAN, closing : BOOLEAN]]
    /\ \A k \in 1..Slots : Len(slot[k].queue) <= QueueMax
    /\ events \in 0..MaxEvents /\ moves \in 0..MaxMoves

Init ==
    /\ peer = [c \in Clients |-> [phase |-> "away", sent |-> <<>>, owed |-> 0, reads |-> TRUE]]
    /\ slot = [k \in 1..Slots |-> Free]
    /\ events = 0 /\ moves = 0

-----------------------------------------------------------------------------
(* Clients. *)

Client(c, new) ==
    /\ moves < MaxMoves /\ moves' = moves + 1
    /\ peer' = [peer EXCEPT ![c] = new]
    /\ UNCHANGED <<slot, events>>

Write(c, item) ==
    /\ peer[c].phase = "open"
    /\ item = "half" => peer[c].sent = <<>>
    /\ Client(c, [peer[c] EXCEPT !.sent = Append(@, item),
                                 !.owed = IF item \in Frames THEN @ + 1 ELSE @])

StopReading(c) ==
    /\ peer[c].phase = "open" /\ peer[c].reads
    /\ Client(c, [peer[c] EXCEPT !.reads = FALSE])

HangUp(c) ==
    /\ peer[c].phase = "open"
    /\ Client(c, [peer[c] EXCEPT !.phase = "gone", !.owed = 0])

\* The partial frame of a connection has been open for a second.
Elapse(k) ==
    /\ slot[k].partial /\ ~slot[k].late
    /\ slot' = [slot EXCEPT ![k].late = TRUE]
    /\ UNCHANGED <<peer, events, moves>>

-----------------------------------------------------------------------------
(* The daemon's connections. *)

Closed(p) == [p EXCEPT !.phase = "closed", !.sent = <<>>, !.owed = 0]

\* jw__ipc_connection_drop
Drop(ks) ==
    /\ slot' = [k \in 1..Slots |-> IF k \in ks THEN Free ELSE slot[k]]
    /\ peer' = [c \in Clients |->
                   IF c \in {slot[k].client : k \in ks} THEN Closed(peer[c]) ELSE peer[c]]

\* The frame at the head of c's bytes has been read.
Consumed(c) == [peer EXCEPT ![c].sent = Tail(@)]

Complete(k) == [slot[k] EXCEPT !.partial = FALSE, !.late = FALSE]

\* A reply is queued, or the full queue costs the connection.
Reply(k, closing) ==
    IF Len(slot[k].queue) = QueueMax THEN Drop({k})
    ELSE /\ slot' = [slot EXCEPT ![k] =
                [Complete(k) EXCEPT !.queue = Append(@, "reply"), !.closing = @ \/ closing]]
         /\ peer' = Consumed(slot[k].client)

\* Mutant of Subscribe: the older registration is dropped before the
\* acknowledgement is queued.
SubscribeDropsFirst(k) ==
    LET older == {j \in 1..Slots \ {k} : slot[j].subscribed} IN
    IF Len(slot[k].queue) = QueueMax THEN Drop({k} \cup older)
    ELSE /\ slot' = [j \in 1..Slots |->
                IF j \in older THEN Free
                ELSE IF j = k THEN [Complete(k) EXCEPT !.queue = Append(@, "reply"),
                                                       !.subscribed = TRUE]
                ELSE slot[j]]
         /\ peer' = [c \in Clients |->
                IF c = slot[k].client THEN [peer[c] EXCEPT !.sent = Tail(@)]
                ELSE IF c \in {slot[j].client : j \in older} THEN Closed(peer[c])
                ELSE peer[c]]

\* The acknowledgement is queued before the older registration is dropped.
Subscribe(k) ==
    LET older == {j \in 1..Slots \ {k} : slot[j].subscribed} IN
    IF Len(slot[k].queue) = QueueMax THEN Drop({k})
    ELSE /\ slot' = [j \in 1..Slots |->
                IF j \in older THEN Free
                ELSE IF j = k THEN [Complete(k) EXCEPT !.queue = Append(@, "reply"),
                                                       !.subscribed = TRUE]
                ELSE slot[j]]
         /\ peer' = [c \in Clients |->
                IF c = slot[k].client THEN [peer[c] EXCEPT !.sent = Tail(@)]
                ELSE IF c \in {slot[j].client : j \in older} THEN Closed(peer[c])
                ELSE peer[c]]

\* A one-shot request is answered by the blocking handler and closed.
OneShot(k) ==
    IF slot[k].queue # <<>> THEN Drop({k})
    ELSE /\ slot' = [slot EXCEPT ![k] = Free]
         /\ peer' = [peer EXCEPT ![slot[k].client] = Closed(@)]

HandleFrame(k, frame) ==
    \/ frame = "subscribe" /\ (Subscribe(k) \/ Reply(k, TRUE))
    \/ frame = "state" /\ slot[k].subscribed /\ (Reply(k, FALSE) \/ Drop({k}))
    \/ frame = "state" /\ ~slot[k].subscribed /\ Reply(k, TRUE)
    \/ frame = "bad" /\ Reply(k, TRUE)
    \/ frame = "once" /\ slot[k].subscribed /\ Reply(k, TRUE)
    \/ frame = "once" /\ ~slot[k].subscribed /\ OneShot(k)

-----------------------------------------------------------------------------
(* The tick. *)

Taken == {k \in 1..Slots : slot[k].client # NoClient}

\* A client that connects is accepted while a slot is free, and closed otherwise.
Accept(c) ==
    /\ peer[c].phase = "away" /\ \A b \in 1..c - 1 : peer[b].phase # "away"
    /\ LET free == 1..Slots \ Taken IN
       IF free = {}
       THEN peer' = [peer EXCEPT ![c] = Closed(@)] /\ UNCHANGED slot
       ELSE \E k \in free :
               /\ \A j \in free : k <= j
               /\ slot' = [slot EXCEPT ![k].client = c]
               /\ peer' = [peer EXCEPT ![c].phase = "open"]
    /\ UNCHANGED <<events, moves>>

\* An event for a subscriber, between two ticks.
Broadcast(k) ==
    /\ slot[k].subscribed /\ events < MaxEvents
    /\ IF Len(slot[k].queue) = QueueMax THEN Drop({k})
       ELSE slot' = [slot EXCEPT ![k].queue = Append(@, "event")] /\ UNCHANGED peer
    /\ events' = events + 1
    /\ UNCHANGED moves

\* One read: a frame past its deadline, the end of the connection and an
\* oversize frame cost the connection.
Receive(k) ==
    /\ k \in Taken
    /\ LET c == slot[k].client
           overdue == slot[k].partial /\ slot[k].late
       IN  \/ overdue /\ Drop({k})
           \/ ~overdue /\ peer[c].sent = <<>> /\ peer[c].phase = "gone" /\ Drop({k})
           \/ /\ ~overdue /\ peer[c].sent # <<>>
              /\ LET item == Head(peer[c].sent) IN
                 \/ /\ item = "half"
                    /\ slot' = [slot EXCEPT ![k].partial = TRUE]
                    /\ peer' = Consumed(c)
                 \/ item = "oversize" /\ Drop({k})
                 \/ HandleFrame(k, item)
    /\ UNCHANGED <<events, moves>>

\* The queue is flushed as far as the client reads, and a connection that is
\* gone, or rejected and flushed, is dropped.
Flush(k) ==
    /\ k \in Taken
    /\ LET c == slot[k].client
           flushed == slot[k].queue = <<>> \/ peer[c].reads
           replies == Cardinality({i \in DOMAIN slot[k].queue : slot[k].queue[i] = "reply"})
       IN  \/ /\ peer[c].phase = "gone" \/ (slot[k].closing /\ flushed)
              /\ Drop({k})
           \/ /\ peer[c].phase = "open" /\ ~slot[k].closing
              /\ flushed /\ slot[k].queue # <<>>
              /\ slot' = [slot EXCEPT ![k].queue = <<>>]
              /\ peer' = [peer EXCEPT ![c].owed = @ - replies]
    /\ UNCHANGED <<events, moves>>

Next ==
    \/ \E c \in Clients : StopReading(c) \/ HangUp(c) \/ Accept(c)
                          \/ \E item \in Frames \cup {"half"} : Write(c, item)
    \/ \E k \in 1..Slots : Receive(k) \/ Flush(k) \/ Broadcast(k) \/ Elapse(k)

Serve == \E k \in 1..Slots : Receive(k) \/ Flush(k)
Elapses == \E k \in 1..Slots : Elapse(k)

\* Every tick reads and flushes the connections; a second passes.
IpcSpec ==
    /\ Init /\ [][Next]_ipcVars
    /\ WF_ipcVars(Serve) /\ WF_ipcVars(Elapses)

-----------------------------------------------------------------------------
(* Properties. *)

\* How many members of F the sequence s has.
Count(s, F) == Cardinality({i \in 1..Len(s) : s[i] \in F})

\* The connection x and the end p of its client: a reply for every frame read.
Even(x, p) ==
    /\ p.phase \in {"open", "gone"}
    /\ p.phase = "open" => p.owed = Count(p.sent, Frames) + Count(x.queue, {"reply"})

\* Every frame of a client whose connection is open is still unread or has its
\* reply in the queue: none is answered twice or forgotten.
Accounted ==
    \A k \in 1..Slots : slot[k].client # NoClient => Even(slot[k], peer[slot[k].client])

\* A service has one registration.
OneRegistration == Cardinality({k \in 1..Slots : slot[k].subscribed}) <= 1

\* What another connection sends does not leave the service unregistered.
RegistrationKept ==
    \A k \in 1..Slots :
        slot[k].subscribed /\ (\E j \in 1..Slots \ {k} : Receive(j))
            => \E j \in 1..Slots : slot'[j].subscribed

\* A client that reads is answered, or its connection is closed.
Answered(c) == []<>(peer[c].owed = 0 \/ ~peer[c].reads)

\* A partial frame is completed or costs its connection, and the slot of a
\* client that hung up is freed.
Released(k) == []<>(~slot[k].partial /\ (slot[k].client # NoClient =>
                                             peer[slot[k].client].phase # "gone"))

ConnectionsServed ==
    /\ [](OneRegistration /\ Accounted) /\ [][RegistrationKept]_ipcVars
    /\ \A c \in Clients : Answered(c)
    /\ \A k \in 1..Slots : Released(k)
=============================================================================
