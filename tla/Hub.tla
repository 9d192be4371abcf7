-------------------------------- MODULE Hub --------------------------------
(***************************************************************************)
(* The event streams: the hub the worker announces to and the handlers of  *)
(* GET /api/events that write what it says to the browsers                 *)
(* (internal/httpapi/sse.go).                                              *)
(*                                                                         *)
(* Of the worker there is left what it tells the hub and when: a link is   *)
(* settled in the store, then the link is broadcast, then the stats, read  *)
(* from the store again (ChainService has the rest).  Of the stats there   *)
(* is left the set of links they count.  A connection is used once.        *)
(*                                                                         *)
(* A response that is written is on the wire, in order, until the browser  *)
(* reads it; its headers are the message "open".  The wire takes whatever  *)
(* is written: a handler that blocks in Write is left out.                 *)
(***************************************************************************)
EXTENDS Integers, Sequences, FiniteSets

CONSTANTS
    MaxLinks,        \* bound: links that are added and settled
    MaxConnections,  \* bound: connections to /api/events
    MaxStreams,      \* how many streams the hub serves; 2000 in the code
    StreamBuffer,    \* messages a stream may be behind; 16 in the code
    MaxRestarts      \* bound: how often the server may restart

ASSUME HubAssumption ==
    /\ {MaxLinks, MaxRestarts} \subseteq Nat
    /\ {MaxConnections, MaxStreams, StreamBuffer} \subseteq Nat \ {0}

VARIABLES
    status,    \* the row of each link
    worker,    \* what the worker has to announce, and for which link
    streams,   \* h.streams: the connections that are subscribed
    handler,   \* where the handler of each connection is
    buffer,    \* the channel of each connection
    wire,      \* what is written to each connection and not yet read
    cut,       \* the connections the browser no longer has
    closing,   \* is h.closing closed?
    restarts,  \* how often the server has restarted
    told,      \* the stats last written to each connection
    missed     \* did something the connection should tell get lost?

hubVars == <<status, worker, streams, handler, buffer, wire, cut, closing, restarts,
             told, missed>>

Links == 1 .. MaxLinks
Connections == 1 .. MaxConnections

Settled == {"confirmed", "failed"}
Status == {"none", "pending"} \cup Settled

NotYet == {0}    \* no stats so far
Counts == (SUBSET Links) \cup {NotYet}

Message ==
    [kind : {"open"}]
        \cup [kind : {"stats"}, counted : SUBSET Links]
        \cup [kind : {"link"}, n : Links, status : Settled]

Silent == [at |-> "idle", n |-> 0]

HubTypeOK ==
    /\ status \in [Links -> Status]
    /\ worker \in {Silent} \cup [at : {"settled", "told"}, n : Links]
    /\ streams \subseteq Connections
    /\ Cardinality(streams) =< MaxStreams
    /\ handler \in [Connections -> {"unused", "refused", "opening", "serving", "ended"}]
    /\ \A c \in Connections : c \in streams <=> handler[c] \in {"opening", "serving"}
    /\ buffer \in [Connections -> Seq(Message)]
    /\ \A c \in Connections : Len(buffer[c]) =< StreamBuffer
    /\ wire \in [Connections -> Seq(Message)]
    /\ cut \subseteq Connections
    /\ \A c \in cut : wire[c] = <<>>
    /\ closing \in BOOLEAN
    /\ restarts \in 0 .. MaxRestarts
    /\ told \in [Connections -> Counts]
    /\ missed \in [Connections -> BOOLEAN]

HubInit ==
    /\ status = [n \in Links |-> "none"]
    /\ worker = Silent
    /\ streams = {}
    /\ handler = [c \in Connections |-> "unused"]
    /\ buffer = [c \in Connections |-> <<>>]
    /\ wire = [c \in Connections |-> <<>>]
    /\ cut = {}
    /\ closing = FALSE
    /\ restarts = 0
    /\ told = [c \in Connections |-> NotYet]
    /\ missed = [c \in Connections |-> FALSE]
-----------------------------------------------------------------------------
(* The worker *)

\* What Stats counts.
Counted == {n \in Links : status[n] = "confirmed"}

LinkMessage(n) == [kind |-> "link", n |-> n, status |-> status[n]]
StatsMessage == [kind |-> "stats", counted |-> Counted]

\* A handler of POST /api/links stores a link.  Nobody is told.
Store(n) ==
    /\ status[n] = "none"
    /\ n > 1 => status[n - 1] # "none"
    /\ status' = [status EXCEPT ![n] = "pending"]
    /\ UNCHANGED <<worker, streams, handler, buffer, wire, cut, closing, restarts, told, missed>>

\* MarkConfirmed or MarkFailed.  The worker may have taken the links in
\* another order than that of their numbers.
Settle(n, outcome) ==
    /\ worker = Silent
    /\ status[n] = "pending"
    /\ status' = [status EXCEPT ![n] = outcome]
    /\ worker' = [at |-> "settled", n |-> n]
    /\ UNCHANGED <<streams, handler, buffer, wire, cut, closing, restarts, told, missed>>

\* Every stream gets the message but those whose buffer is full.
Full(c) == Len(buffer[c]) >= StreamBuffer

Broadcast(m) ==
    /\ buffer' = [c \in Connections |->
         IF c \in streams /\ ~Full(c) THEN Append(buffer[c], m) ELSE buffer[c]]
    /\ missed' = [c \in Connections |-> missed[c] \/ (c \in streams /\ Full(c))]

LinkChanged ==
    /\ worker.at = "settled"
    /\ Broadcast(LinkMessage(worker.n))
    /\ worker' = [worker EXCEPT !.at = "told"]
    /\ UNCHANGED <<status, streams, handler, wire, cut, closing, restarts, told>>

StatsChanged ==
    /\ worker.at = "told"
    /\ Broadcast(StatsMessage)
    /\ worker' = Silent
    /\ UNCHANGED <<status, streams, handler, wire, cut, closing, restarts, told>>

\* publishStats cannot read the store and tells nothing.
StatsFail ==
    /\ worker.at = "told"
    /\ missed' = [c \in Connections |-> missed[c] \/ c \in streams]
    /\ worker' = Silent
    /\ UNCHANGED <<status, streams, handler, buffer, wire, cut, closing, restarts, told>>
-----------------------------------------------------------------------------
(* The handler of connection c *)

\* What is written to a connection that is cut goes nowhere.
Write(c, messages) ==
    wire' = IF c \in cut THEN wire ELSE [wire EXCEPT ![c] = @ \o messages]

SubscribeOneMore(c) ==    \* mutant: off by one
    /\ handler[c] = "unused"
    /\ Cardinality(streams) =< MaxStreams
    /\ streams' = streams \cup {c}
    /\ handler' = [handler EXCEPT ![c] = "opening"]
    /\ UNCHANGED <<status, worker, buffer, wire, cut, closing, restarts, told, missed>>

Subscribe(c) ==
    /\ handler[c] = "unused"
    /\ Cardinality(streams) < MaxStreams
    /\ streams' = streams \cup {c}
    /\ handler' = [handler EXCEPT ![c] = "opening"]
    /\ UNCHANGED <<status, worker, buffer, wire, cut, closing, restarts, told, missed>>

\* 503: too many open streams.
Refuse(c) ==
    /\ handler[c] = "unused"
    /\ Cardinality(streams) >= MaxStreams
    /\ handler' = [handler EXCEPT ![c] = "refused"]
    /\ UNCHANGED <<status, worker, streams, buffer, wire, cut, closing, restarts, told, missed>>

OpenWithoutStats(c) ==    \* mutant: the stream tells news only
    /\ handler[c] = "opening"
    /\ handler' = [handler EXCEPT ![c] = "serving"]
    /\ Write(c, <<[kind |-> "open"]>>)
    /\ UNCHANGED <<status, worker, streams, buffer, cut, closing, restarts, told, missed>>

\* The headers and the stats of the moment are written and flushed.
Open(c) ==
    /\ handler[c] = "opening"
    /\ handler' = [handler EXCEPT ![c] = "serving"]
    /\ Write(c, <<[kind |-> "open"], StatsMessage>>)
    /\ told' = [told EXCEPT ![c] = Counted]
    /\ UNCHANGED <<status, worker, streams, buffer, cut, closing, restarts, missed>>

\* Stats returns an error: the headers only.
OpenSilently(c) ==
    /\ handler[c] = "opening"
    /\ handler' = [handler EXCEPT ![c] = "serving"]
    /\ Write(c, <<[kind |-> "open"]>>)
    /\ missed' = [missed EXCEPT ![c] = TRUE]
    /\ UNCHANGED <<status, worker, streams, buffer, cut, closing, restarts, told>>

\* The handler takes a message off its channel and writes it.
Forward(c) ==
    /\ handler[c] = "serving"
    /\ buffer[c] # <<>>
    /\ LET m == Head(buffer[c]) IN
          /\ Write(c, <<m>>)
          /\ told' = IF m.kind = "stats" THEN [told EXCEPT ![c] = m.counted] ELSE told
    /\ buffer' = [buffer EXCEPT ![c] = Tail(@)]
    /\ UNCHANGED <<status, worker, streams, handler, cut, closing, restarts, missed>>

\* The channels are garbage, and what was told and missed on them is history.
Forget(gone) ==
    /\ buffer' = [c \in Connections |-> IF c \in gone THEN <<>> ELSE buffer[c]]
    /\ told' = [c \in Connections |-> IF c \in gone THEN NotYet ELSE told[c]]
    /\ missed' = [c \in Connections |-> c \notin gone /\ missed[c]]

\* The handler returns and unsubscribes.
Return(c) ==
    /\ handler[c] \in {"opening", "serving"}
    /\ handler' = [handler EXCEPT ![c] = "ended"]
    /\ streams' = streams \ {c}
    /\ Forget({c})
    /\ UNCHANGED <<status, worker, wire, cut, closing, restarts>>

SeeClosingAfterMessage(c) ==    \* mutant: looked at after a message only
    /\ closing
    /\ handler[c] = "serving"
    /\ buffer[c] # <<>>
    /\ Return(c)

\* The request's context ends, or a write fails: the browser is gone.
SeeGone(c) == c \in cut /\ Return(c)

\* The select finds h.closing closed.
SeeClosing(c) ==
    /\ closing
    /\ handler[c] = "serving"
    /\ Return(c)
-----------------------------------------------------------------------------
(* The server and the network *)

\* The browser loses the connection, with what is on the wire.
Cut(c) ==
    /\ cut' = cut \cup {c}
    /\ wire' = [wire EXCEPT ![c] = <<>>]
    /\ UNCHANGED <<status, worker, streams, handler, buffer, closing, restarts, told, missed>>

\* The browser reads the next message.
Read(c) ==
    /\ wire[c] # <<>>
    /\ wire' = [wire EXCEPT ![c] = Tail(@)]
    /\ UNCHANGED <<status, worker, streams, handler, buffer, cut, closing, restarts, told, missed>>

\* srv.Shutdown calls hub.Close.  A connection accepted before may still
\* come to subscribe.
Close ==
    /\ ~closing
    /\ closing' = TRUE
    /\ UNCHANGED <<status, worker, streams, handler, buffer, wire, cut, restarts, told, missed>>

\* The process ends, by a crash or after Close, and a new one starts.  What
\* the old one still had to announce is not announced.
Restart ==
    /\ restarts < MaxRestarts
    /\ restarts' = restarts + 1
    /\ closing' = FALSE
    /\ worker' = Silent
    /\ streams' = {}
    /\ handler' = [c \in Connections |->
         IF c \in streams THEN "ended" ELSE handler[c]]
    /\ Forget(streams)
    /\ UNCHANGED <<status, wire, cut>>

\* Connections are used in the order of their numbers.
IsNext(c) == \A b \in Connections : (handler[b] = "unused") <=> b >= c

\* A browser connects, and its connection is refused or cut in the end.
HubNext ==
    \/ \E n \in Links : Store(n) \/ Settle(n, "confirmed") \/ Settle(n, "failed")
    \/ LinkChanged \/ StatsChanged \/ StatsFail
    \/ \E c \in Connections :
          \/ IsNext(c) /\ (Subscribe(c) \/ Refuse(c))
          \/ Open(c) \/ OpenSilently(c) \/ Forward(c) \/ SeeGone(c) \/ SeeClosing(c)
          \/ c \in streams \ cut /\ Cut(c)
    \/ Close \/ Restart

HubSpec == HubInit /\ [][HubNext]_hubVars

\* All but the wire, which no step of HubNext looks at (TLC compares states
\* by this).
ButForTheWire == <<status, worker, streams, handler, buffer, cut, closing, restarts, told, missed>>
-----------------------------------------------------------------------------
(* A stream that lost nothing has told the numbers of the store once it    *)
(* has nothing left to tell, however its subscribing, its opening stats    *)
(* and the broadcasts interleaved, older events after newer stats included *)
(* (the comment before the opening stats in handleEvents).                 *)
StreamIsCurrent ==
    \A c \in streams :
        (handler[c] = "serving" /\ buffer[c] = <<>> /\ worker = Silent /\ ~missed[c])
            => told[c] = Counted

(* No open stream holds up the shutdown: once the hub is closed, every     *)
(* handler returns, those that were opening or behind included (Close).    *)
(* A handler blocked in Write, which no select reaches, is not modelled.   *)
ShutdownIsNotHeldUp == closing ~> (streams = {} \/ ~closing)
=============================================================================
