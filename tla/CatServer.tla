----------------------------- MODULE CatServer ------------------------------
(***************************************************************************)
(* The I/O shell of the CAT server (k4-catsrv/src/server.rs): the accept   *)
(* loop, a reader and a writer thread for each client, and the worker that *)
(* owns the server, over one locked table of peers.  A client may leave,   *)
(* stop reading, or be closed by any of them; whoever takes it from the    *)
(* table, its reader tells the worker, and only once.                      *)
(*                                                                         *)
(* A thread's step is what it does under one hold of the lock, one read or *)
(* write, or one event sent.                                               *)
(* External: the clients and their sockets.                                *)
(* Bounds: each of Clients connects once; Untold events not polled.        *)
(***************************************************************************)
EXTENDS Naturals, Sequences, FiniteSets

CONSTANTS Clients, MaxClients, OutQueue, Untold, None

VARIABLES
  peers,      \* the table: the clients with a Peer
  lines,      \* for each client, the lines in its queue
  shut,       \* the sockets shut from our side
  left,       \* the clients that closed theirs
  accepting,  \* the accept loop: None, or [client, at]
  reader,     \* each reader thread
  writer,     \* each writer thread
  events,     \* the channel to the worker
  known,      \* the clients the worker knows
  stop        \* the server was dropped

vars == <<peers, lines, shut, left, accepting, reader, writer, events, known, stop>>

Event(k, c) == [kind |-> k, client |-> c]

(* Taking a client from the table shuts its socket, once.                  *)
Removed(c) ==
  /\ peers' = peers \ {c}
  /\ shut' = IF c \in peers THEN shut \cup {c} ELSE shut

-----------------------------------------------------------------------------
(* The accept loop.                                                        *)

IsFull == Cardinality(peers) >= MaxClients

Accept(c) ==
  /\ ~stop /\ accepting = None
  /\ reader[c] = None /\ c \notin left
  /\ IF IsFull
     THEN left' = left \cup {c} /\ UNCHANGED accepting
     ELSE accepting' = [client |-> c, at |-> "insert"] /\ UNCHANGED left
  /\ UNCHANGED <<peers, lines, shut, reader, writer, events, known, stop>>

(* start_client: a socket that cannot be set up is not taken.              *)
SetUpFails ==
  /\ accepting # None /\ accepting.at = "insert"
  /\ left' = left \cup {accepting.client}
  /\ accepting' = None
  /\ UNCHANGED <<peers, lines, shut, reader, writer, events, known, stop>>

Insert ==
  /\ accepting # None /\ accepting.at = "insert"
  /\ peers' = peers \cup {accepting.client}
  /\ accepting' = [accepting EXCEPT !.at = "announce"]
  /\ UNCHANGED <<lines, shut, left, reader, writer, events, known, stop>>

Announce ==
  /\ accepting # None /\ accepting.at = "announce"
  /\ Len(events) < Untold
  /\ events' = Append(events, Event("connected", accepting.client))
  /\ accepting' = [accepting EXCEPT !.at = "spawn"]
  /\ UNCHANGED <<peers, lines, shut, left, reader, writer, known, stop>>

Spawn ==
  /\ accepting # None /\ accepting.at = "spawn"
  /\ reader' = [reader EXCEPT ![accepting.client] = "reading"]
  /\ writer' = [writer EXCEPT ![accepting.client] = "waiting"]
  /\ accepting' = None
  /\ UNCHANGED <<peers, lines, shut, left, events, known, stop>>

-----------------------------------------------------------------------------
(* A reader.                                                               *)

Reads(c) ==
  /\ reader[c] = "reading" /\ ~stop /\ c \notin shut /\ c \notin left
  /\ Len(events) < Untold
  /\ events' = Append(events, Event("line", c))
  /\ UNCHANGED <<peers, lines, shut, left, accepting, reader, writer, known, stop>>

(* The end of the stream or an error; a read that timed out leaves too if  *)
(* the client was taken from the table meanwhile.                          *)
Over(c) == stop \/ c \in left \/ c \in shut \/ c \notin peers

Leaves(c) ==
  /\ reader[c] = "reading" /\ Over(c)
  /\ reader' = [reader EXCEPT ![c] = "leaving"]
  /\ UNCHANGED <<peers, lines, shut, left, accepting, writer, events, known, stop>>

(* Mutant: a client closed by another thread is that thread's to report.   *)
AfterReadingQuiet(c) == IF c \in peers THEN "telling" ELSE "gone"

AfterReading(c) == "telling"

TakesOut(c) ==
  /\ reader[c] = "leaving"
  /\ Removed(c)
  /\ reader' = [reader EXCEPT ![c] = AfterReading(c)]
  /\ UNCHANGED <<lines, left, accepting, writer, events, known, stop>>

Tells(c) ==
  /\ reader[c] = "telling" /\ Len(events) < Untold
  /\ events' = Append(events, Event("disconnected", c))
  /\ reader' = [reader EXCEPT ![c] = "gone"]
  /\ UNCHANGED <<peers, lines, shut, left, accepting, writer, known, stop>>

-----------------------------------------------------------------------------
(* A writer: it drains the queue while there is one.                       *)

TakesLine(c) ==
  /\ writer[c] = "waiting" /\ lines[c] > 0
  /\ lines' = [lines EXCEPT ![c] = @ - 1]
  /\ writer' = [writer EXCEPT ![c] = "writing"]
  /\ UNCHANGED <<peers, shut, left, accepting, reader, events, known, stop>>

Writes(c) ==
  /\ writer[c] = "writing" /\ c \notin shut
  /\ writer' = [writer EXCEPT ![c] = "waiting"]
  /\ UNCHANGED <<peers, lines, shut, left, accepting, reader, events, known, stop>>

(* The client does not read in time, or its socket is gone.                *)
WriteFails(c) ==
  /\ writer[c] = "writing"
  /\ writer' = [writer EXCEPT ![c] = "gone"]
  /\ Removed(c)
  /\ UNCHANGED <<lines, left, accepting, reader, events, known, stop>>

QueueEnds(c) ==
  /\ writer[c] = "waiting" /\ lines[c] = 0 /\ c \notin peers
  /\ writer' = [writer EXCEPT ![c] = "gone"]
  /\ UNCHANGED <<peers, lines, shut, left, accepting, reader, events, known, stop>>

-----------------------------------------------------------------------------
(* The worker.                                                             *)

(* The worker takes the events in their order: the last one that tells of  *)
(* a client's coming or going counts.                                      *)
StillKnown(c) ==
  \/ \E i \in DOMAIN events :
       /\ events[i] = Event("connected", c)
       /\ \A j \in i + 1 .. Len(events) : events[j] # Event("disconnected", c)
  \/ c \in known /\ \A i \in DOMAIN events : events[i] # Event("disconnected", c)

Poll ==
  /\ ~stop /\ events # <<>>
  /\ known' = {c \in Clients : StillKnown(c)}
  /\ events' = <<>>
  /\ UNCHANGED <<peers, lines, shut, left, accepting, reader, writer, stop>>

Send(c) ==
  /\ ~stop /\ c \in known /\ c \in peers
  /\ IF lines[c] < OutQueue
     THEN lines' = [lines EXCEPT ![c] = @ + 1] /\ UNCHANGED <<peers, shut>>
     ELSE Removed(c) /\ UNCHANGED lines
  /\ UNCHANGED <<left, accepting, reader, writer, events, known, stop>>

Close(c) ==
  /\ ~stop /\ c \in known /\ Removed(c)
  /\ UNCHANGED <<lines, left, accepting, reader, writer, events, known, stop>>

CloseAll ==
  /\ ~stop /\ peers # {}
  /\ peers' = {} /\ shut' = shut \cup peers
  /\ UNCHANGED <<lines, left, accepting, reader, writer, events, known, stop>>

(* Drop: the flag, then close_all; what is told from now on nobody hears.  *)
DropServer ==
  /\ ~stop /\ stop' = TRUE
  /\ peers' = {} /\ shut' = shut \cup peers
  /\ UNCHANGED <<lines, left, accepting, reader, writer, events, known>>

NobodyHears ==
  /\ stop /\ events # <<>> /\ events' = <<>>
  /\ UNCHANGED <<peers, lines, shut, left, accepting, reader, writer, known, stop>>

ClientLeaves(c) ==
  /\ c \notin left /\ left' = left \cup {c}
  /\ UNCHANGED <<peers, lines, shut, accepting, reader, writer, events, known, stop>>

-----------------------------------------------------------------------------
Init ==
  /\ peers = {} /\ lines = [c \in Clients |-> 0]
  /\ shut = {} /\ left = {} /\ accepting = None
  /\ reader = [c \in Clients |-> None] /\ writer = [c \in Clients |-> None]
  /\ events = <<>> /\ known = {} /\ stop = FALSE

Next ==
  \/ \E c \in Clients :
       \/ Accept(c) \/ ClientLeaves(c)
       \/ Reads(c) \/ Leaves(c) \/ TakesOut(c) \/ Tells(c)
       \/ TakesLine(c) \/ Writes(c) \/ WriteFails(c) \/ QueueEnds(c)
       \/ Send(c) \/ Close(c)
  \/ SetUpFails \/ Insert \/ Announce \/ Spawn
  \/ Poll \/ CloseAll \/ DropServer \/ NobodyHears

Spec == Init /\ [][Next]_vars

-----------------------------------------------------------------------------
(* Properties.                                                             *)

(* The types of the variables.                                             *)
TypeOK ==
  /\ peers \subseteq Clients /\ shut \subseteq Clients /\ left \subseteq Clients
  /\ lines \in [Clients -> 0 .. OutQueue]
  /\ accepting = None
     \/ accepting \in [client : Clients, at : {"insert", "announce", "spawn"}]
  /\ reader \in [Clients -> {None, "reading", "leaving", "telling", "gone"}]
  /\ writer \in [Clients -> {None, "waiting", "writing", "gone"}]
  /\ events \in Seq([kind : {"connected", "line", "disconnected"}, client : Clients])
  /\ known \subseteq Clients /\ stop \in BOOLEAN

Told(k, c) == \E i \in DOMAIN events : events[i] = Event(k, c)

(* What the worker is told of each client is that it connected, its lines, *)
(* and that it left, in this order; whoever closed it, a client the worker *)
(* heard of has a reader that is yet to tell of its end, or the end waits  *)
(* to be polled; and a client in the table has one that will take it out.  *)
(* So neither a place of the limit nor a transmit held by a client that    *)
(* stopped reading is kept for good (server.rs:112).                       *)
EveryEndIsTold ==
  /\ Cardinality(peers) <= MaxClients
  /\ \A c \in Clients :
       LET starting == accepting # None /\ accepting.client = c
           reading == reader[c] \in {"reading", "leaving", "telling"}
       IN  /\ c \in peers => starting \/ reader[c] \in {"reading", "leaving"}
           /\ ~stop /\ (c \in known \/ Told("connected", c)) =>
                starting \/ reading \/ Told("disconnected", c)
  /\ \A i \in DOMAIN events :
       LET e == events[i]
           later == {events[j] : j \in i + 1 .. Len(events)}
       IN  /\ e.kind = "connected" =>
                e.client \notin known /\ e \notin later
           /\ ~stop /\ e.kind # "connected" =>
                \/ e.client \in known
                \/ \E j \in 1 .. i - 1 : events[j] = Event("connected", e.client)
           /\ e.kind = "disconnected" => \A f \in later : f.client # e.client
=============================================================================
