----------------------------- MODULE LobbyConn -----------------------------
(***************************************************************************)
(* The lobby's connections (pkg/lobby/server.go) and the event loop they   *)
(* feed (pkg/lobby/app.go).  A connection has four goroutines: serve tells *)
(* the loop of its coming and its leaving, readLoop fills inbuf,           *)
(* dispatchLoop cuts it into messages, writeLoop empties outbuf.  They     *)
(* meet in two locks, two channels that hold one wake-up, a context and    *)
(* the loop's bounded channel.  A step is a locked region or an operation  *)
(* on a channel.                                                           *)
(*                                                                         *)
(* The stream of a client is counted in bytes: every message has Size of   *)
(* them, the first HeaderSize its header.  What is written is only ever    *)
(* nothing or something.                                                   *)
(***************************************************************************)
EXTENDS Naturals, SequencesExt

CONSTANTS
  Sockets,     \* connections the lobby accepts
  HeaderSize,  \* message.HeaderSize (12)
  Size,        \* of a message with its body
  MaxBytes,    \* bound: bytes read from a client
  MaxEvents,   \* capacity of chEvent (64)
  NoPeer       \* of an event that is no connection's

ASSUME ConnAssumption ==
  /\ HeaderSize \in Nat \ {0} /\ Size \in Nat /\ HeaderSize <= Size
  /\ MaxBytes \in Nat /\ MaxEvents \in Nat \ {0} /\ NoPeer \notin Sockets

VARIABLES
  remote,      \* remote[c]: the client is "alive", "closed", or "dead": gone without a word
  open,        \* open[c]: the lobby has not closed its end
  done,        \* done[c]: the context is cancelled
  bytes,       \* bytes[c]: read so far
  serve,       \* serve[c]: where its goroutine is
  reader,      \* reader[c]: where readLoop is, and what it has read
  inbuf,       \* inbuf[c]: bytes
  chDispatch,  \* chDispatch[c]: holds a wake-up
  dispatcher,  \* dispatcher[c]: where dispatchLoop is; "holding" has mInbuf
  outbuf,      \* outbuf[c]: not empty
  chWrite,     \* chWrite[c]: holds a wake-up
  writer,      \* writer[c]: where writeLoop is
  chEvent,     \* what the event loop has to handle
  answered,    \* the event loop is in SendMessage to these
  peers,       \* App.peers
  loggedIn     \* App.users: whose messages logged them in

readVars == <<bytes, reader, inbuf, chDispatch>>
writeVars == <<outbuf, chWrite, writer>>
loopVars == <<answered, peers, loggedIn>>
connVars == <<remote, open, done, serve, readVars, dispatcher, writeVars, chEvent, loopVars>>

ConnInit ==
  /\ remote = [c \in Sockets |-> "alive"]
  /\ open = [c \in Sockets |-> TRUE] /\ done = [c \in Sockets |-> FALSE]
  /\ bytes = [c \in Sockets |-> 0] /\ inbuf = [c \in Sockets |-> 0]
  /\ serve = [c \in Sockets |-> "opens"]
  /\ reader = [c \in Sockets |-> [at |-> "reads", got |-> 0]]
  /\ dispatcher = [c \in Sockets |-> "waits"]
  /\ writer = [c \in Sockets |-> "waits"]
  /\ chDispatch = [c \in Sockets |-> FALSE] /\ chWrite = [c \in Sockets |-> FALSE]
  /\ outbuf = [c \in Sockets |-> FALSE]
  /\ chEvent = <<>>
  /\ answered = {} /\ peers = {} /\ loggedIn = {}

Becomes(loop, c, there) == loop' = [loop EXCEPT ![c] = there]
Wakes(ch, c) == ch' = [ch EXCEPT ![c] = TRUE]   \* full or not: it holds one
Cancel(c) == done' = [done EXCEPT ![c] = TRUE]

CanPost == Len(chEvent) < MaxEvents
Post(kind, c) == CanPost /\ chEvent' = Append(chEvent, [kind |-> kind, peer |-> c])

-----------------------------------------------------------------------------
(* The client closes its end, or is gone without its network saying so.    *)
Hangs(c) ==
  /\ remote[c] = "alive"
  /\ \E how \in {"closed", "dead"} : Becomes(remote, c, how)
  /\ UNCHANGED <<open, done, serve, readVars, dispatcher, writeVars, chEvent, loopVars>>

(* serve: OnOpen, and once the context is done OnClose and conn.Close.     *)
Open(c) ==
  /\ serve[c] = "opens" /\ Post("come", c) /\ Becomes(serve, c, "serves")
  /\ UNCHANGED <<remote, open, done, readVars, dispatcher, writeVars, loopVars>>

Leave(c) ==
  /\ serve[c] = "serves" /\ done[c]
  /\ Post("leave", c) /\ Becomes(serve, c, "ended") /\ Becomes(open, c, FALSE)
  /\ UNCHANGED <<remote, done, readVars, dispatcher, writeVars, loopVars>>

-----------------------------------------------------------------------------
(* readLoop: a read returns any part of what the client sent.              *)
Read(c) ==
  /\ reader[c].at = "reads" /\ remote[c] = "alive" /\ open[c]
  /\ \E n \in 1 .. MaxBytes - bytes[c] :
       /\ bytes' = [bytes EXCEPT ![c] = @ + n]
       /\ Becomes(reader, c, [at |-> "locks", got |-> n])
  /\ UNCHANGED <<remote, open, done, serve, inbuf, chDispatch, dispatcher, writeVars,
                 chEvent, loopVars>>

ReadEnds(c) ==
  /\ reader[c].at = "reads" /\ (remote[c] = "closed" \/ ~open[c] \/ done[c])
  /\ Becomes(reader, c, [at |-> "ended", got |-> 0]) /\ Cancel(c)
  /\ UNCHANGED <<remote, open, serve, bytes, inbuf, chDispatch, dispatcher, writeVars,
                 chEvent, loopVars>>

Fill(c) ==
  /\ reader[c].at = "locks" /\ dispatcher[c] \notin {"holding", "posting", "stuck"}
  /\ inbuf' = [inbuf EXCEPT ![c] = @ + reader[c].got]
  /\ Becomes(reader, c, [at |-> "wakes", got |-> 0])
  /\ UNCHANGED <<remote, open, done, serve, bytes, chDispatch, dispatcher, writeVars,
                 chEvent, loopVars>>

WakeDispatcher(c) ==
  /\ reader[c].at = "wakes" /\ Wakes(chDispatch, c)
  /\ Becomes(reader, c, [at |-> "reads", got |-> 0])
  /\ UNCHANGED <<remote, open, done, serve, bytes, inbuf, dispatcher, writeVars,
                 chEvent, loopVars>>

-----------------------------------------------------------------------------
(* dispatchLoop holds mInbuf while it cuts inbuf and while it waits for    *)
(* room in chEvent.  Of a header without its body Deserialize says zero;   *)
(* the loop returns, with the lock, and the connection ends.               *)
StartDispatch(c) ==
  /\ dispatcher[c] = "waits" /\ chDispatch[c]
  /\ chDispatch' = [chDispatch EXCEPT ![c] = FALSE]
  /\ Becomes(dispatcher, c, "locks")
  /\ UNCHANGED <<remote, open, done, serve, bytes, reader, inbuf, writeVars, chEvent,
                 loopVars>>

LockInbuf(c) ==
  /\ dispatcher[c] = "locks" /\ Becomes(dispatcher, c, "holding")
  /\ UNCHANGED <<remote, open, done, serve, readVars, writeVars, chEvent, loopVars>>

Deserialize(c) ==
  /\ dispatcher[c] = "holding" /\ Size <= inbuf[c]
  /\ inbuf' = [inbuf EXCEPT ![c] = @ - Size] /\ Becomes(dispatcher, c, "posting")
  /\ UNCHANGED <<remote, open, done, serve, bytes, reader, chDispatch, writeVars,
                 chEvent, loopVars>>

(* Mutant of PostMessage: one message for every wake-up. *)
PostOneMessage(c) ==
  /\ dispatcher[c] = "posting" /\ Post("message", c) /\ Becomes(dispatcher, c, "waits")
  /\ UNCHANGED <<remote, open, done, serve, readVars, writeVars, loopVars>>
PostMessage(c) ==
  /\ dispatcher[c] = "posting" /\ Post("message", c) /\ Becomes(dispatcher, c, "holding")
  /\ UNCHANGED <<remote, open, done, serve, readVars, writeVars, loopVars>>

DispatchNoMore(c) ==
  /\ dispatcher[c] = "holding" /\ inbuf[c] < HeaderSize /\ Becomes(dispatcher, c, "waits")
  /\ UNCHANGED <<remote, open, done, serve, readVars, writeVars, chEvent, loopVars>>

(* Mutant of DispatchZero: the loop returns without cancelling. *)
DispatchZeroAlone(c) ==
  /\ dispatcher[c] = "holding" /\ HeaderSize <= inbuf[c] /\ inbuf[c] < Size
  /\ Becomes(dispatcher, c, "stuck")
  /\ UNCHANGED <<remote, open, done, serve, readVars, writeVars, chEvent, loopVars>>
DispatchZero(c) ==
  /\ dispatcher[c] = "holding" /\ HeaderSize <= inbuf[c] /\ inbuf[c] < Size
  /\ Becomes(dispatcher, c, "stuck") /\ Cancel(c)
  /\ UNCHANGED <<remote, open, serve, readVars, writeVars, chEvent, loopVars>>

DispatchEnds(c) ==
  /\ dispatcher[c] = "waits" /\ done[c] /\ Becomes(dispatcher, c, "ended")
  /\ UNCHANGED <<remote, open, done, serve, readVars, writeVars, chEvent, loopVars>>

-----------------------------------------------------------------------------
(* writeLoop: takes all of outbuf; a write that fails or takes ten seconds *)
(* loses the rest and ends nothing.                                        *)
StartWrite(c) ==
  /\ writer[c] = "waits" /\ chWrite[c]
  /\ chWrite' = [chWrite EXCEPT ![c] = FALSE] /\ Becomes(writer, c, "locks")
  /\ UNCHANGED <<remote, open, done, serve, readVars, dispatcher, outbuf, chEvent,
                 loopVars>>

TakeOutbuf(c) ==
  /\ writer[c] = "locks"
  /\ outbuf' = [outbuf EXCEPT ![c] = FALSE]
  /\ Becomes(writer, c, IF outbuf[c] THEN "writes" ELSE "waits")
  /\ UNCHANGED <<remote, open, done, serve, readVars, dispatcher, chWrite, chEvent,
                 loopVars>>

Write(c) ==
  /\ writer[c] = "writes" /\ Becomes(writer, c, "waits")
  /\ UNCHANGED <<remote, open, done, serve, readVars, dispatcher, outbuf, chWrite,
                 chEvent, loopVars>>

WriteEnds(c) ==
  /\ writer[c] = "waits" /\ done[c] /\ Becomes(writer, c, "ended")
  /\ UNCHANGED <<remote, open, done, serve, readVars, dispatcher, outbuf, chWrite,
                 chEvent, loopVars>>

-----------------------------------------------------------------------------
(* App.Serve handles one event at a time.  SendMessage fills outbuf, and   *)
(* wakes the writer once it has let go of the lock.                        *)
Send(to) ==
  /\ outbuf' = [c \in Sockets |-> outbuf[c] \/ c \in to]
  /\ answered' = to

WakeWriter(c) ==
  /\ c \in answered /\ Wakes(chWrite, c) /\ answered' = answered \ {c}
  /\ UNCHANGED <<remote, open, done, serve, readVars, dispatcher, outbuf, writer,
                 chEvent, peers, loggedIn>>

Handles(kind) ==
  /\ answered = {} /\ chEvent # <<>> /\ Head(chEvent).kind = kind
  /\ chEvent' = Tail(chEvent)
  /\ UNCHANGED <<remote, open, done, serve, readVars, dispatcher, chWrite, writer>>

PeerCome ==
  /\ Handles("come")
  /\ LET c == Head(chEvent).peer IN peers' = peers \cup {c} /\ Send({c})
  /\ UNCHANGED loggedIn

(* The message decides the user (OnDecideUserID); it is answered.          *)
PeerMessage ==
  /\ Handles("message")
  /\ LET c == Head(chEvent).peer IN loggedIn' = loggedIn \cup {c} /\ Send({c})
  /\ UNCHANGED peers

PeerLeave ==
  /\ Handles("leave")
  /\ LET c == Head(chEvent).peer IN peers' = peers \ {c} /\ loggedIn' = loggedIn \ {c}
  /\ UNCHANGED <<outbuf, answered>>

(* eventFunc: App.Locked, called by goroutines that serve RPC and HTTP,     *)
(* stands for the events of other connections as well.                     *)
Locked ==
  /\ Post("func", NoPeer)
  /\ UNCHANGED <<remote, open, done, serve, readVars, dispatcher, writeVars, loopVars>>

RunFunc ==
  /\ Handles("func") /\ UNCHANGED <<outbuf, loopVars>>

(* checkAlive: peers silent for peerRecvTimeout are closed, the others are *)
(* asked for a sign of life.                                               *)
CheckAlive(silent) ==
  /\ answered = {} /\ peers # {}
  /\ open' = [c \in Sockets |-> open[c] /\ c \notin silent]
  /\ Send(peers \ silent)
  /\ UNCHANGED <<remote, done, serve, readVars, dispatcher, chWrite, writer, chEvent,
                 peers, loggedIn>>

-----------------------------------------------------------------------------
ReadLoop(c) == ReadEnds(c) \/ Fill(c) \/ WakeDispatcher(c)
DispatchLoop(c) ==
  \/ StartDispatch(c) \/ LockInbuf(c) \/ Deserialize(c) \/ PostMessage(c)
  \/ DispatchNoMore(c) \/ DispatchZero(c) \/ DispatchEnds(c)
WriteLoop(c) == StartWrite(c) \/ TakeOutbuf(c) \/ Write(c) \/ WriteEnds(c)
Handle == PeerCome \/ PeerMessage \/ PeerLeave \/ RunFunc

ConnNext ==
  \/ \E c \in Sockets : \/ Hangs(c) \/ Open(c) \/ Leave(c) \/ Read(c)
                      \/ ReadLoop(c) \/ DispatchLoop(c) \/ WriteLoop(c)
                      \/ WakeWriter(c)
  \/ Locked \/ Handle
  \/ \E silent \in SUBSET peers : CheckAlive(silent)

(* A goroutine that can go on does; the event loop, which selects between  *)
(* its channel and the ticker, comes to either again and again.  A client  *)
(* that is gone stays silent.                                              *)
Fairness ==
  /\ \A c \in Sockets : /\ SF_connVars(Open(c) \/ Leave(c)) /\ WF_connVars(ReadLoop(c))
                      /\ SF_connVars(DispatchLoop(c)) /\ WF_connVars(WriteLoop(c))
                      /\ WF_connVars(WakeWriter(c))
  /\ SF_connVars(Handle)
  /\ SF_connVars(CheckAlive({c \in peers : remote[c] = "dead"}))

ConnSpec == ConnInit /\ [][ConnNext]_connVars
FairSpec == ConnSpec /\ Fairness

-----------------------------------------------------------------------------
ConnTypeOK ==
  /\ remote \in [Sockets -> {"alive", "closed", "dead"}]
  /\ open \in [Sockets -> BOOLEAN] /\ done \in [Sockets -> BOOLEAN]
  /\ bytes \in [Sockets -> 0 .. MaxBytes]
  /\ serve \in [Sockets -> {"opens", "serves", "ended"}]
  /\ reader \in [Sockets -> [at : {"reads", "locks", "wakes", "ended"}, got : 0 .. MaxBytes]]
  /\ inbuf \in [Sockets -> 0 .. MaxBytes]
  /\ dispatcher \in [Sockets -> {"waits", "locks", "holding", "posting", "stuck", "ended"}]
  /\ writer \in [Sockets -> {"waits", "locks", "writes", "ended"}]
  /\ Len(chEvent) <= MaxEvents
  /\ peers \subseteq Sockets /\ loggedIn \subseteq Sockets /\ answered \subseteq Sockets

(* A wake-up is never lost: while a connection lasts, what is in outbuf    *)
(* and every whole message in inbuf has a goroutine that comes for it, or  *)
(* a wake-up that brings one, or another goroutine about to give it.  (The *)
(* channels hold one wake-up and senders do not wait.)                     *)
NoLostWakeUp ==
  \A c \in Sockets :
    /\ outbuf[c] => chWrite[c] \/ c \in answered \/ writer[c] \in {"locks", "ended"}
    /\ Size <= inbuf[c] =>
         \/ chDispatch[c] \/ reader[c].at = "wakes"
         \/ dispatcher[c] \in {"locks", "holding", "posting", "ended"}

(* No buffer grows past its bound, and none waits for ever. *)
BuffersServed == ConnTypeOK /\ NoLostWakeUp

(* Whatever a client does, and whatever its goroutines are blocked on, the *)
(* lobby forgets a client that is gone: the context, the bounded channel   *)
(* and the lock a dispatcher may keep leave no way to wait for ever.       *)
GoneIsForgotten ==
  \A c \in Sockets : remote[c] # "alive" ~> serve[c] = "ended" /\ c \notin peers

=============================================================================
