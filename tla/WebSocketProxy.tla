--------------------------- MODULE WebSocketProxy ---------------------------
(***************************************************************************)
(* The sessions of a WebSocket resource (proxies.WebSocketProxy).  Handle  *)
(* runs the connect chain, upgrades the client's connection, writes the    *)
(* path of the request into the resource's one address, dials the backend  *)
(* and leaves two goroutines behind: `pump` carries messages from the      *)
(* client to the backend, `relay` those from the backend to the client.    *)
(* They share the variable `out`, which either replaces by a new           *)
(* connection when the one it uses fails.                                  *)
(*                                                                         *)
(* A session is named by its client.  Messages are numbered in the order   *)
(* their side says them.  Between the proxy and the backend they are on    *)
(* their way for some time: a connection keeps their order, two            *)
(* connections of one session do not.                                      *)
(*                                                                         *)
(* ReadAhead, WritesOn, DialsOn, RetryNothing, AssignAlways, OnlySleeps    *)
(* and ReadsOn are slips the properties must catch; no action uses them.   *)
(***************************************************************************)
EXTENDS Callers, FiniteSets

CONSTANTS
  Clients,
  Resources,   \* the callers of the resources explored
  MaxSaid,     \* bound: messages the client of a session says
  MaxBackSaid, \* bound: messages the backend says in a session
  MaxBreaks,   \* bound: breaks of connections to the backend, of all sessions
  ReadLimit    \* failed reads of one connection that gorilla/websocket puts up with

ASSUME WebSocketAssumption ==
  /\ Resources \subseteq Seq(Caller({"", "Cache", "c", "q", "s"}))
  /\ MaxSaid \in Nat /\ MaxBackSaid \in Nat /\ MaxBreaks \in Nat /\ ReadLimit \in Nat \ {0}

VARIABLES
  callers,   \* Proxy.Callers, frozen
  backend,   \* whether the backend takes connections
  breaks,    \* connections to it that have broken so far
  addr,      \* Address.Path, a string of two words: whose each of them is
  hs,        \* where Handle is
  failed,    \* the steps of the handshake that failed and were reported
  in,        \* the client's connection: "nil", "open", "gone"
  links,     \* the connections to the backend a session has dialled
  out,       \* the number of the one in the variable `out`; 0 is nil
  pump, hand,         \* the goroutine of lines 139-174 and its message
  relay, from, back,  \* that of lines 176-206, what it reads from, its message
  said, through,          \* by the client, and past the chain
  wire, writes, got,      \* on their way to the backend, writes so far, at it
  backSaid, queue,        \* by the backend, and on their way to the relay
  backThrough, backGot,   \* past the chain, and at the client
  crash      \* what ended the process, "" while it runs

handshake == <<addr, hs, failed>>
toBackend == <<said, through, wire, writes, got>>
toClient == <<backSaid, queue, backThrough, backGot>>
env == <<callers, backend, breaks>>
vars == <<env, handshake, in, links, out, pump, hand, relay, from,
          back, toBackend, toClient, crash>>

Nobody == "nobody"

Init ==
  /\ callers \in Resources
  /\ backend \in {"up", "down"} /\ breaks = 0
  /\ addr = <<Nobody, Nobody>>
  /\ hs = [c \in Clients |-> "connect"]
  /\ failed = [c \in Clients |-> {}]
  /\ in = [c \in Clients |-> "nil"]
  /\ links = [c \in Clients |-> <<>>]
  /\ out = [c \in Clients |-> 0]
  /\ pump = [c \in Clients |-> "off"] /\ hand = [c \in Clients |-> 0]
  /\ relay = [c \in Clients |-> "off"]
  /\ from = [c \in Clients |-> 0] /\ back = [c \in Clients |-> 0]
  /\ said = [c \in Clients |-> 0] /\ backSaid = [c \in Clients |-> 0]
  /\ through = [c \in Clients |-> {}] /\ backThrough = [c \in Clients |-> {}]
  /\ wire = [c \in Clients |-> {}] /\ writes = [c \in Clients |-> 0]
  /\ queue = [c \in Clients |-> {}]
  /\ got = [c \in Clients |-> {}] /\ backGot = [c \in Clients |-> {}]
  /\ crash = ""

-----------------------------------------------------------------------------
(* NewWebSocket keeps the callers of three levels, each as a chain of its  *)
(* own; those of the other levels, the cache among them, are left out.  Of *)
(* a run of Cascade only its end is kept: it passes or may refuse, when it *)
(* has members; it may panic, over a task that is awaited twice, or die,   *)
(* over a header map that a goroutine clones while it is written.          *)

ConnectCallers == OfLevel(callers, "connect")
RequestCallers == OfLevel(callers, "request")
ResponseCallers == OfLevel(callers, "response")
MayRefuse(chain) == chain # <<>>
Fatal(chain) == AwaitedTwice(chain) \/ Collides(chain)

Alive == crash = ""
Goes(pc, c, to) == pc' = [pc EXCEPT ![c] = to]
Ends(why) == crash' = why

\* `handler`: a connection to wherever the address points by now.
Dial(c) ==
  /\ backend = "up"
  /\ links' = [links EXCEPT ![c] = Append(@,
                 [path |-> addr, up |-> TRUE, writeErr |-> FALSE, reads |-> 0])]
DialFails == backend = "down" /\ UNCHANGED links
\* `out = o`
Replaced(c) == out' = [out EXCEPT ![c] = Len(links'[c])]

-----------------------------------------------------------------------------
(* Handle.  Every error is reported with http.Error, and Handle goes on.   *)

\* Reported and gone on with, or succeeded.
Step(c, at, to, ok) ==
  /\ Alive /\ hs[c] = at /\ Goes(hs, c, to)
  /\ failed' = IF ok THEN failed ELSE [failed EXCEPT ![c] = @ \cup {at}]

\* The connect chain.
Connect(c) ==
  /\ \E ok \in BOOLEAN : /\ ok \/ MayRefuse(ConnectCallers)
                        /\ Step(c, "connect", "upgrade", ok)
  /\ UNCHANGED <<env, addr, in, links, out, pump, hand, relay, from,
                 back, toBackend, toClient, crash>>

\* Cascade panics: over its chain, or because a body that cannot be read left
\* `req` nil.  net/http recovers, unless what ends is the whole process.
ConnectPanics(c) ==
  /\ Alive /\ hs[c] = "connect" /\ Goes(hs, c, "recovered")
  /\ UNCHANGED crash \/ (Collides(ConnectCallers) /\ Ends("cascade"))
  /\ UNCHANGED <<env, addr, failed, in, links, out, pump, hand, relay,
                 from, back, toBackend, toClient>>

Upgrade(c) ==
  /\ \E ok \in BOOLEAN :
       /\ Step(c, "upgrade", "path", ok)
       /\ in' = IF ok THEN [in EXCEPT ![c] = "open"] ELSE in
  /\ UNCHANGED <<env, addr, links, out, pump, hand, relay, from, back,
                 toBackend, toClient, crash>>

\* The assignment to the shared string writes one word after the other.
WritePath(c) ==
  /\ \/ Step(c, "path", "path's length", TRUE) /\ addr' = [addr EXCEPT ![1] = c]
     \/ Step(c, "path's length", "dial", TRUE) /\ addr' = [addr EXCEPT ![2] = c]
  /\ UNCHANGED <<env, in, links, out, pump, hand, relay, from, back,
                 toBackend, toClient, crash>>

\* The first dial; the goroutines start whatever came of it.
FirstDial(c) ==
  /\ \/ Step(c, "dial", "served", TRUE) /\ Dial(c) /\ Replaced(c)
     \/ Step(c, "dial", "served", FALSE) /\ DialFails /\ UNCHANGED out
  /\ Goes(pump, c, "read") /\ Goes(relay, c, "read")
  /\ UNCHANGED <<env, addr, in, hand, from, back, toBackend, toClient,
                 crash>>

-----------------------------------------------------------------------------
(* The goroutine that reads the client and writes to the backend.          *)

pumpFrame == <<env, handshake, in, relay, from, back, toClient>>

\* A message, through the request chain.  One that the chain refuses is
\* dropped; a panic of the chain, nobody recovers from here.
ReadAhead(c) == pump[c] \in {"read", "write"}
Reading(c) == pump[c] = "read"
PumpReads(c) ==
  /\ Alive /\ Reading(c) /\ in[c] = "open" /\ said[c] < MaxSaid
  /\ said' = [said EXCEPT ![c] = @ + 1]
  /\ \/ MayRefuse(RequestCallers) /\ UNCHANGED <<through, pump, hand>>
     \/ /\ through' = [through EXCEPT ![c] = @ \cup {said'[c]}]
        /\ hand' = [hand EXCEPT ![c] = said'[c]]
        /\ Goes(pump, c, "write")
  /\ UNCHANGED <<pumpFrame, links, out, wire, writes, got, crash>>
PumpCascadeEnds(c) ==
  /\ Alive /\ Reading(c) /\ in[c] = "open" /\ said[c] < MaxSaid
  /\ Fatal(RequestCallers) /\ Ends("cascade")
  /\ UNCHANGED <<pumpFrame, links, out, pump, hand, toBackend>>

ReadsOn(c) == "read"
OnReadError(c) == "ended"
PumpEnds(c) ==
  /\ Alive /\ pump[c] = "read" /\ in[c] = "gone" /\ Goes(pump, c, OnReadError(c))
  /\ UNCHANGED <<pumpFrame, links, out, hand, toBackend, crash>>

Drop(c) == hand' = [hand EXCEPT ![c] = 0]
Link(c, n) == links[c][n]
Up(c, n) == n # 0 /\ Link(c, n).up

\* The write succeeds, and the message is on its way.  One written to a
\* connection that is broken already, which nothing has told the proxy yet,
\* is lost.
Posts(c) ==
  /\ writes' = [writes EXCEPT ![c] = @ + 1]
  /\ wire' = [wire EXCEPT ![c] =
                @ \cup {[msg |-> hand[c], via |-> out[c], at |-> writes'[c]]}]
WritesOn(c) == UNCHANGED <<pump, hand>>
DialsOn(c) == Goes(pump, c, "dial") /\ UNCHANGED hand
Written(c) == Goes(pump, c, "read") /\ Drop(c)
PumpWrites(c) ==
  /\ Alive /\ pump[c] = "write" /\ out[c] # 0 /\ ~Link(c, out[c]).writeErr
  /\ IF Up(c, out[c]) THEN Posts(c) ELSE UNCHANGED <<wire, writes>>
  /\ Written(c)
  /\ UNCHANGED <<pumpFrame, links, out, said, through, got, crash>>

\* The write fails, and all later ones to that connection will.
PumpWriteFails(c) ==
  /\ Alive /\ pump[c] = "write" /\ out[c] # 0 /\ ~Up(c, out[c])
  /\ links' = [links EXCEPT ![c][out[c]].writeErr = TRUE]
  /\ Goes(pump, c, "dial")
  /\ UNCHANGED <<pumpFrame, out, hand, toBackend, crash>>

\* After a new connection the loop is left: the message is not written again.
\* Without one it is tried again in five seconds, by then perhaps on a
\* connection that the relay has made.
RetryNothing(c) == Goes(pump, c, "write") /\ Drop(c)
Retry(c) == Goes(pump, c, "write") /\ UNCHANGED hand
PumpDials(c) ==
  /\ Alive /\ pump[c] = "dial"
  /\ \/ Dial(c) /\ Replaced(c) /\ Drop(c) /\ Goes(pump, c, "read")
     \/ DialFails /\ Retry(c) /\ UNCHANGED out
  /\ UNCHANGED <<pumpFrame, toBackend, crash>>

\* A nil connection: `in` after a failed upgrade, `out` after a failed dial.
PumpPanics(c) ==
  /\ Alive
  /\ \/ pump[c] = "read" /\ in[c] = "nil" /\ Ends("nil in")
     \/ pump[c] = "write" /\ out[c] = 0 /\ Ends("nil out")
  /\ UNCHANGED <<pumpFrame, links, out, pump, hand, toBackend>>

-----------------------------------------------------------------------------
(* The goroutine that reads the backend and writes to the client.          *)

relayFrame == <<env, handshake, in, pump, hand, toBackend>>

\* ReadMessage of what is in `out` now; it stays with that connection.
RelayAsks(c) ==
  /\ Alive /\ relay[c] = "read" /\ out[c] # 0
  /\ from' = [from EXCEPT ![c] = out[c]] /\ Goes(relay, c, "reading")
  /\ UNCHANGED <<relayFrame, links, out, back, toClient, crash>>

\* What the backend said first of all that is still to be read there, through
\* the response chain.
Reads(c, q) ==
  /\ Alive /\ relay[c] = "reading"
  /\ q.via = from[c] /\ \A p \in queue[c] : p.via = q.via => q.msg <= p.msg
RelayReads(c, q) ==
  /\ Reads(c, q) /\ queue' = [queue EXCEPT ![c] = @ \ {q}]
  /\ \/ /\ MayRefuse(ResponseCallers)
        /\ Goes(relay, c, "read") /\ UNCHANGED <<backThrough, back>>
     \/ /\ backThrough' = [backThrough EXCEPT ![c] = @ \cup {q.msg}]
        /\ back' = [back EXCEPT ![c] = q.msg]
        /\ Goes(relay, c, "write")
  /\ UNCHANGED <<relayFrame, links, out, from, backSaid, backGot, crash>>
RelayCascadeEnds(c, q) ==
  /\ Reads(c, q) /\ Fatal(ResponseCallers) /\ Ends("cascade")
  /\ UNCHANGED <<relayFrame, links, out, relay, from, back, toClient>>

\* Nothing is left, and reading fails.  gorilla/websocket panics when a
\* failed connection is read again and again.
RelayReadFails(c) ==
  /\ Alive /\ relay[c] = "reading" /\ ~Up(c, from[c])
  /\ \A q \in queue[c] : q.via # from[c]
  /\ links' = [links EXCEPT ![c][from[c]].reads = @ + 1]
  /\ IF Link(c, from[c]).reads + 1 >= ReadLimit
     THEN Ends("repeated read") /\ UNCHANGED relay
     ELSE Goes(relay, c, "dial") /\ UNCHANGED crash
  /\ UNCHANGED <<relayFrame, out, from, back, toClient>>

\* Five seconds later.
AssignAlways(c) == out' = [out EXCEPT ![c] = 0]
KeepOut(c) == UNCHANGED out
OnlySleeps(c) == backend = "up" /\ UNCHANGED <<links, out>>
RelayRedials(c) == Dial(c) /\ Replaced(c)
Redial(c) == RelayRedials(c) \/ (DialFails /\ KeepOut(c))
RelayDials(c) ==
  /\ Alive /\ relay[c] = "dial" /\ Redial(c) /\ Goes(relay, c, "read")
  /\ UNCHANGED <<relayFrame, from, back, toClient, crash>>

\* The result of the write to the client is not looked at.
RelayWrites(c) ==
  /\ Alive /\ relay[c] = "write" /\ in[c] # "nil"
  /\ backGot' = IF in[c] # "open" THEN backGot
                ELSE [backGot EXCEPT ![c] = @ \cup {[msg |-> back[c], via |-> from[c]]}]
  /\ back' = [back EXCEPT ![c] = 0] /\ Goes(relay, c, "read")
  /\ UNCHANGED <<relayFrame, links, out, from, backSaid, queue, backThrough, crash>>

RelayPanics(c) ==
  /\ Alive
  /\ \/ relay[c] = "write" /\ in[c] = "nil" /\ Ends("nil in")
     \/ relay[c] = "read" /\ out[c] = 0 /\ Ends("nil out")
  /\ UNCHANGED <<relayFrame, links, out, relay, from, back, toClient>>

-----------------------------------------------------------------------------
(* The client and the backend.                                             *)

Leave(c) ==
  /\ in[c] = "open" /\ in' = [in EXCEPT ![c] = "gone"]
  /\ UNCHANGED <<env, handshake, links, out, pump, hand, relay, from,
                 back, toBackend, toClient, crash>>

\* A message reaches the backend.  A connection keeps the order of its writes.
Delivers(c, w) ==
  /\ \A x \in wire[c] : x.via = w.via => w.at <= x.at
  /\ wire' = [wire EXCEPT ![c] = @ \ {w}]
  /\ got' = [got EXCEPT ![c] = @ \cup {[msg |-> w.msg, via |-> w.via]}]
  /\ UNCHANGED <<env, handshake, in, links, out, pump, hand, relay, from, back,
                 said, through, writes, toClient, crash>>

\* The backend says something, on any of the connections it has.
BackendSays(c, n) ==
  /\ Up(c, n) /\ backSaid[c] < MaxBackSaid
  /\ backSaid' = [backSaid EXCEPT ![c] = @ + 1]
  /\ queue' = [queue EXCEPT ![c] = @ \cup {[msg |-> backSaid'[c], via |-> n]}]
  /\ UNCHANGED <<env, handshake, in, links, out, pump, hand, relay, from, back,
                 toBackend, backThrough, backGot, crash>>

\* A connection breaks; of what is under way on it either way, all from some
\* message on is lost.
Break(c, n) ==
  /\ breaks < MaxBreaks /\ breaks' = breaks + 1
  /\ Up(c, n) /\ links' = [links EXCEPT ![c][n].up = FALSE]
  /\ \E last \in 0..writes[c] :
       wire' = [wire EXCEPT ![c] = {w \in @ : w.via = n => w.at <= last}]
  /\ \E last \in 0..backSaid[c] :
       queue' = [queue EXCEPT ![c] = {q \in @ : q.via = n => q.msg <= last}]
  /\ UNCHANGED <<callers, backend, handshake, in, out, pump, hand, relay, from, back,
                 said, through, writes, got, backSaid, backThrough, backGot, crash>>

Backend ==
  /\ backend' \in {"up", "down"} \ {backend}
  /\ UNCHANGED <<callers, breaks, handshake, in, links, out, pump, hand, relay, from, back,
                 toBackend, toClient, crash>>

-----------------------------------------------------------------------------
Handle(c) == Connect(c) \/ ConnectPanics(c) \/ Upgrade(c) \/ WritePath(c) \/ FirstDial(c)

Pump(c) ==
  PumpReads(c) \/ PumpCascadeEnds(c) \/ PumpEnds(c) \/ PumpWrites(c) \/ PumpWriteFails(c)
    \/ PumpDials(c) \/ PumpPanics(c)

Relay(c) ==
  \/ RelayAsks(c) \/ RelayReadFails(c) \/ RelayDials(c) \/ RelayWrites(c) \/ RelayPanics(c)
  \/ \E q \in queue[c] : RelayReads(c, q) \/ RelayCascadeEnds(c, q)

Outside(c) ==
  \/ Leave(c)
  \/ \E w \in wire[c] : Delivers(c, w)
  \/ \E n \in DOMAIN links[c] : BackendSays(c, n) \/ Break(c, n)

Next ==
  \/ \E c \in Clients : Handle(c) \/ Pump(c) \/ Relay(c) \/ Outside(c)
  \/ Backend

\* Goroutines are scheduled, and what has come in is read.  Nothing is assumed
\* of clients, the backend or the network: nobody need speak, nor a message
\* reach the backend.
PumpWorks(c) == PumpEnds(c) \/ PumpWrites(c) \/ PumpWriteFails(c) \/ PumpDials(c) \/ PumpPanics(c)
RelayWorks(c) ==
  \/ RelayAsks(c) \/ RelayReadFails(c) \/ RelayDials(c) \/ RelayWrites(c) \/ RelayPanics(c)
  \/ \E q \in queue[c] : RelayReads(c, q)
Fairness ==
  \A c \in Clients : WF_vars(Handle(c)) /\ WF_vars(PumpWorks(c)) /\ WF_vars(RelayWorks(c))

Spec == Init /\ [][Next]_vars
FairSpec == Spec /\ Fairness

-----------------------------------------------------------------------------
Word == Clients \cup {Nobody}

Connection == [path: Word \X Word, up: BOOLEAN, writeErr: BOOLEAN, reads: 0..ReadLimit]

\* A message and the connection it takes, and the number of its write.
Sent(max) == [msg: 1..max, via: Nat]
Posted == [msg: 1..MaxSaid, via: Nat, at: Nat]

TypeOK ==
  /\ callers \in Resources
  /\ backend \in {"up", "down"} /\ breaks \in 0..MaxBreaks
  /\ addr \in Word \X Word
  /\ hs \in [Clients -> {"connect", "upgrade", "path", "path's length", "dial", "served",
                         "recovered"}]
  /\ failed \in [Clients -> SUBSET {"connect", "upgrade", "dial"}]
  /\ in \in [Clients -> {"nil", "open", "gone"}]
  /\ links \in [Clients -> Seq(Connection)]
  /\ out \in [Clients -> Nat] /\ from \in [Clients -> Nat]
  /\ \A c \in Clients : out[c] <= Len(links[c]) /\ from[c] <= Len(links[c])
  /\ pump \in [Clients -> {"off", "read", "write", "dial", "ended"}]
  /\ relay \in [Clients -> {"off", "read", "reading", "dial", "write"}]
  /\ said \in [Clients -> 0..MaxSaid] /\ backSaid \in [Clients -> 0..MaxBackSaid]
  /\ hand \in [Clients -> 0..MaxSaid] /\ back \in [Clients -> 0..MaxBackSaid]
  /\ through \in [Clients -> SUBSET (1..MaxSaid)]
  /\ backThrough \in [Clients -> SUBSET (1..MaxBackSaid)]
  /\ wire \in [Clients -> SUBSET Posted] /\ writes \in [Clients -> Nat]
  /\ got \in [Clients -> SUBSET Sent(MaxSaid)]
  /\ queue \in [Clients -> SUBSET Sent(MaxBackSaid)]
  /\ backGot \in [Clients -> SUBSET Sent(MaxBackSaid)]
  /\ \A c \in Clients : /\ hand[c] <= said[c] /\ back[c] <= backSaid[c]
                        /\ pump[c] = "write" => hand[c] # 0
                        /\ relay[c] = "reading" => from[c] # 0
  /\ crash \in {"", "nil in", "nil out", "repeated read", "cascade"}

\* Each way a session is a pipe: only messages that the chain let through
\* arrive, none twice, and those that took the same connection in the order
\* they were said, across reconnects and while both goroutines have one open.
ToBackend(c) == INSTANCE LossyPipe WITH said <- said[c], through <- through[c], got <- got[c]
ToClient(c) == INSTANCE LossyPipe WITH said <- backSaid[c], through <- backThrough[c], got <- backGot[c]
PipeSteps(c) ==
  /\ ToBackend(c)!Next \/ UNCHANGED ToBackend(c)!lpvars
  /\ ToClient(c)!Next \/ UNCHANGED ToClient(c)!lpvars
SessionsArePipes ==
  /\ \A c \in Clients : ToBackend(c)!Init /\ ToClient(c)!Init
  /\ [][\A c \in Clients : PipeSteps(c)]_vars

\* As long as no connection has broken nothing is lost: what a chain has let
\* through has arrived, is on its way or is in the hands of the goroutine that
\* carries it.
Messages(S) == {x.msg : x \in S}
NoLossWithoutBreak ==
  Alive => \A c \in Clients :
    /\ breaks = 0 => through[c] \subseteq Messages(got[c]) \cup Messages(wire[c]) \cup {hand[c]}
    /\ in[c] = "open" => backThrough[c] \subseteq Messages(backGot[c]) \cup {back[c]}

\* Connections that are replaced are not closed, and both goroutines may
\* replace the same one: yet each break adds at most one open connection.
FewOrphans ==
  \A c \in Clients : Cardinality({n \in DOMAIN links[c] : Up(c, n)}) <= 1 + breaks

\* Once a session's handshake has succeeded its connections never become nil
\* again, however its goroutines replace them: a nil connection ends the
\* process only after a failed upgrade or a failed first dial.
CrashOnlyAfterFailure ==
  /\ crash = "nil in" => \E c \in Clients : "upgrade" \in failed[c]
  /\ crash = "nil out" => \E c \in Clients : "dial" \in failed[c]

\* When its connection breaks and the backend can be reached, a session reads
\* from an open connection again.
ReadsAgain ==
  [](backend = "up") => \A c \in Clients :
    (relay[c] = "reading" /\ ~Up(c, from[c]))
      ~> \/ relay[c] = "reading" /\ Up(c, from[c])
         \/ crash \in {"nil in", "nil out", "cascade"}

\* When the client has left, the goroutine that reads it ends, in the end
\* also one that was waiting for the backend.
PumpFollowsClient ==
  <>[](backend = "up") => \A c \in Clients :
    (in[c] = "gone") ~> (pump[c] = "ended" \/ ~Alive)

\* The messages of a session do not go to the path another client asked for.
OwnPath ==
  \A c, d \in Clients : c # d => \A n \in DOMAIN links[c] : Link(c, n).path # <<d, d>>
=============================================================================
