------------------------ MODULE WebSocketProxyProofs ------------------------
(***************************************************************************)
(* Proofs about WebSocketProxy, for every set of clients, every resource   *)
(* and every number of messages and breaks.                                *)
(***************************************************************************)
EXTENDS WebSocketProxy, FiniteSetTheorems, TLAPS

-----------------------------------------------------------------------------
(* The inductive invariant, session by session.                            *)

\* The goroutines run from the end of the handshake on; until then nothing
\* has been dialled or said.  What is nil after the handshake is so because a
\* step of it failed.
Handshaken(c) ==
  /\ pump[c] = "off" <=> hs[c] # "served"
  /\ relay[c] = "off" <=> hs[c] # "served"
  /\ hs[c] # "served" => links[c] = <<>> /\ through[c] = {} /\ backThrough[c] = {}
  /\ in[c] = "nil" => hs[c] \in {"connect", "upgrade", "recovered"} \/ "upgrade" \in failed[c]
  /\ hs[c] = "served" /\ out[c] = 0 => "dial" \in failed[c]

\* `out` is the connection dialled last, whoever dialled it; only who had one
\* dials again, and only after a break.
Linked(c) ==
  /\ out[c] = Len(links[c])
  /\ pump[c] = "dial" \/ relay[c] \in {"reading", "dial"} => out[c] # 0
  /\ breaks = 0 => pump[c] # "dial" /\ \A n \in DOMAIN links[c] : Up(c, n)
  /\ Alive => \A n \in DOMAIN links[c] : Link(c, n).reads < ReadLimit

\* Connections that are open, and whether each goroutine is due to dial: its
\* connection is broken, or it has noticed that one was.
Open(c) == {n \in DOMAIN links[c] : Up(c, n)}
PumpDue(c) == IF pump[c] = "dial" \/ ~Up(c, out[c]) THEN 1 ELSE 0
RelayDue(c) ==
  IF relay[c] = "dial" \/ ~Up(c, out[c]) \/ (relay[c] = "reading" /\ ~Up(c, from[c]))
  THEN 1 ELSE 0
Budget(c) == out[c] # 0 => Cardinality(Open(c)) + PumpDue(c) + RelayDue(c) <= 1 + breaks

\* What the pump carries was let through, and is later than all it has sent.
Carried(c) ==
  /\ pump[c] \in {"off", "read", "ended"} => hand[c] = 0
  /\ pump[c] \in {"write", "dial"} => hand[c] \in through[c]
  /\ \A n \in through[c] : n <= said[c]
  /\ hand[c] # 0 => \A x \in wire[c] \cup got[c] : x.msg < hand[c]

\* Writes are made in the order of the messages.  What is on its way is later
\* than all that arrived on its connection, and nowhere else.
OnTheirWay(c) ==
  /\ \A x \in wire[c] \cup got[c] : x.msg \in through[c]
  /\ \A w \in wire[c] : w.at <= writes[c]
  /\ \A w, x \in wire[c] : w # x => w.at # x.at /\ (w.at < x.at => w.msg < x.msg)
  /\ \A w \in wire[c], g \in got[c] : g.msg # w.msg /\ (g.via = w.via => g.msg < w.msg)

\* As long as no connection has broken, that is all there is.
Kept(c) ==
  Alive /\ breaks = 0
    => through[c] \subseteq Messages(got[c]) \cup Messages(wire[c]) \cup {hand[c]}

Pumped(c) == Carried(c) /\ OnTheirWay(c) /\ Kept(c)

\* The same of the other way: what the relay has read of a connection is
\* earlier than what is still to be read there, and later than what has gone
\* to the client.
BackCarried(c) ==
  /\ back[c] # 0 <=> relay[c] = "write"
  /\ relay[c] = "write" => back[c] \in backThrough[c]
  /\ \A n \in backThrough[c] : n <= backSaid[c]
  /\ back[c] # 0 => /\ \A g \in backGot[c] : /\ g.msg # back[c]
                                             /\ g.via = from[c] => g.msg < back[c]
                   /\ \A q \in queue[c] : q.via = from[c] => back[c] < q.msg

BackOnTheirWay(c) ==
  /\ \A g \in backGot[c] : g.msg \in backThrough[c]
  /\ \A q \in queue[c] : q.msg <= backSaid[c] /\ q.msg \notin backThrough[c]
  /\ \A q, p \in queue[c] : q.msg = p.msg => q = p
  /\ \A q \in queue[c], g \in backGot[c] : g.via = q.via => g.msg < q.msg

BackKept(c) ==
  Alive /\ in[c] = "open" => backThrough[c] \subseteq Messages(backGot[c]) \cup {back[c]}

Relayed(c) == BackCarried(c) /\ BackOnTheirWay(c) /\ BackKept(c)

SessionInv(c) == Handshaken(c) /\ Linked(c) /\ Budget(c) /\ Pumped(c) /\ Relayed(c)

Inv == TypeOK /\ CrashOnlyAfterFailure /\ \A c \in Clients : SessionInv(c)

-----------------------------------------------------------------------------
(* Types, of a session by itself.                                          *)

LEMMA MoreBreaks ==
  ASSUME NEW x \in Nat, NEW b \in Nat, NEW b2 \in {b, b + 1}, x <= 1 + b
  PROVE  x <= 1 + b2
<1>1. b2 \in Nat /\ b <= b2
  OBVIOUS
<1> QED  BY <1>1

LEMMA ReadLimitFacts == ReadLimit \in Nat /\ 0 < ReadLimit /\ 0 \in 0..ReadLimit
<1>1. ReadLimit \in Nat /\ ReadLimit # 0
  BY WebSocketAssumption, Zenon
<1> QED  BY <1>1

LEMMA OneOrMore == \A b \in Nat : 1 <= 1 + b
OBVIOUS

LEMMA BoundFacts ==
  /\ MaxSaid \in Nat /\ MaxBackSaid \in Nat /\ MaxBreaks \in Nat
  /\ 0 \in 0..MaxSaid /\ 0 \in 0..MaxBackSaid /\ 0 \in 0..MaxBreaks
<1>1. MaxSaid \in Nat /\ MaxBackSaid \in Nat /\ MaxBreaks \in Nat
  BY WebSocketAssumption, Zenon
<1> QED  BY <1>1

LEMMA TypeFacts ==
  ASSUME TypeOK, NEW c \in Clients
  PROVE  /\ links[c] \in Seq(Connection) /\ Len(links[c]) \in Nat
         /\ DOMAIN links[c] = 1..Len(links[c])
         /\ \A n \in DOMAIN links[c] : /\ Link(c, n).up \in BOOLEAN /\ Link(c, n).reads \in Nat
                                       /\ n \in Nat /\ n # 0
         /\ out[c] \in Nat /\ out[c] <= Len(links[c])
         /\ from[c] \in Nat /\ from[c] <= Len(links[c])
         /\ said[c] \in Nat /\ backSaid[c] \in Nat /\ hand[c] \in Nat /\ back[c] \in Nat
         /\ \A n \in through[c] \cup backThrough[c] : n \in Nat /\ n # 0
         /\ \A w \in wire[c] : w.msg \in Nat /\ w.msg # 0 /\ w.at \in Nat
         /\ \A x \in got[c] \cup queue[c] \cup backGot[c] : x.msg \in Nat /\ x.msg # 0
         /\ writes[c] \in Nat /\ breaks \in Nat
<1>1. links[c] \in Seq(Connection)
  BY DEF TypeOK
<1>2. \A k \in Connection : k.up \in BOOLEAN /\ k.reads \in Nat
  <2>1. 0..ReadLimit \subseteq Nat
    OBVIOUS
  <2> QED  BY <2>1 DEF Connection
<1>3. /\ said[c] \in 0..MaxSaid /\ backSaid[c] \in 0..MaxBackSaid
      /\ hand[c] \in 0..MaxSaid /\ back[c] \in 0..MaxBackSaid
      /\ through[c] \in SUBSET (1..MaxSaid) /\ backThrough[c] \in SUBSET (1..MaxBackSaid)
      /\ wire[c] \in SUBSET Posted /\ writes[c] \in Nat
      /\ got[c] \in SUBSET Sent(MaxSaid)
      /\ queue[c] \in SUBSET Sent(MaxBackSaid) /\ backGot[c] \in SUBSET Sent(MaxBackSaid)
      /\ out[c] \in Nat /\ out[c] <= Len(links[c])
      /\ from[c] \in Nat /\ from[c] <= Len(links[c])
      /\ breaks \in 0..MaxBreaks
  BY DEF TypeOK
<1>4. Len(links[c]) \in Nat /\ DOMAIN links[c] = 1..Len(links[c])
  BY <1>1
<1>5. \A n \in DOMAIN links[c] : /\ Link(c, n).up \in BOOLEAN /\ Link(c, n).reads \in Nat
                                 /\ n \in Nat /\ n # 0
  BY <1>1, <1>2, <1>4 DEF Link
<1>6. /\ \A w \in wire[c] : w.msg \in Nat /\ w.msg # 0 /\ w.at \in Nat
      /\ \A x \in got[c] \cup queue[c] \cup backGot[c] : x.msg \in Nat /\ x.msg # 0
  <2>1. \A n \in 1..MaxSaid \cup 1..MaxBackSaid : n \in Nat /\ n # 0
    BY BoundFacts
  <2> QED  BY <1>3, <2>1 DEF Posted, Sent
<1>7. /\ said[c] \in Nat /\ backSaid[c] \in Nat /\ hand[c] \in Nat /\ back[c] \in Nat
      /\ \A n \in through[c] \cup backThrough[c] : n \in Nat /\ n # 0
      /\ breaks \in Nat
  BY <1>3
<1> QED  BY <1>1, <1>3, <1>4, <1>5, <1>6, <1>7

LEMMA OpenCount ==
  ASSUME TypeOK, NEW c \in Clients
  PROVE  IsFiniteSet(Open(c)) /\ Cardinality(Open(c)) \in Nat
<1>1. IsFiniteSet(1..Len(links[c]))
  <2>1. Len(links[c]) \in Int /\ 1 \in Int
    BY TypeFacts
  <2> QED  BY <2>1, FS_Interval
<1>2. Open(c) \subseteq 1..Len(links[c])
  BY TypeFacts DEF Open
<1> QED  BY <1>1, <1>2, FS_Subset, FS_CardinalityType

\* The functions of the sessions.
AsFunctions ==
  /\ hs = [d \in Clients |-> hs[d]] /\ failed = [d \in Clients |-> failed[d]]
  /\ in = [d \in Clients |-> in[d]] /\ links = [d \in Clients |-> links[d]]
  /\ out = [d \in Clients |-> out[d]] /\ pump = [d \in Clients |-> pump[d]]
  /\ hand = [d \in Clients |-> hand[d]] /\ relay = [d \in Clients |-> relay[d]]
  /\ from = [d \in Clients |-> from[d]] /\ back = [d \in Clients |-> back[d]]
  /\ said = [d \in Clients |-> said[d]] /\ backSaid = [d \in Clients |-> backSaid[d]]
  /\ through = [d \in Clients |-> through[d]]
  /\ backThrough = [d \in Clients |-> backThrough[d]]
  /\ wire = [d \in Clients |-> wire[d]] /\ writes = [d \in Clients |-> writes[d]]
  /\ queue = [d \in Clients |-> queue[d]]
  /\ got = [d \in Clients |-> got[d]] /\ backGot = [d \in Clients |-> backGot[d]]

LEMMA AreFunctions == TypeOK => AsFunctions
BY DEF TypeOK, AsFunctions

-----------------------------------------------------------------------------
(* What a step does to the sessions it is not about.                       *)

\* Of what the sessions share, only the count of breaks and the end of the
\* process concern them, and those never go back.
Onward == callers' = callers /\ breaks' \in {breaks, breaks + 1} /\ (Alive' => Alive)

HsSame(c) == hs'[c] = hs[c] /\ failed'[c] = failed[c]
LinksSame(c) == links'[c] = links[c] /\ out'[c] = out[c]
PumpSame(c) ==
  /\ pump'[c] = pump[c] /\ hand'[c] = hand[c]
  /\ said'[c] = said[c] /\ through'[c] = through[c]
  /\ wire'[c] = wire[c] /\ writes'[c] = writes[c] /\ got'[c] = got[c]
RelaySame(c) ==
  /\ relay'[c] = relay[c] /\ from'[c] = from[c] /\ back'[c] = back[c]
  /\ backSaid'[c] = backSaid[c] /\ queue'[c] = queue[c]
  /\ backThrough'[c] = backThrough[c] /\ backGot'[c] = backGot[c]
Same(c) == HsSame(c) /\ in'[c] = in[c] /\ LinksSame(c) /\ PumpSame(c) /\ RelaySame(c)

LEMMA OthersHandshake ==
  ASSUME AsFunctions, NEW c \in Clients, NEW d \in Clients, c # d, Handle(c)
  PROVE  Same(d)
BY DEF AsFunctions, Handle, Connect, ConnectPanics, Upgrade, WritePath, FirstDial, Step, Goes,
       Dial, DialFails, Replaced, env, handshake, toBackend, toClient,
       Same, HsSame, LinksSame, PumpSame, RelaySame

LEMMA OthersPump ==
  ASSUME AsFunctions, NEW c \in Clients, NEW d \in Clients, c # d, Pump(c)
  PROVE  Same(d)
BY DEF AsFunctions, Pump, PumpReads, PumpCascadeEnds, PumpEnds, PumpWrites, PumpWriteFails,
       PumpDials, PumpPanics, Goes, Drop, Posts, Written, Retry, OnReadError, Dial, DialFails, Replaced,
       pumpFrame, env, handshake, toBackend, toClient,
       Same, HsSame, LinksSame, PumpSame, RelaySame

LEMMA OthersRelay ==
  ASSUME AsFunctions, NEW c \in Clients, NEW d \in Clients, c # d, Relay(c)
  PROVE  Same(d)
BY DEF AsFunctions, Relay, RelayAsks, RelayReads, RelayCascadeEnds, Reads, RelayReadFails,
       RelayDials, RelayWrites, RelayPanics, Goes, Redial, RelayRedials, KeepOut, Dial, DialFails, Replaced,
       relayFrame, env, handshake, toBackend, toClient,
       Same, HsSame, LinksSame, PumpSame, RelaySame

LEMMA OthersEnvironment ==
  ASSUME AsFunctions, NEW c \in Clients, NEW d \in Clients,
         \/ Backend
         \/ c # d /\ Outside(c)
  PROVE  Same(d)
BY DEF AsFunctions, Outside, Leave, Delivers, BackendSays, Break, Backend, env, handshake, toBackend, toClient,
       Same, HsSame, LinksSame, PumpSame, RelaySame

LEMMA StepsGoOnward == TypeOK /\ Next => Onward
<1> SUFFICES ASSUME TypeOK, Next PROVE Onward
  OBVIOUS
<1>1. ASSUME NEW c \in Clients, Handle(c) PROVE Onward
  BY <1>1 DEF Handle, Connect, ConnectPanics, Upgrade, WritePath, FirstDial, Step, Onward, Alive, Ends, env
<1>2. ASSUME NEW c \in Clients, Pump(c) PROVE Onward
  BY <1>2 DEF Pump, PumpReads, PumpCascadeEnds, PumpEnds, PumpWrites, PumpWriteFails, PumpDials,
     PumpPanics, Onward, Alive, Ends, pumpFrame, env
<1>3. ASSUME NEW c \in Clients, Relay(c) PROVE Onward
  <2>1. callers' = callers /\ breaks' = breaks
    BY <1>3 DEF Relay, RelayAsks, RelayReads, RelayCascadeEnds, RelayReadFails, RelayDials,
       RelayWrites, RelayPanics, relayFrame, env
  <2>2. Alive
    BY <1>3 DEF Relay, RelayAsks, RelayReads, RelayCascadeEnds, Reads, RelayReadFails, RelayDials,
       RelayWrites, RelayPanics
  <2> QED  BY <2>1, <2>2 DEF Onward
<1>4. ASSUME NEW c \in Clients, Outside(c) PROVE Onward
  BY <1>4 DEF Outside, Leave, Delivers, BackendSays, Break, Onward, Alive, env
<1>5. CASE Backend
  BY <1>5 DEF Backend, Onward, Alive
<1> QED  BY <1>1, <1>2, <1>3, <1>4, <1>5 DEF Next

\* A session that a step is not about keeps its part of the invariant.
LEMMA SameKeeps ==
  ASSUME TypeOK, NEW c \in Clients, SessionInv(c), Onward, Same(c)
  PROVE  SessionInv(c)'
<1>0. breaks \in Nat /\ breaks' \in {breaks, breaks + 1} /\ (Alive' => Alive)
  BY TypeFacts DEF Onward
<1>1. Handshaken(c)'
  BY DEF SessionInv, Handshaken, Same, HsSame, LinksSame, PumpSame, RelaySame
<1>2. Linked(c)'
  BY <1>0 DEF SessionInv, Linked, Same, LinksSame, PumpSame, RelaySame, Up, Link
<1>3. Budget(c)'
  <2>1. Open(c)' = Open(c) /\ PumpDue(c)' = PumpDue(c) /\ RelayDue(c)' = RelayDue(c)
    BY DEF Open, PumpDue, RelayDue, Up, Link, Same, LinksSame, PumpSame, RelaySame
  <2>2. out'[c] = out[c]
    BY DEF Same, LinksSame
  <2>3. \A x \in Nat : x <= 1 + breaks => x <= 1 + breaks'
    BY <1>0, MoreBreaks
  <2>4. Cardinality(Open(c)) + PumpDue(c) + RelayDue(c) \in Nat
    BY OpenCount DEF PumpDue, RelayDue
  <2> HIDE DEF PumpDue, RelayDue
  <2> QED  BY <2>1, <2>2, <2>3, <2>4 DEF SessionInv, Budget
<1>4. Pumped(c)'
  BY <1>0 DEF SessionInv, Pumped, Carried, OnTheirWay, Kept, Same, PumpSame
<1>5. Relayed(c)'
  BY <1>0 DEF SessionInv, Relayed, BackCarried, BackOnTheirWay, BackKept, Same, RelaySame
<1> QED  BY <1>1, <1>2, <1>3, <1>4, <1>5 DEF SessionInv

-----------------------------------------------------------------------------
(* What a step does to the connections of its session.                     *)

\* A flag or a count of one of them changes; they stay open or broken.
Flagged(c) ==
  /\ out'[c] = out[c] /\ Len(links'[c]) = Len(links[c])
  /\ DOMAIN links'[c] = DOMAIN links[c]
  /\ \A n \in DOMAIN links[c] : links'[c][n].up = links[c][n].up

\* A new one, which is open and has not been read.
Dialled(c) ==
  /\ out'[c] = Len(links[c]) + 1 /\ Len(links'[c]) = Len(links[c]) + 1
  /\ DOMAIN links'[c] = 1..Len(links[c]) + 1
  /\ \A n \in DOMAIN links[c] : links'[c][n] = links[c][n]
  /\ links'[c][Len(links[c]) + 1].up /\ links'[c][Len(links[c]) + 1].reads = 0

LEMMA DialEffect ==
  ASSUME TypeOK, NEW c \in Clients, Dial(c), Replaced(c)
  PROVE  /\ Dialled(c)
         /\ links' \in [Clients -> Seq(Connection)] /\ out' \in [Clients -> Nat]
         /\ \A d \in Clients : d # c => links'[d] = links[d] /\ out'[d] = out[d]
<1> DEFINE new == [path |-> addr, up |-> TRUE, writeErr |-> FALSE, reads |-> 0]
<1>1. new \in Connection /\ new.up /\ new.reads = 0
  <2>1. 0 \in 0..ReadLimit /\ addr \in Word \X Word
    BY ReadLimitFacts DEF TypeOK
  <2> QED  BY <2>1 DEF Connection
<1>2. links' = [links EXCEPT ![c] = Append(links[c], new)] /\ out' = [out EXCEPT ![c] = Len(links'[c])]
  BY DEF Dial, Replaced
<1> HIDE DEF new
<1>3. links \in [Clients -> Seq(Connection)] /\ out \in [Clients -> Nat]
  BY DEF TypeOK
<1>4. links'[c] = Append(links[c], new) /\ Append(links[c], new) \in Seq(Connection)
  BY <1>1, <1>2, <1>3
<1>5. /\ Len(links'[c]) = Len(links[c]) + 1 /\ DOMAIN links'[c] = 1..Len(links[c]) + 1
      /\ \A n \in 1..Len(links[c]) : links'[c][n] = links[c][n]
      /\ links'[c][Len(links[c]) + 1] = new
      /\ Len(links'[c]) \in Nat
  BY <1>3, <1>4
<1>6. out'[c] = Len(links[c]) + 1
  BY <1>2, <1>3, <1>5
<1>7. Dialled(c)
  BY <1>1, <1>5, <1>6, TypeFacts DEF Dialled
<1> QED  BY <1>2, <1>3, <1>4, <1>5, <1>7

LEMMA FlaggedUp ==
  ASSUME TypeOK, NEW c \in Clients, Flagged(c), NEW n \in Nat, n <= Len(links[c])
  PROVE  Up(c, n)' = Up(c, n)
BY TypeFacts DEF Flagged, Up, Link

LEMMA FlaggedOpen ==
  ASSUME TypeOK, NEW c \in Clients, Flagged(c)
  PROVE  Open(c)' = Open(c)
BY TypeFacts DEF Flagged, Open, Up, Link

LEMMA DialledUp ==
  ASSUME TypeOK, NEW c \in Clients, Dialled(c)
  PROVE  /\ out'[c] # 0 /\ links'[c][out'[c]].up
         /\ \A n \in Nat : n <= Len(links[c]) => Up(c, n)' = Up(c, n)
<1>1. out'[c] # 0 /\ links'[c][out'[c]].up
  BY TypeFacts DEF Dialled
<1>2. ASSUME NEW n \in Nat, n <= Len(links[c]) PROVE Up(c, n)' = Up(c, n)
  BY <1>2, TypeFacts DEF Dialled, Up, Link
<1> QED  BY <1>1, <1>2

LEMMA DialledOpen ==
  ASSUME TypeOK, NEW c \in Clients, Dialled(c)
  PROVE  Cardinality(Open(c)') = Cardinality(Open(c)) + 1
<1>1. Open(c)' = Open(c) \cup {Len(links[c]) + 1} /\ Len(links[c]) + 1 \notin Open(c)
  BY TypeFacts DEF Dialled, Open, Up, Link
<1> QED  BY <1>1, OpenCount, FS_AddElement

\* What may change when a session's connections do.
LEMMA FlaggedLinked ==
  ASSUME TypeOK, NEW c \in Clients, Linked(c), Flagged(c), Onward, breaks' = breaks,
         pump'[c] = "dial" => out[c] # 0 /\ breaks # 0,
         relay'[c] \in {"reading", "dial"} => out[c] # 0,
         Alive' => \A n \in DOMAIN links[c] : links'[c][n].reads < ReadLimit
  PROVE  Linked(c)'
<1>1. \A n \in DOMAIN links[c] : Up(c, n)' = Up(c, n)
  BY FlaggedUp, TypeFacts
<1> QED  BY <1>1 DEF Linked, Flagged, Link

LEMMA DialledLinked ==
  ASSUME TypeOK, NEW c \in Clients, Linked(c), Dialled(c), Onward, breaks' = breaks,
         pump'[c] = "dial" => breaks # 0
  PROVE  Linked(c)'
<1>1. out'[c] = Len(links'[c]) /\ out'[c] # 0
  BY DialledUp DEF Dialled
<1>2. ASSUME NEW n \in DOMAIN links'[c]
      PROVE  (breaks = 0 => Up(c, n)') /\ (Alive => links'[c][n].reads < ReadLimit)
  <2>1. CASE n = out'[c]
    <3>1. links'[c][n].up /\ links'[c][n].reads = 0 /\ n # 0
      BY <2>1, DialledUp DEF Dialled
    <3>2. Up(c, n)'
      BY <3>1 DEF Up, Link
    <3> QED  BY <3>1, <3>2, ReadLimitFacts
  <2>2. CASE n # out'[c]
    <3>1. n \in DOMAIN links[c] /\ n \in Nat /\ n <= Len(links[c]) /\ links'[c][n] = links[c][n]
      BY <2>2, TypeFacts DEF Dialled
    <3> QED  BY <3>1, DialledUp DEF Linked, Link
  <2> QED  BY <2>1, <2>2
<1> QED  BY <1>1, <1>2 DEF Linked, Link, Onward

LEMMA Dues ==
  ASSUME NEW c \in Clients
  PROVE  /\ PumpDue(c) \in {0, 1} /\ RelayDue(c) \in {0, 1}
         /\ PumpDue(c)' \in {0, 1} /\ RelayDue(c)' \in {0, 1}
BY DEF PumpDue, RelayDue

LEMMA Sums ==
  ASSUME NEW k \in Nat, NEW b \in Nat, NEW p \in {0, 1}, NEW r \in {0, 1},
         NEW p2 \in {0, 1}, NEW r2 \in {0, 1}, k + p + r <= 1 + b
  PROVE  /\ p2 <= p /\ r2 <= r => k + p2 + r2 <= 1 + b
         /\ p2 <= p /\ r2 <= r /\ p2 + r2 # p + r => (k + 1) + p2 + r2 <= 1 + b
         /\ \A k2 \in Nat : k = k2 + 1 => k2 + p2 + r2 <= 1 + (b + 1)
OBVIOUS

LEMMA FlaggedBudget ==
  ASSUME TypeOK, NEW c \in Clients, Budget(c), Flagged(c), breaks' = breaks,
         PumpDue(c)' <= PumpDue(c), RelayDue(c)' <= RelayDue(c)
  PROVE  Budget(c)'
<1>1. Cardinality(Open(c)) \in Nat /\ breaks \in Nat /\ out'[c] = out[c]
  BY OpenCount, TypeFacts DEF Flagged
<1>2. Cardinality(Open(c))' = Cardinality(Open(c))
  BY FlaggedOpen
<1>3. /\ PumpDue(c) \in {0, 1} /\ RelayDue(c) \in {0, 1}
      /\ PumpDue(c)' \in {0, 1} /\ RelayDue(c)' \in {0, 1}
  BY Dues
<1> HIDE DEF PumpDue, RelayDue, Open
<1> QED  BY <1>1, <1>2, <1>3, Sums DEF Budget

\* Who dials was due to, and is no more.
LEMMA DialledBudget ==
  ASSUME TypeOK, NEW c \in Clients, Budget(c), Dialled(c), breaks' = breaks, out[c] # 0,
         PumpDue(c)' <= PumpDue(c), RelayDue(c)' <= RelayDue(c),
         PumpDue(c)' + RelayDue(c)' # PumpDue(c) + RelayDue(c)
  PROVE  Budget(c)'
<1>1. Cardinality(Open(c)) \in Nat /\ breaks \in Nat
  BY OpenCount, TypeFacts
<1>2. Cardinality(Open(c))' = Cardinality(Open(c)) + 1
  BY DialledOpen
<1>3. /\ PumpDue(c) \in {0, 1} /\ RelayDue(c) \in {0, 1}
      /\ PumpDue(c)' \in {0, 1} /\ RelayDue(c)' \in {0, 1}
  BY Dues
<1> HIDE DEF PumpDue, RelayDue, Open
<1> QED  BY <1>1, <1>2, <1>3, Sums DEF Budget

\* Who is not due to dial after a step that only flags was not due before it.
LEMMA FlaggedDues ==
  ASSUME TypeOK, NEW c \in Clients, Flagged(c)
  PROVE  /\ (pump'[c] = "dial" => pump[c] = "dial" \/ ~Up(c, out[c])) => PumpDue(c)' <= PumpDue(c)
         /\ /\ relay'[c] = "dial" => relay[c] = "dial" \/ (relay[c] = "reading" /\ ~Up(c, from[c]))
            /\ relay'[c] = "reading" =>
                 \/ relay[c] = "reading" /\ from'[c] = from[c]
                 \/ from'[c] = out[c]
            => RelayDue(c)' <= RelayDue(c)
<1>1. /\ Up(c, out[c])' = Up(c, out[c]) /\ out'[c] = out[c]
      /\ from'[c] = from[c] => Up(c, from[c])' = Up(c, from[c])
      /\ from'[c] = out[c] => Up(c, from[c])' = Up(c, out[c])
  <2>1. /\ out[c] \in Nat /\ out[c] <= Len(links[c]) /\ from[c] \in Nat /\ from[c] <= Len(links[c])
        /\ out'[c] = out[c] /\ DOMAIN links'[c] = DOMAIN links[c]
        /\ DOMAIN links[c] = 1..Len(links[c])
        /\ \A n \in DOMAIN links[c] : links'[c][n].up = links[c][n].up
    BY TypeFacts DEF Flagged
  <2> QED  BY <2>1 DEF Up, Link
<1> QED  BY <1>1 DEF PumpDue, RelayDue

-----------------------------------------------------------------------------
(* The pump.                                                               *)

\* What the pump leaves alone.
PumpLeaves(c) ==
  /\ HsSame(c) /\ in'[c] = in[c] /\ RelaySame(c)
  /\ callers' = callers /\ breaks' = breaks /\ (Alive' => Alive)

LEMMA PumpFrame ==
  ASSUME TypeOK, NEW c \in Clients, Pump(c)
  PROVE  PumpLeaves(c) /\ Onward /\ breaks \in Nat
<1>1. Onward
  BY StepsGoOnward DEF Next
<1>2. breaks \in Nat
  BY TypeFacts
<1> QED  BY <1>1, <1>2
     DEF PumpLeaves, HsSame, RelaySame, Onward,
         Pump, PumpReads, PumpCascadeEnds, PumpEnds, PumpWrites, PumpWriteFails, PumpDials,
         PumpPanics, pumpFrame, env, handshake, toClient

LEMMA PumpKeepsRelayed ==
  ASSUME NEW c \in Clients, Relayed(c), PumpLeaves(c)
  PROVE  Relayed(c)'
BY DEF Relayed, BackCarried, BackOnTheirWay, BackKept, PumpLeaves, RelaySame

\* The steps of the pump at its session.
LEMMA PumpReadsKeeps ==
  ASSUME TypeOK, NEW c \in Clients, SessionInv(c), PumpReads(c), PumpLeaves(c), Onward
  PROVE  SessionInv(c)'
<1>1. /\ Alive /\ pump[c] = "read" /\ said'[c] = said[c] + 1 /\ LinksSame(c) /\ crash' = crash
      /\ wire'[c] = wire[c] /\ writes'[c] = writes[c] /\ got'[c] = got[c]
  BY DEF PumpReads, Reading, LinksSame, TypeOK
<1>2. \/ through'[c] = through[c] /\ pump'[c] = "read" /\ hand'[c] = hand[c]
      \/ through'[c] = through[c] \cup {said'[c]} /\ hand'[c] = said'[c] /\ pump'[c] = "write"
  BY <1>1 DEF PumpReads, Goes, TypeOK
<1>3. /\ hs[c] = "served" /\ hand[c] = 0
  BY <1>1 DEF SessionInv, Handshaken, Pumped, Carried
<1>4. Flagged(c)
  BY <1>1 DEF LinksSame, Flagged
<1>5. Handshaken(c)'
  BY <1>1, <1>2, <1>3 DEF SessionInv, Handshaken, PumpLeaves, HsSame, RelaySame, LinksSame
<1>6. Linked(c)'
  BY <1>1, <1>2, <1>4, FlaggedLinked DEF SessionInv, Linked, PumpLeaves, RelaySame, LinksSame, Link
<1>7. Budget(c)'
  BY <1>2, <1>4, FlaggedDues, FlaggedBudget DEF SessionInv, PumpLeaves, RelaySame
<1>8. Carried(c)'
  <2>1. /\ said[c] \in Nat /\ \A n \in through[c] : n \in Nat /\ n <= said[c]
        /\ \A x \in wire[c] \cup got[c] : x.msg \in through[c]
    BY TypeFacts DEF SessionInv, Pumped, Carried, OnTheirWay
  <2>2. /\ \A n \in through[c] : n <= said[c] + 1 /\ n < said[c] + 1
        /\ said[c] + 1 # 0 /\ said[c] + 1 <= said[c] + 1
    BY <2>1
  <2> QED  BY <1>1, <1>2, <1>3, <2>1, <2>2 DEF Carried
<1>9. OnTheirWay(c)'
  BY <1>1, <1>2 DEF SessionInv, Pumped, OnTheirWay
<1>10. Kept(c)'
  <2>1. 0 \notin through[c] /\ breaks' = breaks /\ (Alive' => Alive)
    BY TypeFacts DEF PumpLeaves
  <2>2. Alive' /\ breaks' = 0 => through[c] \subseteq Messages(got'[c]) \cup Messages(wire'[c])
    BY <1>1, <1>3, <2>1 DEF SessionInv, Pumped, Kept
  <2> QED  BY <1>2, <1>3, <2>2 DEF Kept
<1> QED  BY <1>5, <1>6, <1>7, <1>8, <1>9, <1>10, PumpKeepsRelayed DEF SessionInv, Pumped

LEMMA PumpEndsKeeps ==
  ASSUME TypeOK, NEW c \in Clients, SessionInv(c), PumpEnds(c), PumpLeaves(c), Onward
  PROVE  SessionInv(c)'
<1>1. /\ pump[c] = "read" /\ pump'[c] = "ended" /\ LinksSame(c) /\ hand'[c] = hand[c]
      /\ said'[c] = said[c] /\ through'[c] = through[c] /\ crash' = crash
      /\ wire'[c] = wire[c] /\ writes'[c] = writes[c] /\ got'[c] = got[c]
  BY DEF PumpEnds, OnReadError, Goes, LinksSame, toBackend, TypeOK
<1>3. hs[c] = "served"
  BY <1>1 DEF SessionInv, Handshaken
<1>4. Flagged(c)
  BY <1>1 DEF LinksSame, Flagged
<1>5. Handshaken(c)'
  BY <1>1, <1>3 DEF SessionInv, Handshaken, PumpLeaves, HsSame, RelaySame, LinksSame
<1>6. Linked(c)'
  BY <1>1, <1>4, FlaggedLinked DEF SessionInv, Linked, PumpLeaves, RelaySame, LinksSame, Link, Alive
<1>7. Budget(c)'
  BY <1>1, <1>4, FlaggedDues, FlaggedBudget DEF SessionInv, PumpLeaves, RelaySame
<1>8. Pumped(c)'
  BY <1>1 DEF SessionInv, Pumped, Carried, OnTheirWay, Kept, PumpLeaves
<1> QED  BY <1>5, <1>6, <1>7, <1>8, PumpKeepsRelayed DEF SessionInv

\* One more message is on its way.
OneMore(c) ==
  \E p : /\ wire'[c] = wire[c] \cup {p} /\ writes'[c] = writes[c] + 1
         /\ p.msg = hand[c] /\ p.via = out[c] /\ p.at = writes[c] + 1

LEMMA PostsEffect ==
  ASSUME TypeOK, NEW c \in Clients, Posts(c)
  PROVE  OneMore(c)
<1>1. wire \in [Clients -> SUBSET Posted] /\ writes \in [Clients -> Nat]
  BY DEF TypeOK
<1>2. writes'[c] = writes[c] + 1
  BY <1>1 DEF Posts
<1>3. wire'[c] = wire[c] \cup {[msg |-> hand[c], via |-> out[c], at |-> writes[c] + 1]}
  BY <1>1, <1>2 DEF Posts
<1> DEFINE p == [msg |-> hand[c], via |-> out[c], at |-> writes[c] + 1]
<1>4. p.msg = hand[c] /\ p.via = out[c] /\ p.at = writes[c] + 1
  OBVIOUS
<1> HIDE DEF p
<1>5. wire'[c] = wire[c] \cup {p}
  BY <1>3 DEF p
<1> QED  BY <1>2, <1>4, <1>5 DEF OneMore

LEMMA PumpWritesKeeps ==
  ASSUME TypeOK, NEW c \in Clients, SessionInv(c), PumpWrites(c), PumpLeaves(c), Onward
  PROVE  SessionInv(c)'
<1>1. /\ Alive /\ pump[c] = "write" /\ pump'[c] = "read" /\ LinksSame(c) /\ hand'[c] = 0
      /\ said'[c] = said[c] /\ through'[c] = through[c] /\ crash' = crash /\ out[c] # 0
      /\ got'[c] = got[c]
  BY DEF PumpWrites, Written, Drop, Goes, LinksSame, TypeOK
<1>2. \/ Up(c, out[c]) /\ OneMore(c)
      \/ ~Up(c, out[c]) /\ wire'[c] = wire[c] /\ writes'[c] = writes[c]
  BY PostsEffect DEF PumpWrites
<1>3. hs[c] = "served" /\ hand[c] \in through[c] /\ hand[c] # 0
  BY <1>1, TypeFacts DEF SessionInv, Handshaken, Pumped, Carried
<1>4. Flagged(c)
  BY <1>1 DEF LinksSame, Flagged
<1>5. Handshaken(c)'
  BY <1>1, <1>3 DEF SessionInv, Handshaken, PumpLeaves, HsSame, RelaySame, LinksSame
<1>6. Linked(c)'
  BY <1>1, <1>4, FlaggedLinked DEF SessionInv, Linked, PumpLeaves, RelaySame, LinksSame, Link
<1>7. Budget(c)'
  BY <1>1, <1>4, FlaggedDues, FlaggedBudget DEF SessionInv, PumpLeaves, RelaySame
<1>8. Carried(c)'
  BY <1>1 DEF SessionInv, Pumped, Carried
<1>9. OnTheirWay(c)'
  <2>1. CASE ~Up(c, out[c])
    BY <1>1, <1>2, <2>1 DEF SessionInv, Pumped, OnTheirWay
  <2>2. CASE Up(c, out[c])
    <3>1. PICK p : /\ wire'[c] = wire[c] \cup {p} /\ writes'[c] = writes[c] + 1
                   /\ p.msg = hand[c] /\ p.at = writes[c] + 1
      BY <1>2, <2>2 DEF OneMore
    <3>2. /\ \A x \in wire[c] \cup got[c] : x.msg \in Nat /\ x.msg < p.msg /\ x.msg # p.msg
          /\ \A w \in wire[c] : w.at \in Nat /\ w.at < p.at /\ w.at # p.at /\ ~(p.at < w.at)
          /\ \A w \in wire[c] : w.at <= writes[c] + 1
          /\ p.at <= writes[c] + 1
      <4>1. /\ \A x \in wire[c] \cup got[c] : x.msg \in Nat /\ x.msg < hand[c]
            /\ \A w \in wire[c] : w.at \in Nat /\ w.at <= writes[c]
            /\ writes[c] \in Nat /\ hand[c] \in Nat
        BY <1>3, TypeFacts DEF SessionInv, Pumped, Carried, OnTheirWay
      <4> QED  BY <3>1, <4>1
    <3>3. \A x \in wire'[c] \cup got'[c] : x.msg \in through'[c]
      BY <1>1, <1>3, <3>1 DEF SessionInv, Pumped, OnTheirWay
    <3>4. \A w \in wire'[c] : w.at <= writes'[c]
      BY <3>1, <3>2
    <3>5. \A w, x \in wire'[c] : w # x => w.at # x.at /\ (w.at < x.at => w.msg < x.msg)
      BY <3>1, <3>2 DEF SessionInv, Pumped, OnTheirWay
    <3>6. \A w \in wire'[c], g \in got'[c] : g.msg # w.msg /\ (g.via = w.via => g.msg < w.msg)
      BY <1>1, <3>1, <3>2 DEF SessionInv, Pumped, OnTheirWay
    <3> QED  BY <3>3, <3>4, <3>5, <3>6 DEF OnTheirWay
  <2> QED  BY <2>1, <2>2
<1>10. Kept(c)'
  <2>1. breaks = 0 => Up(c, out[c])
    <3>1. out[c] \in DOMAIN links[c]
      BY <1>1, TypeFacts
    <3> QED  BY <3>1 DEF SessionInv, Linked
  <2>2. Up(c, out[c]) => Messages(wire'[c]) = Messages(wire[c]) \cup {hand[c]}
    BY <1>2 DEF OneMore, Messages
  <2> QED  BY <1>1, <2>1, <2>2 DEF SessionInv, Pumped, Kept, PumpLeaves
<1> QED  BY <1>5, <1>6, <1>7, <1>8, <1>9, <1>10, PumpKeepsRelayed DEF SessionInv, Pumped

LEMMA PumpWriteFailsKeeps ==
  ASSUME TypeOK, NEW c \in Clients, SessionInv(c), PumpWriteFails(c), PumpLeaves(c), Onward
  PROVE  SessionInv(c)'
<1>1. /\ Alive /\ pump[c] = "write" /\ pump'[c] = "dial" /\ out'[c] = out[c] /\ out[c] # 0
      /\ ~Up(c, out[c]) /\ hand'[c] = hand[c] /\ said'[c] = said[c] /\ through'[c] = through[c]
      /\ wire'[c] = wire[c] /\ writes'[c] = writes[c] /\ got'[c] = got[c] /\ crash' = crash
      /\ links'[c] = [links[c] EXCEPT ![out[c]].writeErr = TRUE]
  BY DEF PumpWriteFails, Goes, TypeOK, toBackend
<1>2. out[c] \in DOMAIN links[c] /\ breaks # 0
  <2>1. out[c] \in DOMAIN links[c]
    BY <1>1, TypeFacts
  <2> QED  BY <1>1, <2>1 DEF SessionInv, Linked
<1>3. hs[c] = "served"
  BY <1>1 DEF SessionInv, Handshaken
<1>4. /\ Len(links'[c]) = Len(links[c]) /\ DOMAIN links'[c] = DOMAIN links[c]
      /\ \A n \in DOMAIN links[c] :
           links'[c][n].up = links[c][n].up /\ links'[c][n].reads = links[c][n].reads
  BY <1>1, <1>2, TypeFacts DEF Connection
<1>5. Flagged(c)
  BY <1>1, <1>4 DEF Flagged
<1>6. Handshaken(c)'
  BY <1>1, <1>3 DEF SessionInv, Handshaken, PumpLeaves, HsSame, RelaySame
<1>7. Linked(c)'
  BY <1>1, <1>2, <1>4, <1>5, FlaggedLinked DEF SessionInv, Linked, PumpLeaves, RelaySame, Link
<1>8. Budget(c)'
  BY <1>1, <1>5, FlaggedDues, FlaggedBudget DEF SessionInv, PumpLeaves, RelaySame
<1>9. Pumped(c)'
  BY <1>1 DEF SessionInv, Pumped, Carried, OnTheirWay, Kept, PumpLeaves
<1> QED  BY <1>6, <1>7, <1>8, <1>9, PumpKeepsRelayed DEF SessionInv

LEMMA PumpDialsKeeps ==
  ASSUME TypeOK, NEW c \in Clients, SessionInv(c), PumpDials(c), PumpLeaves(c), Onward
  PROVE  SessionInv(c)'
<1>1. /\ Alive /\ pump[c] = "dial" /\ said'[c] = said[c] /\ through'[c] = through[c]
      /\ wire'[c] = wire[c] /\ writes'[c] = writes[c] /\ got'[c] = got[c] /\ crash' = crash
  BY DEF PumpDials, toBackend
<1>2. hs[c] = "served" /\ out[c] # 0 /\ breaks # 0
  BY <1>1 DEF SessionInv, Handshaken, Linked
<1>3. CASE Dial(c) /\ Replaced(c) /\ Drop(c) /\ Goes(pump, c, "read")
  <2>1. Dialled(c) /\ pump'[c] = "read" /\ hand'[c] = 0
    BY <1>3, DialEffect DEF Drop, Goes, TypeOK
  <2>2. Handshaken(c)'
    BY <1>1, <1>2, <2>1, DialledUp DEF SessionInv, Handshaken, PumpLeaves, HsSame, RelaySame
  <2>3. Linked(c)'
    BY <1>1, <1>2, <2>1, DialledLinked DEF SessionInv, PumpLeaves
  <2>4. Budget(c)'
    <3>1. Up(c, out[c])' /\ Up(c, from[c])' = Up(c, from[c])
      BY <2>1, DialledUp, TypeFacts DEF PumpLeaves, RelaySame, Up, Link
    <3>2. PumpDue(c) = 1 /\ PumpDue(c)' = 0
      BY <1>1, <2>1, <3>1 DEF PumpDue
    <3>3. RelayDue(c)' <= RelayDue(c)
      BY <3>1 DEF RelayDue, PumpLeaves, RelaySame
    <3>4. /\ RelayDue(c) \in {0, 1} /\ RelayDue(c)' \in {0, 1}
      BY Dues
    <3>5. PumpDue(c)' <= PumpDue(c) /\ PumpDue(c)' + RelayDue(c)' # PumpDue(c) + RelayDue(c)
      BY <3>2, <3>3, <3>4
    <3> QED  BY <1>2, <2>1, <3>3, <3>5, DialledBudget DEF SessionInv, PumpLeaves
  <2>5. Pumped(c)'
    BY <1>1, <1>2, <2>1 DEF SessionInv, Pumped, Carried, OnTheirWay, Kept, PumpLeaves
  <2> QED  BY <2>2, <2>3, <2>4, <2>5, PumpKeepsRelayed DEF SessionInv
<1>4. CASE DialFails /\ Retry(c) /\ UNCHANGED out
  <2>1. pump'[c] = "write" /\ hand'[c] = hand[c] /\ LinksSame(c)
    BY <1>4 DEF DialFails, Retry, Goes, LinksSame, TypeOK
  <2>2. Flagged(c)
    BY <2>1 DEF LinksSame, Flagged
  <2>3. Handshaken(c)'
    BY <1>1, <1>2, <2>1 DEF SessionInv, Handshaken, PumpLeaves, HsSame, RelaySame, LinksSame
  <2>4. Linked(c)'
    BY <1>1, <2>1, <2>2, FlaggedLinked DEF SessionInv, Linked, PumpLeaves, RelaySame, LinksSame, Link
  <2>5. Budget(c)'
    BY <2>1, <2>2, FlaggedDues, FlaggedBudget DEF SessionInv, PumpLeaves, RelaySame
  <2>6. Pumped(c)'
    BY <1>1, <2>1 DEF SessionInv, Pumped, Carried, OnTheirWay, Kept, PumpLeaves
  <2> QED  BY <2>3, <2>4, <2>5, <2>6, PumpKeepsRelayed DEF SessionInv
<1> QED  BY <1>3, <1>4 DEF PumpDials

LEMMA PumpPanicsKeeps ==
  ASSUME TypeOK, NEW c \in Clients, SessionInv(c), PumpPanics(c) \/ PumpCascadeEnds(c),
         PumpLeaves(c), Onward
  PROVE  SessionInv(c)'
<1>1. Same(c)
  BY DEF PumpPanics, PumpCascadeEnds, PumpLeaves, Same, LinksSame, PumpSame, toBackend
<1> QED  BY <1>1, SameKeeps

-----------------------------------------------------------------------------
(* The relay.                                                              *)

\* What the relay leaves alone.
RelayLeaves(c) ==
  /\ HsSame(c) /\ in'[c] = in[c] /\ PumpSame(c)
  /\ callers' = callers /\ breaks' = breaks /\ (Alive' => Alive)

LEMMA RelayFrame ==
  ASSUME TypeOK, NEW c \in Clients, Relay(c)
  PROVE  RelayLeaves(c) /\ Onward
<1>1. Onward
  BY StepsGoOnward DEF Next
<1> QED  BY <1>1
     DEF RelayLeaves, HsSame, PumpSame, Onward,
         Relay, RelayAsks, RelayReads, RelayCascadeEnds, RelayReadFails, RelayDials, RelayWrites,
         RelayPanics, relayFrame, env, handshake, toBackend

LEMMA RelayKeepsPumped ==
  ASSUME NEW c \in Clients, Pumped(c), RelayLeaves(c)
  PROVE  Pumped(c)'
BY DEF Pumped, Carried, OnTheirWay, Kept, RelayLeaves, PumpSame

LEMMA RelayAsksKeeps ==
  ASSUME TypeOK, NEW c \in Clients, SessionInv(c), RelayAsks(c), RelayLeaves(c), Onward
  PROVE  SessionInv(c)'
<1>1. /\ Alive /\ relay[c] = "read" /\ relay'[c] = "reading" /\ out[c] # 0 /\ from'[c] = out[c]
      /\ LinksSame(c) /\ back'[c] = back[c] /\ backSaid'[c] = backSaid[c] /\ queue'[c] = queue[c]
      /\ backThrough'[c] = backThrough[c] /\ backGot'[c] = backGot[c] /\ crash' = crash
  BY DEF RelayAsks, Goes, LinksSame, toClient, TypeOK
<1>3. hs[c] = "served"
  BY <1>1 DEF SessionInv, Handshaken
<1>4. Flagged(c)
  BY <1>1 DEF LinksSame, Flagged
<1>5. Handshaken(c)'
  BY <1>1, <1>3 DEF SessionInv, Handshaken, RelayLeaves, HsSame, PumpSame, LinksSame
<1>6. Linked(c)'
  BY <1>1, <1>4, FlaggedLinked DEF SessionInv, Linked, RelayLeaves, PumpSame, LinksSame, Link
<1>7. Budget(c)'
  BY <1>1, <1>4, FlaggedDues, FlaggedBudget DEF SessionInv, RelayLeaves, PumpSame
<1>8. Relayed(c)'
  BY <1>1 DEF SessionInv, Relayed, BackCarried, BackOnTheirWay, BackKept, RelayLeaves
<1> QED  BY <1>5, <1>6, <1>7, <1>8, RelayKeepsPumped DEF SessionInv

LEMMA RelayReadsKeeps ==
  ASSUME TypeOK, NEW c \in Clients, SessionInv(c), NEW q \in queue[c], RelayReads(c, q),
         RelayLeaves(c), Onward
  PROVE  SessionInv(c)'
<1>1. /\ Alive /\ relay[c] = "reading" /\ from'[c] = from[c] /\ LinksSame(c)
      /\ backSaid'[c] = backSaid[c] /\ backGot'[c] = backGot[c] /\ crash' = crash
      /\ queue'[c] = queue[c] \ {q} /\ q.via = from[c]
      /\ \A p \in queue[c] : p.via = from[c] => q.msg <= p.msg
  BY DEF RelayReads, Reads, LinksSame, TypeOK
<1>2. \/ backThrough'[c] = backThrough[c] /\ relay'[c] = "read" /\ back'[c] = back[c]
      \/ /\ backThrough'[c] = backThrough[c] \cup {q.msg} /\ back'[c] = q.msg
         /\ relay'[c] = "write"
  BY <1>1 DEF RelayReads, Goes, TypeOK
<1>3. hs[c] = "served" /\ back[c] = 0
  BY <1>1, TypeFacts DEF SessionInv, Handshaken, Relayed, BackCarried
<1>4. Flagged(c)
  BY <1>1 DEF LinksSame, Flagged
<1>5. Handshaken(c)'
  BY <1>1, <1>2, <1>3 DEF SessionInv, Handshaken, RelayLeaves, HsSame, PumpSame, LinksSame
<1>6. Linked(c)'
  BY <1>1, <1>2, <1>4, FlaggedLinked DEF SessionInv, Linked, RelayLeaves, PumpSame, LinksSame, Link
<1>7. Budget(c)'
  BY <1>2, <1>4, FlaggedDues, FlaggedBudget DEF SessionInv, RelayLeaves, PumpSame
<1>8. /\ q.msg \in Nat /\ q.msg # 0 /\ q.msg <= backSaid[c] /\ q.msg \notin backThrough[c]
      /\ \A p \in queue'[c] : p.msg # q.msg /\ (p.via = from[c] => q.msg < p.msg)
  <2>1. /\ \A p \in queue[c] : p.msg \in Nat /\ p.msg # 0
        /\ q.msg <= backSaid[c] /\ q.msg \notin backThrough[c]
        /\ \A p \in queue[c] : p # q => p.msg # q.msg
    BY TypeFacts DEF SessionInv, Relayed, BackOnTheirWay
  <2>2. \A p \in queue[c] : p # q /\ p.via = from[c] => q.msg < p.msg
    BY <1>1, <2>1
  <2> QED  BY <1>1, <2>1, <2>2
<1>9. BackCarried(c)'
  <2>1. CASE back'[c] = back[c]
    BY <1>1, <1>2, <1>3, <1>8, <2>1 DEF SessionInv, Relayed, BackCarried
  <2>2. CASE back'[c] = q.msg
    <3>1. relay'[c] = "write" /\ backThrough'[c] = backThrough[c] \cup {q.msg}
      <4>1. q.msg # back[c]
        BY <1>3, <1>8
      <4> QED  BY <1>2, <2>2, <4>1
    <3>2. \A n \in backThrough'[c] : n <= backSaid'[c]
      BY <1>1, <1>8, <3>1 DEF SessionInv, Relayed, BackCarried
    <3>3. \A g \in backGot'[c] : g.msg # q.msg /\ (g.via = from'[c] => g.msg < q.msg)
      BY <1>1, <1>8 DEF SessionInv, Relayed, BackOnTheirWay
    <3>4. q.msg # 0 /\ q.msg \in backThrough'[c]
      BY <1>8, <3>1
    <3>5. \A p \in queue'[c] : p.via = from'[c] => q.msg < p.msg
      <4>1. from'[c] = from[c]
        BY <1>1
      <4>2. \A p \in queue'[c] : p.via = from[c] => q.msg < p.msg
        BY <1>8
      <4> QED  BY <4>1, <4>2
    <3> QED  BY <2>2, <3>1, <3>2, <3>3, <3>4, <3>5 DEF BackCarried
  <2> QED  BY <1>2, <2>1, <2>2
<1>10. BackOnTheirWay(c)'
  BY <1>1, <1>2, <1>8 DEF SessionInv, Relayed, BackOnTheirWay
<1>11. BackKept(c)'
  <2>1. 0 \notin backThrough[c] /\ in'[c] = in[c] /\ (Alive' => Alive)
    BY TypeFacts DEF RelayLeaves
  <2>2. Alive' /\ in'[c] = "open" => backThrough[c] \subseteq Messages(backGot'[c])
    BY <1>1, <1>3, <2>1 DEF SessionInv, Relayed, BackKept
  <2> QED  BY <1>2, <1>3, <2>2 DEF BackKept
<1> QED  BY <1>5, <1>6, <1>7, <1>9, <1>10, <1>11, RelayKeepsPumped DEF SessionInv, Relayed

LEMMA RelayReadFailsKeeps ==
  ASSUME TypeOK, NEW c \in Clients, SessionInv(c), RelayReadFails(c), RelayLeaves(c), Onward
  PROVE  SessionInv(c)'
<1>1. /\ Alive /\ relay[c] = "reading" /\ out'[c] = out[c] /\ from'[c] = from[c]
      /\ ~Up(c, from[c]) /\ back'[c] = back[c] /\ backSaid'[c] = backSaid[c]
      /\ queue'[c] = queue[c]
      /\ backThrough'[c] = backThrough[c] /\ backGot'[c] = backGot[c]
      /\ links'[c] = [links[c] EXCEPT ![from[c]].reads = @ + 1]
  BY DEF RelayReadFails, TypeOK, toClient
<1>2. \/ ~Alive' /\ relay'[c] = "reading"
      \/ relay'[c] = "dial" /\ ~(Link(c, from[c]).reads + 1 >= ReadLimit)
  BY <1>1 DEF RelayReadFails, Goes, Ends, Alive, TypeOK
<1>3. hs[c] = "served" /\ out[c] # 0
  BY <1>1 DEF SessionInv, Handshaken, Linked
<1>4. from[c] \in DOMAIN links[c]
  <2>1. from[c] # 0
    BY <1>1 DEF TypeOK
  <2> QED  BY <2>1, TypeFacts
<1>5. /\ Len(links'[c]) = Len(links[c]) /\ DOMAIN links'[c] = DOMAIN links[c]
      /\ \A n \in DOMAIN links[c] : links'[c][n].up = links[c][n].up
      /\ \A n \in DOMAIN links[c] : n # from[c] => links'[c][n].reads = links[c][n].reads
      /\ links'[c][from[c]].reads = links[c][from[c]].reads + 1
  <2> DEFINE l == links[c]
             k == l[from[c]]
  <2>1. l \in Seq(Connection) /\ DOMAIN l = 1..Len(l) /\ k \in Connection
    BY <1>4, TypeFacts
  <2>2. links'[c] = [l EXCEPT ![from[c]] = [k EXCEPT !.reads = @ + 1]]
    BY <1>1
  <2>3. [k EXCEPT !.reads = @ + 1].up = k.up /\ [k EXCEPT !.reads = @ + 1].reads = k.reads + 1
    BY <2>1 DEF Connection
  <2> DEFINE k2 == [k EXCEPT !.reads = @ + 1]
  <2> HIDE DEF l, k, k2
  <2>4. links'[c] = [l EXCEPT ![from[c]] = k2]
    BY <2>2 DEF k2
  <2>5. /\ Len(links'[c]) = Len(l) /\ DOMAIN links'[c] = DOMAIN l /\ links'[c][from[c]] = k2
        /\ \A n \in DOMAIN l : n # from[c] => links'[c][n] = l[n]
    BY <1>4, <2>1, <2>4 DEF l
  <2> QED  BY <2>3, <2>5 DEF k, k2, l
<1>6. Flagged(c)
  BY <1>1, <1>5 DEF Flagged
<1>7. Handshaken(c)'
  <2>1. links[c] # <<>> /\ links'[c] # <<>>
    BY <1>4, <1>5, TypeFacts
  <2> QED  BY <1>1, <1>2, <1>3, <2>1 DEF SessionInv, Handshaken, RelayLeaves, HsSame, PumpSame
<1>8. Linked(c)'
  <2>1. Alive' => \A n \in DOMAIN links[c] : links'[c][n].reads < ReadLimit
    <3>1. Alive' => links[c][from[c]].reads + 1 < ReadLimit
      BY <1>2, <1>4, ReadLimitFacts, TypeFacts DEF Link
    <3> QED  BY <1>1, <1>5, <3>1 DEF SessionInv, Linked, Link
  <2> QED  BY <1>1, <1>2, <1>3, <1>6, <2>1, FlaggedLinked DEF SessionInv, Linked, RelayLeaves, PumpSame
<1>9. Budget(c)'
  BY <1>1, <1>2, <1>6, FlaggedDues, FlaggedBudget DEF SessionInv, RelayLeaves, PumpSame
<1>10. Relayed(c)'
  BY <1>1, <1>2 DEF SessionInv, Relayed, BackCarried, BackOnTheirWay, BackKept, RelayLeaves
<1> QED  BY <1>7, <1>8, <1>9, <1>10, RelayKeepsPumped DEF SessionInv

LEMMA RelayDialsKeeps ==
  ASSUME TypeOK, NEW c \in Clients, SessionInv(c), RelayDials(c), RelayLeaves(c), Onward
  PROVE  SessionInv(c)'
<1>1. /\ Alive /\ relay[c] = "dial" /\ relay'[c] = "read" /\ from'[c] = from[c]
      /\ back'[c] = back[c] /\ backSaid'[c] = backSaid[c] /\ queue'[c] = queue[c]
      /\ backThrough'[c] = backThrough[c] /\ backGot'[c] = backGot[c] /\ crash' = crash
  BY DEF RelayDials, Goes, toClient, TypeOK
<1>2. hs[c] = "served" /\ out[c] # 0
  BY <1>1 DEF SessionInv, Handshaken, Linked
<1>3. Relayed(c)'
  BY <1>1 DEF SessionInv, Relayed, BackCarried, BackOnTheirWay, BackKept, RelayLeaves
<1>4. CASE RelayRedials(c)
  <2>1. Dialled(c)
    BY <1>4, DialEffect DEF RelayRedials
  <2>2. Handshaken(c)'
    BY <1>1, <1>2, <2>1, DialledUp DEF SessionInv, Handshaken, RelayLeaves, HsSame, PumpSame
  <2>3. Linked(c)'
    BY <2>1, DialledLinked DEF SessionInv, Linked, RelayLeaves, PumpSame
  <2>4. Budget(c)'
    <3>1. Up(c, out[c])'
      BY <2>1, DialledUp DEF Up, Link
    <3>2. RelayDue(c) = 1 /\ RelayDue(c)' = 0
      BY <1>1, <3>1 DEF RelayDue
    <3>3. PumpDue(c)' <= PumpDue(c)
      BY <3>1 DEF PumpDue, RelayLeaves, PumpSame
    <3>4. /\ PumpDue(c) \in {0, 1} /\ PumpDue(c)' \in {0, 1}
      BY Dues
    <3>5. RelayDue(c)' <= RelayDue(c) /\ PumpDue(c)' + RelayDue(c)' # PumpDue(c) + RelayDue(c)
      BY <3>2, <3>3, <3>4
    <3> QED  BY <1>2, <2>1, <3>3, <3>5, DialledBudget DEF SessionInv, RelayLeaves
  <2> QED  BY <1>3, <2>2, <2>3, <2>4, RelayKeepsPumped DEF SessionInv
<1>5. CASE DialFails /\ KeepOut(c)
  <2>1. LinksSame(c)
    BY <1>5 DEF DialFails, KeepOut, LinksSame
  <2>2. Flagged(c)
    BY <2>1 DEF LinksSame, Flagged
  <2>3. Handshaken(c)'
    BY <1>1, <1>2, <2>1 DEF SessionInv, Handshaken, RelayLeaves, HsSame, PumpSame, LinksSame
  <2>4. Linked(c)'
    BY <1>1, <2>1, <2>2, FlaggedLinked DEF SessionInv, Linked, RelayLeaves, PumpSame, LinksSame, Link
  <2>5. Budget(c)'
    BY <1>1, <2>2, FlaggedDues, FlaggedBudget DEF SessionInv, RelayLeaves, PumpSame
  <2> QED  BY <1>3, <2>3, <2>4, <2>5, RelayKeepsPumped DEF SessionInv
<1> QED  BY <1>4, <1>5 DEF RelayDials, Redial

LEMMA RelayWritesKeeps ==
  ASSUME TypeOK, NEW c \in Clients, SessionInv(c), RelayWrites(c), RelayLeaves(c), Onward
  PROVE  SessionInv(c)'
<1>1. /\ Alive /\ relay[c] = "write" /\ relay'[c] = "read" /\ LinksSame(c) /\ back'[c] = 0
      /\ from'[c] = from[c] /\ backSaid'[c] = backSaid[c] /\ backThrough'[c] = backThrough[c]
      /\ queue'[c] = queue[c] /\ crash' = crash
  BY DEF RelayWrites, Goes, LinksSame, TypeOK
<1>2. PICK g : /\ g.msg = back[c] /\ g.via = from[c]
               /\ backGot'[c] = IF in[c] = "open" THEN backGot[c] \cup {g} ELSE backGot[c]
  <2> DEFINE g == [msg |-> back[c], via |-> from[c]]
  <2>1. backGot'[c] = IF in[c] = "open" THEN backGot[c] \cup {g} ELSE backGot[c]
    BY DEF RelayWrites, TypeOK
  <2>2. g.msg = back[c] /\ g.via = from[c]
    OBVIOUS
  <2> QED  BY <2>1, <2>2
<1>3. hs[c] = "served" /\ back[c] \in backThrough[c] /\ back[c] # 0
  BY <1>1 DEF SessionInv, Handshaken, Relayed, BackCarried
<1>4. Flagged(c)
  BY <1>1 DEF LinksSame, Flagged
<1>5. Handshaken(c)'
  BY <1>1, <1>3 DEF SessionInv, Handshaken, RelayLeaves, HsSame, PumpSame, LinksSame
<1>6. Linked(c)'
  BY <1>1, <1>4, FlaggedLinked DEF SessionInv, Linked, RelayLeaves, PumpSame, LinksSame, Link
<1>7. Budget(c)'
  BY <1>1, <1>4, FlaggedDues, FlaggedBudget DEF SessionInv, RelayLeaves, PumpSame
<1>8. BackCarried(c)'
  BY <1>1 DEF SessionInv, Relayed, BackCarried
<1>9. BackOnTheirWay(c)'
  <2>1. /\ \A x \in backGot'[c] : x \in backGot[c] \/ x = g
        /\ \A q \in queue[c] : q.via = from[c] => back[c] < q.msg
    BY <1>2, <1>3 DEF SessionInv, Relayed, BackCarried
  <2> QED  BY <1>1, <1>2, <1>3, <2>1 DEF SessionInv, Relayed, BackOnTheirWay
<1>10. BackKept(c)'
  <2>1. in[c] = "open" => Messages(backGot'[c]) = Messages(backGot[c]) \cup {back[c]}
    BY <1>2 DEF Messages
  <2> QED  BY <1>1, <2>1 DEF SessionInv, Relayed, BackKept, RelayLeaves
<1> QED  BY <1>5, <1>6, <1>7, <1>8, <1>9, <1>10, RelayKeepsPumped DEF SessionInv, Relayed

LEMMA RelayPanicsKeeps ==
  ASSUME TypeOK, NEW c \in Clients, SessionInv(c),
         RelayPanics(c) \/ \E q \in queue[c] : RelayCascadeEnds(c, q),
         RelayLeaves(c), Onward
  PROVE  SessionInv(c)'
<1>1. Same(c)
  BY DEF RelayPanics, RelayCascadeEnds, RelayLeaves, Same, LinksSame, RelaySame, toClient
<1> QED  BY <1>1, SameKeeps

-----------------------------------------------------------------------------
(* The handshake, the client and the connections.                          *)

LEMMA HandshakeKeeps ==
  ASSUME TypeOK, NEW c \in Clients, SessionInv(c),
         Connect(c) \/ ConnectPanics(c) \/ Upgrade(c) \/ WritePath(c)
  PROVE  SessionInv(c)'
<1>1. /\ LinksSame(c) /\ PumpSame(c) /\ RelaySame(c) /\ breaks' = breaks /\ Alive
      /\ hs[c] # "served" /\ hs'[c] # "served" /\ (in'[c] = in[c] \/ in'[c] = "open")
  <2>1. /\ UNCHANGED <<links, out, pump, hand, said, through, wire, writes, got>>
        /\ UNCHANGED <<relay, from, back, backSaid, queue, backThrough, backGot, breaks>>
    BY DEF Connect, ConnectPanics, Upgrade, WritePath, env, toBackend, toClient
  <2>2. hs[c] # "served" /\ hs'[c] # "served" /\ Alive
    BY DEF Connect, ConnectPanics, Upgrade, WritePath, Step, Goes, TypeOK
  <2>3. in' = in \/ in' = [in EXCEPT ![c] = "open"]
    BY DEF Connect, ConnectPanics, Upgrade, WritePath
  <2>4. in'[c] = in[c] \/ in'[c] = "open"
    BY <2>3 DEF TypeOK
  <2> QED  BY <2>1, <2>2, <2>4 DEF LinksSame, PumpSame, RelaySame
<1>2. in'[c] = "nil" => hs'[c] \in {"connect", "upgrade", "recovered"} \/ "upgrade" \in failed'[c]
  <2>1. CASE Connect(c) \/ ConnectPanics(c)
    BY <2>1 DEF Connect, ConnectPanics, Step, Goes, TypeOK
  <2>2. CASE Upgrade(c)
    <3>1. PICK ok \in BOOLEAN : /\ Step(c, "upgrade", "path", ok)
                                /\ in' = IF ok THEN [in EXCEPT ![c] = "open"] ELSE in
      BY <2>2 DEF Upgrade
    <3>2. CASE ok
      <4>1. in'[c] = "open"
        BY <3>1, <3>2 DEF TypeOK
      <4> QED  BY <4>1
    <3>3. CASE ~ok
      <4>1. failed' = [failed EXCEPT ![c] = @ \cup {"upgrade"}]
        BY <3>1, <3>3 DEF Step
      <4> QED  BY <4>1 DEF TypeOK
    <3> QED  BY <3>2, <3>3
  <2>3. CASE WritePath(c)
    BY <2>3 DEF WritePath, Step, SessionInv, Handshaken, TypeOK
  <2> QED  BY <2>1, <2>2, <2>3
<1>3. Handshaken(c)'
  BY <1>1, <1>2 DEF SessionInv, Handshaken, LinksSame, PumpSame, RelaySame
<1>4. Linked(c)'
  BY <1>1 DEF SessionInv, Linked, LinksSame, PumpSame, RelaySame, Up, Link
<1>5. Budget(c)'
  BY <1>1 DEF SessionInv, Handshaken, Linked, Budget, LinksSame
<1>6. Pumped(c)'
  BY <1>1 DEF SessionInv, Pumped, Carried, OnTheirWay, Kept, PumpSame
<1>7. Relayed(c)'
  BY <1>1 DEF SessionInv, Handshaken, Relayed, BackCarried, BackOnTheirWay, BackKept, RelaySame
<1> QED  BY <1>3, <1>4, <1>5, <1>6, <1>7 DEF SessionInv

LEMMA FirstDialKeeps ==
  ASSUME TypeOK, NEW c \in Clients, SessionInv(c), FirstDial(c), Onward
  PROVE  SessionInv(c)'
<1>1. /\ Alive /\ hs[c] = "dial" /\ hs'[c] = "served" /\ in'[c] = in[c]
      /\ pump'[c] = "read" /\ relay'[c] = "read"
      /\ hand'[c] = hand[c] /\ from'[c] = from[c] /\ back'[c] = back[c]
      /\ said'[c] = said[c] /\ through'[c] = through[c]
      /\ wire'[c] = wire[c] /\ writes'[c] = writes[c] /\ got'[c] = got[c]
      /\ backSaid'[c] = backSaid[c] /\ queue'[c] = queue[c] /\ backThrough'[c] = backThrough[c]
      /\ backGot'[c] = backGot[c] /\ breaks' = breaks /\ crash' = crash
  BY DEF FirstDial, Step, Goes, env, toBackend, toClient, TypeOK
<1>2. \/ Dialled(c) /\ failed' = failed
      \/ LinksSame(c) /\ failed'[c] = failed[c] \cup {"dial"}
  BY DialEffect DEF FirstDial, Step, DialFails, LinksSame, TypeOK
<1>3. /\ links[c] = <<>> /\ out[c] = 0 /\ pump[c] = "off" /\ relay[c] = "off"
      /\ in[c] = "nil" => "upgrade" \in failed[c]
  BY <1>1 DEF SessionInv, Handshaken, Linked
<1>4. Handshaken(c)'
  BY <1>1, <1>2, <1>3, DialledUp DEF Handshaken, LinksSame
<1>5. Linked(c)'
  <2>1. CASE Dialled(c)
    BY <1>1, <2>1, DialledLinked DEF SessionInv
  <2>2. CASE LinksSame(c)
    BY <1>1, <2>2 DEF SessionInv, Linked, LinksSame, Up, Link, Alive
  <2> QED  BY <1>2, <2>1, <2>2
<1>6. Budget(c)'
  <2>1. CASE Dialled(c)
    <3>1. Open(c) = {}
      BY <1>3 DEF Open
    <3>2. Cardinality(Open(c))' = 1
      <4>1. Cardinality({}) = 0
        BY FS_EmptySet
      <4> QED  BY <2>1, <3>1, <4>1, DialledOpen
    <3>3. PumpDue(c)' = 0 /\ RelayDue(c)' = 0
      BY <1>1, <2>1, DialledUp DEF PumpDue, RelayDue, Up, Link
    <3>4. breaks' \in Nat
      BY <1>1, TypeFacts
    <3> HIDE DEF PumpDue, RelayDue, Open
    <3>5. (Cardinality(Open(c)) + PumpDue(c) + RelayDue(c))' = 1
      BY <3>2, <3>3
    <3>6. 1 <= 1 + breaks'
      BY <3>4, OneOrMore
    <3> QED  BY <3>5, <3>6 DEF Budget
  <2>2. CASE LinksSame(c)
    BY <1>3, <2>2 DEF Budget, LinksSame
  <2> QED  BY <1>2, <2>1, <2>2
<1>7. Pumped(c)'
  BY <1>1, <1>3 DEF SessionInv, Pumped, Carried, OnTheirWay, Kept, Alive
<1>8. Relayed(c)'
  BY <1>1, <1>3 DEF SessionInv, Relayed, BackCarried, BackOnTheirWay, BackKept, Alive
<1> QED  BY <1>4, <1>5, <1>6, <1>7, <1>8 DEF SessionInv

LEMMA LeaveKeeps ==
  ASSUME TypeOK, NEW c \in Clients, SessionInv(c), Leave(c)
  PROVE  SessionInv(c)'
<1>1. /\ HsSame(c) /\ LinksSame(c) /\ PumpSame(c) /\ RelaySame(c) /\ breaks' = breaks
      /\ crash' = crash /\ in'[c] = "gone"
  BY DEF Leave, env, handshake, toBackend, toClient, HsSame, LinksSame, PumpSame, RelaySame,
         TypeOK
<1>2. Handshaken(c)'
  BY <1>1 DEF SessionInv, Handshaken, HsSame, LinksSame, PumpSame, RelaySame
<1>3. Linked(c)'
  BY <1>1 DEF SessionInv, Linked, LinksSame, PumpSame, RelaySame, Up, Link, Alive
<1>4. Budget(c)'
  BY <1>1 DEF SessionInv, Budget, Open, PumpDue, RelayDue, Up, Link, LinksSame, PumpSame, RelaySame
<1>5. Pumped(c)'
  BY <1>1 DEF SessionInv, Pumped, Carried, OnTheirWay, Kept, PumpSame, Alive
<1>6. Relayed(c)'
  BY <1>1 DEF SessionInv, Relayed, BackCarried, BackOnTheirWay, BackKept, RelaySame
<1> QED  BY <1>2, <1>3, <1>4, <1>5, <1>6 DEF SessionInv

LEMMA BreakKeeps ==
  ASSUME TypeOK, NEW c \in Clients, SessionInv(c), NEW n \in DOMAIN links[c], Break(c, n)
  PROVE  SessionInv(c)'
<1>1. /\ HsSame(c) /\ in'[c] = in[c] /\ breaks' = breaks + 1
      /\ pump'[c] = pump[c] /\ hand'[c] = hand[c] /\ said'[c] = said[c] /\ through'[c] = through[c]
      /\ writes'[c] = writes[c] /\ got'[c] = got[c]
      /\ relay'[c] = relay[c] /\ from'[c] = from[c] /\ back'[c] = back[c]
      /\ backSaid'[c] = backSaid[c] /\ backThrough'[c] = backThrough[c] /\ backGot'[c] = backGot[c]
      /\ crash' = crash /\ out'[c] = out[c] /\ Up(c, n)
      /\ links'[c] = [links[c] EXCEPT ![n].up = FALSE]
  BY DEF Break, handshake, HsSame, TypeOK
<1>0. wire'[c] \subseteq wire[c] /\ queue'[c] \subseteq queue[c]
  <2>1. wire = [d \in Clients |-> wire[d]] /\ queue = [d \in Clients |-> queue[d]]
    BY AreFunctions DEF AsFunctions
  <2>2. \E W \in SUBSET wire[c], Q \in SUBSET queue[c] :
          wire' = [wire EXCEPT ![c] = W] /\ queue' = [queue EXCEPT ![c] = Q]
    BY DEF Break
  <2> QED  BY <2>1, <2>2
<1>2. /\ Len(links'[c]) = Len(links[c]) /\ DOMAIN links'[c] = DOMAIN links[c]
      /\ \A m \in DOMAIN links[c] : links'[c][m].reads = links[c][m].reads
      /\ \A m \in DOMAIN links[c] : m # n => links'[c][m].up = links[c][m].up
      /\ ~links'[c][n].up
  <2> DEFINE l == links[c]
             k == l[n]
             k2 == [k EXCEPT !.up = FALSE]
  <2>1. l \in Seq(Connection) /\ DOMAIN l = 1..Len(l) /\ k \in Connection
    BY TypeFacts
  <2>2. links'[c] = [l EXCEPT ![n] = k2]
    BY <1>1
  <2>3. ~k2.up /\ k2.reads = k.reads
    BY <2>1 DEF Connection
  <2> HIDE DEF l, k, k2
  <2>4. /\ Len(links'[c]) = Len(l) /\ DOMAIN links'[c] = DOMAIN l /\ links'[c][n] = k2
        /\ \A m \in DOMAIN l : m # n => links'[c][m] = l[m]
    BY <2>1, <2>2 DEF l
  <2> QED  BY <2>3, <2>4 DEF k, l
<1>3. breaks \in Nat /\ breaks' # 0 /\ breaks' = breaks + 1
  <2>1. breaks \in Nat
    BY TypeFacts
  <2> QED  BY <1>1, <2>1
<1>4. Handshaken(c)'
  <2>1. links[c] # <<>>
    BY TypeFacts
  <2> QED  BY <1>1, <2>1 DEF SessionInv, Handshaken, HsSame
<1>5. Linked(c)'
  BY <1>1, <1>2, <1>3 DEF SessionInv, Linked, Link, Alive
<1>6. Budget(c)'
  <2>1. Open(c)' = Open(c) \ {n} /\ n \in Open(c)
    BY <1>1, <1>2, TypeFacts DEF Open, Up, Link
  <2>2. /\ Cardinality(Open(c))' = Cardinality(Open(c)) - 1
        /\ Cardinality(Open(c)) \in Nat /\ Cardinality(Open(c))' \in Nat
    <3>1. IsFiniteSet(Open(c)) /\ Cardinality(Open(c)) \in Nat
      BY OpenCount
    <3> HIDE DEF Open
    <3>2. /\ IsFiniteSet(Open(c) \ {n})
          /\ Cardinality(Open(c) \ {n}) = Cardinality(Open(c)) - 1
      BY <2>1, <3>1, FS_RemoveElement
    <3>3. Cardinality(Open(c) \ {n}) \in Nat
      BY <3>2, FS_CardinalityType
    <3> QED  BY <2>1, <3>1, <3>2, <3>3
  <2>3. /\ PumpDue(c) \in {0, 1} /\ RelayDue(c) \in {0, 1}
        /\ PumpDue(c)' \in {0, 1} /\ RelayDue(c)' \in {0, 1}
    BY Dues
  <2> HIDE DEF Open, PumpDue, RelayDue
  <2>4. Cardinality(Open(c)) = Cardinality(Open(c))' + 1
    BY <2>2
  <2> QED  BY <1>1, <1>3, <2>2, <2>3, <2>4, Sums DEF SessionInv, Budget
<1>7. Pumped(c)'
  BY <1>0, <1>1, <1>3 DEF SessionInv, Pumped, Carried, OnTheirWay, Kept
<1>8. Relayed(c)'
  BY <1>0, <1>1 DEF SessionInv, Relayed, BackCarried, BackOnTheirWay, BackKept, Alive
<1> QED  BY <1>4, <1>5, <1>6, <1>7, <1>8 DEF SessionInv

LEMMA DeliversKeeps ==
  ASSUME TypeOK, NEW c \in Clients, SessionInv(c), NEW w \in wire[c], Delivers(c, w)
  PROVE  SessionInv(c)'
<1>1. /\ HsSame(c) /\ in'[c] = in[c] /\ LinksSame(c) /\ RelaySame(c) /\ breaks' = breaks
      /\ crash' = crash /\ pump'[c] = pump[c] /\ hand'[c] = hand[c] /\ said'[c] = said[c]
      /\ through'[c] = through[c] /\ writes'[c] = writes[c]
      /\ wire'[c] = wire[c] \ {w} /\ \A x \in wire[c] : x.via = w.via => w.at <= x.at
  BY DEF Delivers, env, handshake, toClient, HsSame, LinksSame, RelaySame, TypeOK
<1>2. PICK g : g.msg = w.msg /\ g.via = w.via /\ got'[c] = got[c] \cup {g}
  <2>1. got'[c] = got[c] \cup {[msg |-> w.msg, via |-> w.via]}
    BY DEF Delivers, TypeOK
  <2> QED  BY <2>1
<1>3. Handshaken(c)'
  BY <1>1 DEF SessionInv, Handshaken, HsSame, LinksSame, RelaySame
<1>4. Linked(c)'
  BY <1>1 DEF SessionInv, Linked, LinksSame, RelaySame, Up, Link, Alive
<1>5. Budget(c)'
  BY <1>1 DEF SessionInv, Budget, Open, PumpDue, RelayDue, Up, Link, LinksSame, RelaySame
<1>6. Carried(c)'
  BY <1>1, <1>2 DEF SessionInv, Pumped, Carried
<1>7. OnTheirWay(c)'
  <2>1. \A x \in wire'[c] : /\ x \in wire[c] /\ w.msg # x.msg
                            /\ x.via = w.via => w.msg < x.msg
    <3>1. \A x \in wire[c] : /\ x.at \in Nat /\ x.msg \in Nat
      BY TypeFacts
    <3>2. \A x \in wire[c] : x # w => /\ w.at # x.at /\ (w.at < x.at => w.msg < x.msg)
                                      /\ (x.at < w.at => x.msg < w.msg)
      BY DEF SessionInv, Pumped, OnTheirWay
    <3>3. \A x \in wire[c] : x # w => w.at < x.at \/ (x.at < w.at /\ x.via # w.via)
      BY <1>1, <3>1, <3>2
    <3>4. \A x \in wire[c] : w.msg < x.msg \/ x.msg < w.msg => w.msg # x.msg
      BY <3>1
    <3> QED  BY <1>1, <3>2, <3>3, <3>4
  <2>2. \A x \in wire'[c], h \in got'[c] : h.msg # x.msg /\ (h.via = x.via => h.msg < x.msg)
    BY <1>2, <2>1 DEF SessionInv, Pumped, OnTheirWay
  <2> QED  BY <1>1, <1>2, <2>1, <2>2 DEF SessionInv, Pumped, OnTheirWay
<1>8. Kept(c)'
  <2>1. /\ Messages(got'[c]) = Messages(got[c]) \cup {w.msg}
        /\ Messages(wire[c]) \subseteq Messages(wire'[c]) \cup {w.msg}
    BY <1>1, <1>2 DEF Messages
  <2> QED  BY <1>1, <2>1 DEF SessionInv, Pumped, Kept, Alive
<1>9. Relayed(c)'
  BY <1>1 DEF SessionInv, Relayed, BackCarried, BackOnTheirWay, BackKept, RelaySame, Alive
<1> QED  BY <1>3, <1>4, <1>5, <1>6, <1>7, <1>8, <1>9 DEF SessionInv, Pumped

LEMMA BackendSaysKeeps ==
  ASSUME TypeOK, NEW c \in Clients, SessionInv(c), NEW n \in DOMAIN links[c], BackendSays(c, n)
  PROVE  SessionInv(c)'
<1>1. /\ HsSame(c) /\ in'[c] = in[c] /\ LinksSame(c) /\ PumpSame(c) /\ breaks' = breaks
      /\ crash' = crash /\ relay'[c] = relay[c] /\ from'[c] = from[c] /\ back'[c] = back[c]
      /\ backThrough'[c] = backThrough[c] /\ backGot'[c] = backGot[c]
      /\ backSaid'[c] = backSaid[c] + 1
  BY DEF BackendSays, env, handshake, toBackend, HsSame, LinksSame, PumpSame, TypeOK
<1>2. PICK q : q.msg = backSaid[c] + 1 /\ queue'[c] = queue[c] \cup {q}
  <2>1. queue'[c] = queue[c] \cup {[msg |-> backSaid[c] + 1, via |-> n]}
    BY <1>1 DEF BackendSays, TypeOK
  <2> QED  BY <2>1
<1>3. Handshaken(c)'
  BY <1>1 DEF SessionInv, Handshaken, HsSame, LinksSame, PumpSame
<1>4. Linked(c)'
  BY <1>1 DEF SessionInv, Linked, LinksSame, PumpSame, Up, Link, Alive
<1>5. Budget(c)'
  BY <1>1 DEF SessionInv, Budget, Open, PumpDue, RelayDue, Up, Link, LinksSame, PumpSame
<1>6. Pumped(c)'
  BY <1>1 DEF SessionInv, Pumped, Carried, OnTheirWay, Kept, PumpSame, Alive
<1>7. /\ \A m \in backThrough[c] : m < q.msg /\ m # q.msg /\ m <= backSaid[c] + 1
      /\ \A p \in queue[c] : p.msg # q.msg /\ p.msg <= backSaid[c] + 1
      /\ q.msg <= backSaid[c] + 1
  <2>1. /\ \A m \in backThrough[c] : m \in Nat /\ m <= backSaid[c]
        /\ \A p \in queue[c] : p.msg \in Nat /\ p.msg <= backSaid[c]
        /\ backSaid[c] \in Nat
    BY TypeFacts DEF SessionInv, Relayed, BackCarried, BackOnTheirWay
  <2> QED  BY <1>2, <2>1
<1>8. BackCarried(c)'
  <2>1. back[c] # 0 => back[c] < q.msg
    BY <1>7 DEF SessionInv, Relayed, BackCarried
  <2> QED  BY <1>1, <1>2, <1>7, <2>1 DEF SessionInv, Relayed, BackCarried
<1>9. BackOnTheirWay(c)'
  BY <1>1, <1>2, <1>7 DEF SessionInv, Relayed, BackOnTheirWay
<1>10. BackKept(c)'
  BY <1>1 DEF SessionInv, Relayed, BackKept, Alive
<1> QED  BY <1>3, <1>4, <1>5, <1>6, <1>8, <1>9, <1>10 DEF SessionInv, Relayed

LEMMA OutsideKeeps ==
  ASSUME TypeOK, NEW c \in Clients, SessionInv(c), Outside(c)
  PROVE  SessionInv(c)'
BY LeaveKeeps, DeliversKeeps, BackendSaysKeeps, BreakKeeps DEF Outside

-----------------------------------------------------------------------------
(* Types are preserved.                                                    *)

Shared ==
  /\ callers \in Resources /\ backend \in {"up", "down"} /\ breaks \in 0..MaxBreaks
  /\ addr \in Word \X Word 
  /\ crash \in {"", "nil in", "nil out", "repeated read", "cascade"}
HsTyped ==
  /\ hs \in [Clients -> {"connect", "upgrade", "path", "path's length", "dial", "served",
                         "recovered"}]
  /\ failed \in [Clients -> SUBSET {"connect", "upgrade", "dial"}]
InTyped == in \in [Clients -> {"nil", "open", "gone"}]
LinksTyped == links \in [Clients -> Seq(Connection)] /\ out \in [Clients -> Nat]
PumpTyped ==
  /\ pump \in [Clients -> {"off", "read", "write", "dial", "ended"}]
  /\ said \in [Clients -> 0..MaxSaid] /\ hand \in [Clients -> 0..MaxSaid]
  /\ through \in [Clients -> SUBSET (1..MaxSaid)]
  /\ wire \in [Clients -> SUBSET Posted] /\ writes \in [Clients -> Nat]
  /\ got \in [Clients -> SUBSET Sent(MaxSaid)]
RelayTyped ==
  /\ relay \in [Clients -> {"off", "read", "reading", "dial", "write"}]
  /\ backSaid \in [Clients -> 0..MaxBackSaid] /\ back \in [Clients -> 0..MaxBackSaid]
  /\ backThrough \in [Clients -> SUBSET (1..MaxBackSaid)]
  /\ queue \in [Clients -> SUBSET Sent(MaxBackSaid)]
  /\ backGot \in [Clients -> SUBSET Sent(MaxBackSaid)] /\ from \in [Clients -> Nat]
Typed == Shared /\ HsTyped /\ InTyped /\ LinksTyped /\ PumpTyped /\ RelayTyped

\* What the relay reads from is one of the session's connections.
FromOk(c) == from[c] <= Len(links[c]) /\ (relay[c] = "reading" => from[c] # 0)

Parts == Typed /\ \A c \in Clients : SessionInv(c) /\ FromOk(c)

LEMMA TypeParts ==
  /\ TypeOK => Typed /\ \A c \in Clients : FromOk(c)
  /\ Parts => TypeOK
<1>1. TypeOK => Typed /\ \A c \in Clients : FromOk(c)
  BY DEF TypeOK, Typed, Shared, HsTyped, InTyped, LinksTyped, PumpTyped, RelayTyped, FromOk
<1>2. ASSUME Typed, NEW c \in Clients, SessionInv(c), FromOk(c)
      PROVE  /\ out[c] <= Len(links[c]) /\ from[c] <= Len(links[c])
             /\ hand[c] <= said[c] /\ back[c] <= backSaid[c]
             /\ pump[c] = "write" => hand[c] # 0
             /\ relay[c] = "reading" => from[c] # 0
  <2>1. /\ links[c] \in Seq(Connection) /\ said[c] \in 0..MaxSaid /\ backSaid[c] \in 0..MaxBackSaid
        /\ through[c] \in SUBSET (1..MaxSaid) /\ backThrough[c] \in SUBSET (1..MaxBackSaid)
        /\ pump[c] \in {"off", "read", "write", "dial", "ended"}
    BY <1>2 DEF Typed, LinksTyped, PumpTyped, RelayTyped
  <2>2. out[c] = Len(links[c]) /\ Len(links[c]) \in Nat
    BY <1>2, <2>1 DEF SessionInv, Linked
  <2>3. /\ hand[c] = 0 \/ (hand[c] \in through[c] /\ hand[c] <= said[c])
        /\ pump[c] = "write" => hand[c] \in through[c]
    BY <1>2, <2>1 DEF SessionInv, Pumped, Carried
  <2>4. back[c] = 0 \/ (back[c] \in backThrough[c] /\ back[c] <= backSaid[c])
    BY <1>2, <2>1 DEF SessionInv, Relayed, BackCarried
  <2>5. 0 <= said[c] /\ 0 <= backSaid[c] /\ \A n \in 1..MaxSaid : n # 0
    BY <2>1
  <2> QED  BY <1>2, <2>1, <2>2, <2>3, <2>4, <2>5 DEF FromOk
<1>3. Parts => TypeOK
  BY <1>2 DEF Parts, TypeOK, Typed, Shared, HsTyped, InTyped, LinksTyped, PumpTyped, RelayTyped
<1> QED  BY <1>1, <1>3

LEMMA ReplaceInSeq ==
  ASSUME NEW S, NEW s \in Seq(S), NEW n \in DOMAIN s, NEW k \in S
  PROVE  [s EXCEPT ![n] = k] \in Seq(S)
OBVIOUS

\* Flagging one of its connections leaves a session's connections typed.
LEMMA FlagTyped ==
  ASSUME TypeOK, NEW c \in Clients, NEW n \in DOMAIN links[c],
         \/ links' = [links EXCEPT ![c][n].writeErr = TRUE]
         \/ links' = [links EXCEPT ![c][n].up = FALSE]
         \/ /\ links' = [links EXCEPT ![c][n].reads = @ + 1]
            /\ links[c][n].reads < ReadLimit
  PROVE  links' \in [Clients -> Seq(Connection)] /\ Len(links'[c]) = Len(links[c])
<1> DEFINE l == links[c]
           k == l[n]
<1>1. l \in Seq(Connection) /\ n \in DOMAIN l /\ k \in Connection
  BY TypeFacts
<1>2. PICK k2 \in Connection : links' = [links EXCEPT ![c] = [l EXCEPT ![n] = k2]]
  <2>1. /\ [k EXCEPT !.writeErr = TRUE] \in Connection /\ [k EXCEPT !.up = FALSE] \in Connection
    BY <1>1 DEF Connection
  <2>2. k.reads < ReadLimit => [k EXCEPT !.reads = @ + 1] \in Connection
    <3>1. k.reads \in 0..ReadLimit
      BY <1>1 DEF Connection
    <3>2. k.reads < ReadLimit => k.reads + 1 \in 0..ReadLimit
      BY <3>1, ReadLimitFacts
    <3> QED  BY <1>1, <3>2 DEF Connection
  <2> QED  BY <2>1, <2>2
<1>3. links \in [Clients -> Seq(Connection)]
  BY DEF TypeOK
<1> HIDE DEF l, k
<1>4. [l EXCEPT ![n] = k2] \in Seq(Connection) /\ Len([l EXCEPT ![n] = k2]) = Len(l)
  BY <1>1, <1>2, ReplaceInSeq
<1> QED  BY <1>2, <1>3, <1>4 DEF l

LEMMA LongerFromOk ==
  ASSUME TypeOK, NEW c \in Clients, LinksSame(c) \/ Flagged(c) \/ Dialled(c),
         from'[c] = from[c], relay'[c] = "reading" => relay[c] = "reading"
  PROVE  FromOk(c)'
<1>1. FromOk(c) /\ from[c] \in Nat /\ Len(links[c]) \in Nat
  BY TypeParts, TypeFacts
<1>2. from[c] <= Len(links'[c])
  BY <1>1 DEF FromOk, LinksSame, Flagged, Dialled
<1> QED  BY <1>1, <1>2 DEF FromOk

LEMMA HandshakeTypes ==
  ASSUME TypeOK, NEW c \in Clients, Handle(c)
  PROVE  Typed' /\ FromOk(c)'
<1>1. Typed
  BY TypeParts
<1>2. CASE FirstDial(c)
  <2>1. LinksTyped' /\ (LinksSame(c) \/ Dialled(c))
    <3>1. CASE Dial(c) /\ Replaced(c)
      BY <3>1, DialEffect DEF LinksTyped
    <3>2. CASE links' = links /\ out' = out
      BY <1>1, <3>2 DEF LinksTyped, Typed, LinksSame
    <3> QED  BY <1>2, <3>1, <3>2 DEF FirstDial, DialFails
  <2>2. HsTyped'
    <3>1. /\ hs' = [hs EXCEPT ![c] = "served"]
          /\ failed' = failed \/ failed' = [failed EXCEPT ![c] = @ \cup {"dial"}]
      BY <1>2 DEF FirstDial, Step, Goes
    <3> QED  BY <1>1, <3>1 DEF Typed, HsTyped
  <2>3. PumpTyped' /\ RelayTyped' /\ Shared' /\ InTyped' /\ from'[c] = from[c] /\ relay'[c] = "read"
    BY <1>1, <1>2 DEF FirstDial, Goes, env, toBackend, toClient, Typed, PumpTyped, RelayTyped,
       Shared, InTyped
  <2> QED  BY <2>1, <2>2, <2>3, LongerFromOk DEF Typed
<1>3. CASE Connect(c) \/ ConnectPanics(c) \/ Upgrade(c) \/ WritePath(c)
  <2>1. /\ UNCHANGED <<links, out, pump, hand, said, through, wire, writes, got>>
        /\ UNCHANGED <<relay, from, back, backSaid, queue, backThrough, backGot, env>>
        /\ crash' \in {crash, "cascade"}
    BY <1>3 DEF Connect, ConnectPanics, Upgrade, WritePath, Ends, env, toBackend, toClient
  <2>2. HsTyped'
    <3>1. \/ hs' = [hs EXCEPT ![c] = "upgrade"] \/ hs' = [hs EXCEPT ![c] = "path"]
          \/ hs' = [hs EXCEPT ![c] = "path's length"] \/ hs' = [hs EXCEPT ![c] = "dial"]
          \/ hs' = [hs EXCEPT ![c] = "recovered"]
      BY <1>3 DEF Connect, ConnectPanics, Upgrade, WritePath, Step, Goes
    <3>2. \/ failed' = failed \/ failed' = [failed EXCEPT ![c] = @ \cup {"connect"}]
          \/ failed' = [failed EXCEPT ![c] = @ \cup {"upgrade"}]
      BY <1>3 DEF Connect, ConnectPanics, Upgrade, WritePath, Step
    <3>3. hs' \in [Clients -> {"connect", "upgrade", "path", "path's length", "dial", "served",
                               "recovered"}]
      BY <1>1, <3>1 DEF Typed, HsTyped
    <3>4. failed' \in [Clients -> SUBSET {"connect", "upgrade", "dial"}]
      BY <1>1, <3>2 DEF Typed, HsTyped
    <3> QED  BY <3>3, <3>4 DEF HsTyped
  <2>3. in' \in {in, [in EXCEPT ![c] = "open"]}
    BY <1>3 DEF Connect, ConnectPanics, Upgrade, WritePath
  <2>4. InTyped'
    BY <1>1, <2>3 DEF Typed, InTyped
  <2>5. addr' \in Word \X Word
    <3>1. CASE addr' = addr
      BY <1>1, <3>1 DEF Typed, Shared
    <3>2. CASE \E i \in {1, 2} : addr' = [addr EXCEPT ![i] = c]
      <4>1. c \in Word /\ addr \in Word \X Word
        BY <1>1 DEF Typed, Shared, Word
      <4> HIDE DEF Word
      <4> QED  BY <3>2, <4>1
    <3> QED  BY <1>3, <3>1, <3>2 DEF Connect, ConnectPanics, Upgrade, WritePath
  <2>6. LinksSame(c) /\ from'[c] = from[c] /\ relay' = relay
    BY <2>1 DEF LinksSame
  <2>7. FromOk(c)'
    BY <2>6, LongerFromOk
  <2> QED  BY <1>1, <2>1, <2>2, <2>4, <2>5, <2>7
           DEF Typed, Shared, LinksTyped, PumpTyped, RelayTyped, env
<1> QED  BY <1>2, <1>3 DEF Handle

LEMMA PumpTypes ==
  ASSUME TypeOK, NEW c \in Clients, SessionInv(c), Pump(c)
  PROVE  Typed' /\ FromOk(c)'
<1>1. Typed
  BY TypeParts
<1>2. HsTyped' /\ InTyped' /\ RelayTyped' /\ from'[c] = from[c] /\ relay' = relay
      /\ UNCHANGED <<env, addr>>
  BY <1>1 DEF Pump, PumpReads, PumpCascadeEnds, PumpEnds, PumpWrites, PumpWriteFails, PumpDials,
     PumpPanics, pumpFrame, env, handshake, toClient, Typed, HsTyped, InTyped, RelayTyped
<1>3. Shared'
  BY <1>1, <1>2 DEF Pump, PumpReads, PumpCascadeEnds, PumpEnds, PumpWrites, PumpWriteFails,
     PumpDials, PumpPanics, Ends, env, Typed, Shared
<1>4. CASE PumpReads(c)
  <2>1. said[c] \in 0..MaxSaid /\ said[c] < MaxSaid /\ said' = [said EXCEPT ![c] = @ + 1]
    BY <1>1, <1>4 DEF PumpReads, Typed, PumpTyped
  <2>2. said[c] + 1 \in 0..MaxSaid /\ said[c] + 1 \in 1..MaxSaid /\ said'[c] = said[c] + 1
    <3>1. said[c] + 1 \in 0..MaxSaid /\ said[c] + 1 \in 1..MaxSaid
      BY <2>1, BoundFacts
    <3> QED  BY <1>1, <2>1, <3>1 DEF Typed, PumpTyped
  <2>3. PumpTyped'
    <3>1. said' \in [Clients -> 0..MaxSaid] /\ got' = got /\ wire' = wire /\ writes' = writes
      BY <1>1, <1>4, <2>1, <2>2 DEF PumpReads, Typed, PumpTyped
    <3>2. CASE UNCHANGED <<through, pump, hand>>
      BY <1>1, <3>1, <3>2 DEF Typed, PumpTyped
    <3>3. CASE /\ through' = [through EXCEPT ![c] = @ \cup {said'[c]}]
               /\ hand' = [hand EXCEPT ![c] = said'[c]] /\ Goes(pump, c, "write")
      <4>1. through' \in [Clients -> SUBSET (1..MaxSaid)]
        BY <1>1, <2>2, <3>3 DEF Typed, PumpTyped
      <4>2. hand' \in [Clients -> 0..MaxSaid]
        BY <1>1, <2>2, <3>3 DEF Typed, PumpTyped
      <4> QED  BY <1>1, <3>1, <3>3, <4>1, <4>2 DEF Goes, Typed, PumpTyped
    <3> QED  BY <1>4, <3>2, <3>3 DEF PumpReads
  <2>4. links' = links /\ out' = out
    BY <1>4 DEF PumpReads
  <2> QED  BY <1>1, <1>2, <1>3, <2>3, <2>4, LongerFromOk DEF Typed, LinksTyped, LinksSame
<1>5. CASE PumpEnds(c) \/ PumpPanics(c) \/ PumpCascadeEnds(c)
  <2>1. PumpTyped' /\ links' = links /\ out' = out
    BY <1>1, <1>5 DEF PumpEnds, PumpPanics, PumpCascadeEnds, OnReadError, Goes, toBackend, Typed, PumpTyped
  <2> QED  BY <1>1, <1>2, <1>3, <2>1, LongerFromOk DEF Typed, LinksTyped, LinksSame
<1>6. CASE PumpWrites(c)
  <2>1. hand[c] \in 1..MaxSaid /\ out[c] \in Nat /\ writes[c] + 1 \in Nat
    BY <1>1, <1>6 DEF PumpWrites, SessionInv, Pumped, Carried, Typed, PumpTyped, LinksTyped
  <2>2. wire' \in [Clients -> SUBSET Posted] /\ writes' \in [Clients -> Nat]
    <3>1. CASE Posts(c)
      <4>1. writes' \in [Clients -> Nat] /\ writes'[c] = writes[c] + 1
        BY <1>1, <2>1, <3>1 DEF Posts, Typed, PumpTyped
      <4>2. [msg |-> hand[c], via |-> out[c], at |-> writes'[c]] \in Posted
        BY <2>1, <4>1 DEF Posted
      <4> QED  BY <1>1, <3>1, <4>1, <4>2 DEF Posts, Typed, PumpTyped
    <3>2. CASE UNCHANGED <<wire, writes>>
      BY <1>1, <3>2 DEF Typed, PumpTyped
    <3> QED  BY <1>6, <3>1, <3>2 DEF PumpWrites
  <2>3. PumpTyped' /\ links' = links /\ out' = out
    BY <1>1, <1>6, <2>2, BoundFacts DEF PumpWrites, Written, Drop, Goes, Typed, PumpTyped
  <2> QED  BY <1>1, <1>2, <1>3, <2>3, LongerFromOk DEF Typed, LinksTyped, LinksSame
<1>7. CASE PumpWriteFails(c)
  <2>1. out[c] \in DOMAIN links[c]
    BY <1>7, TypeFacts DEF PumpWriteFails
  <2>2. links' \in [Clients -> Seq(Connection)] /\ Len(links'[c]) = Len(links[c]) /\ out' = out
    BY <1>7, <2>1, FlagTyped DEF PumpWriteFails
  <2>3. PumpTyped'
    BY <1>1, <1>7 DEF PumpWriteFails, Goes, toBackend, Typed, PumpTyped
  <2>4. FromOk(c)'
    BY <1>2, <2>2, TypeParts DEF FromOk
  <2> QED  BY <1>1, <1>2, <1>3, <2>2, <2>3, <2>4 DEF Typed, LinksTyped
<1>8. CASE PumpDials(c)
  <2>1. LinksTyped' /\ (LinksSame(c) \/ Dialled(c))
    <3>1. CASE Dial(c) /\ Replaced(c)
      BY <3>1, DialEffect DEF LinksTyped
    <3>2. CASE links' = links /\ out' = out
      BY <1>1, <3>2 DEF LinksTyped, Typed, LinksSame
    <3> QED  BY <1>8, <3>1, <3>2 DEF PumpDials, DialFails
  <2>2. PumpTyped'
    BY <1>1, <1>8, BoundFacts DEF PumpDials, Drop, Retry, Goes, toBackend, Typed, PumpTyped
  <2> QED  BY <1>2, <1>3, <2>1, <2>2, LongerFromOk DEF Typed
<1> QED  BY <1>4, <1>5, <1>6, <1>7, <1>8 DEF Pump

LEMMA RelayTypes ==
  ASSUME TypeOK, NEW c \in Clients, SessionInv(c), Relay(c)
  PROVE  Typed' /\ FromOk(c)'
<1>1. Typed
  BY TypeParts
<1>2. HsTyped' /\ InTyped' /\ PumpTyped' /\ UNCHANGED <<env, addr>>
  BY <1>1 DEF Relay, RelayAsks, RelayReads, RelayCascadeEnds, RelayReadFails, RelayDials,
     RelayWrites, RelayPanics, relayFrame, env, handshake, toBackend, Typed, HsTyped, InTyped, PumpTyped
<1>3. Shared'
  BY <1>1, <1>2 DEF Relay, RelayAsks, RelayReads, RelayCascadeEnds, RelayReadFails, RelayDials,
     RelayWrites, RelayPanics, Ends, env, Typed, Shared
<1>4. CASE RelayAsks(c)
  <2>1. from' = [from EXCEPT ![c] = out[c]] /\ out[c] # 0 /\ links' = links /\ out' = out
    BY <1>4 DEF RelayAsks
  <2>2. out[c] \in Nat /\ out[c] <= Len(links[c])
    BY TypeFacts
  <2>3. from'[c] = out[c] /\ from' \in [Clients -> Nat]
    BY <1>1, <2>1, <2>2 DEF Typed, RelayTyped
  <2>4. RelayTyped'
    BY <1>1, <1>4, <2>3 DEF RelayAsks, Goes, toClient, Typed, RelayTyped
  <2>5. FromOk(c)'
    BY <2>1, <2>2, <2>3 DEF FromOk
  <2> QED  BY <1>1, <1>2, <1>3, <2>1, <2>4, <2>5 DEF Typed, LinksTyped
<1>5. CASE \E q \in queue[c] : RelayReads(c, q)
  <2>1. PICK q \in queue[c] : RelayReads(c, q)
    BY <1>5
  <2>2. q.msg \in 1..MaxBackSaid /\ q.msg \in 0..MaxBackSaid
    BY <1>1 DEF Typed, RelayTyped, Sent
  <2>3. RelayTyped'
    <3>1. /\ backSaid' = backSaid /\ backGot' = backGot /\ from' = from
          /\ queue' = [queue EXCEPT ![c] = @ \ {q}]
          /\ relay' \in {[relay EXCEPT ![c] = "read"], [relay EXCEPT ![c] = "write"]}
      BY <2>1 DEF RelayReads, Goes
    <3>2. /\ relay' \in [Clients -> {"off", "read", "reading", "dial", "write"}]
          /\ queue' \in [Clients -> SUBSET Sent(MaxBackSaid)]
      BY <1>1, <3>1 DEF Typed, RelayTyped
    <3>3. CASE UNCHANGED <<backThrough, back>>
      BY <1>1, <3>1, <3>2, <3>3 DEF Typed, RelayTyped
    <3>4. CASE /\ backThrough' = [backThrough EXCEPT ![c] = @ \cup {q.msg}]
               /\ back' = [back EXCEPT ![c] = q.msg]
      <4>1. backThrough' \in [Clients -> SUBSET (1..MaxBackSaid)]
        BY <1>1, <2>2, <3>4 DEF Typed, RelayTyped
      <4>2. back' \in [Clients -> 0..MaxBackSaid]
        BY <1>1, <2>2, <3>4 DEF Typed, RelayTyped
      <4> QED  BY <1>1, <3>1, <3>2, <4>1, <4>2 DEF Typed, RelayTyped
    <3> QED  BY <2>1, <3>3, <3>4 DEF RelayReads
  <2>4. links' = links /\ out' = out /\ from' = from /\ relay[c] = "reading"
    BY <2>1 DEF RelayReads, Reads
  <2> QED  BY <1>1, <1>2, <1>3, <2>3, <2>4, LongerFromOk DEF Typed, LinksTyped, LinksSame
<1>6. CASE RelayReadFails(c)
  <2>1. from[c] # 0 /\ from[c] <= Len(links[c]) /\ relay[c] = "reading" /\ Alive
    BY <1>6, TypeParts DEF RelayReadFails, FromOk
  <2>2. from[c] \in DOMAIN links[c]
    BY <2>1, TypeFacts
  <2>3. links[c][from[c]].reads < ReadLimit
    BY <2>1, <2>2 DEF SessionInv, Linked, Link
  <2>4. links' \in [Clients -> Seq(Connection)] /\ Len(links'[c]) = Len(links[c]) /\ out' = out
    BY <1>6, <2>2, <2>3, FlagTyped DEF RelayReadFails
  <2>5. RelayTyped' /\ from' = from
    BY <1>1, <1>6 DEF RelayReadFails, Goes, toClient, Typed, RelayTyped
  <2>6. FromOk(c)'
    BY <2>1, <2>4, <2>5 DEF FromOk
  <2> QED  BY <1>1, <1>2, <1>3, <2>4, <2>5, <2>6 DEF Typed, LinksTyped
<1>7. CASE RelayDials(c)
  <2>1. LinksTyped' /\ (LinksSame(c) \/ Dialled(c))
    <3>1. CASE Dial(c) /\ Replaced(c)
      BY <3>1, DialEffect DEF LinksTyped
    <3>2. CASE links' = links /\ out' = out
      BY <1>1, <3>2 DEF LinksTyped, Typed, LinksSame
    <3> QED  BY <1>7, <3>1, <3>2 DEF RelayDials, Redial, RelayRedials, KeepOut, DialFails
  <2>2. RelayTyped' /\ from' = from /\ relay'[c] = "read"
    BY <1>1, <1>7 DEF RelayDials, Goes, toClient, Typed, RelayTyped
  <2> QED  BY <1>2, <1>3, <2>1, <2>2, LongerFromOk DEF Typed
<1>8. CASE RelayWrites(c)
  <2>1. from[c] \in Nat /\ back[c] \in 1..MaxBackSaid
    BY <1>1, <1>8 DEF RelayWrites, SessionInv, Relayed, BackCarried, Typed, RelayTyped
  <2>2. [msg |-> back[c], via |-> from[c]] \in Sent(MaxBackSaid)
    BY <2>1 DEF Sent
  <2>3. backGot' \in [Clients -> SUBSET Sent(MaxBackSaid)]
    BY <1>1, <1>8, <2>2 DEF RelayWrites, Typed, RelayTyped
  <2>4. RelayTyped' /\ links' = links /\ out' = out /\ from' = from /\ relay'[c] = "read"
    BY <1>1, <1>8, <2>3, BoundFacts DEF RelayWrites, Goes, Typed, RelayTyped
  <2> QED  BY <1>1, <1>2, <1>3, <2>4, LongerFromOk DEF Typed, LinksTyped, LinksSame
<1>9. CASE RelayPanics(c) \/ \E q \in queue[c] : RelayCascadeEnds(c, q)
  <2>1. RelayTyped' /\ links' = links /\ out' = out /\ from' = from /\ relay' = relay
    BY <1>1, <1>9 DEF RelayPanics, RelayCascadeEnds, toClient, Typed, RelayTyped
  <2> QED  BY <1>1, <1>2, <1>3, <2>1, LongerFromOk DEF Typed, LinksTyped, LinksSame
<1> QED  BY <1>4, <1>5, <1>6, <1>7, <1>8, <1>9 DEF Relay

LEMMA OutsideTypes ==
  ASSUME TypeOK, NEW c \in Clients, Outside(c) \/ Backend
  PROVE  Typed' /\ FromOk(c)'
<1>1. Typed
  BY TypeParts
<1>2. /\ HsTyped' /\ out' = out /\ from' = from /\ relay' = relay
      /\ UNCHANGED <<callers, addr, crash>>
  BY <1>1 DEF Outside, Leave, Delivers, BackendSays, Backend, Break, env, handshake, Typed, HsTyped
<1>8. CASE PumpTyped' /\ RelayTyped' /\ InTyped' /\ Shared' /\ links' = links
  BY <1>1, <1>2, <1>8, LongerFromOk DEF Typed, LinksTyped, LinksSame
<1>3. CASE Leave(c)
  <2>1. PumpTyped' /\ RelayTyped' /\ InTyped' /\ Shared' /\ links' = links
    BY <1>1, <1>3 DEF Leave, env, handshake, toBackend, toClient, Typed, InTyped, Shared, PumpTyped,
       RelayTyped
  <2> QED  BY <1>8, <2>1
<1>4. CASE Backend
  <2>1. PumpTyped' /\ RelayTyped' /\ InTyped' /\ Shared' /\ links' = links
    BY <1>1, <1>4 DEF Backend, handshake, toBackend, toClient, Typed, InTyped, Shared, PumpTyped,
       RelayTyped
  <2> QED  BY <1>8, <2>1
<1>6. CASE \E w \in wire[c] : Delivers(c, w)
  <2>1. PICK w \in wire[c] : Delivers(c, w)
    BY <1>6
  <2>2. [msg |-> w.msg, via |-> w.via] \in Sent(MaxSaid)
    BY <1>1 DEF Typed, PumpTyped, Posted, Sent
  <2>3. PumpTyped'
    BY <1>1, <2>1, <2>2 DEF Delivers, Typed, PumpTyped
  <2>4. RelayTyped' /\ InTyped' /\ Shared' /\ links' = links
    BY <1>1, <2>1 DEF Delivers, env, handshake, toClient, Typed, RelayTyped, InTyped, Shared
  <2> QED  BY <1>8, <2>3, <2>4
<1>7. CASE \E n \in DOMAIN links[c] : BackendSays(c, n)
  <2>1. PICK n \in DOMAIN links[c] : BackendSays(c, n)
    BY <1>7
  <2>2. n \in Nat /\ backSaid[c] + 1 \in 1..MaxBackSaid /\ backSaid[c] + 1 \in 0..MaxBackSaid
    <3>1. backSaid[c] \in 0..MaxBackSaid /\ backSaid[c] < MaxBackSaid
      BY <1>1, <2>1 DEF BackendSays, Typed, RelayTyped
    <3> QED  BY <3>1, BoundFacts, TypeFacts
  <2>3. backSaid' \in [Clients -> 0..MaxBackSaid] /\ backSaid'[c] = backSaid[c] + 1
    BY <1>1, <2>1, <2>2 DEF BackendSays, Typed, RelayTyped
  <2>4. [msg |-> backSaid'[c], via |-> n] \in Sent(MaxBackSaid)
    BY <2>2, <2>3 DEF Sent
  <2>5. RelayTyped'
    BY <1>1, <2>1, <2>3, <2>4 DEF BackendSays, Typed, RelayTyped
  <2>6. PumpTyped' /\ InTyped' /\ Shared' /\ links' = links
    BY <1>1, <2>1 DEF BackendSays, env, handshake, toBackend, Typed, PumpTyped, InTyped, Shared
  <2> QED  BY <1>8, <2>5, <2>6
<1>5. CASE \E n \in DOMAIN links[c] : Break(c, n)
  <2>1. PICK n \in DOMAIN links[c] : Break(c, n)
    BY <1>5
  <2>2. links' \in [Clients -> Seq(Connection)] /\ Len(links'[c]) = Len(links[c])
    BY <2>1, FlagTyped DEF Break
  <2>3. breaks' \in 0..MaxBreaks
    <3>1. breaks \in 0..MaxBreaks /\ breaks < MaxBreaks /\ breaks' = breaks + 1
      BY <1>1, <2>1 DEF Break, Typed, Shared
    <3> QED  BY <3>1, BoundFacts
  <2>4. InTyped' /\ Shared'
    BY <1>1, <1>2, <2>1, <2>3 DEF Break, Typed, InTyped, Shared
  <2>6. PumpTyped' /\ RelayTyped'
    <3>1. /\ wire' \in [Clients -> SUBSET Posted]
          /\ queue' \in [Clients -> SUBSET Sent(MaxBackSaid)]
      <4>1. \E W \in SUBSET wire[c], Q \in SUBSET queue[c] :
              wire' = [wire EXCEPT ![c] = W] /\ queue' = [queue EXCEPT ![c] = Q]
        BY <2>1 DEF Break
      <4> QED  BY <1>1, <4>1 DEF Typed, PumpTyped, RelayTyped
    <3> QED  BY <1>1, <2>1, <3>1 DEF Break, Typed, PumpTyped, RelayTyped
  <2>5. FromOk(c)'
    BY <1>2, <2>2, TypeParts DEF FromOk
  <2> QED  BY <1>1, <1>2, <2>2, <2>4, <2>5, <2>6 DEF Typed, LinksTyped
<1> QED  BY <1>3, <1>4, <1>5, <1>6, <1>7 DEF Outside

-----------------------------------------------------------------------------
(* The invariant holds.                                                    *)

\* The own session of a step.
LEMMA OwnKeeps ==
  ASSUME TypeOK, NEW c \in Clients, SessionInv(c),
         Handle(c) \/ Pump(c) \/ Relay(c) \/ Outside(c)
  PROVE  SessionInv(c)'
<1>1. CASE Handle(c)
  <2>1. Onward
    BY <1>1, StepsGoOnward DEF Next
  <2> QED  BY <1>1, <2>1, HandshakeKeeps, FirstDialKeeps DEF Handle
<1>2. CASE Pump(c)
  <2>1. PumpLeaves(c) /\ Onward
    BY <1>2, PumpFrame
  <2> QED  BY <1>2, <2>1, PumpReadsKeeps, PumpEndsKeeps, PumpWritesKeeps, PumpWriteFailsKeeps,
              PumpDialsKeeps, PumpPanicsKeeps DEF Pump
<1>3. CASE Relay(c)
  <2>1. RelayLeaves(c) /\ Onward
    BY <1>3, RelayFrame
  <2> QED  BY <1>3, <2>1, RelayAsksKeeps, RelayReadsKeeps, RelayReadFailsKeeps, RelayDialsKeeps,
              RelayWritesKeeps, RelayPanicsKeeps DEF Relay
<1> QED  BY <1>1, <1>2, <1>3, OutsideKeeps

LEMMA NextSessions ==
  ASSUME TypeOK, \A c \in Clients : SessionInv(c), Next
  PROVE  TypeOK' /\ \A c \in Clients : SessionInv(c)'
<1>1. AsFunctions /\ Onward
  BY AreFunctions, StepsGoOnward
<1>2. ASSUME NEW c \in Clients, Same(c) PROVE SessionInv(c)' /\ FromOk(c)'
  <2>1. FromOk(c)
    BY TypeParts
  <2> QED  BY <1>1, <1>2, <2>1, SameKeeps DEF FromOk, Same, LinksSame, RelaySame
<1>3. ASSUME NEW c \in Clients,
             Handle(c) \/ Pump(c) \/ Relay(c) \/ Outside(c)
      PROVE  TypeOK' /\ \A d \in Clients : SessionInv(d)'
  <2>1. SessionInv(c)' /\ Typed' /\ FromOk(c)'
    BY <1>3, OwnKeeps, HandshakeTypes, PumpTypes, RelayTypes, OutsideTypes
  <2>2. \A d \in Clients : d # c => Same(d)
    BY <1>1, <1>3, OthersHandshake, OthersPump, OthersRelay, OthersEnvironment
  <2>3. \A d \in Clients : SessionInv(d)' /\ FromOk(d)'
    BY <1>2, <2>1, <2>2
  <2>4. Parts' => TypeOK'
    BY TypeParts, PTL
  <2> QED  BY <2>1, <2>3, <2>4 DEF Parts
<1>4. CASE Backend
  <2>1. \A d \in Clients : Same(d)
    BY <1>1, <1>4, OthersEnvironment
  <2>2. \A d \in Clients : SessionInv(d)' /\ FromOk(d)'
    BY <1>2, <2>1
  <2>3. Typed'
    BY <1>4, TypeParts DEF Backend, handshake, toBackend, toClient, Typed, Shared, HsTyped,
       InTyped, LinksTyped, PumpTyped, RelayTyped
  <2>4. Parts' => TypeOK'
    BY TypeParts, PTL
  <2> QED  BY <2>2, <2>3, <2>4 DEF Parts
<1> QED  BY <1>3, <1>4 DEF Next

\* A nil connection ends the process only where a step of the handshake failed.
LEMMA NextCrash ==
  ASSUME TypeOK, \A c \in Clients : SessionInv(c), CrashOnlyAfterFailure, Next
  PROVE  CrashOnlyAfterFailure'
<1>1. \A c \in Clients : failed[c] \subseteq failed'[c]
  <2>1. failed' = failed \/ \E c \in Clients, step \in {"connect", "upgrade", "dial"} :
                              failed' = [failed EXCEPT ![c] = @ \cup {step}]
    <3>1. ASSUME NEW c \in Clients, Handle(c)
          PROVE  \/ failed' = failed
                 \/ failed' = [failed EXCEPT ![c] = @ \cup {"connect"}]
                 \/ failed' = [failed EXCEPT ![c] = @ \cup {"upgrade"}]
                 \/ failed' = [failed EXCEPT ![c] = @ \cup {"dial"}]
      BY <3>1 DEF Handle, Connect, ConnectPanics, Upgrade, WritePath, FirstDial, Step
    <3>2. ASSUME NEW c \in Clients, Pump(c) PROVE failed' = failed
      BY <3>2 DEF Pump, PumpReads, PumpCascadeEnds, PumpEnds, PumpWrites, PumpWriteFails, PumpDials,
         PumpPanics, pumpFrame, handshake
    <3>3. ASSUME NEW c \in Clients, Relay(c) PROVE failed' = failed
      BY <3>3 DEF Relay, RelayAsks, RelayReads, RelayCascadeEnds, RelayReadFails, RelayDials,
         RelayWrites, RelayPanics, relayFrame, handshake
    <3>4. ASSUME NEW c \in Clients, Outside(c) \/ Backend PROVE failed' = failed
      BY <3>4 DEF Outside, Leave, Delivers, BackendSays, Break, Backend, handshake
    <3>5. CASE \E c \in Clients : Handle(c)
      <4>1. PICK c \in Clients : Handle(c)
        BY <3>5
      <4>2. /\ "connect" \in {"connect", "upgrade", "dial"}
            /\ "upgrade" \in {"connect", "upgrade", "dial"}
            /\ "dial" \in {"connect", "upgrade", "dial"}
        OBVIOUS
      <4> QED  BY <3>1, <4>1, <4>2, Zenon
    <3>6. CASE failed' = failed
      BY <3>6
    <3>7. (\E c \in Clients : Handle(c)) \/ failed' = failed
      <4>1. CASE Backend
        BY <4>1 DEF Backend, handshake
      <4> QED  BY <3>2, <3>3, <3>4, <4>1 DEF Next
    <3> QED  BY <3>5, <3>6, <3>7
  <2>2. failed \in [Clients -> SUBSET {"connect", "upgrade", "dial"}]
    BY DEF TypeOK
  <2> QED  BY <2>1, <2>2
<1>2. CASE crash' = crash
  BY <1>1, <1>2 DEF CrashOnlyAfterFailure
<1>3. CASE crash' \in {"repeated read", "cascade"}
  BY <1>3 DEF CrashOnlyAfterFailure
<1>4. CASE \E c \in Clients : PumpPanics(c) \/ RelayPanics(c)
  <2>1. PICK c \in Clients : PumpPanics(c) \/ RelayPanics(c)
    BY <1>4
  <2>2. Handshaken(c)
    BY DEF SessionInv
  <2>3. pump[c] # "off" \/ relay[c] # "off" => hs[c] = "served"
    BY <2>2 DEF Handshaken
  <2>4. \/ hs[c] = "served" /\ in[c] = "nil" /\ crash' = "nil in"
        \/ hs[c] = "served" /\ out[c] = 0 /\ crash' = "nil out"
    BY <2>1, <2>3 DEF PumpPanics, RelayPanics, Ends
  <2>5. \/ "upgrade" \in failed'[c] /\ crash' = "nil in"
        \/ "dial" \in failed'[c] /\ crash' = "nil out"
    BY <1>1, <2>2, <2>4 DEF Handshaken
  <2> QED  BY <2>5 DEF CrashOnlyAfterFailure
<1>5. ASSUME NEW c \in Clients, Handle(c) \/ Outside(c) \/ Backend
      PROVE  crash' = crash \/ crash' = "cascade"
  BY <1>5 DEF Handle, Connect, ConnectPanics, Upgrade, WritePath, FirstDial, Ends,
     Outside, Leave, Delivers, BackendSays, Break, Backend
<1>6. ASSUME NEW c \in Clients, Pump(c), ~PumpPanics(c) PROVE crash' = crash \/ crash' = "cascade"
  BY <1>6 DEF Pump, PumpReads, PumpCascadeEnds, PumpEnds, PumpWrites, PumpWriteFails, PumpDials, Ends
<1>7. ASSUME NEW c \in Clients, Relay(c), ~RelayPanics(c)
      PROVE  crash' = crash \/ crash' = "cascade" \/ crash' = "repeated read"
  BY <1>7 DEF Relay, RelayAsks, RelayReads, RelayCascadeEnds, RelayReadFails, RelayDials,
     RelayWrites, Ends
<1>8. CASE Backend
  BY <1>2, <1>8 DEF Backend
<1>9. CASE \E c \in Clients : Handle(c) \/ Pump(c) \/ Relay(c) \/ Outside(c)
  BY <1>2, <1>3, <1>4, <1>5, <1>6, <1>7, <1>9
<1> QED  BY <1>8, <1>9 DEF Next

LEMMA InitInv == Init => Inv
<1> SUFFICES ASSUME Init PROVE Inv
  OBVIOUS
<1>1. ASSUME NEW c \in Clients PROVE SessionInv(c) /\ FromOk(c)
  <2>1. /\ hs[c] = "connect" /\ links[c] = <<>> /\ out[c] = 0 /\ pump[c] = "off" /\ hand[c] = 0
        /\ relay[c] = "off" /\ from[c] = 0 /\ back[c] = 0 /\ through[c] = {}
        /\ backThrough[c] = {} /\ got[c] = {} /\ backGot[c] = {} /\ wire[c] = {} /\ queue[c] = {}
    BY DEF Init
  <2>2. FromOk(c)
    BY <2>1 DEF FromOk
  <2> QED  BY <2>1, <2>2 DEF SessionInv, Handshaken, Linked, Budget, Pumped, Carried, OnTheirWay, Kept,
              Relayed, BackCarried, BackOnTheirWay, BackKept
<1>2. Typed
  <2>1. Shared
    BY BoundFacts DEF Init, Shared, Word
  <2>2. HsTyped /\ InTyped
    BY DEF Init, HsTyped, InTyped
  <2>3. \A S : <<>> \in Seq(S)
    OBVIOUS
  <2>4. LinksTyped
    BY <2>3 DEF Init, LinksTyped
  <2>5. /\ said = [c \in Clients |-> 0] /\ hand = [c \in Clients |-> 0]
        /\ through = [c \in Clients |-> {}] /\ got = [c \in Clients |-> {}]
        /\ wire = [c \in Clients |-> {}] /\ writes = [c \in Clients |-> 0]
        /\ queue = [c \in Clients |-> {}]
        /\ backSaid = [c \in Clients |-> 0] /\ back = [c \in Clients |-> 0]
        /\ backThrough = [c \in Clients |-> {}] /\ backGot = [c \in Clients |-> {}]
        /\ from = [c \in Clients |-> 0]
        /\ pump = [c \in Clients |-> "off"] /\ relay = [c \in Clients |-> "off"]
    BY DEF Init
  <2>6. PumpTyped
    BY <2>3, <2>5, BoundFacts DEF PumpTyped
  <2>7. RelayTyped
    BY <2>3, <2>5, BoundFacts DEF RelayTyped
  <2> QED  BY <2>1, <2>2, <2>4, <2>6, <2>7 DEF Typed
<1>3. CrashOnlyAfterFailure
  BY DEF Init, CrashOnlyAfterFailure
<1> QED  BY <1>1, <1>2, <1>3, TypeParts DEF Inv, Parts

LEMMA NextInv == Inv /\ [Next]_vars => Inv'
<1> SUFFICES ASSUME Inv, [Next]_vars PROVE Inv'
  OBVIOUS
<1>1. CASE Next
  BY <1>1, NextSessions, NextCrash DEF Inv
<1>2. CASE UNCHANGED vars
  <2>1. UNCHANGED <<callers, backend, breaks, addr, hs, failed, in, links, out, pump, hand, relay,
                    from, back, said, through, wire, writes, got, backSaid, queue, backThrough,
                    backGot, crash>>
    BY <1>2 DEF vars, env, handshake, toBackend, toClient
  <2>2. TypeOK' /\ CrashOnlyAfterFailure'
    BY <2>1 DEF Inv, TypeOK, CrashOnlyAfterFailure
  <2>3. \A c \in Clients : Same(c)
    BY <2>1 DEF Same, HsSame, LinksSame, PumpSame, RelaySame
  <2>4. Onward
    BY <2>1 DEF Onward, Alive
  <2> QED  BY <2>2, <2>3, <2>4, SameKeeps DEF Inv
<1> QED  BY <1>1, <1>2

\* In every reachable state the invariant holds.
THEOREM Invariance == Spec => []Inv
BY InitInv, NextInv, PTL DEF Spec

\* The variables keep their types.
THEOREM TypeCorrect == Spec => []TypeOK
<1>1. Inv => TypeOK
  BY DEF Inv
<1> QED  BY Invariance, <1>1, PTL

\* However the goroutines replace their connections, a nil connection ends
\* the process only after a failed upgrade or a failed first dial.
THEOREM NilOnlyAfterFailure == Spec => []CrashOnlyAfterFailure
<1>1. Inv => CrashOnlyAfterFailure
  BY DEF Inv
<1> QED  BY Invariance, <1>1, PTL

\* As long as no connection has broken no message is lost.
THEOREM NothingIsLostWithoutBreak == Spec => []NoLossWithoutBreak
<1>1. Inv => NoLossWithoutBreak
  BY DEF Inv, SessionInv, Pumped, Kept, Relayed, BackKept, NoLossWithoutBreak
<1> QED  BY Invariance, <1>1, PTL

\* Each break leaves at most one more connection open, though both goroutines
\* may replace the broken one.
THEOREM BreaksBoundOrphans == Spec => []FewOrphans
<1>1. Inv => FewOrphans
  <2> SUFFICES ASSUME Inv, NEW c \in Clients PROVE Cardinality(Open(c)) <= 1 + breaks
    BY DEF FewOrphans, Open
  <2>1. TypeOK /\ Linked(c) /\ Budget(c)
    BY DEF Inv, SessionInv
  <2>2. breaks \in Nat /\ Cardinality(Open(c)) \in Nat
    BY <2>1, OpenCount, TypeFacts
  <2>3. CASE out[c] = 0
    <3>1. Open(c) = {}
      <4>1. Len(links[c]) = 0 /\ DOMAIN links[c] = 1..Len(links[c])
        BY <2>1, <2>3, TypeFacts DEF Linked
      <4> QED  BY <4>1 DEF Open
    <3> QED  BY <2>2, <3>1, FS_EmptySet
  <2>4. CASE out[c] # 0
    <3>1. PumpDue(c) \in {0, 1} /\ RelayDue(c) \in {0, 1}
      BY Dues
    <3> HIDE DEF PumpDue, RelayDue, Open
    <3> QED  BY <2>1, <2>2, <2>4, <3>1 DEF Budget
  <2> QED  BY <2>3, <2>4
<1> QED  BY Invariance, <1>1, PTL

-----------------------------------------------------------------------------
(* Each way a session is a LossyPipe.                                      *)

LEMMA PumpIsPipe ==
  ASSUME TypeOK, NEW c \in Clients, Pump(c)
  PROVE  ToBackend(c)!Next \/ UNCHANGED ToBackend(c)!lpvars
<1>1. CASE PumpReads(c)
  <2>1. said'[c] = said[c] + 1 /\ got'[c] = got[c]
        /\ through'[c] \in {through[c], through[c] \cup {said'[c]}}
    BY <1>1 DEF PumpReads, TypeOK
  <2>2. ToBackend(c)!Say
    BY <2>1 DEF ToBackend!Say
  <2> QED  BY <2>2 DEF ToBackend!Next
<1>2. CASE ~PumpReads(c)
  <2>1. said' = said /\ through' = through /\ got' = got
    BY <1>2 DEF Pump, PumpCascadeEnds, PumpEnds, PumpWrites, PumpWriteFails, PumpDials, PumpPanics,
       toBackend
  <2> QED  BY <2>1 DEF ToBackend!lpvars
<1> QED  BY <1>1, <1>2

LEMMA RelayIsPipe ==
  ASSUME TypeOK, NEW c \in Clients, SessionInv(c), Relay(c)
  PROVE  ToClient(c)!Next \/ UNCHANGED ToClient(c)!lpvars
<1>1. CASE \E q \in queue[c] : RelayReads(c, q)
  <2>1. PICK q \in queue[c] : RelayReads(c, q)
    BY <1>1
  <2>2. /\ backSaid'[c] = backSaid[c] /\ backGot'[c] = backGot[c]
        /\ backThrough'[c] \in {backThrough[c], backThrough[c] \cup {q.msg}}
    BY <2>1 DEF RelayReads, TypeOK
  <2>3. q.msg \in 1..backSaid[c] /\ q.msg \notin backThrough[c]
    <3>1. q.msg \in Nat /\ q.msg # 0 /\ backSaid[c] \in Nat
      BY TypeFacts
    <3>2. q.msg <= backSaid[c] /\ q.msg \notin backThrough[c]
      BY DEF SessionInv, Relayed, BackOnTheirWay
    <3> QED  BY <3>1, <3>2
  <2>4. CASE backThrough'[c] = backThrough[c]
    BY <2>2, <2>4 DEF ToClient!lpvars
  <2>5. CASE backThrough'[c] = backThrough[c] \cup {q.msg}
    <3>1. ToClient(c)!Pass
      BY <2>2, <2>3, <2>5 DEF ToClient!Pass
    <3> QED  BY <3>1 DEF ToClient!Next
  <2> QED  BY <2>2, <2>4, <2>5
<1>2. CASE RelayWrites(c)
  <2>1. backSaid'[c] = backSaid[c] /\ backThrough'[c] = backThrough[c]
    BY <1>2 DEF RelayWrites
  <2>2. PICK g : /\ g.msg = back[c] /\ g.via = from[c]
                 /\ backGot'[c] = backGot[c] \/ backGot'[c] = backGot[c] \cup {g}
    <3> DEFINE g == [msg |-> back[c], via |-> from[c]]
    <3>1. backGot'[c] = backGot[c] \/ backGot'[c] = backGot[c] \cup {g}
      BY <1>2 DEF RelayWrites, TypeOK
    <3>2. g.msg = back[c] /\ g.via = from[c]
      OBVIOUS
    <3> QED  BY <3>1, <3>2
  <2>3. /\ g.msg \in backThrough[c]
        /\ \A h \in backGot[c] : h.msg # g.msg /\ (h.via = g.via => h.msg < g.msg)
    <3>1. BackCarried(c) /\ relay[c] = "write"
      BY <1>2 DEF RelayWrites, SessionInv, Relayed
    <3>2. back[c] # 0 /\ back[c] \in backThrough[c]
      BY <3>1 DEF BackCarried
    <3>3. \A h \in backGot[c] : h.msg # back[c] /\ (h.via = from[c] => h.msg < back[c])
      BY <3>1, <3>2 DEF BackCarried
    <3>4. g.msg = back[c] /\ g.via = from[c]
      BY <2>2
    <3> QED  BY <3>2, <3>3, <3>4
  <2>4. CASE backGot'[c] = backGot[c]
    BY <2>1, <2>4 DEF ToClient!lpvars
  <2>5. CASE backGot'[c] = backGot[c] \cup {g}
    <3>1. ToClient(c)!Arrive
      BY <2>1, <2>3, <2>5 DEF ToClient!Arrive
    <3> QED  BY <3>1 DEF ToClient!Next
  <2> QED  BY <2>2, <2>4, <2>5
<1>3. CASE ~RelayWrites(c) /\ ~\E q \in queue[c] : RelayReads(c, q)
  <2>1. backSaid' = backSaid /\ backThrough' = backThrough /\ backGot' = backGot
    BY <1>3 DEF Relay, RelayAsks, RelayCascadeEnds, RelayReadFails, RelayDials, RelayPanics, toClient
  <2> QED  BY <2>1 DEF ToClient!lpvars
<1> QED  BY <1>1, <1>2, <1>3

LEMMA OutsideIsPipe ==
  ASSUME TypeOK, NEW c \in Clients, SessionInv(c), Outside(c)
  PROVE  PipeSteps(c)
<1>1. CASE \E w \in wire[c] : Delivers(c, w)
  <2>1. PICK w \in wire[c] : Delivers(c, w)
    BY <1>1
  <2>2. PICK g : g.msg = w.msg /\ g.via = w.via /\ got'[c] = got[c] \cup {g}
    <3>1. got'[c] = got[c] \cup {[msg |-> w.msg, via |-> w.via]}
      BY <2>1 DEF Delivers, TypeOK
    <3> QED  BY <3>1
  <2>3. said'[c] = said[c] /\ through'[c] = through[c]
    BY <2>1 DEF Delivers
  <2>4. /\ g.msg \in through[c]
        /\ \A h \in got[c] : h.msg # g.msg /\ (h.via = g.via => h.msg < g.msg)
    BY <2>2 DEF SessionInv, Pumped, OnTheirWay
  <2>5. ToBackend(c)!Arrive
    BY <2>2, <2>3, <2>4 DEF ToBackend!Arrive
  <2>6. UNCHANGED ToClient(c)!lpvars
    BY <2>1 DEF Delivers, toClient, ToClient!lpvars
  <2> QED  BY <2>5, <2>6 DEF PipeSteps, ToBackend!Next
<1>2. CASE \E n \in DOMAIN links[c] : BackendSays(c, n)
  <2>1. /\ backSaid'[c] = backSaid[c] + 1 /\ backThrough'[c] = backThrough[c]
        /\ backGot'[c] = backGot[c]
    BY <1>2 DEF BackendSays, TypeOK
  <2>2. ToClient(c)!Say
    BY <2>1 DEF ToClient!Say
  <2>3. UNCHANGED ToBackend(c)!lpvars
    BY <1>2 DEF BackendSays, toBackend, ToBackend!lpvars
  <2> QED  BY <2>2, <2>3 DEF PipeSteps, ToClient!Next
<1>3. CASE Leave(c) \/ \E n \in DOMAIN links[c] : Break(c, n)
  <2>1. UNCHANGED <<said, through, got, backSaid, backThrough, backGot>>
    BY <1>3 DEF Leave, Break, toBackend, toClient
  <2> QED  BY <2>1 DEF PipeSteps, ToBackend!lpvars, ToClient!lpvars
<1> QED  BY <1>1, <1>2, <1>3 DEF Outside

\* Only messages that the chain let through arrive, none twice, and those that
\* took the same connection in the order they were said, whatever breaks and
\* is replaced meanwhile, and however many connections are open at a time.
THEOREM SessionsImplementPipes == Spec => SessionsArePipes
<1>1. ASSUME Init, NEW c \in Clients PROVE ToBackend(c)!Init /\ ToClient(c)!Init
  BY <1>1 DEF Init, ToBackend!Init, ToClient!Init
<1>2. Init => \A c \in Clients : ToBackend(c)!Init /\ ToClient(c)!Init
  BY <1>1
<1>3. ASSUME Inv, Next, NEW d \in Clients PROVE PipeSteps(d)
  <2>1. TypeOK /\ AsFunctions /\ \A c \in Clients : SessionInv(c)
    BY <1>3, AreFunctions DEF Inv
  <2>2. PumpSame(d) => UNCHANGED ToBackend(d)!lpvars
    BY DEF PumpSame, ToBackend!lpvars
  <2>3. RelaySame(d) => UNCHANGED ToClient(d)!lpvars
    BY DEF RelaySame, ToClient!lpvars
  <2>4. PICK c \in Clients : Handle(c) \/ Pump(c) \/ Relay(c) \/ Outside(c) \/ Backend
    BY <1>3 DEF Next
  <2>5. CASE c # d
    BY <2>1, <2>2, <2>3, <2>4, <2>5, OthersHandshake, OthersPump, OthersRelay, OthersEnvironment
       DEF Same, PipeSteps
  <2>6. CASE c = d /\ Pump(c)
    BY <2>1, <2>3, <2>6, PumpFrame, PumpIsPipe DEF PumpLeaves, PipeSteps
  <2>7. CASE c = d /\ Relay(c)
    BY <2>1, <2>2, <2>7, RelayFrame, RelayIsPipe DEF RelayLeaves, PipeSteps
  <2>8. CASE c = d /\ Outside(c)
    BY <2>1, <2>8, OutsideIsPipe
  <2>9. CASE Handle(c) \/ Backend
    <3>1. UNCHANGED <<said, through, got, backSaid, backThrough, backGot>>
      BY <2>9 DEF Handle, Connect, ConnectPanics, Upgrade, WritePath, FirstDial, Backend,
         toBackend, toClient
    <3> QED  BY <3>1 DEF PipeSteps, ToBackend!lpvars, ToClient!lpvars
  <2> QED  BY <2>4, <2>5, <2>6, <2>7, <2>8, <2>9
<1>4. ASSUME UNCHANGED vars, NEW d \in Clients PROVE PipeSteps(d)
  BY <1>4 DEF vars, toBackend, toClient, PipeSteps, ToBackend!lpvars, ToClient!lpvars
<1>5. Inv /\ [Next]_vars => [\A c \in Clients : PipeSteps(c)]_vars
  BY <1>3, <1>4
<1> QED  BY <1>2, <1>5, Invariance, PTL DEF Spec, SessionsArePipes
=============================================================================
