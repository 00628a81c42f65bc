----------------------------- MODULE DurableNats -----------------------------
(***************************************************************************)
(* The durable NATS filters (filters.NatsJSFilter) of one server.  A call  *)
(* waits like one of a core filter, but the request is pushed to a durable *)
(* queue, with the inbox as a header, and the answer comes back through a  *)
(* second queue that all filters share, $ICEBERG.DURABLE: the reflector of *)
(* one of them publishes it to the inbox and runs its callbacks before it  *)
(* acknowledges the answer.  The queues are outside the process and        *)
(* deliver at least once; the process may end and be started again.        *)
(*                                                                         *)
(* The call, its inbox and the goroutine of a reply are those of           *)
(* NatsFilter, whose `asked` holds the requests as they are handed to      *)
(* workers and whose `ran` stays 0: a reply starts no callbacks here.      *)
(* NoReflectors, AckAtOnce and SkipOnError are slips the properties must   *)
(* catch; no action uses them.                                             *)
(***************************************************************************)
EXTENDS NatsFilter

CONSTANTS
  Filters,
  Contents,   \* what workers answer: statuses, or "lost" for an answer that names
              \* no inbox or whose headers cannot be read
  MaxEarly    \* bound: redeliveries of an answer that is still worked on

ASSUME DurableAssumption ==
  Filters # {} /\ Contents \subseteq Status \cup {"lost"} /\ MaxEarly \in Nat

VARIABLES
  answers,    \* what workers have put into the reflectors' queue
  queued,     \* those of them to be delivered, for the first time or again
  unacked,    \* delivered and not acknowledged
  early,      \* redeliveries so far that did not wait for a crash
  held,       \* deliveries a reflector is working on
  handled,    \* answers that `handle` has published to their inbox, or could not
  called      \* answers whose callbacks have been run

channel == <<answers, queued, unacked, early>>
done == <<handled, called>>
durable == <<channel, held, done>>
dvars == <<vars, durable>>

\* An answer: one for each delivery of a request to a worker.
Answer == [of: Calls, by: Workers, reply: Calls, status: Contents]
Delivery == [a: Answer, who: Filters, at: {"callbacks", "ack"}]

\* GetConn keeps no connection, so that every filter gets one of its own and
\* with it a reflector.
NoReflectors == {}
Reflectors == Filters

DInit ==
  /\ Init
  /\ answers = {} /\ queued = {} /\ unacked = {} /\ early = 0
  /\ held = {} /\ handled = {} /\ called = {}

-----------------------------------------------------------------------------
(* The call and the goroutine of a reply, which ends without callbacks; if *)
(* the call has closed its channels the panic ends the process.            *)

DCall(c) == Call(c) /\ UNCHANGED durable

\* The queue has stored the request and its acknowledgement is lost: the call
\* returns an error, and is answered later all the same.
PushUnconfirmed(c) ==
  /\ Alive /\ pc[c] = "subscribed" /\ Asks(c)
  /\ Return(c, "error", {})
  /\ UNCHANGED <<http, ctx, inbox, sub, chans, go, ran, crash, durable>>
DExpire(c) == Expire(c) /\ UNCHANGED durable

SendPanics(g) ==
  /\ g.at = "handle" /\ pc[g.call] = "returned"
  /\ go' = go \ {g} /\ crash' = "late"
  /\ UNCHANGED <<http, pc, ctx, inbox, sub, chans, ret, taken, asked, ran>>

DHandler(g) ==
  /\ Alive
  /\ HandleResponse(g, "end") \/ HandleError(g, "end") \/ SendPanics(g)
  /\ UNCHANGED durable

-----------------------------------------------------------------------------
(* The queues.                                                             *)

\* A worker answers a request that was handed to it.  One that answers and
\* then loses the request answers it again: another delivery of it.
Work(q, status) ==
  /\ q \in asked /\ asked' = asked \ {q}
  /\ LET a == [of |-> q.of, by |-> q.to, reply |-> q.reply, status |-> status]
     IN answers' = answers \cup {a} /\ queued' = queued \cup {a}
  /\ UNCHANGED <<http, pc, ctx, inbox, sub, chans, ret, taken, go, ran, crash,
                 unacked, early, held, done>>

\* The time to acknowledge is over: the reflector that had the answer is no
\* more, or it is slow, for its callbacks are a chain of their own.
Redeliver(a) ==
  /\ a \in unacked \ queued
  /\ IF \E d \in held : d.a = a THEN early < MaxEarly /\ early' = early + 1
                                ELSE UNCHANGED early
  /\ queued' = queued \cup {a}
  /\ UNCHANGED <<vars, answers, unacked, held, done>>

-----------------------------------------------------------------------------
(* The reflector of filter f: `handle`, the deferred `callbacks`, and then *)
(* the state that the queue is given, Done or Drop: both settle.           *)

\* Filter f is handed an answer it is not at work on already; `handle` is
\* through, and what `handle` returned decides nothing about the callbacks.
AckAtOnce(a) == unacked \ {a}
Unacknowledged(a) == unacked \cup {a}
SkipOnError == "ack"
AfterError == "callbacks"
Pull(f, a, next) ==
  /\ Alive /\ f \in Reflectors /\ a \in queued
  /\ \A d \in held : d.who = f => d.a # a
  /\ queued' = queued \ {a} /\ unacked' = Unacknowledged(a)
  /\ held' = held \cup {[a |-> a, who |-> f, at |-> next]}
  /\ handled' = handled \cup {a}
  /\ UNCHANGED <<http, pc, ctx, inbox, chans, ret, taken, asked, ran, crash,
                 answers, early, called>>

\* Published to the inbox, where a call may or may not be subscribed still.
Reflect(f, a) ==
  /\ Pull(f, a, "callbacks") /\ a.status # "lost"
  /\ Receive([of |-> a.of, by |-> a.by, status |-> a.status], Subscribed(a.reply))

\* The headers cannot be read, there is no inbox in them, or publishing fails.
CannotReflect(f, a) == Pull(f, a, AfterError) /\ UNCHANGED <<go, sub>>

Move(d, at) == held' = (held \ {d}) \cup {[d EXCEPT !.at = at]}

RunReflectorCallbacks(d) ==
  /\ d.at = "callbacks"
  /\ IF http THEN crash' = "callback" /\ UNCHANGED <<held, called>>
             ELSE Move(d, "ack") /\ called' = called \cup {d.a} /\ UNCHANGED crash
  /\ UNCHANGED <<http, pc, ctx, inbox, sub, chans, ret, taken, asked, go, ran,
                 channel, handled>>

\* A redelivery that was waiting is withdrawn.
Settle(d) ==
  /\ d.at = "ack" /\ held' = held \ {d}
  /\ queued' = queued \ {d.a} /\ unacked' = unacked \ {d.a}
  /\ UNCHANGED <<vars, answers, early, done>>

Reflector(f) ==
  \/ \E a \in queued : Reflect(f, a) \/ CannotReflect(f, a)
  \/ Alive /\ \E d \in held : d.who = f /\ (RunReflectorCallbacks(d) \/ Settle(d))

\* The process is started again: its calls and goroutines are gone, what the
\* queues hold is not.  Requests that come afterwards are served.
Restart ==
  /\ ~Alive /\ crash' = ""
  /\ LET gone == {c \in Calls : pc[c] # "called"}
     IN /\ pc' = [c \in Calls |-> IF c \in gone THEN "returned" ELSE pc[c]]
        /\ ret' = [c \in Calls |-> IF c \in gone /\ ret[c] = "" THEN "error" ELSE ret[c]]
  /\ sub' = [c \in Calls |-> IF sub[c] = "open" THEN "none" ELSE sub[c]]
  /\ resCh' = [c \in Calls |-> {}] /\ errCh' = [c \in Calls |-> {}]
  /\ go' = {} /\ held' = {}
  /\ UNCHANGED <<http, ctx, inbox, taken, asked, ran, channel, done>>

-----------------------------------------------------------------------------
DTerminated ==
  /\ \A c \in Calls : pc[c] = "returned"
  /\ go = {} /\ held = {} /\ queued = {} /\ unacked = {} /\ Alive
  /\ UNCHANGED dvars

DNext ==
  \/ \E c \in Calls : DCall(c) \/ PushUnconfirmed(c) \/ DExpire(c)
  \/ \E g \in go : DHandler(g)
  \/ \E q \in asked, s \in Contents : Work(q, s)
  \/ \E a \in unacked : Redeliver(a)
  \/ \E f \in Filters : Reflector(f)
  \/ Restart
  \/ DTerminated

\* Reflectors are scheduled, the queue redelivers what is not acknowledged,
\* and the container is restarted.  Nothing is assumed of calls or workers.
DFairness ==
  /\ \A f \in Filters : WF_dvars(Reflector(f))
  /\ WF_dvars(\E a \in unacked : Redeliver(a))
  /\ WF_dvars(Restart)

DSpec == DInit /\ [][DNext]_dvars
DFairSpec == DSpec /\ DFairness

-----------------------------------------------------------------------------
DTypeOK ==
  /\ TypeOK
  /\ answers \subseteq Answer /\ queued \subseteq answers /\ unacked \subseteq answers
  /\ early \in 0..MaxEarly
  /\ held \subseteq Delivery /\ \A d \in held : d.a \in handled
  /\ \A d \in held : d.at = "ack" => d.a \in called
  /\ handled \subseteq answers /\ called \subseteq handled

\* However often an answer is redelivered and reflected, its call is handed
\* one: no goroutine waits for room in a channel that nobody empties.
NobodyBlocks ==
  \A g \in go : g.at = "handle" /\ pc[g.call] # "returned" =>
    resCh[g.call] = {} /\ errCh[g.call] = {}

\* Across crashes, an answer leaves the queue only when its callbacks have
\* been run and it has been published to its inbox, or could not be.
Settled(a) == a \in answers \ (queued \cup unacked)
SettledMeansDone ==
  \A a \in answers : Settled(a) =>
    a \in handled /\ a \in called

\* A send on a closed channel ends the process only when a call has returned
\* without an answer: one that took its answer is safe from redeliveries.
LateOnly == crash = "late" => \E c \in Calls : pc[c] = "returned" /\ taken[c] = {}

\* Every answer is settled in the end: crashes and redeliveries delay it and
\* do not lose it.
AnswersSettle ==
  \A c \in Calls, w \in Workers :
    (\E a \in answers : a.of = c /\ a.by = w)
      ~> (\E a \in answers : a.of = c /\ a.by = w /\ Settled(a))
=============================================================================
