----------------------------- MODULE NatsFilter -----------------------------
(***************************************************************************)
(* The calls of a core NATS filter (filters.NatsCoreFilter), several at a  *)
(* time.  A call subscribes to an inbox of its own, publishes the request  *)
(* with that inbox as the address to reply to, and waits for the reply or  *)
(* for its context.  A reply starts a goroutine that hands it to the call  *)
(* and then runs the filter's callbacks, another chain.  The messaging     *)
(* system is outside the process: it loses and reorders messages, and      *)
(* several workers may answer one request.  The run of the callbacks is    *)
(* that of Cascade.                                                        *)
(*                                                                         *)
(* SharedInbox, Unlimited, Any, NeverExpired and OnSuccess are slips the   *)
(* properties must catch; no action uses them.                             *)
(***************************************************************************)
EXTENDS Naturals, FiniteSets

CONSTANTS
  Calls,
  Workers,        \* who answers what is published to the subject
  HttpCallbacks   \* whether an HTTP filter may be among the callbacks

ASSUME HttpCallbacksAssumption == HttpCallbacks \subseteq BOOLEAN

VARIABLES
  http,       \* an HTTP filter is among the callbacks, frozen
  pc,         \* where each call is
  ctx,        \* its context: "live" or "done"
  inbox,      \* the inbox it made, None before
  sub,        \* its subscription: "none", "open", "spent"
  resCh,      \* what is in its channel for a response ...
  errCh,      \* ... and in the one for an error; both hold one
  ret,        \* what it returned, "" before
  taken,      \* the reply it received and decided by
  asked,      \* requests under way to a worker, or answered and the answer under way
  go,         \* goroutines started by a reply
  ran,        \* how often the callbacks of each call were run
  crash       \* what ended the process, "" while it runs

vars == <<http, pc, ctx, inbox, sub, resCh, errCh, ret, taken, asked,
          go, ran, crash>>

None == "none"

\* What a worker answers: below 400, 400 and above, or something that is
\* not a response (no Status header, or headers that cannot be imported).
Status == {"ok", "bad", "malformed"}
Request == [of: Calls, reply: Calls, to: Workers]
Reply == [of: Calls, by: Workers, status: Status]

Init ==
  /\ http \in HttpCallbacks
  /\ pc = [c \in Calls |-> "called"]
  /\ ctx = [c \in Calls |-> "live"]
  /\ inbox = [c \in Calls |-> None]
  /\ sub = [c \in Calls |-> "none"]
  /\ resCh = [c \in Calls |-> {}]
  /\ errCh = [c \in Calls |-> {}]
  /\ ret = [c \in Calls |-> ""]
  /\ taken = [c \in Calls |-> {}]
  /\ asked = {} /\ go = {}
  /\ ran = [c \in Calls |-> 0]
  /\ crash = ""

-----------------------------------------------------------------------------
(* The call.                                                               *)

\* NewRespInbox: unique; that of call c is written c.
SharedInbox(c) == CHOOSE d \in Calls : TRUE
NewInbox(c) == c

chans == <<resCh, errCh>>
Alive == crash = ""

\* Call returns; the deferred closes run.
Return(c, v, what) ==
  /\ pc' = [pc EXCEPT ![c] = "returned"]
  /\ ret' = [ret EXCEPT ![c] = v]
  /\ taken' = [taken EXCEPT ![c] = what]

Subscribe(c) ==
  /\ Alive /\ pc[c] = "called"
  /\ inbox' = [inbox EXCEPT ![c] = NewInbox(c)]
  /\ sub' = [sub EXCEPT ![c] = "open"]
  /\ pc' = [pc EXCEPT ![c] = "subscribed"]
  /\ UNCHANGED <<http, ctx, chans, ret, taken, asked, go, ran, crash>>

\* Subscribe fails, or AutoUnsubscribe after it.
SubscribeFails(c) ==
  /\ Alive /\ pc[c] = "called"
  /\ inbox' = [inbox EXCEPT ![c] = NewInbox(c)]
  /\ \E s \in {"none", "open"} : sub' = [sub EXCEPT ![c] = s]
  /\ Return(c, "error", {})
  /\ UNCHANGED <<http, ctx, chans, asked, go, ran, crash>>

Asks(c) == asked' = asked \cup {[of |-> c, reply |-> inbox[c], to |-> w] : w \in Workers}
Publish(c) ==
  /\ Alive /\ pc[c] = "subscribed"
  /\ Asks(c)
  /\ pc' = [pc EXCEPT ![c] = "awaiting"]
  /\ UNCHANGED <<http, ctx, inbox, sub, chans, ret, taken, go, ran, crash>>

PublishFails(c) ==
  /\ Alive /\ pc[c] = "subscribed"
  /\ Return(c, "error", {})
  /\ UNCHANGED <<http, ctx, inbox, sub, chans, asked, go, ran, crash>>

\* Await selects among what is ready.
Any(m) == m.status \in {"ok", "bad"}
Below400(m) == m.status = "ok"
AwaitResponse(c) ==
  /\ Alive /\ pc[c] = "awaiting"
  /\ \E m \in resCh[c] :
       /\ Return(c, IF Below400(m) THEN "ok" ELSE "error", {m})
       /\ resCh' = [resCh EXCEPT ![c] = {}]
  /\ UNCHANGED <<http, ctx, inbox, sub, errCh, asked, go, ran, crash>>

AwaitError(c) ==
  /\ Alive /\ pc[c] = "awaiting"
  /\ \E m \in errCh[c] :
       /\ Return(c, "error", {m})
       /\ errCh' = [errCh EXCEPT ![c] = {}]
  /\ UNCHANGED <<http, ctx, inbox, sub, resCh, asked, go, ran, crash>>

NeverExpired(c) == FALSE
Expired(c) == ctx[c] = "done"
AwaitTimeout(c) ==
  /\ Alive /\ pc[c] = "awaiting" /\ Expired(c)
  /\ Return(c, "timeout", {})
  /\ UNCHANGED <<http, ctx, inbox, sub, chans, asked, go, ran, crash>>

\* The timer of the context fires.  Nobody looks at it before Await or after
\* the call: one that has fired earlier is found so here.
Expire(c) ==
  /\ Alive /\ ctx[c] = "live" /\ pc[c] = "awaiting"
  /\ ctx' = [ctx EXCEPT ![c] = "done"]
  /\ UNCHANGED <<http, pc, inbox, sub, chans, ret, taken, asked, go, ran, crash>>

-----------------------------------------------------------------------------
(* The messaging system and the client library.  A request that is lost,   *)
(* that nobody answers, or whose answer is lost stays in `asked`.          *)

\* AutoUnsubscribe(1): the first message ends the subscription.  A call
\* that has returned has not unsubscribed.
Unlimited == "open"
AfterOne == "spent"

\* A message reaches an inbox: the subscription starts a goroutine for it.
Subscribed(reply) == {c \in Calls : sub[c] = "open" /\ inbox[c] = reply}
Receive(m, to) ==
  /\ go' = go \cup {[call |-> c, msg |-> m, at |-> "handle"] : c \in to}
  /\ sub' = [c \in Calls |-> IF c \in to THEN AfterOne ELSE sub[c]]

Deliver(q, status) ==
  /\ Alive /\ q \in asked
  /\ asked' = asked \ {q}
  /\ Receive([of |-> q.of, by |-> q.to, status |-> status], Subscribed(q.reply))
  /\ UNCHANGED <<http, pc, ctx, inbox, chans, ret, taken, ran, crash>>

-----------------------------------------------------------------------------
(* The goroutine of a delivered reply: `handle`, and the deferred          *)
(* `callbacks`, which run whatever becomes of `handle`.                    *)

To(g, at) == go' = (go \ {g}) \cup IF at = "end" THEN {} ELSE {[g EXCEPT !.at = at]}

OnSuccess(g) == IF g.msg.status = "malformed" THEN "end" ELSE "callbacks"
AfterHandle(g) == "callbacks"
Send(ch, g) == [ch EXCEPT ![g.call] = {g.msg}]

HandleResponse(g, next) ==
  /\ g.at = "handle" /\ g.msg.status # "malformed"
  /\ pc[g.call] # "returned" /\ resCh[g.call] = {}
  /\ resCh' = Send(resCh, g)
  /\ To(g, next)
  /\ UNCHANGED <<http, pc, ctx, inbox, sub, errCh, ret, taken, asked, ran, crash>>

HandleError(g, next) ==
  /\ g.at = "handle" /\ g.msg.status = "malformed"
  /\ pc[g.call] # "returned" /\ errCh[g.call] = {}
  /\ errCh' = Send(errCh, g)
  /\ To(g, next)
  /\ UNCHANGED <<http, pc, ctx, inbox, sub, resCh, ret, taken, asked, ran, crash>>

\* The call has closed the channels: the send panics, and the panic goes on
\* once the deferred callbacks have run.
HandlePanics(g) ==
  /\ g.at = "handle" /\ pc[g.call] = "returned"
  /\ To(g, "panicking")
  /\ UNCHANGED <<http, pc, ctx, inbox, sub, chans, ret, taken, asked, ran, crash>>

\* The callbacks, on a request made from the reply.  It has no URL: an HTTP
\* callback, in WithUrl, writes through the nil pointer.
RunCallbacks(g) ==
  /\ g.at \in {"callbacks", "panicking"}
  /\ ran' = [ran EXCEPT ![g.call] = @ + 1]
  /\ crash' = IF http THEN "callback" ELSE IF g.at = "panicking" THEN "late" ELSE ""
  /\ go' = go \ {g}
  /\ UNCHANGED <<http, pc, ctx, inbox, sub, chans, ret, taken, asked>>

-----------------------------------------------------------------------------
Call(c) ==
  \/ Subscribe(c) \/ SubscribeFails(c) \/ Publish(c) \/ PublishFails(c)
  \/ AwaitResponse(c) \/ AwaitError(c) \/ AwaitTimeout(c)

Handler(g) ==
  /\ Alive
  /\ \/ HandleResponse(g, AfterHandle(g)) \/ HandleError(g, AfterHandle(g))
     \/ HandlePanics(g) \/ RunCallbacks(g)

Terminated ==
  /\ ~Alive \/ (go = {} /\ \A c \in Calls : pc[c] = "returned")
  /\ UNCHANGED vars

Next ==
  \/ \E c \in Calls : Call(c) \/ Expire(c)
  \/ \E q \in asked, s \in Status : Deliver(q, s)
  \/ \E g \in go : Handler(g)
  \/ Terminated

\* Goroutines are scheduled and timers fire.  Nothing is assumed of the
\* workers or of the network.
Fairness ==
  \A c \in Calls :
    /\ WF_vars(Call(c)) /\ WF_vars(Expire(c))
    /\ WF_vars(\E g \in go : g.call = c /\ Handler(g))

Spec == Init /\ [][Next]_vars
FairSpec == Spec /\ Fairness

-----------------------------------------------------------------------------
TypeOK ==
  /\ http \in HttpCallbacks
  /\ pc \in [Calls -> {"called", "subscribed", "awaiting", "returned"}]
  /\ ctx \in [Calls -> {"live", "done"}]
  /\ inbox \in [Calls -> Calls \cup {None}]
  /\ sub \in [Calls -> {"none", "open", "spent"}]
  /\ resCh \in [Calls -> SUBSET Reply] /\ errCh \in [Calls -> SUBSET Reply]
  /\ ret \in [Calls -> {"", "ok", "error", "timeout"}]
  /\ taken \in [Calls -> SUBSET Reply]
  /\ asked \subseteq Request
  /\ go \subseteq [call: Calls, msg: Reply, at: {"handle", "callbacks", "panicking"}]
  /\ \A g \in go : sub[g.call] = "spent"
  /\ ran \in [Calls -> Nat]
  /\ crash \in {"", "late", "callback"}

\* A filter lets a request through only on an answer below 400 that a worker
\* gave to that very request, however the replies to concurrent calls mix.
LetsThrough == \A c \in Calls : ret[c] = "ok" => \E m \in taken[c] : m.of = c /\ m.status = "ok"

\* Of several answers to a request only one is looked at: the callbacks of a
\* call run at most once (AutoUnsubscribe).
CallbacksOnce == \A c \in Calls : ran[c] <= 1

\* A send on a closed channel ends the process only when a call has given up
\* waiting: a call that took an answer is safe from any second one.
CrashOnlyLate ==
  /\ \A g \in go : g.at # "callbacks" /\ pc[g.call] = "returned" => ret[g.call] = "timeout"
  /\ crash = "late" => \E c \in Calls : ret[c] = "timeout" /\ ran[c] > 0

\* Every call returns, whether or not anybody answers.
CallEnds == \A c \in Calls : <>(ret[c] # "" \/ crash # "")

\* A delivered answer makes the callbacks run, also when the call has given
\* up or cannot use the answer.
CallbacksFollow ==
  \A c \in Calls : (sub[c] = "spent") ~> (ran[c] > 0 \/ crash # "")

\* An answer that comes after the timeout is just too late.
LateAnswerHarmless == crash # "late"
=============================================================================
