-------------------------- MODULE NatsFilterProofs --------------------------
(***************************************************************************)
(* Proofs about NatsFilter, for every set of calls and of workers.  The    *)
(* lemmas about the call, the delivery of a reply and its goroutine are    *)
(* also those of the durable filters (DurableNatsProofs).                  *)
(***************************************************************************)
EXTENDS NatsFilter, TLAPS

USE DEF chans, None

-----------------------------------------------------------------------------
(* The inductive invariant.                                                *)

\* A subscription is to the inbox of its own call.
OwnInbox ==
  \A c \in Calls : /\ pc[c] = "called" => sub[c] = "none"
                   /\ pc[c] = "subscribed" => sub[c] = "open"
                   /\ sub[c] = "open" => inbox[c] = c

\* A request under way is to be answered to the inbox of the call that
\* published it.
OwnRequest == \A q \in asked : q.reply = q.of /\ pc[q.of] \in {"awaiting", "returned"}

\* Answers stay with the call they answer.
OwnAnswer ==
  /\ \A g \in go : g.msg.of = g.call
  /\ \A c \in Calls : \A m \in resCh[c] \cup errCh[c] : m.of = c

\* Until its subscription is spent nothing has reached a call ...
Unanswered ==
  \A c \in Calls : sub[c] # "spent" =>
    ran[c] = 0 /\ resCh[c] = {} /\ errCh[c] = {} /\ taken[c] = {}

\* ... and then one goroutine does, which hands its answer over before it
\* runs the callbacks.
OneGoroutine ==
  \A g \in go :
    /\ ran[g.call] = 0
    /\ \A h \in go : h.call = g.call => h = g
    /\ g.at = "handle" => resCh[g.call] = {} /\ errCh[g.call] = {} /\ taken[g.call] = {}
    /\ g.at = "panicking" => pc[g.call] = "returned"

CallInv ==
  TypeOK /\ OwnInbox /\ OwnRequest /\ OwnAnswer /\ Unanswered /\ OneGoroutine /\ CallbacksOnce
    /\ LetsThrough

\* A call that has returned while a request of its own was under way, and
\* nothing had reached it, has timed out.
GaveUp ==
  \A q \in asked : sub[q.of] = "open" /\ pc[q.of] = "returned" => ret[q.of] = "timeout"

IInv == CallInv /\ GaveUp /\ CrashOnlyLate

LEMMA InitInv == Init => IInv
<1> SUFFICES ASSUME Init PROVE IInv
  OBVIOUS
<1>1. TypeOK
  <2>1. pc \in [Calls -> {"called", "subscribed", "awaiting", "returned"}]
    BY DEF Init
  <2>2. ctx \in [Calls -> {"live", "done"}] /\ sub \in [Calls -> {"none", "open", "spent"}]
    BY DEF Init
  <2>3. inbox \in [Calls -> Calls \cup {None}] /\ ran \in [Calls -> Nat]
    BY DEF Init
  <2>4. /\ resCh \in [Calls -> SUBSET Reply] /\ errCh \in [Calls -> SUBSET Reply]
        /\ taken \in [Calls -> SUBSET Reply]
    BY DEF Init
  <2>5. ret \in [Calls -> {"", "ok", "error", "timeout"}]
    BY DEF Init
  <2> QED  BY <2>1, <2>2, <2>3, <2>4, <2>5 DEF Init, TypeOK
<1>2. OwnInbox /\ OwnRequest /\ OwnAnswer
  BY DEF Init, OwnInbox, OwnRequest, OwnAnswer
<1>3. Unanswered /\ OneGoroutine
  BY DEF Init, Unanswered, OneGoroutine
<1>5. CallbacksOnce
  <2>1. \A c \in Calls : ran[c] = 0
    BY DEF Init
  <2> QED  BY <2>1 DEF CallbacksOnce
<1>4. LetsThrough /\ GaveUp /\ CrashOnlyLate
  BY DEF Init, LetsThrough, GaveUp, CrashOnlyLate
<1> QED  BY <1>1, <1>2, <1>3, <1>4, <1>5 DEF IInv, CallInv

-----------------------------------------------------------------------------
(* The steps that both kinds of filters have.                              *)

\* A worker takes a request, the process ends, or nothing happens.
LEMMA CallInvStutter ==
  ASSUME CallInv, asked' \subseteq asked, crash' \in {"", "late", "callback"} \/ crash' = crash,
         UNCHANGED <<http, pc, ctx, inbox, sub, chans, ret, taken, go, ran>>
  PROVE  CallInv'
<1>1. TypeOK'
  BY DEF CallInv, TypeOK
<1> QED
  BY <1>1 DEF CallInv, OwnInbox, OwnRequest, OwnAnswer, Unanswered, OneGoroutine,
     CallbacksOnce, LetsThrough

\* A call that has not subscribed has no request and no goroutine.
LEMMA Fresh ==
  ASSUME CallInv, NEW c \in Calls, pc[c] \in {"called", "subscribed"}
  PROVE  /\ sub[c] # "spent"
         /\ \A g \in go : g.call # c
         /\ \A q \in asked : q.of # c
<1>1. TypeOK /\ OwnInbox /\ OwnRequest
  BY DEF CallInv
<1>2. sub[c] # "spent"
  BY <1>1 DEF OwnInbox
<1>3. \A g \in go : sub[g.call] = "spent"
  BY <1>1 DEF TypeOK
<1>4. \A q \in asked : q.of = c => pc[c] \in {"awaiting", "returned"}
  BY <1>1 DEF OwnRequest
<1> QED  BY <1>2, <1>3, <1>4

LEMMA SubscribeStep ==
  ASSUME CallInv, NEW c \in Calls, Subscribe(c) \/ SubscribeFails(c)
  PROVE  CallInv'
<1>0. /\ TypeOK /\ OwnInbox /\ OwnRequest /\ OwnAnswer
      /\ Unanswered /\ OneGoroutine /\ CallbacksOnce /\ LetsThrough
  BY DEF CallInv
<1>t. /\ pc \in [Calls -> {"called", "subscribed", "awaiting", "returned"}]
       /\ sub \in [Calls -> {"none", "open", "spent"}]
       /\ inbox \in [Calls -> Calls \cup {None}]
       /\ ret \in [Calls -> {"", "ok", "error", "timeout"}]
       /\ taken \in [Calls -> SUBSET Reply]
  BY <1>0 DEF TypeOK
<1>1. pc[c] = "called"
  BY DEF Subscribe, SubscribeFails
<1>2. sub[c] = "none"
  BY <1>0, <1>1 DEF OwnInbox
<1>3. /\ \A g \in go : g.call # c
      /\ \A q \in asked : q.of # c
  BY <1>1, Fresh
<1>4. /\ UNCHANGED <<http, ctx, resCh, errCh, asked, go, ran, crash>>
      /\ inbox' = [inbox EXCEPT ![c] = c]
      /\ \E s \in {"none", "open"} : sub' = [sub EXCEPT ![c] = s]
      /\ \E s \in {"subscribed", "returned"} :
           pc' = [pc EXCEPT ![c] = s] /\ (s = "subscribed" => sub'[c] = "open")
      /\ \/ UNCHANGED <<ret, taken>>
         \/ ret' = [ret EXCEPT ![c] = "error"] /\ taken' = [taken EXCEPT ![c] = {}]
  BY <1>0 DEF Subscribe, SubscribeFails, Return, NewInbox, TypeOK
<1>5. \A d \in Calls : d # c => /\ pc'[d] = pc[d] /\ sub'[d] = sub[d] /\ inbox'[d] = inbox[d]
                                /\ ret'[d] = ret[d] /\ taken'[d] = taken[d]
  BY <1>4, <1>t
<1>6. /\ sub'[c] \in {"none", "open"} /\ pc'[c] \in {"subscribed", "returned"}
      /\ inbox'[c] = c /\ (pc'[c] = "subscribed" => sub'[c] = "open")
  <2>2. sub'[c] \in {"none", "open"} /\ inbox'[c] = c
    BY <1>4, <1>t
  <2>3. pc'[c] \in {"subscribed", "returned"} /\ (pc'[c] = "subscribed" => sub'[c] = "open")
    BY <1>4, <1>t
  <2> QED  BY <2>2, <2>3
<1>7. taken[c] = {} /\ taken'[c] = {} /\ ret'[c] \in {ret[c], "error"}
  <2>1. taken[c] = {}
    BY <1>0, <1>2 DEF Unanswered
  <2> QED  BY <1>0, <1>4, <2>1 DEF TypeOK
<1>8. \A g \in go : g.call \in Calls /\ g.call # c
  BY <1>0, <1>3 DEF TypeOK
<1>9. \A q \in asked : q.of \in Calls /\ q.of # c
  BY <1>0, <1>3 DEF TypeOK, Request
<1>10. TypeOK'
  <2>1. pc' \in [Calls -> {"called", "subscribed", "awaiting", "returned"}]
    BY <1>0, <1>4 DEF TypeOK
  <2>2. sub' \in [Calls -> {"none", "open", "spent"}]
    BY <1>0, <1>4 DEF TypeOK
  <2>3. inbox' \in [Calls -> Calls \cup {None}]
    BY <1>0, <1>4 DEF TypeOK
  <2>4. ret' \in [Calls -> {"", "ok", "error", "timeout"}]
    BY <1>0, <1>4 DEF TypeOK
  <2>5. taken' \in [Calls -> SUBSET Reply]
    BY <1>0, <1>4 DEF TypeOK
  <2>6. \A g \in go' : sub'[g.call] = "spent"
    <3>1. \A g \in go : sub[g.call] = "spent"
      BY <1>0 DEF TypeOK
    <3>2. go' = go
      BY <1>4
    <3> QED  BY <1>5, <1>8, <3>1, <3>2
  <2> QED  BY <1>0, <1>4, <2>1, <2>2, <2>3, <2>4, <2>5, <2>6 DEF TypeOK
<1>11. OwnInbox'
  BY <1>0, <1>5, <1>6 DEF OwnInbox
<1>12. OwnRequest' /\ OwnAnswer'
  BY <1>0, <1>4, <1>5, <1>9 DEF OwnRequest, OwnAnswer
<1>13. Unanswered'
  BY <1>0, <1>2, <1>4, <1>5, <1>7 DEF Unanswered
<1>14. OneGoroutine' /\ CallbacksOnce'
  BY <1>0, <1>4, <1>5, <1>8 DEF OneGoroutine, CallbacksOnce
<1>15. LetsThrough'
  <2>1. \A d \in Calls : ret'[d] = "ok" => ret[d] = "ok" /\ taken'[d] = taken[d]
    BY <1>0, <1>4, <1>5, <1>7
  <2> QED  BY <1>0, <2>1 DEF LetsThrough
<1> QED  BY <1>10, <1>11, <1>12, <1>13, <1>14, <1>15 DEF CallInv

\* The request is published, or may have been, or is not; the call waits or
\* has returned an error.
LEMMA PublishStep ==
  ASSUME CallInv, NEW c \in Calls, pc[c] = "subscribed",
         asked' = asked \/ Asks(c),
         \/ pc' = [pc EXCEPT ![c] = "awaiting"] /\ UNCHANGED <<ret, taken>>
         \/ Return(c, "error", {}),
         UNCHANGED <<http, ctx, inbox, sub, chans, go, ran, crash>>
  PROVE  CallInv'
<1>0. /\ TypeOK /\ OwnInbox /\ OwnRequest /\ OwnAnswer
      /\ Unanswered /\ OneGoroutine /\ CallbacksOnce /\ LetsThrough
  BY DEF CallInv
<1>t. /\ pc \in [Calls -> {"called", "subscribed", "awaiting", "returned"}]
      /\ ret \in [Calls -> {"", "ok", "error", "timeout"}]
      /\ taken \in [Calls -> SUBSET Reply]
      /\ asked \subseteq Request
  BY <1>0 DEF TypeOK
<1>1. sub[c] = "open" /\ inbox[c] = c
  BY <1>0 DEF OwnInbox
<1>2. /\ \E s \in {"awaiting", "returned"} : pc' = [pc EXCEPT ![c] = s]
      /\ \/ UNCHANGED <<ret, taken>>
         \/ ret' = [ret EXCEPT ![c] = "error"] /\ taken' = [taken EXCEPT ![c] = {}]
  BY DEF Return
<1>3. /\ pc'[c] \in {"awaiting", "returned"}
      /\ \A d \in Calls : d # c => pc'[d] = pc[d] /\ ret'[d] = ret[d] /\ taken'[d] = taken[d]
  BY <1>t, <1>2
<1>4. taken[c] = {} /\ taken'[c] = {} /\ ret'[c] \in {ret[c], "error"}
  <2>1. taken[c] = {}
    BY <1>0, <1>1 DEF Unanswered
  <2> QED  BY <1>t, <1>2, <2>1
<1>5. \A g \in go : g.call \in Calls /\ g.call # c
  BY <1>0, Fresh DEF TypeOK
<1>6. \A q \in asked' : q \in Request /\ (q \in asked \/ (q.of = c /\ q.reply = c))
  <2>1. CASE asked' = asked
    BY <1>t, <2>1
  <2>2. CASE Asks(c)
    <3>1. asked' = asked \cup {[of |-> c, reply |-> c, to |-> w] : w \in Workers}
      BY <1>1, <2>2 DEF Asks
    <3>2. \A w \in Workers : [of |-> c, reply |-> c, to |-> w] \in Request
      BY DEF Request
    <3>3. ASSUME NEW q \in asked' \ asked
          PROVE  q \in Request /\ q.of = c /\ q.reply = c
      <4>1. PICK w \in Workers : q = [of |-> c, reply |-> c, to |-> w]
        BY <3>1
      <4> QED  BY <3>2, <4>1
    <3> QED  BY <1>t, <3>3
  <2> QED  BY <2>1, <2>2
<1>7. TypeOK'
  <2>1. pc' \in [Calls -> {"called", "subscribed", "awaiting", "returned"}]
    BY <1>t, <1>2
  <2>2. ret' \in [Calls -> {"", "ok", "error", "timeout"}]
    BY <1>t, <1>2
  <2>3. taken' \in [Calls -> SUBSET Reply]
    BY <1>t, <1>2
  <2>4. asked' \subseteq Request
    BY <1>6
  <2> QED  BY <1>0, <2>1, <2>2, <2>3, <2>4 DEF TypeOK
<1>8. OwnInbox'
  BY <1>0, <1>3 DEF OwnInbox
<1>9. OwnRequest'
  <2>1. \A q \in asked : q.of \in Calls
    BY <1>t DEF Request
  <2> QED  BY <1>0, <1>3, <1>6, <2>1 DEF OwnRequest
<1>10. OwnAnswer'
  BY <1>0 DEF OwnAnswer
<1>11. Unanswered'
  BY <1>0, <1>3, <1>4 DEF Unanswered
<1>12. OneGoroutine' /\ CallbacksOnce'
  BY <1>0, <1>3, <1>5 DEF OneGoroutine, CallbacksOnce
<1>13. LetsThrough'
  <2>1. \A d \in Calls : ret'[d] = "ok" => ret[d] = "ok" /\ taken'[d] = taken[d]
    BY <1>3, <1>4
  <2> QED  BY <1>0, <2>1 DEF LetsThrough
<1> QED  BY <1>7, <1>8, <1>9, <1>10, <1>11, <1>12, <1>13 DEF CallInv

\* What Await does with the channels, and what it makes of it.
LEMMA AwaitFacts ==
  ASSUME CallInv, NEW c \in Calls,
         AwaitResponse(c) \/ AwaitError(c) \/ AwaitTimeout(c)
  PROVE  /\ pc[c] = "awaiting" /\ pc' = [pc EXCEPT ![c] = "returned"]
         /\ UNCHANGED <<http, ctx, inbox, sub, asked, go, ran, crash>>
         /\ resCh' \in {resCh, [resCh EXCEPT ![c] = {}]}
         /\ errCh' \in {errCh, [errCh EXCEPT ![c] = {}]}
         /\ \/ /\ ret' = [ret EXCEPT ![c] = "timeout"]
               /\ taken' = [taken EXCEPT ![c] = {}]
            \/ \E m \in resCh[c] \cup errCh[c] :
                 /\ taken' = [taken EXCEPT ![c] = {m}]
                 /\ \/ ret' = [ret EXCEPT ![c] = "error"]
                    \/ ret' = [ret EXCEPT ![c] = "ok"] /\ m.status = "ok"
<1>1. CASE AwaitResponse(c)
  BY <1>1 DEF AwaitResponse, Return, Below400
<1>2. CASE AwaitError(c)
  BY <1>2 DEF AwaitError, Return
<1>3. CASE AwaitTimeout(c)
  BY <1>3 DEF AwaitTimeout, Return
<1> QED  BY <1>1, <1>2, <1>3

LEMMA AwaitStep ==
  ASSUME CallInv, NEW c \in Calls,
         AwaitResponse(c) \/ AwaitError(c) \/ AwaitTimeout(c)
  PROVE  CallInv'
<1>0. /\ TypeOK /\ OwnInbox /\ OwnRequest /\ OwnAnswer
      /\ Unanswered /\ OneGoroutine /\ CallbacksOnce /\ LetsThrough
  BY DEF CallInv
<1>t. /\ pc \in [Calls -> {"called", "subscribed", "awaiting", "returned"}]
      /\ ret \in [Calls -> {"", "ok", "error", "timeout"}]
      /\ taken \in [Calls -> SUBSET Reply]
      /\ resCh \in [Calls -> SUBSET Reply] /\ errCh \in [Calls -> SUBSET Reply]
  BY <1>0 DEF TypeOK
<1>1. /\ pc[c] = "awaiting" /\ pc' = [pc EXCEPT ![c] = "returned"]
      /\ UNCHANGED <<http, ctx, inbox, sub, asked, go, ran, crash>>
      /\ resCh' \in {resCh, [resCh EXCEPT ![c] = {}]}
      /\ errCh' \in {errCh, [errCh EXCEPT ![c] = {}]}
  BY AwaitFacts
<1>2. \/ /\ ret' = [ret EXCEPT ![c] = "timeout"]
         /\ taken' = [taken EXCEPT ![c] = {}]
      \/ \E m \in resCh[c] \cup errCh[c] :
           /\ taken' = [taken EXCEPT ![c] = {m}]
           /\ \/ ret' = [ret EXCEPT ![c] = "error"]
              \/ ret' = [ret EXCEPT ![c] = "ok"] /\ m.status = "ok"
  BY AwaitFacts
<1>3. \A d \in Calls : d # c => /\ pc'[d] = pc[d] /\ resCh'[d] = resCh[d] /\ errCh'[d] = errCh[d]
  BY <1>t, <1>1
<1>4. \A d \in Calls : d # c => ret'[d] = ret[d] /\ taken'[d] = taken[d]
  BY <1>t, <1>2
<1>5. /\ pc'[c] = "returned"
      /\ resCh'[c] \subseteq resCh[c] /\ errCh'[c] \subseteq errCh[c]
  BY <1>t, <1>1
<1>6. /\ resCh[c] \cup errCh[c] = {} => taken'[c] = {}
      /\ ret'[c] = "ok" => \E m \in taken'[c] : m.of = c /\ m.status = "ok"
  <2>1. \A m \in resCh[c] \cup errCh[c] : m.of = c
    BY <1>0 DEF OwnAnswer
  <2> QED  BY <1>t, <1>2, <2>1
<1>7. TypeOK'
  <2>1. pc' \in [Calls -> {"called", "subscribed", "awaiting", "returned"}]
    BY <1>t, <1>1
  <2>2. ret' \in [Calls -> {"", "ok", "error", "timeout"}]
    BY <1>t, <1>2
  <2>3. taken' \in [Calls -> SUBSET Reply]
    <3>1. \A m \in resCh[c] \cup errCh[c] : {m} \in SUBSET Reply
      BY <1>t
    <3>2. \E S \in SUBSET Reply : taken' = [taken EXCEPT ![c] = S]
      BY <1>2, <3>1
    <3> QED  BY <1>t, <3>2
  <2>4. resCh' \in [Calls -> SUBSET Reply] /\ errCh' \in [Calls -> SUBSET Reply]
    BY <1>t, <1>1
  <2> QED  BY <1>0, <1>1, <2>1, <2>2, <2>3, <2>4 DEF TypeOK
<1>8. OwnInbox' /\ OwnRequest'
  <2>1. \A q \in asked : q.of \in Calls
    BY <1>0 DEF TypeOK, Request
  <2> QED  BY <1>0, <1>1, <1>3, <1>5, <2>1 DEF OwnInbox, OwnRequest
<1>9. OwnAnswer'
  <2>1. \A d \in Calls : resCh'[d] \subseteq resCh[d] /\ errCh'[d] \subseteq errCh[d]
    BY <1>3, <1>5
  <2> QED  BY <1>0, <1>1, <2>1 DEF OwnAnswer
<1>10. Unanswered'
  BY <1>0, <1>1, <1>3, <1>4, <1>5, <1>6 DEF Unanswered
<1>11. OneGoroutine' /\ CallbacksOnce'
  <2>1. \A g \in go : g.call \in Calls
    BY <1>0 DEF TypeOK
  <2> QED  BY <1>0, <1>1, <1>3, <1>4, <1>5, <1>6, <2>1 DEF OneGoroutine, CallbacksOnce
<1>12. LetsThrough'
  BY <1>0, <1>4, <1>6 DEF LetsThrough
<1> QED  BY <1>7, <1>8, <1>9, <1>10, <1>11, <1>12 DEF CallInv

LEMMA ExpireStep ==
  ASSUME CallInv, NEW c \in Calls, Expire(c)
  PROVE  CallInv'
<1>1. /\ UNCHANGED <<http, pc, inbox, sub, chans, ret, taken, asked, go, ran, crash>>
      /\ ctx' = [ctx EXCEPT ![c] = "done"]
  BY DEF Expire
<1>2. TypeOK'
  BY <1>1 DEF CallInv, TypeOK
<1> QED
  BY <1>1, <1>2 DEF CallInv, OwnInbox, OwnRequest, OwnAnswer, Unanswered, OneGoroutine,
     CallbacksOnce, LetsThrough

\* A reply reaches an inbox.
LEMMA ReceiveStep ==
  ASSUME CallInv, NEW m \in Reply, pc[m.of] \in {"awaiting", "returned"},
         NEW to, to = {} \/ to = Subscribed(m.of), Receive(m, to),
         asked' \subseteq asked,
         UNCHANGED <<http, pc, ctx, inbox, chans, ret, taken, ran, crash>>
  PROVE  CallInv'
<1>0. /\ TypeOK /\ OwnInbox /\ OwnRequest /\ OwnAnswer
      /\ Unanswered /\ OneGoroutine /\ CallbacksOnce /\ LetsThrough
  BY DEF CallInv
<1>1. m.of \in Calls
  BY DEF Reply
<1>2. to \subseteq {m.of} /\ (m.of \in to => sub[m.of] = "open")
  BY <1>0 DEF Subscribed, OwnInbox
<1>3. sub' = [d \in Calls |-> IF d \in to THEN "spent" ELSE sub[d]]
  BY DEF Receive, AfterOne
<1>4. CASE to = {}
  <2>1. go' = go
    BY <1>4 DEF Receive
  <2>2. sub' = sub
    BY <1>0, <1>3, <1>4 DEF TypeOK
  <2>3. TypeOK'
    BY <1>0, <2>1, <2>2 DEF TypeOK
  <2> QED
    BY <1>0, <2>1, <2>2, <2>3 DEF CallInv, OwnInbox, OwnRequest, OwnAnswer, Unanswered,
       OneGoroutine, CallbacksOnce, LetsThrough
<1>5. CASE to = {m.of}
  <2> DEFINE g == [call |-> m.of, msg |-> m, at |-> "handle"]
  <2>1. go' = go \cup {g}
    BY <1>5 DEF Receive
  <2>2. sub[m.of] = "open" /\ sub'[m.of] = "spent"
    BY <1>1, <1>2, <1>3, <1>5
  <2>3. \A d \in Calls : d # m.of => sub'[d] = sub[d]
    BY <1>3, <1>5
  <2>4. \A h \in go : h.call \in Calls /\ h.call # m.of /\ sub[h.call] = "spent"
    BY <1>0, <2>2 DEF TypeOK
  <2>5. ran[m.of] = 0 /\ resCh[m.of] = {} /\ errCh[m.of] = {} /\ taken[m.of] = {}
    BY <1>0, <1>1, <2>2 DEF Unanswered
  <2>6. TypeOK'
    <3>1. g \in [call: Calls, msg: Reply, at: {"handle", "callbacks", "panicking"}]
      BY <1>1
    <3>2. go' \subseteq [call: Calls, msg: Reply, at: {"handle", "callbacks", "panicking"}]
      BY <1>0, <2>1, <3>1 DEF TypeOK
    <3>3. sub' \in [Calls -> {"none", "open", "spent"}]
      BY <1>0, <1>3 DEF TypeOK
    <3>4. \A h \in go' : sub'[h.call] = "spent"
      BY <2>1, <2>2, <2>3, <2>4
    <3> QED  BY <1>0, <3>2, <3>3, <3>4 DEF TypeOK
  <2>7. OwnInbox'
    BY <1>0, <2>2, <2>3 DEF OwnInbox
  <2>8. OwnRequest'
    BY <1>0 DEF OwnRequest
  <2>9. OwnAnswer'
    BY <1>0, <2>1 DEF OwnAnswer
  <2>10. Unanswered'
    BY <1>0, <2>2, <2>3 DEF Unanswered
  <2>11. OneGoroutine'
    BY <1>0, <2>1, <2>4, <2>5 DEF OneGoroutine
  <2>12. CallbacksOnce' /\ LetsThrough'
    BY <1>0 DEF CallbacksOnce, LetsThrough
  <2> QED  BY <2>6, <2>7, <2>8, <2>9, <2>10, <2>11, <2>12 DEF CallInv
<1> QED  BY <1>2, <1>4, <1>5

\* The goroutine of a reply hands it over.
LEMMA HandleStep ==
  ASSUME CallInv, NEW g \in go, NEW next \in {"callbacks", "end"},
         HandleResponse(g, next) \/ HandleError(g, next)
  PROVE  CallInv'
<1>0. /\ TypeOK /\ OwnInbox /\ OwnRequest /\ OwnAnswer
      /\ Unanswered /\ OneGoroutine /\ CallbacksOnce /\ LetsThrough
  BY DEF CallInv
<1> DEFINE c == g.call
           h == [g EXCEPT !.at = next]
<1>1. /\ g \in [call: Calls, msg: Reply, at: {"handle", "callbacks", "panicking"}]
      /\ c \in Calls /\ g.msg \in Reply /\ g.msg.of = c /\ sub[c] = "spent"
  BY <1>0 DEF TypeOK, OwnAnswer
<1>t. resCh \in [Calls -> SUBSET Reply] /\ errCh \in [Calls -> SUBSET Reply]
  BY <1>0 DEF TypeOK
<1>2. /\ g.at = "handle" /\ UNCHANGED <<http, pc, ctx, inbox, sub, ret, taken, asked, ran, crash>>
      /\ resCh' \in {resCh, [resCh EXCEPT ![c] = {g.msg}]}
      /\ errCh' \in {errCh, [errCh EXCEPT ![c] = {g.msg}]}
      /\ To(g, next)
  BY DEF HandleResponse, HandleError, Send
<1>3. \A k \in go' : k \in go \ {g} \/ (k = h /\ next = "callbacks")
  BY <1>2 DEF To
<1>4. \A d \in Calls : d # c => resCh'[d] = resCh[d] /\ errCh'[d] = errCh[d]
  BY <1>1, <1>2, <1>t
<1>5. \A m \in resCh'[c] \cup errCh'[c] : m \in resCh[c] \cup errCh[c] \cup {g.msg}
  BY <1>1, <1>2, <1>t
<1>6. /\ h.call = c /\ h.msg = g.msg /\ h.at = next
      /\ next = "callbacks"
           => h \in [call: Calls, msg: Reply, at: {"handle", "callbacks", "panicking"}]
  BY <1>1
<1>7. \A k \in go \ {g} : k.call \in Calls /\ k.call # c
  BY <1>0, <1>1 DEF OneGoroutine, TypeOK
<1>8. TypeOK'
  <2>1. resCh' \in [Calls -> SUBSET Reply] /\ errCh' \in [Calls -> SUBSET Reply]
    <3>1. {g.msg} \in SUBSET Reply
      BY <1>1
    <3> QED  BY <1>1, <1>2, <1>t, <3>1
  <2>2. go' \subseteq [call: Calls, msg: Reply, at: {"handle", "callbacks", "panicking"}]
    BY <1>0, <1>3, <1>6 DEF TypeOK
  <2>3. \A k \in go' : sub'[k.call] = "spent"
    <3>1. \A k \in go : sub[k.call] = "spent"
      BY <1>0 DEF TypeOK
    <3> QED  BY <1>1, <1>2, <1>3, <1>6, <3>1
  <2> QED  BY <1>0, <1>2, <2>1, <2>2, <2>3 DEF TypeOK
<1>9. OwnInbox' /\ OwnRequest'
  BY <1>0, <1>2 DEF OwnInbox, OwnRequest
<1>10. OwnAnswer'
  <2>1. \A d \in Calls : \A m \in resCh'[d] \cup errCh'[d] : m.of = d
    BY <1>0, <1>1, <1>4, <1>5 DEF OwnAnswer
  <2>2. \A k \in go' : k.msg.of = k.call
    BY <1>0, <1>1, <1>3, <1>6 DEF OwnAnswer
  <2> QED  BY <2>1, <2>2 DEF OwnAnswer
<1>11. Unanswered'
  BY <1>0, <1>1, <1>2, <1>4 DEF Unanswered
<1>12. OneGoroutine'
  <2>1. ran[c] = 0
    BY <1>0 DEF OneGoroutine
  <2> QED  BY <1>0, <1>2, <1>3, <1>4, <1>6, <1>7, <2>1 DEF OneGoroutine
<1>13. CallbacksOnce' /\ LetsThrough'
  BY <1>0, <1>2 DEF CallbacksOnce, LetsThrough
<1> QED  BY <1>8, <1>9, <1>10, <1>11, <1>12, <1>13 DEF CallInv

-----------------------------------------------------------------------------
(* The steps of a core filter, and its theorems.                           *)

\* HandlePanics and RunCallbacks.
LEMMA CallbacksStep ==
  ASSUME CallInv, NEW g \in go, HandlePanics(g) \/ (Alive /\ RunCallbacks(g))
  PROVE  CallInv'
<1>0. /\ TypeOK /\ OwnInbox /\ OwnRequest /\ OwnAnswer
      /\ Unanswered /\ OneGoroutine /\ CallbacksOnce /\ LetsThrough
  BY DEF CallInv
<1> DEFINE c == g.call
           h == [g EXCEPT !.at = "panicking"]
<1>1. /\ g \in [call: Calls, msg: Reply, at: {"handle", "callbacks", "panicking"}]
      /\ c \in Calls /\ g.msg.of = c /\ sub[c] = "spent" /\ ran[c] = 0
      /\ ran \in [Calls -> Nat]
  BY <1>0 DEF TypeOK, OwnAnswer, OneGoroutine
<1>2. /\ UNCHANGED <<http, pc, ctx, inbox, sub, chans, ret, taken, asked>>
      /\ ran' = ran \/ ran' = [ran EXCEPT ![c] = ran[c] + 1]
      /\ crash' \in {"", "late", "callback"}
  BY <1>0 DEF HandlePanics, RunCallbacks, TypeOK
<1>3. \A k \in go' : k \in go \ {g} \/ (k = h /\ pc[c] = "returned" /\ ran' = ran)
  BY DEF HandlePanics, RunCallbacks, To
<1>4. /\ h.call = c /\ h.msg = g.msg /\ h.at = "panicking"
      /\ h \in [call: Calls, msg: Reply, at: {"handle", "callbacks", "panicking"}]
  BY <1>1
<1>5. \A k \in go \ {g} : k.call \in Calls /\ k.call # c
  BY <1>0, <1>1 DEF OneGoroutine, TypeOK
<1>6. /\ ran' \in [Calls -> Nat]
      /\ ran'[c] <= 1 /\ \A d \in Calls : d # c => ran'[d] = ran[d]
  <2>1. CASE ran' = ran
    BY <1>1, <2>1
  <2>2. CASE ran' = [ran EXCEPT ![c] = ran[c] + 1]
    BY <1>1, <2>2
  <2> QED  BY <1>2, <2>1, <2>2
<1>7. TypeOK'
  <2>2. go' \subseteq [call: Calls, msg: Reply, at: {"handle", "callbacks", "panicking"}]
    BY <1>0, <1>3, <1>4 DEF TypeOK
  <2>3. \A k \in go' : sub'[k.call] = "spent"
    <3>1. \A k \in go : sub[k.call] = "spent"
      BY <1>0 DEF TypeOK
    <3> QED  BY <1>1, <1>2, <1>3, <1>4, <3>1
  <2> QED  BY <1>0, <1>2, <1>6, <2>2, <2>3 DEF TypeOK
<1>8. OwnInbox' /\ OwnRequest'
  BY <1>0, <1>2 DEF OwnInbox, OwnRequest
<1>9. OwnAnswer'
  BY <1>0, <1>1, <1>2, <1>3, <1>4 DEF OwnAnswer
<1>10. Unanswered'
  BY <1>0, <1>1, <1>2, <1>6 DEF Unanswered
<1>11. OneGoroutine'
  <2>1. \A k \in go' : ran'[k.call] = 0
    BY <1>0, <1>1, <1>3, <1>4, <1>5, <1>6 DEF OneGoroutine
  <2>2. \A k, l \in go' : k.call = l.call => k = l
    BY <1>0, <1>3, <1>4, <1>5 DEF OneGoroutine
  <2>3. \A k \in go' : k.at = "handle" =>
          resCh'[k.call] = {} /\ errCh'[k.call] = {} /\ taken'[k.call] = {}
    BY <1>0, <1>2, <1>3, <1>4 DEF OneGoroutine
  <2>4. \A k \in go' : k.at = "panicking" => pc'[k.call] = "returned"
    BY <1>0, <1>2, <1>3, <1>4 DEF OneGoroutine
  <2> QED  BY <2>1, <2>2, <2>3, <2>4 DEF OneGoroutine
<1>12. CallbacksOnce'
  BY <1>0, <1>6 DEF CallbacksOnce
<1>13. LetsThrough'
  BY <1>0, <1>2 DEF LetsThrough
<1> QED  BY <1>7, <1>8, <1>9, <1>10, <1>11, <1>12, <1>13 DEF CallInv

\* Deliver is a reply that reaches an inbox.
LEMMA DeliverStep ==
  ASSUME CallInv, NEW q \in asked, NEW s \in Status, Deliver(q, s)
  PROVE  CallInv'
<1> DEFINE m == [of |-> q.of, by |-> q.to, status |-> s]
<1>1. q \in Request /\ q.reply = q.of /\ pc[q.of] \in {"awaiting", "returned"}
  BY DEF CallInv, TypeOK, OwnRequest
<1>2. m \in Reply /\ m.of = q.of
  BY <1>1 DEF Request, Reply
<1>3. /\ Receive(m, Subscribed(q.reply)) /\ asked' = asked \ {q}
      /\ UNCHANGED <<http, pc, ctx, inbox, chans, ret, taken, ran, crash>>
  BY DEF Deliver
<1> QED  BY <1>1, <1>2, <1>3, ReceiveStep

LEMMA CallInvStep == CallInv /\ [Next]_vars => CallInv'
<1> SUFFICES ASSUME CallInv, [Next]_vars PROVE CallInv'
  OBVIOUS
<1>1. ASSUME NEW c \in Calls, Call(c) PROVE CallInv'
  <2>1. CASE Subscribe(c) \/ SubscribeFails(c)
    BY <2>1, SubscribeStep
  <2>2. CASE Publish(c)
    BY <2>2, PublishStep DEF Publish
  <2>3. CASE PublishFails(c)
    BY <2>3, PublishStep DEF PublishFails
  <2>4. CASE AwaitResponse(c) \/ AwaitError(c) \/ AwaitTimeout(c)
    BY <2>4, AwaitStep
  <2> QED  BY <1>1, <2>1, <2>2, <2>3, <2>4 DEF Call
<1>2. ASSUME NEW c \in Calls, Expire(c) PROVE CallInv'
  BY <1>2, ExpireStep
<1>3. ASSUME NEW q \in asked, NEW s \in Status, Deliver(q, s) PROVE CallInv'
  BY <1>3, DeliverStep
<1>4. ASSUME NEW g \in go, Handler(g) PROVE CallInv'
  <2>1. CASE HandleResponse(g, AfterHandle(g)) \/ HandleError(g, AfterHandle(g))
    BY <2>1, HandleStep DEF AfterHandle
  <2>2. CASE HandlePanics(g) \/ RunCallbacks(g)
    BY <1>4, <2>2, CallbacksStep DEF Handler
  <2> QED  BY <1>4, <2>1, <2>2 DEF Handler
<1>5. CASE UNCHANGED vars
  BY <1>5, CallInvStutter DEF vars
<1> QED  BY <1>1, <1>2, <1>3, <1>4, <1>5 DEF Next, Terminated

\* A call that returns while nothing has reached it, or its goroutine still
\* holds the answer, has timed out: GaveUp and the goroutines' half of
\* CrashOnlyLate.
LEMMA GaveUpStep == IInv /\ [Next]_vars => GaveUp' /\ CrashOnlyLate'
<1> SUFFICES ASSUME IInv, [Next]_vars PROVE GaveUp' /\ CrashOnlyLate'
  OBVIOUS
<1>0. /\ CallInv /\ GaveUp /\ CrashOnlyLate
      /\ TypeOK /\ OwnInbox /\ OwnRequest /\ OwnAnswer /\ Unanswered /\ OneGoroutine
  BY DEF IInv, CallInv
<1>t. /\ pc \in [Calls -> {"called", "subscribed", "awaiting", "returned"}]
      /\ sub \in [Calls -> {"none", "open", "spent"}]
      /\ ret \in [Calls -> {"", "ok", "error", "timeout"}]
      /\ ran \in [Calls -> Nat]
      /\ \A q \in asked : q.of \in Calls
      /\ \A g \in go : g.call \in Calls
  BY <1>0 DEF TypeOK, Request
<1>1. ASSUME NEW c \in Calls, Subscribe(c) \/ SubscribeFails(c) \/ PublishFails(c)
      PROVE  GaveUp' /\ CrashOnlyLate'
  <2>1. /\ \A q \in asked : q.of # c
        /\ \A g \in go : g.call # c
    BY <1>0, <1>1, Fresh DEF Subscribe, SubscribeFails, PublishFails
  <2>2. crash' = "" /\ asked' = asked /\ go' = go
    BY <1>1 DEF Subscribe, SubscribeFails, PublishFails, Alive
  <2>3. \A d \in Calls : d # c => pc'[d] = pc[d] /\ sub'[d] = sub[d] /\ ret'[d] = ret[d]
    BY <1>1, <1>t DEF Subscribe, SubscribeFails, PublishFails, Return
  <2>4. GaveUp'
    BY <1>0, <1>t, <2>1, <2>2, <2>3 DEF GaveUp
  <2> QED  BY <1>0, <1>t, <2>1, <2>2, <2>3, <2>4 DEF CrashOnlyLate
<1>2. ASSUME NEW c \in Calls, Publish(c) PROVE GaveUp' /\ CrashOnlyLate'
  <2>1. /\ crash' = "" /\ go' = go /\ sub' = sub /\ ret' = ret
        /\ pc' = [pc EXCEPT ![c] = "awaiting"]
    BY <1>2 DEF Publish, Alive
  <2>2. \A q \in asked' : q \in asked \/ q.of = c
    BY <1>2 DEF Publish, Asks
  <2>3. pc'[c] = "awaiting" /\ \A d \in Calls : d # c => pc'[d] = pc[d]
    BY <1>t, <2>1
  <2>4. GaveUp'
    BY <1>0, <1>t, <2>1, <2>2, <2>3 DEF GaveUp
  <2> QED  BY <1>0, <1>t, <2>1, <2>3, <2>4 DEF CrashOnlyLate
<1>3. ASSUME NEW c \in Calls, AwaitResponse(c) \/ AwaitError(c) \/ AwaitTimeout(c)
      PROVE  GaveUp' /\ CrashOnlyLate'
  <2>1. /\ pc[c] = "awaiting" /\ pc' = [pc EXCEPT ![c] = "returned"]
        /\ go' = go /\ asked' = asked /\ sub' = sub /\ crash' = crash
        /\ resCh[c] \cup errCh[c] = {} => ret' = [ret EXCEPT ![c] = "timeout"]
    BY <1>0, <1>3, AwaitFacts
  <2>2. crash = ""
    BY <1>3 DEF AwaitResponse, AwaitError, AwaitTimeout, Alive
  <2>3. \A d \in Calls : d # c => pc'[d] = pc[d] /\ ret'[d] = ret[d]
    BY <1>3, <1>t DEF AwaitResponse, AwaitError, AwaitTimeout, Return
  <2>4. resCh[c] \cup errCh[c] = {} => ret'[c] = "timeout"
    BY <1>t, <2>1
  <2>5. sub[c] = "open" => ret'[c] = "timeout"
    BY <1>0, <2>4 DEF Unanswered
  <2>6. \A g \in go : g.call = c /\ g.at # "callbacks" => ret'[c] = "timeout"
    <3>1. \A g \in go : g.at \in {"handle", "callbacks", "panicking"}
      BY <1>0 DEF TypeOK
    <3> QED  BY <1>0, <2>1, <2>4, <3>1 DEF OneGoroutine
  <2>7. GaveUp'
    BY <1>0, <1>t, <2>1, <2>3, <2>5 DEF GaveUp
  <2> QED  BY <1>0, <1>t, <2>1, <2>2, <2>3, <2>6, <2>7 DEF CrashOnlyLate
<1>4. ASSUME NEW c \in Calls, Expire(c) PROVE GaveUp' /\ CrashOnlyLate'
  BY <1>0, <1>4 DEF Expire, GaveUp, CrashOnlyLate
<1>5. ASSUME NEW q \in asked, NEW s \in Status, Deliver(q, s)
      PROVE  GaveUp' /\ CrashOnlyLate'
  <2> DEFINE to == Subscribed(q.reply)
  <2>1. /\ crash' = "" /\ asked' \subseteq asked /\ pc' = pc /\ ret' = ret
        /\ sub' = [d \in Calls |-> IF d \in to THEN "spent" ELSE sub[d]]
    BY <1>5 DEF Deliver, Receive, AfterOne, Alive
  <2>2. \A d \in to : sub[d] = "open" /\ d = q.of
    BY <1>0 DEF Subscribed, OwnInbox, OwnRequest
  <2>3. \A g \in go' : g \in go \/ (g.call \in to /\ g.call = q.of)
    BY <1>5, <2>2 DEF Deliver, Receive
  <2>4. \A d \in to : pc[d] = "returned" => ret[d] = "timeout"
    BY <1>0, <2>2 DEF GaveUp
  <2>5. \A d \in Calls : sub'[d] = "open" => sub[d] = "open"
    BY <2>1
  <2>6. GaveUp'
    BY <1>0, <1>t, <2>1, <2>5 DEF GaveUp
  <2> QED  BY <1>0, <2>1, <2>3, <2>4, <2>6 DEF CrashOnlyLate
<1>6. ASSUME NEW g \in go, Handler(g) PROVE GaveUp' /\ CrashOnlyLate'
  <2>1. /\ crash = "" /\ UNCHANGED <<pc, sub, ret, asked>>
    BY <1>6 DEF Handler, Alive, HandleResponse, HandleError, HandlePanics, RunCallbacks
  <2>2. GaveUp'
    BY <1>0, <2>1 DEF GaveUp
  <2>3. CASE HandleResponse(g, AfterHandle(g)) \/ HandleError(g, AfterHandle(g))
    <3>1. /\ crash' = ""
          /\ \A k \in go' : k \in go \/ k = [g EXCEPT !.at = "callbacks"]
      BY <2>1, <2>3 DEF HandleResponse, HandleError, To, AfterHandle
    <3>2. \A k \in go' : k \in go \/ k.at = "callbacks"
      BY <1>0, <3>1 DEF TypeOK
    <3> QED  BY <1>0, <2>1, <2>2, <3>1, <3>2 DEF CrashOnlyLate
  <2>4. CASE HandlePanics(g)
    <3>1. /\ crash' = "" /\ g.at = "handle"
          /\ \A k \in go' : k \in go \/ k = [g EXCEPT !.at = "panicking"]
      BY <2>1, <2>4 DEF HandlePanics, To
    <3>2. \A k \in go' : k \in go \/ k.call = g.call
      BY <1>0, <3>1 DEF TypeOK
    <3> QED  BY <1>0, <2>1, <2>2, <3>1, <3>2 DEF CrashOnlyLate
  <2>5. CASE RunCallbacks(g)
    <3>1. /\ go' \subseteq go /\ ran' = [ran EXCEPT ![g.call] = ran[g.call] + 1]
          /\ crash' = "late" => g.at = "panicking"
      BY <2>5 DEF RunCallbacks
    <3>2. g.at = "panicking" => ret[g.call] = "timeout"
      BY <1>0 DEF OneGoroutine, CrashOnlyLate
    <3>3. ran'[g.call] > 0
      <4>1. ran[g.call] = 0
        BY <1>0 DEF OneGoroutine
      <4>2. ran'[g.call] = ran[g.call] + 1
        BY <1>t, <3>1
      <4> QED  BY <4>1, <4>2
    <3> QED  BY <1>0, <1>t, <2>1, <2>2, <3>1, <3>2, <3>3 DEF CrashOnlyLate
  <2> QED  BY <1>6, <2>3, <2>4, <2>5 DEF Handler
<1>7. CASE UNCHANGED vars
  BY <1>0, <1>7 DEF vars, GaveUp, CrashOnlyLate
<1> QED  BY <1>1, <1>2, <1>3, <1>4, <1>5, <1>6, <1>7 DEF Next, Terminated, Call

LEMMA Invariance == Spec => []IInv
<1>1. IInv /\ [Next]_vars => IInv'
  BY CallInvStep, GaveUpStep DEF IInv
<1> QED  BY InitInv, <1>1, PTL DEF Spec

\* Type correctness of the calls of a filter.
THEOREM TypeCorrect == Spec => []TypeOK
<1>1. IInv => TypeOK
  BY DEF IInv, CallInv
<1> QED  BY Invariance, <1>1, PTL

\* However many calls are under way, a filter lets a request through only on
\* an answer below 400 that a worker gave to that very request.
THEOREM LetsThroughHolds == Spec => []LetsThrough
<1>1. IInv => LetsThrough
  BY DEF IInv, CallInv
<1> QED  BY Invariance, <1>1, PTL

\* However many workers answer, the callbacks of a call run at most once.
THEOREM CallbacksOnceHolds == Spec => []CallbacksOnce
<1>1. IInv => CallbacksOnce
  BY DEF IInv, CallInv
<1> QED  BY Invariance, <1>1, PTL

\* The send on a closed channel that ends the process needs a call that has
\* given up waiting: one that took an answer is safe from later ones.
THEOREM CrashOnlyLateHolds == Spec => []CrashOnlyLate
<1>1. IInv => CrashOnlyLate
  BY DEF IInv
<1> QED  BY Invariance, <1>1, PTL
=============================================================================
