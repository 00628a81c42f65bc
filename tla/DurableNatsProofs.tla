------------------------- MODULE DurableNatsProofs -------------------------
(***************************************************************************)
(* Proofs about DurableNats, for every set of calls, workers and filters,  *)
(* and any number of redeliveries, crashes and restarts.                   *)
(***************************************************************************)
EXTENDS DurableNats, NatsFilterProofs

USE DEF chans, None

-----------------------------------------------------------------------------
(* The inductive invariant.                                                *)

\* An answer in the queues is to go to the inbox of the call it answers.
OwnReply == \A a \in answers : a.reply = a.of /\ pc[a.of] \in {"awaiting", "returned"}

DInv == CallInv /\ DTypeOK /\ OwnReply /\ SettledMeansDone /\ LateOnly

LEMMA DInitInv == DInit => DInv
<1> SUFFICES ASSUME DInit PROVE DInv
  OBVIOUS
<1>1. CallInv
  BY InitInv DEF DInit, IInv
<1>2. DTypeOK
  BY <1>1, DurableAssumption DEF DInit, DTypeOK, CallInv
<1>3. crash = ""
  BY DEF DInit, Init
<1>4. OwnReply /\ SettledMeansDone /\ LateOnly
  BY <1>3 DEF DInit, OwnReply, SettledMeansDone, Settled, LateOnly
<1> QED  BY <1>1, <1>2, <1>4 DEF DInv

-----------------------------------------------------------------------------
(* Steps of the calls; the queues stay as they are.                        *)

\* The queues' part of the invariant.
LEMMA QueueStutter ==
  ASSUME DInv, UNCHANGED durable, CallInv',
         \A c \in Calls : pc[c] \in {"awaiting", "returned"} => pc'[c] \in {"awaiting", "returned"}
  PROVE  DTypeOK' /\ OwnReply' /\ SettledMeansDone'
<1>1. /\ UNCHANGED <<answers, queued, unacked, early, held, handled, called>>
      /\ DTypeOK /\ OwnReply /\ SettledMeansDone /\ TypeOK'
  BY DEF durable, channel, done, DInv, CallInv
<1>2. DTypeOK'
  BY <1>1 DEF DTypeOK
<1>3. \A a \in answers : a.of \in Calls
  BY <1>1 DEF DTypeOK, Answer
<1>4. OwnReply'
  BY <1>1, <1>3 DEF OwnReply
<1>5. SettledMeansDone'
  BY <1>1 DEF SettledMeansDone, Settled
<1> QED  BY <1>2, <1>4, <1>5

LEMMA DCallStep ==
  ASSUME DInv, NEW c \in Calls, DCall(c) \/ PushUnconfirmed(c) \/ DExpire(c)
  PROVE  DInv'
<1>0. CallInv /\ TypeOK /\ pc \in [Calls -> {"called", "subscribed", "awaiting", "returned"}]
  BY DEF DInv, CallInv, TypeOK
<1>1. CallInv'
  <2>1. CASE DCall(c)
    <3>1. CASE Subscribe(c) \/ SubscribeFails(c)
      BY <1>0, <3>1, SubscribeStep
    <3>2. CASE Publish(c)
      BY <1>0, <3>2, PublishStep DEF Publish
    <3>3. CASE PublishFails(c)
      BY <1>0, <3>3, PublishStep DEF PublishFails
    <3>4. CASE AwaitResponse(c) \/ AwaitError(c) \/ AwaitTimeout(c)
      BY <1>0, <3>4, AwaitStep
    <3> QED  BY <2>1, <3>1, <3>2, <3>3, <3>4 DEF DCall, Call
  <2>2. CASE PushUnconfirmed(c)
    BY <1>0, <2>2, PublishStep DEF PushUnconfirmed
  <2>3. CASE DExpire(c)
    BY <1>0, <2>3, ExpireStep DEF DExpire
  <2> QED  BY <2>1, <2>2, <2>3
<1>2. /\ UNCHANGED durable /\ crash' = ""
      /\ \E s \in {pc[c], "awaiting", "returned", "subscribed"} :
           /\ pc' = [pc EXCEPT ![c] = s]
           /\ s = "subscribed" => pc[c] \notin {"awaiting", "returned"}
  <2>1. CASE DCall(c)
    BY <2>1 DEF DCall, Call, Subscribe, SubscribeFails, Publish, PublishFails, AwaitResponse,
       AwaitError, AwaitTimeout, Return, Alive
  <2>2. CASE PushUnconfirmed(c)
    BY <2>2 DEF PushUnconfirmed, Return, Alive, durable, channel, done
  <2>3. CASE DExpire(c)
    BY <1>0, <2>3 DEF DExpire, Expire, Alive
  <2> QED  BY <2>1, <2>2, <2>3
<1>3. \A d \in Calls : pc[d] \in {"awaiting", "returned"} => pc'[d] \in {"awaiting", "returned"}
  BY <1>0, <1>2
<1>4. DTypeOK' /\ OwnReply' /\ SettledMeansDone'
  BY <1>1, <1>2, <1>3, QueueStutter
<1> QED  BY <1>1, <1>2, <1>4 DEF DInv, LateOnly

\* The goroutine of a reply.
LEMMA DHandlerStep ==
  ASSUME DInv, NEW g \in go, DHandler(g)
  PROVE  DInv'
<1>0. CallInv /\ TypeOK /\ OwnAnswer /\ OneGoroutine /\ OwnInbox /\ OwnRequest /\ Unanswered
  BY DEF DInv, CallInv
<1>1. CASE HandleResponse(g, "end") \/ HandleError(g, "end")
  <2>1. CallInv'
    BY <1>0, <1>1, HandleStep
  <2>2. UNCHANGED <<pc, crash>> /\ UNCHANGED durable /\ crash = ""
    BY <1>1 DEF DHandler, HandleResponse, HandleError, Alive
  <2>3. DTypeOK' /\ OwnReply' /\ SettledMeansDone'
    BY <2>1, <2>2, QueueStutter
  <2> QED  BY <2>1, <2>2, <2>3 DEF DInv, LateOnly
<1>2. CASE SendPanics(g)
  <2>1. /\ UNCHANGED <<http, pc, ctx, inbox, sub, chans, ret, taken, asked, ran>>
        /\ g.at = "handle" /\ pc[g.call] = "returned"
        /\ go' \subseteq go /\ crash' = "late" /\ UNCHANGED durable
    BY <1>2 DEF SendPanics, DHandler
  <2>2. TypeOK'
    BY <1>0, <2>1 DEF TypeOK
  <2>3. OwnAnswer' /\ OneGoroutine'
    BY <1>0, <2>1 DEF OwnAnswer, OneGoroutine
  <2>4. OwnInbox' /\ OwnRequest' /\ Unanswered'
    BY <1>0, <2>1 DEF OwnInbox, OwnRequest, Unanswered
  <2>5. CallInv'
    BY <2>1, <2>2, <2>3, <2>4 DEF DInv, CallInv, CallbacksOnce, LetsThrough
  <2>6. DTypeOK' /\ OwnReply' /\ SettledMeansDone'
    BY <2>1, <2>5, QueueStutter
  <2>7. LateOnly'
    BY <1>0, <2>1 DEF LateOnly, OneGoroutine, TypeOK
  <2> QED  BY <2>5, <2>6, <2>7 DEF DInv
<1> QED  BY <1>1, <1>2 DEF DHandler

-----------------------------------------------------------------------------
(* Steps of the queues and the reflectors.                                 *)

\* A worker's answer goes to the inbox its request named.
LEMMA WorkStep ==
  ASSUME DInv, NEW q \in asked, NEW s \in Contents, Work(q, s)
  PROVE  DInv'
<1> DEFINE a == [of |-> q.of, by |-> q.to, reply |-> q.reply, status |-> s]
<1>0. CallInv /\ DTypeOK /\ OwnReply /\ SettledMeansDone /\ LateOnly
  BY DEF DInv
<1>1. /\ asked' \subseteq asked /\ answers' = answers \cup {a} /\ queued' = queued \cup {a}
      /\ UNCHANGED <<http, pc, ctx, inbox, sub, chans, ret, taken, go, ran, crash,
                     unacked, early, held, handled, called>>
  BY DEF Work, done
<1>2. CallInv' /\ TypeOK'
  <2>1. CallInv'
    BY <1>0, <1>1, CallInvStutter
  <2> QED  BY <2>1 DEF CallInv
<1>3. a \in Answer /\ a.reply = a.of /\ pc[a.of] \in {"awaiting", "returned"}
  <2>1. q \in Request /\ q.reply = q.of /\ pc[q.of] \in {"awaiting", "returned"}
    BY <1>0 DEF CallInv, TypeOK, OwnRequest
  <2> QED  BY <2>1 DEF Request, Answer
<1>4. DTypeOK'
  BY <1>0, <1>1, <1>2, <1>3 DEF DTypeOK
<1>5. OwnReply'
  BY <1>0, <1>1, <1>3 DEF OwnReply
<1>6. SettledMeansDone'
  BY <1>0, <1>1 DEF SettledMeansDone, Settled
<1>7. LateOnly'
  BY <1>0, <1>1 DEF LateOnly
<1> QED  BY <1>2, <1>4, <1>5, <1>6, <1>7 DEF DInv

LEMMA RedeliverStep ==
  ASSUME DInv, NEW a \in unacked, Redeliver(a)
  PROVE  DInv'
<1>0. CallInv /\ DTypeOK /\ OwnReply /\ SettledMeansDone /\ LateOnly
  BY DEF DInv
<1>1. /\ UNCHANGED vars /\ UNCHANGED <<answers, unacked, held, handled, called>>
      /\ queued' = queued \cup {a}
      /\ early' = early \/ (early < MaxEarly /\ early' = early + 1)
  BY DEF Redeliver, done
<1>2. CallInv'
  BY <1>0, <1>1, CallInvStutter DEF vars
<1>3. early' \in 0..MaxEarly
  BY <1>0, <1>1, DurableAssumption DEF DTypeOK
<1>4. DTypeOK'
  BY <1>0, <1>1, <1>2, <1>3 DEF DTypeOK, CallInv
<1>5. OwnReply' /\ LateOnly'
  BY <1>0, <1>1 DEF OwnReply, LateOnly, vars
<1>6. SettledMeansDone'
  BY <1>0, <1>1 DEF SettledMeansDone, Settled
<1> QED  BY <1>2, <1>4, <1>5, <1>6 DEF DInv

\* A reflector takes an answer; it is published to its inbox or not.
LEMMA ReflectStep ==
  ASSUME DInv, NEW f \in Filters, NEW a \in queued, Reflect(f, a) \/ CannotReflect(f, a)
  PROVE  DInv'
<1> DEFINE d == [a |-> a, who |-> f, at |-> "callbacks"]
<1>0. CallInv /\ DTypeOK /\ OwnReply /\ SettledMeansDone /\ LateOnly
  BY DEF DInv
<1>1. /\ crash = "" /\ queued' = queued \ {a} /\ unacked' = unacked \cup {a}
      /\ held' = held \cup {d} /\ handled' = handled \cup {a}
      /\ UNCHANGED <<http, pc, ctx, inbox, chans, ret, taken, asked, ran, crash,
                     answers, early, called>>
  BY DEF Reflect, CannotReflect, Pull, Alive, Unacknowledged, AfterError
<1>2. a \in Answer /\ a \in answers /\ a.reply = a.of /\ pc[a.of] \in {"awaiting", "returned"}
  BY <1>0 DEF DTypeOK, OwnReply
<1>3. CallInv'
  <2>1. CASE Reflect(f, a)
    <3> DEFINE m == [of |-> a.of, by |-> a.by, status |-> a.status]
    <3>1. a.status \in Contents /\ a.status # "lost" /\ Receive(m, Subscribed(a.reply))
      BY <1>2, <2>1 DEF Reflect, Answer
    <3>2. m \in Reply /\ m.of = a.reply /\ pc[m.of] \in {"awaiting", "returned"}
      BY <1>2, <3>1, DurableAssumption DEF Answer, Reply
    <3> QED  BY <1>0, <1>1, <3>1, <3>2, ReceiveStep
  <2>2. CASE CannotReflect(f, a)
    <3>1. UNCHANGED <<go, sub>>
      BY <2>2 DEF CannotReflect
    <3> QED  BY <1>0, <1>1, <3>1, CallInvStutter
  <2> QED  BY <2>1, <2>2
<1>4. d \in Delivery /\ d.a = a /\ d.at = "callbacks"
  BY <1>2 DEF Delivery
<1>5. DTypeOK'
  BY <1>0, <1>1, <1>2, <1>3, <1>4 DEF DTypeOK, CallInv
<1>6. OwnReply' /\ LateOnly'
  BY <1>0, <1>1 DEF OwnReply, LateOnly
<1>7. SettledMeansDone'
  BY <1>0, <1>1 DEF SettledMeansDone, Settled
<1> QED  BY <1>3, <1>5, <1>6, <1>7 DEF DInv

\* Its callbacks, and then the answer leaves the queue.
LEMMA SettleStep ==
  ASSUME DInv, NEW d \in held, Alive, RunReflectorCallbacks(d) \/ Settle(d)
  PROVE  DInv'
<1>0. CallInv /\ DTypeOK /\ OwnReply /\ SettledMeansDone /\ LateOnly
  BY DEF DInv
<1>1. /\ UNCHANGED <<http, pc, ctx, inbox, sub, chans, ret, taken, asked, go, ran,
                     answers, early, handled>>
      /\ crash = "" /\ crash' \in {"", "callback"}
  BY DEF RunReflectorCallbacks, Settle, channel, done, vars, Alive
<1>2. CallInv'
  BY <1>0, <1>1, CallInvStutter
<1>3. OwnReply' /\ LateOnly'
  BY <1>0, <1>1 DEF OwnReply, LateOnly
<1>4. CASE RunReflectorCallbacks(d)
  <2> DEFINE e == [d EXCEPT !.at = "ack"]
  <2>1. /\ UNCHANGED <<queued, unacked>>
        /\ \/ UNCHANGED <<held, called>>
           \/ held' = (held \ {d}) \cup {e} /\ called' = called \cup {d.a}
    BY <1>4 DEF RunReflectorCallbacks, Move, channel
  <2>2. d \in Delivery
    BY <1>0 DEF DTypeOK
  <2>3. e \in Delivery /\ e.a = d.a
    BY <2>2 DEF Delivery
  <2>4. d.a \in handled
    BY <1>0 DEF DTypeOK
  <2>5. DTypeOK'
    BY <1>0, <1>1, <1>2, <2>1, <2>2, <2>3, <2>4 DEF DTypeOK, CallInv
  <2>6. SettledMeansDone'
    BY <1>0, <1>1, <2>1 DEF SettledMeansDone, Settled
  <2> QED  BY <1>2, <1>3, <2>5, <2>6 DEF DInv
<1>5. CASE Settle(d)
  <2>1. /\ held' = held \ {d} /\ queued' = queued \ {d.a} /\ unacked' = unacked \ {d.a}
        /\ d.at = "ack" /\ UNCHANGED called
    BY <1>5 DEF Settle, done
  <2>2. d.a \in called /\ d.a \in handled
    BY <1>0, <2>1 DEF DTypeOK
  <2>3. DTypeOK'
    BY <1>0, <1>1, <1>2, <2>1 DEF DTypeOK, CallInv
  <2>4. SettledMeansDone'
    BY <1>0, <1>1, <2>1, <2>2 DEF SettledMeansDone, Settled
  <2> QED  BY <1>2, <1>3, <2>3, <2>4 DEF DInv
<1> QED  BY <1>4, <1>5

-----------------------------------------------------------------------------
\* What the queues hold outlives the process.
LEMMA RestartStep ==
  ASSUME DInv, Restart
  PROVE  DInv'
<1>0. /\ CallInv /\ DTypeOK /\ OwnReply /\ SettledMeansDone
      /\ TypeOK /\ OwnInbox /\ OwnRequest /\ Unanswered /\ CallbacksOnce /\ LetsThrough
  BY DEF DInv, CallInv
<1>1. /\ pc' = [c \in Calls |-> IF pc[c] # "called" THEN "returned" ELSE pc[c]]
      /\ ret' = [c \in Calls |-> IF pc[c] # "called" /\ ret[c] = "" THEN "error" ELSE ret[c]]
      /\ sub' = [c \in Calls |-> IF sub[c] = "open" THEN "none" ELSE sub[c]]
      /\ resCh' = [c \in Calls |-> {}] /\ errCh' = [c \in Calls |-> {}]
      /\ go' = {} /\ held' = {} /\ crash' = ""
      /\ UNCHANGED <<http, ctx, inbox, taken, asked, ran, answers, queued, unacked, early,
                     handled, called>>
  BY DEF Restart, channel, done
<1>2. TypeOK'
  <2>1. pc' \in [Calls -> {"called", "subscribed", "awaiting", "returned"}]
    BY <1>0, <1>1 DEF TypeOK
  <2>2. sub' \in [Calls -> {"none", "open", "spent"}]
    BY <1>0, <1>1 DEF TypeOK
  <2>3. ret' \in [Calls -> {"", "ok", "error", "timeout"}]
    BY <1>0, <1>1 DEF TypeOK
  <2>4. resCh' \in [Calls -> SUBSET Reply] /\ errCh' \in [Calls -> SUBSET Reply]
    BY <1>1
  <2> QED  BY <1>0, <1>1, <2>1, <2>2, <2>3, <2>4 DEF TypeOK
<1>3. OwnInbox'
  BY <1>0, <1>1 DEF OwnInbox
<1>4. OwnRequest'
  BY <1>0, <1>1 DEF OwnRequest, TypeOK, Request
<1>5. OwnAnswer' /\ OneGoroutine'
  BY <1>1 DEF OwnAnswer, OneGoroutine
<1>6. Unanswered'
  BY <1>0, <1>1 DEF Unanswered
<1>7. CallbacksOnce' /\ LetsThrough'
  BY <1>0, <1>1 DEF CallbacksOnce, LetsThrough
<1>8. CallInv'
  BY <1>2, <1>3, <1>4, <1>5, <1>6, <1>7 DEF CallInv
<1>9. DTypeOK'
  BY <1>0, <1>1, <1>2 DEF DTypeOK
<1>10. OwnReply'
  BY <1>0, <1>1 DEF OwnReply, DTypeOK, Answer
<1>11. SettledMeansDone' /\ LateOnly'
  BY <1>0, <1>1 DEF SettledMeansDone, Settled, LateOnly
<1> QED  BY <1>8, <1>9, <1>10, <1>11 DEF DInv

LEMMA DInvariance == DSpec => []DInv
<1>1. ASSUME DInv, [DNext]_dvars PROVE DInv'
  <2>1. ASSUME NEW c \in Calls, DCall(c) \/ PushUnconfirmed(c) \/ DExpire(c) PROVE DInv'
    BY <1>1, <2>1, DCallStep
  <2>2. ASSUME NEW g \in go, DHandler(g) PROVE DInv'
    BY <1>1, <2>2, DHandlerStep
  <2>3. ASSUME NEW q \in asked, NEW s \in Contents, Work(q, s) PROVE DInv'
    BY <1>1, <2>3, WorkStep
  <2>4. ASSUME NEW a \in unacked, Redeliver(a) PROVE DInv'
    BY <1>1, <2>4, RedeliverStep
  <2>5. ASSUME NEW f \in Filters, Reflector(f) PROVE DInv'
    BY <1>1, <2>5, ReflectStep, SettleStep DEF Reflector
  <2>6. CASE Restart
    BY <1>1, <2>6, RestartStep
  <2>7. CASE UNCHANGED dvars
    <3>1. UNCHANGED vars /\ UNCHANGED durable
      BY <2>7 DEF dvars
    <3>2. CallInv'
      BY <1>1, <3>1, CallInvStutter DEF vars, DInv
    <3>3. DTypeOK' /\ OwnReply' /\ SettledMeansDone'
      BY <1>1, <3>1, <3>2, QueueStutter DEF vars
    <3> QED  BY <1>1, <3>1, <3>2, <3>3 DEF DInv, LateOnly, vars
  <2> QED
    BY <1>1, <2>1, <2>2, <2>3, <2>4, <2>5, <2>6, <2>7 DEF DNext, DTerminated
<1> QED  BY DInitInv, <1>1, PTL DEF DSpec

\* Type correctness of the durable filters.
THEOREM DTypeCorrect == DSpec => []DTypeOK
<1>1. DInv => DTypeOK
  BY DEF DInv
<1> QED  BY DInvariance, <1>1, PTL

\* Across redeliveries and restarts, and whichever reflector an answer came
\* through, it lets only the call through that it answers.
THEOREM DLetsThroughHolds == DSpec => []LetsThrough
<1>1. DInv => LetsThrough
  BY DEF DInv, CallInv
<1> QED  BY DInvariance, <1>1, PTL

\* No goroutine of a reply waits for room in its call's channel.
THEOREM NobodyBlocksHolds == DSpec => []NobodyBlocks
<1>1. DInv => NobodyBlocks
  BY DEF DInv, CallInv, OneGoroutine, NobodyBlocks
<1> QED  BY DInvariance, <1>1, PTL

\* An answer leaves the queue only when it has been reflected, or cannot be,
\* and its callbacks have been run, however often the process crashes.
THEOREM SettledMeansDoneHolds == DSpec => []SettledMeansDone
<1>1. DInv => SettledMeansDone
  BY DEF DInv
<1> QED  BY DInvariance, <1>1, PTL

\* The send on a closed channel needs a call that has returned without an
\* answer.
THEOREM LateOnlyHolds == DSpec => []LateOnly
<1>1. DInv => LateOnly
  BY DEF DInv
<1> QED  BY DInvariance, <1>1, PTL
=============================================================================
