------------------------------ MODULE Cascade ------------------------------
(***************************************************************************)
(* netio.Cascade: one run of a filter chain.  The goroutine that runs it   *)
(* (main) walks the chain, awaits the parallel callers a member names,     *)
(* calls synchronous members itself and spins a goroutine for each         *)
(* parallel one.  The goroutines share the request `in` with main without  *)
(* a lock, and hand their result over in a channel of capacity one.        *)
(*                                                                         *)
(* Contents are abstracted to their origin: 0 is what the client sent, j   *)
(* what the response of the j-th member held.                              *)
(*                                                                         *)
(* AdvanceUnreset, KeepFirst, ReadsOnUpdate, RefusedUnreadOnly,            *)
(* DispatchAtOnce, RegisterLate, FinishEarly, CanSendUnbuffered and        *)
(* DeliverUnlessError are slips the properties must catch; no action uses  *)
(* them.                                                                   *)
(***************************************************************************)
EXTENDS Callers

CONSTANTS
  Names,    \* names of callers
  Chains    \* the chains explored: sequences of callers

ASSUME ChainsAssumption == Chains \subseteq Seq(Caller(Names))

\* A chain is run for one backend: NewHttpProxy appends itself once.
ASSUME OneProxyAssumption ==
  \A c \in Chains : \A p, q \in DOMAIN c :
    c[p].kind = "proxy" /\ c[q].kind = "proxy" => p = q

VARIABLES
  chain,    \* the callers, frozen
  pc,       \* where main is in the loop body
  i,        \* the member it is at
  k,        \* the entry of that member's await list it is at
  in,       \* the request: origins of headers, body and X-Request-Id
  out,      \* the response so far, Nil while there is none
  loc,      \* await's own copy of the pointer `out`
  tasks,    \* name -> member registered by spin, 0 if none
  gpc,      \* where the goroutine of each member is
  snap,     \* what each goroutine cloned from `in`
  buf,      \* the channel of each goroutine: its buffer ("" when empty)
  closed,   \* ... and whether it is closed
  ctx,      \* the context an await on the member uses: "live" or "done"
  got,      \* what the call of each member returned, "" before
  verdict   \* what became of the run

vars == <<chain, pc, i, k, in, out, loc, tasks, gpc, snap, buf, closed, ctx,
          got, verdict>>
goVars == <<gpc, snap, buf, closed, ctx, got>>

Nil == [hdr |-> 0, body |-> 0]
Member == DOMAIN chain

\* How a call can end: with an error; with no response, the chain goes on;
\* with a response; with one whose body breaks off while it is read; with
\* a response that ends the chain (a cache hit).
Outcomes(kind) ==
  CASE kind = "opa"    -> {"err", "none"}
    [] kind = "get"    -> {"err", "none", "hit"}
    [] kind = "set"    -> {"err", "none"}
    [] kind = "filter" -> {"err", "ok", "cut"}
    [] kind = "proxy"  -> {"err", "ok", "cut"}
Outcome == {"err", "none", "ok", "cut", "hit"}

Init ==
  /\ chain \in Chains
  /\ pc = "await" /\ i = 1 /\ k = 1
  /\ in = [hdr |-> 0, body |-> 0, rid |-> 0]
  /\ out = Nil /\ loc = Nil
  /\ tasks = [n \in Names |-> 0]
  /\ gpc = [j \in Member |-> "idle"]
  /\ snap = [j \in Member |-> Nil]
  /\ buf = [j \in Member |-> ""]
  /\ closed = [j \in Member |-> FALSE]
  /\ ctx = [j \in Member |-> "live"]
  /\ got = [j \in Member |-> ""]
  /\ verdict = "pending"

-----------------------------------------------------------------------------
\* Replace in `old` the parts that the updaters name by those of `new`.
Update(old, parts, new) ==
  [old EXCEPT !.hdr = IF "hdr" \in parts THEN new.hdr ELSE @,
              !.body = IF "body" \in parts THEN new.body ELSE @]

\* createOrUpdateResponse: the first response is taken whole.
KeepFirst(o, j, parts) == IF o = Nil THEN [hdr |-> j, body |-> j] ELSE o
CreateOrUpdate(o, j, parts) ==
  LET res == [hdr |-> j, body |-> j]
  IN IF o = Nil THEN res ELSE Update(o, parts, res)

\* It fails when it has to read a body that breaks off (and not only when an
\* updater replaces the body there is).
ReadsOnUpdate(o, parts, outcome) ==
  outcome = "cut" /\ o # Nil /\ "body" \in parts
ReadFails(o, parts, outcome) ==
  outcome = "cut" /\ (o = Nil \/ "body" \in parts)

Alive == verdict # "fatal"        \* a Go fatal error ends the process
Running == verdict = "pending" /\ i \in Member
AtAwait == Running /\ pc = "await" /\ k <= Len(chain[i].await)
Task == tasks[chain[i].await[k]]

mainState == <<chain, pc, i, k, in, out, loc, tasks>>

\* Cascade returns where it stands.
Give(v) ==
  /\ verdict' = v
  /\ UNCHANGED mainState

\* The end of the loop body: on to the next member.
AdvanceUnreset ==
  /\ i' = i + 1 /\ k' = k /\ pc' = "await"
Advance ==
  /\ i' = i + 1 /\ k' = 1 /\ pc' = "await"

-----------------------------------------------------------------------------
(* Main: await.                                                            *)

AwaitUnknown ==
  /\ AtAwait /\ Task = 0
  /\ Give("notfound")
  /\ UNCHANGED goVars

AwaitExpired ==
  /\ AtAwait /\ Task # 0
  /\ ctx[Task] = "done"
  /\ Give("timeout")
  /\ UNCHANGED goVars

\* A received result is refused when it is an error, or when the response
\* it carries cannot be read.
RefusedUnreadOnly(j) == ReadFails(loc, chain[i].res, buf[j])
Refused(j) ==
  \/ buf[j] = "err"
  \/ ReadFails(loc, chain[i].res, buf[j])

AwaitFailure ==
  /\ AtAwait /\ Task # 0
  /\ buf[Task] # "" /\ Refused(Task)
  /\ buf' = [buf EXCEPT ![Task] = ""]
  /\ Give("failed")
  /\ UNCHANGED <<gpc, snap, closed, ctx, got>>

\* The awaiting caller's own updaters are applied.  While there is no
\* response yet the one created here stays local to await; otherwise `out`
\* is updated through the pointer.
AwaitResult ==
  /\ AtAwait /\ Task # 0
  /\ buf[Task] # "" /\ ~Refused(Task)
  /\ buf' = [buf EXCEPT ![Task] = ""]
  /\ loc' = CreateOrUpdate(loc, Task, chain[i].res)
  /\ out' = IF out = Nil THEN Nil ELSE loc'
  /\ in' = Update(in, chain[i].req, loc')
  /\ k' = k + 1
  /\ UNCHANGED <<chain, pc, i, tasks, gpc, snap, closed, ctx, got, verdict>>

\* A receive from the closed, drained channel yields a nil *Response, whose
\* Error field is then read.
AwaitClosed ==
  /\ AtAwait /\ Task # 0
  /\ buf[Task] = "" /\ closed[Task]
  /\ Give("panic")
  /\ UNCHANGED goVars

-----------------------------------------------------------------------------
(* Main: the rest of the loop body.                                        *)

\* A member is dispatched without waiting for what it awaits.
DispatchAtOnce == Running /\ pc = "await"
Dispatch == Running /\ pc = "await" /\ k > Len(chain[i].await)

\* spin registers the channel and the context before the goroutine starts,
\* not from within it.
RegisterLate(n, j) == tasks' = tasks
Register(n, j) == tasks' = [tasks EXCEPT ![n] = j]

Spin ==
  /\ Dispatch /\ chain[i].parallel
  /\ Register(chain[i].name, i)
  /\ gpc' = [gpc EXCEPT ![i] = "spun"]
  /\ Advance
  /\ loc' = out
  /\ UNCHANGED <<chain, in, out, snap, buf, closed, ctx, got, verdict>>

Call ==
  /\ Dispatch /\ ~chain[i].parallel
  /\ pc' = "calling"
  /\ UNCHANGED <<chain, i, k, in, out, loc, tasks, goVars, verdict>>

Calling(outcome) ==
  /\ Running /\ pc = "calling"
  /\ outcome \in Outcomes(chain[i].kind)
  /\ got' = [got EXCEPT ![i] = outcome]
  /\ UNCHANGED <<chain, in, tasks, gpc, snap, buf, closed, ctx>>

ReturnError ==
  /\ \E o \in Outcome :
       /\ Calling(o)
       /\ o = "err" \/ ReadFails(out, chain[i].res, o)
  /\ Give("failed")

ReturnHit ==
  /\ Calling("hit")
  /\ Give("hit")

\* The call returned neither a response nor an error: `continue`.
ReturnNothing ==
  /\ Calling("none")
  /\ Advance
  /\ loc' = out
  /\ UNCHANGED <<out, verdict>>

ReturnResponse ==
  /\ \E o \in {"ok", "cut"} :
       /\ Calling(o)
       /\ ~ReadFails(out, chain[i].res, o)
  /\ out' = CreateOrUpdate(out, i, chain[i].res)
  /\ pc' = "update"
  /\ UNCHANGED <<i, k, loc, verdict>>

\* UpdateRequest with the caller's own updaters ...
UpdateIn ==
  /\ Running /\ pc = "update"
  /\ in' = Update(in, chain[i].req, out)
  /\ pc' = "stamp"
  /\ UNCHANGED <<chain, i, k, out, loc, tasks, goVars, verdict>>

\* ... and, last, ReqUpdateHeader("X-Request-Id"), which writes into the
\* header map of `in`.
Stamp ==
  /\ Running /\ pc = "stamp"
  /\ in' = [in EXCEPT !.rid = out.hdr]
  /\ Advance
  /\ loc' = out
  /\ UNCHANGED <<chain, out, tasks, goVars, verdict>>

\* A goroutine is iterating over that same map: the runtime may notice the
\* concurrent iteration and write, and ends the process.
StampFatal ==
  /\ Running /\ pc = "stamp"
  /\ \E j \in Member : gpc[j] = "cloning" /\ snap[j].hdr = in.hdr
  /\ Give("fatal")
  /\ UNCHANGED goVars

FinishEarly ==
  /\ verdict = "pending" /\ i = Len(chain) /\ pc = "await"
  /\ Give("ok")
  /\ UNCHANGED goVars
Finish ==
  /\ verdict = "pending" /\ i = Len(chain) + 1
  /\ Give("ok")
  /\ UNCHANGED goVars

-----------------------------------------------------------------------------
(* The goroutine of a parallel caller, and the timer of its context.       *)

mainVars == <<mainState, verdict>>

\* CloneRequest runs in the goroutine: it copies the headers of what `in`
\* is by then ...
BeginClone(j) ==
  /\ Alive /\ gpc[j] = "spun"
  /\ gpc' = [gpc EXCEPT ![j] = "cloning"]
  /\ snap' = [snap EXCEPT ![j].hdr = in.hdr]
  /\ UNCHANGED <<mainVars, buf, closed, ctx, got>>

\* ... and then its body.
EndClone(j) ==
  /\ Alive /\ gpc[j] = "cloning"
  /\ gpc' = [gpc EXCEPT ![j] = "calling"]
  /\ snap' = [snap EXCEPT ![j].body = in.body]
  /\ UNCHANGED <<mainVars, buf, closed, ctx, got>>

\* The channel has room for the one result, whether it is awaited or not.
CanSendUnbuffered(j) == AtAwait /\ Task = j
CanSend(j) == buf[j] = ""

\* An error ends the goroutine without a word.
DeliverUnlessError(j) ==
  /\ Alive /\ CanSend(j)
  /\ \E o \in Outcomes(chain[j].kind) :
       /\ gpc[j] = "calling" \/ (gpc[j] = "spun" /\ o = "err")
       /\ got' = [got EXCEPT ![j] = o]
       /\ buf' = [buf EXCEPT ![j] = IF o = "err" THEN "" ELSE o]
  /\ gpc' = [gpc EXCEPT ![j] = "closing"]
  /\ UNCHANGED <<mainVars, snap, closed, ctx>>

\* The result of the call goes into the channel.  A call may fail before it
\* clones the request (a NATS subscription that cannot be made).
Deliver(j) ==
  /\ Alive /\ CanSend(j)
  /\ \E o \in Outcomes(chain[j].kind) :
       /\ gpc[j] = "calling" \/ (gpc[j] = "spun" /\ o = "err")
       /\ got' = [got EXCEPT ![j] = o]
       /\ buf' = [buf EXCEPT ![j] = o]
  /\ gpc' = [gpc EXCEPT ![j] = "closing"]
  /\ UNCHANGED <<mainVars, snap, closed, ctx>>

CloseChannel(j) ==
  /\ Alive /\ gpc[j] = "closing"
  /\ gpc' = [gpc EXCEPT ![j] = "ended"]
  /\ closed' = [closed EXCEPT ![j] = TRUE]
  /\ UNCHANGED <<mainVars, snap, buf, ctx, got>>

Expire(j) ==
  /\ Alive /\ gpc[j] # "idle" /\ ctx[j] = "live"
  /\ ctx' = [ctx EXCEPT ![j] = "done"]
  /\ UNCHANGED <<mainVars, gpc, snap, buf, closed, got>>

-----------------------------------------------------------------------------
Main ==
  \/ AwaitUnknown \/ AwaitExpired \/ AwaitFailure \/ AwaitResult \/ AwaitClosed
  \/ Spin \/ Call \/ ReturnError \/ ReturnHit \/ ReturnNothing
  \/ ReturnResponse \/ UpdateIn \/ Stamp \/ StampFatal \/ Finish

Goroutine(j) == BeginClone(j) \/ EndClone(j) \/ Deliver(j) \/ CloseChannel(j)

\* The run is over: main has answered and no goroutine has work left.
Terminated ==
  /\ verdict # "pending"
  /\ ~Alive \/ \A j \in Member : gpc[j] \in {"idle", "ended"}
                                   /\ (gpc[j] = "idle" \/ ctx[j] = "done")
  /\ UNCHANGED vars

Next ==
  \/ Main
  \/ \E j \in Member : Goroutine(j) \/ Expire(j)
  \/ Terminated

Slots == UNION {DOMAIN c : c \in Chains}

\* Main and each goroutine are scheduled again and again, a call returns
\* (every one is bounded by a context or a client timeout), timers fire.
Fairness ==
  /\ WF_vars(Main)
  /\ \A j \in Slots : /\ WF_vars(j \in Member /\ Goroutine(j))
                      /\ WF_vars(j \in Member /\ Expire(j))

Spec == Init /\ [][Next]_vars
FairSpec == Spec /\ Fairness

-----------------------------------------------------------------------------
Content == 0..Len(chain)

TypeOK ==
  /\ chain \in Chains
  /\ pc \in {"await", "calling", "update", "stamp"}
  /\ i \in 1..Len(chain) + 1
  /\ k \in 1..(IF i \in Member THEN Len(chain[i].await) + 1 ELSE 1)
  /\ in \in [hdr: Content, body: Content, rid: Content]
  /\ out \in [hdr: Content, body: Content]
  /\ loc \in [hdr: Content, body: Content]
  /\ tasks \in [Names -> Content]
  /\ gpc \in [Member -> {"idle", "spun", "cloning", "calling", "closing", "ended"}]
  /\ snap \in [Member -> [hdr: Content, body: Content]]
  /\ buf \in [Member -> Outcome \cup {""}]
  /\ closed \in [Member -> BOOLEAN]
  /\ ctx \in [Member -> {"live", "done"}]
  /\ got \in [Member -> Outcome \cup {""}]
  /\ verdict \in {"pending", "ok", "hit", "failed", "notfound", "timeout",
                 "panic", "fatal"}

\* The m-th task the l-th member awaits is member j, and main has been
\* through that entry.
Awaits(l, m, j) == AwaitsIn(chain, l, m, j)
Behind(l, m) == l < i \/ (l = i /\ m < k)

\* A member is called or spun, and what it returns is used, only when every
\* task it awaits has returned a response (Cascade's `err := await(...)`
\* comes before both): so also for a parallel member that awaits another,
\* and where a later member takes the name of one that is awaited.
Called == pc \in {"calling", "update", "stamp"}
InCall == verdict = "pending" /\ Called
Started(l) == l < i \/ (l = i /\ Called)
Answered(j) == gpc[j] \in {"closing", "ended"} /\ got[j] \in {"ok", "cut"}
AwaitedFirst ==
  \A l \in Member : Started(l) =>
    \A m \in DOMAIN chain[l].await : \E j \in Member : Awaits(l, m, j) /\ Answered(j)

\* "task not found" is reported only for a name that no parallel caller
\* earlier in the chain has: a task is known to await from the moment it is
\* spun, however late its goroutine gets to run.
NotFoundHonest ==
  verdict = "notfound" =>
    \A j \in 1..(i - 1) : chain[j].parallel => chain[j].name # chain[i].await[k]

\* Failing closed: the chain ends "ok" only if every synchronous member was
\* called and none failed, save one that was configured to be passed over.
\* A response whose body breaks off is a failure too, unless its body is of
\* no use: there is a whole response already, and its own is not to replace
\* it.
Sync(j) == ~chain[j].parallel
BodyUnused(j) ==
  "body" \notin chain[j].res /\ \E l \in 1..(j - 1) : Sync(l) /\ got[l] = "ok"
FailClosed ==
  verdict = "ok" =>
    \A j \in Member : Sync(j) =>
      \/ got[j] \in {"none", "ok"}
      \/ got[j] = "cut" /\ BodyUnused(j)
      \/ got[j] = "err" /\ chain[j].onError = "continue"

\* The response a chain with a proxy ends with is the proxy's, whatever the
\* filters around it answered and in whatever order the results came in: a
\* filter behind the proxy may replace only the parts it exchanges.
Proxies == {j \in Member : chain[j].kind = "proxy"}
Exchanged(p) == UNION {chain[j].exchange : j \in {l \in Member : p < l /\ Sync(l)}}
ResponseIsProxys ==
  verdict = "ok" => \A p \in Proxies : \A part \in Part \ Exchanged(p) : out[part] = p

\* What the configuration may say of a filter, and its documentation
\* promises.  "onError: continue": the chain goes on when the filter fails.
\* "exchange": the headers, or the body, that a filter behind the proxy
\* answers replace those of the response.
ContinuesOnError ==
  verdict = "failed" /\ pc = "calling" /\ got[i] = "err" => chain[i].onError # "continue"
ExchangesParts ==
  verdict = "ok" =>
    \A p \in Proxies, j \in Member : \A part \in chain[j].exchange :
      /\ p < j /\ Sync(j) /\ got[j] = "ok"
      /\ \A l \in Member : j < l /\ Sync(l) => part \notin chain[l].exchange
      => out[part] = j
\* A filter's settings are honoured, whatever the chain around it.
SettingsHonoured == ContinuesOnError /\ ExchangesParts

\* Cascade keeps the promise of a filter chain.
FC == INSTANCE FilterChain WITH
  started <- IF Called THEN i ELSE i - 1,
  open    <- InCall,
  passed  <- {j \in 1..(i - 1) : ~chain[j].parallel
                                   /\ got[j] \in {"none", "ok", "cut"}},
  answer  <- CASE verdict \in {"pending", "ok", "hit"} -> verdict
               [] OTHER -> "error"
KeepsChainPromise == FC!Spec

\* In the end main has answered and every goroutine it spun has ended, also
\* those nobody awaits: nobody is left blocked on a channel.
LeavesNothingBehind ==
  <>[](verdict # "pending" /\ (Alive => \A j \in Member : gpc[j] \in {"idle", "ended"}))

\* Awaiting a task that was spun does not panic (no nil *Response is read).
AwaitNeverPanics == verdict # "panic"

\* The one way to that panic is a task that is awaited more than once: where
\* each is awaited by one entry of one list, every await gets an answer, an
\* error or a timeout, whatever the calls return and when.
PanicNeedsSharedAwait ==
  verdict = "panic" =>
    \E j \in Member, l \in Member : \E m \in DOMAIN chain[l].await :
      Awaits(i, k, j) /\ Awaits(l, m, j) /\ Behind(l, m)

\* A parallel filter and the run do not disturb each other: in front of the
\* proxy it works on the client's request, whenever its goroutine runs, and
\* its clone of the request does not collide with the chain's updates.
BeforeProxy == {j \in Member : \E p \in Proxies : j < p}
ParallelIsolated ==
  /\ verdict # "fatal"
  /\ \A j \in BeforeProxy : gpc[j] \in {"calling", "closing", "ended"} => snap[j] = Nil

\* They do not where the filter is awaited: one that a member in front of
\* the proxy awaits works on the client's request and never sees the
\* backend's answer, and the collision needs a filter that no member up to
\* the one main is at awaits.
IsolatedWhenAwaited ==
  /\ verdict = "fatal" =>
       \E j \in 1..(i - 1) :
         /\ chain[j].parallel
         /\ \A l \in 1..i : \A m \in DOMAIN chain[l].await : ~Awaits(l, m, j)
  /\ \A p \in Proxies : \A l \in 1..(p - 1) : \A m \in DOMAIN chain[l].await :
       \A j \in Member : Awaits(l, m, j) => snap[j] = Nil
=============================================================================
