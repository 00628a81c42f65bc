---------------------------- MODULE HttpResource ----------------------------
(***************************************************************************)
(* An HTTP resource (proxies.HttpProxy) that serves several requests at a  *)
(* time.  Each runs the resource's filter chain on its own copy of the     *)
(* request; what they share is the response cache, a JetStream key-value   *)
(* bucket outside the process.  The members here are synchronous: Cascade  *)
(* has the parallel ones.  Each run is one of FilterChain.                 *)
(*                                                                         *)
(* Contents are abstracted to who wrote them: "client" or "backend".       *)
(* SortCacheFirst and its like in Callers, and KeyOfIn, PutBeside,         *)
(* AnyTrue, HitContinues, RefuseContinues and FinishLate below, are the    *)
(* slips the properties must catch; no action uses them.                   *)
(***************************************************************************)
EXTENDS Callers, FiniteSets

CONSTANTS
  Requests,
  Bodies,
  Template,   \* the placeholders of the cache key
  Names,      \* of filters
  Configs     \* the resources explored, by what their configuration says

Method == {"GET", "POST"}
Query == [body: Bodies, method: Method]

ASSUME TemplateAssumption == Template \subseteq {"body", "method"}
ASSUME ConfigsAssumption ==
  Configs \subseteq [opa: BOOLEAN, cache: BOOLEAN,
                     filters: Seq({f \in FilterOf(Names) : ~f.parallel})]

\* The chains of the resources.
Resources == {HttpChain(Parsed(c.opa, c.cache, c.filters)) : c \in Configs}

VARIABLES
  chain,    \* HttpProxy.Callers, frozen
  req,      \* what the client of each request sent, frozen
  at,       \* the member each request is at; 0 before the first
  busy,     \* that member has been called and has not returned
  said,     \* what each member said of each request
  denied,   \* the policies' members whose agent answered with a denial
  in,       \* who wrote the body that the chain hands on
  seen,     \* the method the backend was called with, "" if it was not
  served,   \* the cache entry a hit was answered with
  verdict,
  kv,       \* the bucket: entries, one per key
  late      \* puts whose acknowledgement was given up on

vars == <<chain, req, at, busy, said, denied, in, seen, served, verdict, kv, late>>
reqVars == <<at, busy, said, denied, in, seen, served, verdict>>

-----------------------------------------------------------------------------
\* CloneRequest and CloneShadowRequest leave the method out, and net/http
\* takes a request without one for a GET.
Cloned(q) == [q EXCEPT !.method = ""]
SentAs(q) == IF q.method = "" THEN "GET" ELSE q.method

\* ParseKey: the body's placeholder is replaced, {method} stays as it is
\* (the template's other placeholders, of the URL, are alike in all keys).
Key(q) == [f \in Template \ {"method"} |-> q[f]]

\* A bucket takes letters, digits and -/_=. in a key: one that {method} is
\* left in has braces, and neither Get nor Put gets further than that.
KeyValid == "method" \notin Template

\* Both cache members compute the key from the request as it came in, `o`,
\* and not from the request as the chain has rewritten it.
KeyFor(r) == Key(Cloned(req[r]))
KeyOfIn(r) == Key([req[r] EXCEPT !.body = in[r]])
PutKey(r) == KeyFor(r)

Entry(r) == [key |-> PutKey(r), from |-> r, what |-> in[r]]
Under(key) == {e \in kv : e.key = key}
PutBeside(e) == kv' = kv \cup {e}
Put(e) == kv' = (kv \ Under(e.key)) \cup {e}

\* What OPA's agent sends back: another status than 200, or for each rule of
\* each policy its result.  "text" stands for a result that is no boolean,
\* "none" for a policy or a rule that is not of the form expected.
Result == {"true", "false", "text", "none"}
AgentReply == {[status |-> "200", results |-> rs] : rs \in SUBSET Result}
                \cup {[status |-> "500", results |-> {}]}
AnyTrue(a) == a.status = "200" /\ (a.results = {} \/ "true" \in a.results)
Eval(a) == a.status = "200" /\ a.results \subseteq {"true", "text"}
Denies(a) == a.status # "200" \/ "false" \in a.results

Init ==
  /\ chain \in Resources
  /\ req \in [Requests -> Query]
  /\ at = [r \in Requests |-> 0]
  /\ busy = [r \in Requests |-> FALSE]
  /\ said = [r \in Requests |-> [m \in DOMAIN chain |-> ""]]
  /\ denied = [r \in Requests |-> {}]
  /\ in = [r \in Requests |-> "client"]
  /\ seen = [r \in Requests |-> ""]
  /\ served = [r \in Requests |-> {}]
  /\ verdict = [r \in Requests |-> "pending"]
  /\ kv = {} /\ late = {}

-----------------------------------------------------------------------------
KindAt(r) == chain[at[r]].kind
Waits(r) == verdict[r] = "pending" /\ busy[r]
Say(r, what) == said' = [said EXCEPT ![r][at[r]] = what]
Return(r) == busy' = [busy EXCEPT ![r] = FALSE]
Answer(r, v) == verdict' = [verdict EXCEPT ![r] = v]

\* Cascade calls the next member.
Start(r) ==
  /\ verdict[r] = "pending" /\ ~busy[r] /\ at[r] < Len(chain)
  /\ at' = [at EXCEPT ![r] = @ + 1]
  /\ busy' = [busy EXCEPT ![r] = TRUE]
  /\ UNCHANGED <<chain, req, said, denied, in, seen, served, verdict, kv, late>>

\* A filter answers below 400 (what that does to the response is in Cascade).
Accept(r) ==
  /\ Waits(r) /\ KindAt(r) = "filter"
  /\ Say(r, "yes") /\ Return(r)
  /\ UNCHANGED <<chain, req, at, denied, in, seen, served, verdict, kv, late>>

\* OPA's agent answers; Eval refuses or not.
Decide(r) ==
  /\ Waits(r) /\ KindAt(r) = "opa"
  /\ \E a \in AgentReply :
       /\ denied' = IF Denies(a) THEN [denied EXCEPT ![r] = @ \cup {at[r]}] ELSE denied
       /\ IF Eval(a) THEN Say(r, "yes") /\ UNCHANGED verdict
                     ELSE Say(r, "no") /\ Answer(r, "error")
  /\ Return(r)
  /\ UNCHANGED <<chain, req, at, in, seen, served, kv, late>>

\* A member returns an error: a filter or the backend answers 400 or above,
\* or cannot be reached, or the agent or the bucket cannot, or the bucket
\* refuses the key.
RefuseContinues(r) ==
  /\ Waits(r) /\ KindAt(r) # "set"
  /\ Say(r, "no") /\ Return(r)
  /\ UNCHANGED <<chain, req, at, denied, in, seen, served, verdict, kv, late>>
Refuse(r) ==
  /\ Waits(r) /\ KindAt(r) # "set"
  /\ Say(r, "no") /\ Return(r) /\ Answer(r, "error")
  /\ UNCHANGED <<chain, req, at, denied, in, seen, served, kv, late>>

Miss(r) ==
  /\ Waits(r) /\ KindAt(r) = "get" /\ KeyValid /\ Under(KeyFor(r)) = {}
  /\ Say(r, "yes") /\ Return(r)
  /\ UNCHANGED <<chain, req, at, denied, in, seen, served, verdict, kv, late>>

HitContinues(r) ==
  /\ Waits(r) /\ KindAt(r) = "get" /\ KeyValid /\ Under(KeyFor(r)) # {}
  /\ Say(r, "yes") /\ Return(r)
  /\ served' = [served EXCEPT ![r] = Under(KeyFor(r))]
  /\ UNCHANGED <<chain, req, at, denied, in, seen, verdict, kv, late>>
Hit(r) ==
  /\ Waits(r) /\ KindAt(r) = "get" /\ KeyValid /\ Under(KeyFor(r)) # {}
  /\ served' = [served EXCEPT ![r] = Under(KeyFor(r))]
  /\ Return(r) /\ Answer(r, "hit")
  /\ UNCHANGED <<chain, req, at, said, denied, in, seen, kv, late>>

\* The proxy's request reaches the backend ...
Reach(r) ==
  /\ Waits(r) /\ KindAt(r) = "proxy" /\ seen[r] = ""
  /\ seen' = [seen EXCEPT ![r] = SentAs(Cloned(req[r]))]
  /\ UNCHANGED <<chain, req, at, busy, said, denied, in, served, verdict, kv, late>>

\* ... and its response replaces, by the proxy's request updaters, the
\* request that the members after it see.
Replied(r) ==
  /\ Waits(r) /\ KindAt(r) = "proxy" /\ seen[r] # ""
  /\ Say(r, "yes") /\ Return(r)
  /\ in' = [in EXCEPT ![r] = "backend"]
  /\ UNCHANGED <<chain, req, at, denied, seen, served, verdict, kv, late>>

\* JetStreamSet stores `in` under the key of `o`.
Store(r) ==
  /\ Waits(r) /\ KindAt(r) = "set" /\ KeyValid
  /\ Put(Entry(r))
  /\ Say(r, "yes") /\ Return(r)
  /\ UNCHANGED <<chain, req, at, denied, in, seen, served, verdict, late>>

\* The put is not acknowledged: the request fails, although the backend has
\* served it.  The put may have been lost, still be on its way, or never have
\* been sent, for its key.
StoreFails(r) ==
  /\ Waits(r) /\ KindAt(r) = "set"
  /\ late' = late \/ (KeyValid /\ late' = late \cup {Entry(r)})
  /\ Say(r, "no") /\ Return(r) /\ Answer(r, "error")
  /\ UNCHANGED <<chain, req, at, denied, in, seen, served, kv>>

FinishLate(r) ==
  /\ verdict[r] = "pending" /\ ~busy[r] /\ at[r] > Len(chain)
  /\ Answer(r, "ok")
  /\ UNCHANGED <<chain, req, at, busy, said, denied, in, seen, served, kv, late>>
Finish(r) ==
  /\ verdict[r] = "pending" /\ ~busy[r] /\ at[r] = Len(chain)
  /\ Answer(r, "ok")
  /\ UNCHANGED <<chain, req, at, busy, said, denied, in, seen, served, kv, late>>

\* The body of the request cannot be read (NewShadowRequest).
Unreadable(r) ==
  /\ verdict[r] = "pending" /\ at[r] = 0
  /\ Answer(r, "error")
  /\ UNCHANGED <<chain, req, at, busy, said, denied, in, seen, served, kv, late>>

\* The bucket: a put arrives after all, an entry reaches its TTL.
PutLate ==
  \E e \in late : /\ Put(e) /\ late' = late \ {e}
                  /\ UNCHANGED <<chain, req, reqVars>>
ExpireEntry ==
  \E e \in kv : /\ kv' = kv \ {e}
                /\ UNCHANGED <<chain, req, reqVars, late>>

Handle(r) ==
  \/ Start(r) \/ Accept(r) \/ Decide(r) \/ Refuse(r) \/ Miss(r) \/ Hit(r) \/ Reach(r)
  \/ Replied(r) \/ Store(r) \/ StoreFails(r) \/ Finish(r) \/ Unreadable(r)

Terminated == (\A r \in Requests : verdict[r] # "pending") /\ UNCHANGED vars

Next == (\E r \in Requests : Handle(r)) \/ PutLate \/ ExpireEntry \/ Terminated

\* Each request has a goroutine of its own, and every call it makes returns:
\* calls are bounded by a context or by the client's own timeout.
Fairness == \A r \in Requests : WF_vars(Handle(r))

Spec == Init /\ [][Next]_vars
FairSpec == Spec /\ Fairness

-----------------------------------------------------------------------------
Stored ==
  [key: [Template \ {"method"} -> Bodies], from: Requests, what: {"client", "backend"}]

TypeOK ==
  /\ chain \in Resources /\ req \in [Requests -> Query]
  /\ at \in [Requests -> 0..Len(chain)]
  /\ busy \in [Requests -> BOOLEAN]
  /\ said \in [Requests -> [DOMAIN chain -> {"", "yes", "no"}]]
  /\ denied \in [Requests -> SUBSET DOMAIN chain]
  /\ in \in [Requests -> {"client", "backend"}]
  /\ seen \in [Requests -> {""} \cup Method]
  /\ verdict \in [Requests -> {"pending", "ok", "hit", "error"}]
  /\ served \in [Requests -> SUBSET Stored]
  /\ kv \subseteq Stored /\ late \subseteq Stored
  /\ \A e, f \in kv : e.key = f.key => e = f

\* The cache holds the backend's answer, not what the client sent, under the
\* key of the request that was answered, and only when every gate of the
\* chain, the response filters included, has let that request through.
Vetted(r) == \A m \in DOMAIN chain : chain[m].kind # "set" => said[r][m] = "yes"
EntryVetted ==
  \A e \in kv : e.key = KeyFor(e.from) /\ e.what = "backend" /\ Vetted(e.from)

\* A cached answer goes only to a request that the connect-level members let
\* through, and is the answer to a request with the same key.
Connect == {m \in DOMAIN chain : chain[m].level = "connect"}
HitVetted ==
  \A r \in Requests : verdict[r] = "hit" =>
    /\ \A m \in Connect : said[r][m] = "yes"
    /\ \E e \in served[r] : KeyFor(e.from) = KeyFor(r) /\ Vetted(e.from)

\* The backend is reached only by a request that every connect- and
\* request-level member let through, and not after a hit.
Gates == {m \in DOMAIN chain : chain[m].level \in {"connect", "pre", "request"}}
BackendGated ==
  \A r \in Requests : seen[r] # "" =>
    served[r] = {} /\ \A m \in Gates : said[r][m] = "yes"

\* A denial holds, however many results come with it: a request that one
\* result of one policy denies does not reach the backend afterwards, and
\* its client gets neither the backend's answer nor a cached one.
DenialHolds ==
  \A r \in Requests : \A m \in denied[r] :
    /\ verdict[r] = "error"
    /\ m \in Gates => seen[r] = ""

\* The HTTP policy is asked before any filter: no filter sees a request
\* that OPA has not let through.
OpaFirst ==
  \A r \in Requests : \A m, n \in DOMAIN chain :
    chain[m].kind = "filter" /\ (said[r][m] # "" \/ (busy[r] /\ at[r] = m))
      /\ chain[n].kind = "opa" /\ chain[n].level = "connect" => said[r][n] = "yes"

\* Every request is answered, whatever its members and the bucket do.
Answered == \A r \in Requests : <>(verdict[r] # "pending")

\* Each request's run keeps the promise of a filter chain.
FC(r) == INSTANCE FilterChain WITH
  Chains  <- Resources,
  started <- at[r],
  open    <- busy[r],
  passed  <- {m \in DOMAIN chain : said[r][m] = "yes"},
  answer  <- verdict[r]
EachKeepsChainPromise ==
  /\ \A r \in Requests : FC(r)!Init
  /\ [][\A r \in Requests : FC(r)!Next \/ UNCHANGED FC(r)!fcvars]_vars
=============================================================================
