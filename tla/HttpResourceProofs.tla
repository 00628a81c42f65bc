------------------------- MODULE HttpResourceProofs -------------------------
(***************************************************************************)
(* Proofs about HttpResource, for every set of requests and of resources   *)
(* with any number of filters.                                             *)
(***************************************************************************)
EXTENDS HttpResource, CallersProofs

USE DEF reqVars

LEMMA LessOrNot ==
  ASSUME NEW m \in Nat, NEW n \in Nat
  PROVE  (m <= n) = ~(n < m) /\ (n > m) = (m < n) /\ m <= m
OBVIOUS

-----------------------------------------------------------------------------
(* What the chain of a resource is like.                                   *)

LEMMA ChainFacts ==
  ASSUME chain \in Resources
  PROVE  /\ Len(chain) \in Nat /\ DOMAIN chain = 1..Len(chain)
         /\ \A m \in DOMAIN chain : chain[m] \in OneOf(Names)
         /\ Ordered(chain)
         /\ \E p \in DOMAIN chain : chain[p].kind = "proxy"
         /\ \A n \in DOMAIN chain :
              chain[n].kind = "opa" /\ chain[n].level = "connect" => n = 1
<1>1. PICK c \in Configs : chain = HttpChain(Parsed(c.opa, c.cache, c.filters))
  BY DEF Resources
<1>2. c.opa \in BOOLEAN /\ c.cache \in BOOLEAN /\ c.filters \in Seq(Filters(Names))
  BY ConfigsAssumption DEF Filters
<1>3. /\ chain \in Seq(OneOf(Names)) /\ Ordered(chain)
      /\ \E p \in 1..Len(chain) : chain[p].kind = "proxy"
      /\ \A n \in 1..Len(chain) :
           chain[n].kind = "opa" /\ chain[n].level = "connect" => n = 1
  BY <1>1, <1>2, ChainIsSorted
<1>4. DOMAIN chain = 1..Len(chain)
  BY <1>3
<1> QED  BY <1>3, <1>4

\* A member comes before those of the levels after its own.
LEMMA EarlierLevel ==
  ASSUME chain \in Resources, NEW m \in DOMAIN chain, NEW n \in DOMAIN chain,
         ~(Place(chain[n].level) <= Place(chain[m].level))
  PROVE  m < n
<1>1. Len(chain) \in Nat /\ DOMAIN chain = 1..Len(chain) /\ Ordered(chain)
  BY ChainFacts
<1>2. n < m => Place(chain[n].level) <= Place(chain[m].level)
  BY <1>1 DEF Ordered
<1>3. m # n
  <2>1. SUFFICES ASSUME m = n PROVE FALSE
    OBVIOUS
  <2>2. chain[n] \in OneOf(Names)
    BY ChainFacts
  <2>3. chain[n].level \in {"none", "connect", "pre", "request", "response", "post"}
    BY <2>2, OwnCallers DEF OneOf, Filters, FilterOf
  <2>4. Place(chain[n].level) \in Nat
    BY <2>3, Places
  <2> QED  BY <2>1, <2>4
<1> QED  BY <1>1, <1>2, <1>3

\* The gates come before the proxy, the connect level before a lookup, and
\* everything else before a put.
LEMMA GatesFirst ==
  ASSUME chain \in Resources, NEW m \in DOMAIN chain, NEW n \in DOMAIN chain
  PROVE  /\ ~chain[m].parallel
         /\ m \in Gates /\ chain[n].kind = "proxy" => m < n
         /\ m \in Connect /\ chain[n].kind = "get" => m < n
         /\ chain[m].kind = "get" /\ chain[n].kind = "proxy" => m < n
         /\ chain[m].kind # "set" /\ chain[n].kind = "set" => m < n
         /\ chain[m].kind = "filter" /\ chain[n].kind = "opa" /\ n \in Connect => n < m
<1>1. chain[m] \in OneOf(Names) /\ chain[n] \in OneOf(Names)
  BY ChainFacts
<1>2. /\ ~chain[m].parallel
      /\ chain[m].level = "none" <=> chain[m].kind = "proxy"
      /\ chain[m].level = "pre" <=> chain[m].kind = "get"
      /\ chain[m].level = "post" <=> chain[m].kind = "set"
      /\ chain[m].level \in {"connect", "request", "response"} <=> chain[m].kind \in {"opa", "filter"}
  BY <1>1, KindAndLevel
<1>3. /\ chain[n].level = "none" <=> chain[n].kind = "proxy"
      /\ chain[n].level = "pre" <=> chain[n].kind = "get"
      /\ chain[n].level = "post" <=> chain[n].kind = "set"
      /\ chain[n].kind = "opa" /\ chain[n].level = "connect" => n = 1
  BY <1>1, KindAndLevel, ChainFacts
<1>4. chain[m].level \in {"none", "connect", "pre", "request", "response", "post"}
  BY <1>1, OwnCallers DEF OneOf, Filters, FilterOf
<1>5. m \in Gates /\ chain[n].kind = "proxy" => m < n
  BY <1>3, EarlierLevel, Places DEF Gates
<1>6. m \in Connect /\ chain[n].kind = "get" => m < n
  BY <1>3, EarlierLevel, Places DEF Connect
<1>7. chain[m].kind = "get" /\ chain[n].kind = "proxy" => m < n
  BY <1>2, <1>3, EarlierLevel, Places
<1>8. chain[m].kind # "set" /\ chain[n].kind = "set" => m < n
  BY <1>2, <1>3, <1>4, EarlierLevel, Places
<1>9. chain[m].kind = "filter" /\ chain[n].kind = "opa" /\ n \in Connect => n < m
  <2>1. chain[m].kind = "filter" /\ chain[n].kind = "opa" => m # n
    OBVIOUS
  <2>2. m \in Nat /\ m >= 1
    BY ChainFacts
  <2> QED  BY <1>3, <2>1, <2>2 DEF Connect
<1> QED  BY <1>2, <1>5, <1>6, <1>7, <1>8, <1>9

-----------------------------------------------------------------------------
(* The inductive invariant.                                                *)

\* Members are called one after the other and each says its part once: those
\* before the current one have let the request through.
Progress(r) ==
  /\ \A m \in DOMAIN chain : m > at[r] => said[r][m] = ""
  /\ \A m \in DOMAIN chain : m < at[r] => said[r][m] = "yes"
  /\ busy[r] => verdict[r] = "pending" /\ at[r] # 0 /\ said[r][at[r]] = ""
  /\ ~busy[r] /\ verdict[r] = "pending" /\ at[r] # 0 => said[r][at[r]] = "yes"

\* Only the proxy reaches the backend, and it leaves the backend's answer.
Proxied(r) ==
  /\ seen[r] # "" => \E p \in DOMAIN chain : p <= at[r] /\ chain[p].kind = "proxy"
  /\ \A p \in DOMAIN chain :
       chain[p].kind = "proxy" /\ said[r][p] = "yes" => in[r] = "backend"

\* An entry that is the answer to a request with its key.
Checked(e) == e.key = KeyFor(e.from) /\ e.what = "backend" /\ Vetted(e.from)

\* A hit ends the run at the lookup, with such an entry; nothing else serves
\* one.
HitAt(r) ==
  /\ served[r] # {} => verdict[r] = "hit"
  /\ verdict[r] = "hit" =>
       /\ at[r] # 0 /\ KindAt(r) = "get"
       /\ served[r] # {} /\ \A e \in served[r] : Checked(e) /\ e.key = KeyFor(r)

\* A denial ends the run at the member that got it.
DeniedAt(r) == \A m \in denied[r] : m = at[r] /\ verdict[r] = "error"

RequestInv(r) == Progress(r) /\ Proxied(r) /\ HitAt(r) /\ DeniedAt(r)

Inv ==
  /\ TypeOK
  /\ \A r \in Requests : RequestInv(r)
  /\ \A e \in kv \cup late : Checked(e)

-----------------------------------------------------------------------------
(* What the invariant implies.                                             *)

LEMMA TypeFacts ==
  ASSUME TypeOK
  PROVE  /\ chain \in Resources /\ req \in [Requests -> Query]
         /\ Len(chain) \in Nat /\ DOMAIN chain = 1..Len(chain)
         /\ at \in [Requests -> 0..Len(chain)]
         /\ busy \in [Requests -> BOOLEAN]
         /\ said \in [Requests -> [DOMAIN chain -> {"", "yes", "no"}]]
         /\ denied \in [Requests -> SUBSET DOMAIN chain]
         /\ in \in [Requests -> {"client", "backend"}]
         /\ seen \in [Requests -> {""} \cup Method]
         /\ verdict \in [Requests -> {"pending", "ok", "hit", "error"}]
         /\ served \in [Requests -> SUBSET Stored]
         /\ kv \subseteq Stored /\ late \subseteq Stored
         /\ \A e, f \in kv : e.key = f.key => e = f
BY ChainFacts DEF TypeOK

LEMMA AtFacts ==
  ASSUME TypeOK, NEW r \in Requests
  PROVE  /\ chain \in Resources /\ at[r] \in Nat
         /\ at[r] # 0 => at[r] \in DOMAIN chain
         /\ \A m \in DOMAIN chain : m \in Nat /\ m # 0
<1>1. at[r] \in 0..Len(chain) /\ chain \in Resources
  BY DEF TypeOK
<1> QED  BY <1>1, ChainFacts

\* A member that the chain has left behind let the request through.
LEMMA Passed ==
  ASSUME TypeOK, NEW r \in Requests, Progress(r),
         NEW m \in DOMAIN chain, NEW n \in DOMAIN chain, m < n, n <= at[r]
  PROVE  said[r][m] = "yes"
<1>1. m \in Nat /\ n \in Nat /\ at[r] \in Nat
  BY AtFacts
<1>2. m < at[r]
  BY <1>1
<1> QED  BY <1>2 DEF Progress

LEMMA ImpliesEntryVetted == Inv => EntryVetted
BY DEF Inv, EntryVetted, Checked

LEMMA ImpliesHitVetted == Inv => HitVetted
<1> SUFFICES ASSUME Inv, NEW r \in Requests, verdict[r] = "hit"
             PROVE  /\ \A m \in Connect : said[r][m] = "yes"
                    /\ \E e \in served[r] : KeyFor(e.from) = KeyFor(r) /\ Vetted(e.from)
  BY DEF HitVetted
<1>1. TypeOK /\ Progress(r) /\ HitAt(r)
  BY DEF Inv, RequestInv
<1>2. at[r] \in DOMAIN chain /\ at[r] <= at[r] /\ chain[at[r]].kind = "get"
  BY <1>1, AtFacts DEF HitAt, KindAt
<1>3. \A m \in Connect : m \in DOMAIN chain /\ m < at[r]
  BY <1>1, <1>2, AtFacts, GatesFirst DEF Connect
<1>4. \A m \in Connect : said[r][m] = "yes"
  BY <1>1, <1>3 DEF Progress
<1>5. PICK e \in served[r] : Checked(e) /\ e.key = KeyFor(r)
  BY <1>1 DEF HitAt
<1> QED  BY <1>4, <1>5 DEF Checked

LEMMA ImpliesBackendGated == Inv => BackendGated
<1> SUFFICES ASSUME Inv, NEW r \in Requests, seen[r] # ""
             PROVE  served[r] = {} /\ \A m \in Gates : said[r][m] = "yes"
  BY DEF BackendGated
<1>1. TypeOK /\ Progress(r) /\ HitAt(r) /\ Proxied(r)
  BY DEF Inv, RequestInv
<1>2. PICK p \in DOMAIN chain : p <= at[r] /\ chain[p].kind = "proxy"
  BY <1>1 DEF Proxied
<1>3. \A m \in Gates : m \in DOMAIN chain /\ m < p
  BY <1>1, <1>2, AtFacts, GatesFirst DEF Gates
<1>4. \A m \in Gates : said[r][m] = "yes"
  BY <1>1, <1>2, <1>3, Passed
<1>5. ASSUME served[r] # {} PROVE FALSE
  <2>1. at[r] \in DOMAIN chain /\ chain[at[r]].kind = "get"
    BY <1>1, <1>5, AtFacts DEF HitAt, KindAt
  <2>2. at[r] < p
    BY <1>1, <1>2, <2>1, AtFacts, GatesFirst
  <2>3. at[r] \in Nat /\ p \in Nat
    BY <1>1, AtFacts
  <2> QED  BY <1>2, <2>2, <2>3, LessOrNot
<1> QED  BY <1>4, <1>5

LEMMA ImpliesOpaFirst == Inv => OpaFirst
<1> SUFFICES ASSUME Inv, NEW r \in Requests, NEW m \in DOMAIN chain, NEW n \in DOMAIN chain,
                    chain[m].kind = "filter", said[r][m] # "" \/ (busy[r] /\ at[r] = m),
                    chain[n].kind = "opa", chain[n].level = "connect"
             PROVE  said[r][n] = "yes"
  BY DEF OpaFirst
<1>1. TypeOK /\ Progress(r)
  BY DEF Inv, RequestInv
<1>2. n < m
  BY <1>1, AtFacts, GatesFirst DEF Connect
<1>3. m <= at[r]
  <2>1. at[r] \in Nat /\ m \in Nat
    BY <1>1, AtFacts
  <2>2. m > at[r] => said[r][m] = ""
    BY <1>1 DEF Progress
  <2>3. CASE said[r][m] # ""
    <3>1. ~(at[r] < m)
      BY <2>1, <2>2, <2>3, LessOrNot
    <3> QED  BY <2>1, <3>1, LessOrNot
  <2>4. CASE at[r] = m
    <3>1. m <= m
      BY <2>1, LessOrNot
    <3> QED  BY <2>4, <3>1, Zenon
  <2> QED  BY <2>3, <2>4
<1> QED  BY <1>1, <1>2, <1>3, Passed

LEMMA ImpliesDenialHolds == Inv => DenialHolds
<1> SUFFICES ASSUME Inv, NEW r \in Requests, NEW m \in denied[r]
             PROVE  verdict[r] = "error" /\ (m \in Gates => seen[r] = "")
  BY DEF DenialHolds
<1>1. TypeOK /\ Proxied(r) /\ DeniedAt(r)
  BY DEF Inv, RequestInv
<1>2. m = at[r] /\ verdict[r] = "error"
  BY <1>1 DEF DeniedAt
<1>3. ASSUME m \in Gates, seen[r] # "" PROVE FALSE
  <2>1. PICK p \in DOMAIN chain : p <= at[r] /\ chain[p].kind = "proxy"
    BY <1>1, <1>3 DEF Proxied
  <2>2. m \in DOMAIN chain /\ m < p
    BY <1>1, <1>3, <2>1, AtFacts, GatesFirst DEF Gates
  <2> QED  BY <1>1, <1>2, <2>1, <2>2, AtFacts
<1> QED  BY <1>2, <1>3

-----------------------------------------------------------------------------
(* The initial states.                                                     *)

LEMMA InitInv == Init => Inv
<1> SUFFICES ASSUME Init PROVE Inv
  OBVIOUS
<1>1. chain \in Resources
  BY DEF Init
<1>2. Len(chain) \in Nat /\ DOMAIN chain = 1..Len(chain)
  BY <1>1, ChainFacts
<1>3. TypeOK
  <2>0. 0 \in 0..Len(chain) /\ {} \in SUBSET DOMAIN chain
    BY <1>2
  <2>1. /\ req \in [Requests -> Query] /\ at \in [Requests -> 0..Len(chain)]
        /\ busy \in [Requests -> BOOLEAN]
        /\ denied \in [Requests -> SUBSET DOMAIN chain]
        /\ in \in [Requests -> {"client", "backend"}]
        /\ seen \in [Requests -> {""} \cup Method]
        /\ verdict \in [Requests -> {"pending", "ok", "hit", "error"}]
    BY <2>0 DEF Init
  <2>2. said \in [Requests -> [DOMAIN chain -> {"", "yes", "no"}]]
    BY DEF Init
  <2>3. kv = {} /\ late = {} /\ served \in [Requests -> SUBSET Stored]
    BY DEF Init
  <2> QED  BY <1>1, <2>1, <2>2, <2>3 DEF TypeOK
<1>4. ASSUME NEW r \in Requests PROVE RequestInv(r)
  <2>1. /\ at[r] = 0 /\ busy[r] = FALSE /\ seen[r] = "" /\ served[r] = {}
        /\ denied[r] = {} /\ verdict[r] = "pending"
        /\ \A m \in DOMAIN chain : said[r][m] = ""
    BY DEF Init
  <2>2. \A m \in DOMAIN chain : ~(m < 0)
    BY <1>2
  <2> QED  BY <2>1, <2>2 DEF RequestInv, Progress, Proxied, HitAt, DeniedAt
<1> QED  BY <1>3, <1>4 DEF Inv, Init

-----------------------------------------------------------------------------
(* What a step does to one request.                                        *)

Same(r) ==
  /\ at'[r] = at[r] /\ busy'[r] = busy[r] /\ said'[r] = said[r] /\ denied'[r] = denied[r]
  /\ in'[r] = in[r] /\ seen'[r] = seen[r] /\ served'[r] = served[r] /\ verdict'[r] = verdict[r]

Starts(r) ==
  /\ verdict[r] = "pending" /\ ~busy[r] /\ at[r] < Len(chain)
  /\ at'[r] = at[r] + 1 /\ busy'[r] = TRUE
  /\ said'[r] = said[r] /\ denied'[r] = denied[r] /\ in'[r] = in[r] /\ seen'[r] = seen[r]
  /\ served'[r] = served[r] /\ verdict'[r] = verdict[r]

\* The current member lets the request through; the proxy leaves the
\* backend's answer.
Passes(r) ==
  /\ Waits(r)
  /\ said'[r] = [said[r] EXCEPT ![at[r]] = "yes"] /\ busy'[r] = FALSE
  /\ in'[r] = IF KindAt(r) = "proxy" THEN "backend" ELSE in[r]
  /\ at'[r] = at[r] /\ denied'[r] = denied[r] /\ seen'[r] = seen[r] /\ served'[r] = served[r]
  /\ verdict'[r] = verdict[r]

Refuses(r) ==
  /\ Waits(r)
  /\ said'[r] = [said[r] EXCEPT ![at[r]] = "no"] /\ busy'[r] = FALSE /\ verdict'[r] = "error"
  /\ denied'[r] \in {denied[r], denied[r] \cup {at[r]}}
  /\ at'[r] = at[r] /\ in'[r] = in[r] /\ seen'[r] = seen[r] /\ served'[r] = served[r]

Hits(r) ==
  /\ Waits(r) /\ KindAt(r) = "get" /\ Under(KeyFor(r)) # {}
  /\ served'[r] = Under(KeyFor(r)) /\ busy'[r] = FALSE /\ verdict'[r] = "hit"
  /\ at'[r] = at[r] /\ said'[r] = said[r] /\ denied'[r] = denied[r] /\ in'[r] = in[r]
  /\ seen'[r] = seen[r]

Reaches(r) ==
  /\ Waits(r) /\ KindAt(r) = "proxy" /\ seen'[r] \in Method
  /\ at'[r] = at[r] /\ busy'[r] = busy[r] /\ said'[r] = said[r] /\ denied'[r] = denied[r]
  /\ in'[r] = in[r] /\ served'[r] = served[r] /\ verdict'[r] = verdict[r]

Ends(r) ==
  /\ verdict[r] = "pending"
  /\ \/ ~busy[r] /\ at[r] = Len(chain) /\ verdict'[r] = "ok"
     \/ at[r] = 0 /\ verdict'[r] = "error"
  /\ at'[r] = at[r] /\ busy'[r] = busy[r] /\ said'[r] = said[r] /\ denied'[r] = denied[r]
  /\ in'[r] = in[r] /\ seen'[r] = seen[r] /\ served'[r] = served[r]

Effect(r) == Starts(r) \/ Passes(r) \/ Refuses(r) \/ Hits(r) \/ Reaches(r) \/ Ends(r)

\* A denial of the agent's is never let through.
LEMMA DenialRefused == ASSUME NEW a, Denies(a) PROVE ~Eval(a)
BY DEF Denies, Eval

LEMMA SentMethod ==
  ASSUME TypeOK, NEW r \in Requests
  PROVE  SentAs(Cloned(req[r])) \in Method
<1>1. Cloned(req[r]).method = ""
  BY TypeFacts DEF Cloned, Query
<1> QED  BY <1>1 DEF SentAs, Method

LEMMA HandleEffect ==
  ASSUME TypeOK, NEW r \in Requests, Handle(r)
  PROVE  /\ chain' = chain /\ req' = req
         /\ \A d \in Requests : d # r => Same(d)
         /\ Effect(r)
<1>0. /\ at \in [Requests -> 0..Len(chain)]
      /\ busy \in [Requests -> BOOLEAN]
      /\ said \in [Requests -> [DOMAIN chain -> {"", "yes", "no"}]]
      /\ denied \in [Requests -> SUBSET DOMAIN chain]
      /\ in \in [Requests -> {"client", "backend"}]
      /\ seen \in [Requests -> {""} \cup Method]
      /\ served \in [Requests -> SUBSET Stored]
      /\ verdict \in [Requests -> {"pending", "ok", "hit", "error"}]
  BY TypeFacts
<1>1. CASE Start(r)
  <2>1. Starts(r)
    BY <1>0, <1>1 DEF Start, Starts
  <2> QED  BY <1>0, <1>1, <2>1 DEF Start, Same, Effect
<1>2. CASE Accept(r)
  <2>1. Passes(r)
    BY <1>0, <1>2 DEF Accept, Passes, Say, Return, KindAt
  <2> QED  BY <1>0, <1>2, <2>1 DEF Accept, Same, Effect, Say, Return
<1>3. CASE Decide(r)
  <2>1. PICK a \in AgentReply :
          /\ denied' = IF Denies(a) THEN [denied EXCEPT ![r] = @ \cup {at[r]}] ELSE denied
          /\ IF Eval(a) THEN Say(r, "yes") /\ UNCHANGED verdict
                        ELSE Say(r, "no") /\ Answer(r, "error")
    BY <1>3 DEF Decide
  <2>2. /\ Waits(r) /\ KindAt(r) = "opa" /\ Return(r)
        /\ UNCHANGED <<chain, req, at, in, seen, served, kv, late>>
    BY <1>3 DEF Decide
  <2>3. CASE Eval(a)
    <3>1. denied' = denied /\ Say(r, "yes") /\ verdict' = verdict
      BY <2>1, <2>3, DenialRefused
    <3>2. Passes(r)
      BY <1>0, <2>2, <3>1 DEF Passes, Say, Return
    <3> QED  BY <1>0, <2>2, <3>1, <3>2 DEF Same, Effect, Say, Return
  <2>4. CASE ~Eval(a)
    <3>1. /\ denied' \in {denied, [denied EXCEPT ![r] = @ \cup {at[r]}]}
          /\ Say(r, "no") /\ Answer(r, "error")
      BY <2>1, <2>4
    <3>2. /\ denied'[r] \in {denied[r], denied[r] \cup {at[r]}}
          /\ \A d \in Requests : d # r => denied'[d] = denied[d]
      BY <1>0, <3>1
    <3>3. Refuses(r)
      BY <1>0, <2>2, <3>1, <3>2 DEF Refuses, Say, Return, Answer
    <3> QED  BY <1>0, <2>2, <3>1, <3>2, <3>3 DEF Same, Effect, Say, Return, Answer
  <2> QED  BY <2>3, <2>4
<1>4. CASE Refuse(r)
  <2>1. Refuses(r)
    BY <1>0, <1>4 DEF Refuse, Refuses, Say, Return, Answer
  <2> QED  BY <1>0, <1>4, <2>1 DEF Refuse, Same, Effect, Say, Return, Answer
<1>5. CASE Miss(r)
  <2>1. Passes(r)
    BY <1>0, <1>5 DEF Miss, Passes, Say, Return
  <2> QED  BY <1>0, <1>5, <2>1 DEF Miss, Same, Effect, Say, Return
<1>6. CASE Hit(r)
  <2>1. Hits(r)
    BY <1>0, <1>6 DEF Hit, Hits, Return, Answer
  <2> QED  BY <1>0, <1>6, <2>1 DEF Hit, Same, Effect, Return, Answer
<1>7. CASE Reach(r)
  <2>1. SentAs(Cloned(req[r])) \in Method
    BY SentMethod
  <2>2. Reaches(r)
    BY <1>0, <1>7, <2>1 DEF Reach, Reaches
  <2> QED  BY <1>0, <1>7, <2>2 DEF Reach, Same, Effect
<1>8. CASE Replied(r)
  <2>1. Passes(r)
    BY <1>0, <1>8 DEF Replied, Passes, Say, Return
  <2> QED  BY <1>0, <1>8, <2>1 DEF Replied, Same, Effect, Say, Return
<1>9. CASE Store(r)
  <2>1. Passes(r)
    BY <1>0, <1>9 DEF Store, Passes, Say, Return
  <2> QED  BY <1>0, <1>9, <2>1 DEF Store, Same, Effect, Say, Return
<1>10. CASE StoreFails(r)
  <2>1. Refuses(r)
    BY <1>0, <1>10 DEF StoreFails, Refuses, Say, Return, Answer
  <2> QED  BY <1>0, <1>10, <2>1 DEF StoreFails, Same, Effect, Say, Return, Answer
<1>11. CASE Finish(r)
  <2>1. Ends(r)
    BY <1>0, <1>11 DEF Finish, Ends, Answer
  <2> QED  BY <1>0, <1>11, <2>1 DEF Finish, Same, Effect, Answer
<1>12. CASE Unreadable(r)
  <2>1. Ends(r)
    BY <1>0, <1>12 DEF Unreadable, Ends, Answer
  <2> QED  BY <1>0, <1>12, <2>1 DEF Unreadable, Same, Effect, Answer
<1> QED  BY <1>1, <1>2, <1>3, <1>4, <1>5, <1>6, <1>7, <1>8, <1>9, <1>10, <1>11, <1>12 DEF Handle

LEMMA NextEffect ==
  ASSUME TypeOK, [Next]_vars
  PROVE  /\ chain' = chain /\ req' = req
         /\ \A r \in Requests : Same(r) \/ Effect(r)
<1>1. CASE \E r \in Requests : Handle(r)
  BY <1>1, HandleEffect
<1>2. CASE PutLate \/ ExpireEntry \/ UNCHANGED vars
  BY <1>2 DEF PutLate, ExpireEntry, vars, Same
<1> QED  BY <1>1, <1>2 DEF Next, Terminated

-----------------------------------------------------------------------------
(* Types are preserved.                                                    *)

LEMMA EntryStored ==
  ASSUME TypeOK, NEW r \in Requests
  PROVE  Entry(r) \in Stored /\ Entry(r).key = KeyFor(r) /\ Entry(r).from = r
         /\ Entry(r).what = in[r]
<1>1. req[r].body \in Bodies /\ in[r] \in {"client", "backend"}
  BY TypeFacts DEF Query
<1>2. Cloned(req[r]).body = req[r].body
  BY TypeFacts DEF Cloned, Query
<1>3. KeyFor(r) \in [Template \ {"method"} -> Bodies]
  <2>1. \A f \in Template \ {"method"} : f = "body"
    BY TemplateAssumption
  <2> QED  BY <1>1, <1>2, <2>1 DEF KeyFor, Key
<1> HIDE DEF KeyFor
<1> QED  BY <1>1, <1>3 DEF Entry, PutKey, Stored

\* The bucket keeps one entry for each key.
LEMMA PutKeeps ==
  ASSUME TypeOK, NEW e \in Stored, Put(e)
  PROVE  kv' \subseteq Stored /\ \A f, g \in kv' : f.key = g.key => f = g
BY TypeFacts DEF Put, Under

LEMMA HandleTypes ==
  ASSUME TypeOK, NEW r \in Requests, Progress(r), Handle(r)
  PROVE  TypeOK'
<1>0. /\ chain \in Resources /\ req \in [Requests -> Query]
      /\ at \in [Requests -> 0..Len(chain)]
      /\ busy \in [Requests -> BOOLEAN]
      /\ said \in [Requests -> [DOMAIN chain -> {"", "yes", "no"}]]
      /\ denied \in [Requests -> SUBSET DOMAIN chain]
      /\ in \in [Requests -> {"client", "backend"}]
      /\ seen \in [Requests -> {""} \cup Method]
      /\ verdict \in [Requests -> {"pending", "ok", "hit", "error"}]
      /\ served \in [Requests -> SUBSET Stored]
      /\ kv \subseteq Stored /\ late \subseteq Stored
      /\ \A e, f \in kv : e.key = f.key => e = f
  BY TypeFacts
<1>a. chain' = chain /\ req' = req
  BY HandleEffect
<1>b. /\ busy[r] => at[r] \in DOMAIN chain
      /\ at[r] < Len(chain) => at[r] + 1 \in 0..Len(chain)
  <2>1. busy[r] => at[r] \in DOMAIN chain
    BY AtFacts DEF Progress
  <2>2. Len(chain) \in Nat /\ at[r] \in 0..Len(chain)
    BY TypeFacts
  <2>3. at[r] < Len(chain) => at[r] + 1 \in 0..Len(chain)
    BY <2>2
  <2> QED  BY <2>1, <2>3
<1>c. ASSUME NEW what \in {"yes", "no"}, Say(r, what)
      PROVE  said' \in [Requests -> [DOMAIN chain -> {"", "yes", "no"}]]
  BY <1>0, <1>c DEF Say
<1>d. Return(r) => busy' \in [Requests -> BOOLEAN]
  BY <1>0 DEF Return
<1>e. ASSUME NEW v \in {"ok", "hit", "error"}, Answer(r, v)
      PROVE  verdict' \in [Requests -> {"pending", "ok", "hit", "error"}]
  BY <1>0, <1>e DEF Answer
<1>f. Entry(r) \in Stored
  BY EntryStored
<1>1. CASE Start(r)
  BY <1>0, <1>1, <1>b DEF Start, TypeOK
<1>2. CASE Accept(r)
  BY <1>0, <1>2, <1>c, <1>d DEF Accept, TypeOK
<1>3. CASE Decide(r)
  <2>1. PICK a \in AgentReply :
          /\ denied' = IF Denies(a) THEN [denied EXCEPT ![r] = @ \cup {at[r]}] ELSE denied
          /\ IF Eval(a) THEN Say(r, "yes") /\ UNCHANGED verdict
                        ELSE Say(r, "no") /\ Answer(r, "error")
    BY <1>3 DEF Decide
  <2>2. busy[r]
    BY <1>3 DEF Decide, Waits
  <2>3. denied' \in [Requests -> SUBSET DOMAIN chain]
    BY <1>0, <1>b, <2>1, <2>2
  <2>4. /\ said' \in [Requests -> [DOMAIN chain -> {"", "yes", "no"}]]
        /\ verdict' \in [Requests -> {"pending", "ok", "hit", "error"}]
    BY <1>0, <1>c, <1>e, <2>1
  <2> QED  BY <1>0, <1>3, <1>d, <2>3, <2>4 DEF Decide, TypeOK
<1>4. CASE Refuse(r)
  BY <1>0, <1>4, <1>c, <1>d, <1>e DEF Refuse, TypeOK
<1>5. CASE Miss(r)
  BY <1>0, <1>5, <1>c, <1>d DEF Miss, TypeOK
<1>6. CASE Hit(r)
  <2>1. served' \in [Requests -> SUBSET Stored]
    BY <1>0, <1>6 DEF Hit, Under
  <2> QED  BY <1>0, <1>6, <1>d, <1>e, <2>1 DEF Hit, TypeOK
<1>7. CASE Reach(r)
  <2>1. seen' \in [Requests -> {""} \cup Method]
    BY <1>0, <1>7, SentMethod DEF Reach
  <2> QED  BY <1>0, <1>7, <2>1 DEF Reach, TypeOK
<1>8. CASE Replied(r)
  BY <1>0, <1>8, <1>c, <1>d DEF Replied, TypeOK
<1>9. CASE Store(r)
  BY <1>0, <1>9, <1>c, <1>d, <1>f, PutKeeps DEF Store, TypeOK
<1>10. CASE StoreFails(r)
  BY <1>0, <1>10, <1>c, <1>d, <1>e, <1>f DEF StoreFails, TypeOK
<1>11. CASE Finish(r)
  BY <1>0, <1>11, <1>e DEF Finish, TypeOK
<1>12. CASE Unreadable(r)
  BY <1>0, <1>12, <1>e DEF Unreadable, TypeOK
<1> QED  BY <1>1, <1>2, <1>3, <1>4, <1>5, <1>6, <1>7, <1>8, <1>9, <1>10, <1>11, <1>12 DEF Handle

LEMMA NextTypes ==
  ASSUME TypeOK, \A r \in Requests : Progress(r), [Next]_vars
  PROVE  TypeOK'
<1>1. CASE \E r \in Requests : Handle(r)
  BY <1>1, HandleTypes
<1>2. CASE PutLate
  <2>1. PICK e \in late : Put(e) /\ late' = late \ {e} /\ UNCHANGED <<chain, req, reqVars>>
    BY <1>2 DEF PutLate
  <2>2. e \in Stored /\ late' \subseteq Stored
    BY <2>1, TypeFacts
  <2> QED  BY <2>1, <2>2, PutKeeps DEF TypeOK
<1>3. CASE ExpireEntry
  <2>1. /\ kv' \subseteq kv /\ UNCHANGED <<chain, req, reqVars, late>>
    BY <1>3 DEF ExpireEntry
  <2> QED  BY <2>1 DEF TypeOK
<1>4. CASE UNCHANGED vars
  BY <1>4 DEF vars, TypeOK, Stored
<1> QED  BY <1>1, <1>2, <1>3, <1>4 DEF Next, Terminated

-----------------------------------------------------------------------------
(* The rest of the invariant is preserved.                                 *)

\* What has been said is not said again: a request that every gate has let
\* through stays one.
LEMMA VettedStays ==
  ASSUME TypeOK, NEW r \in Requests, Progress(r), chain' = chain, Same(r) \/ Effect(r),
         Vetted(r)
  PROVE  Vetted(r)'
<1>1. CASE said'[r] = said[r]
  BY <1>1 DEF Vetted
<1>2. ASSUME NEW what, Waits(r), said'[r] = [said[r] EXCEPT ![at[r]] = what]
      PROVE  Vetted(r)'
  <2>1. said[r][at[r]] = "" /\ at[r] \in DOMAIN chain
    BY <1>2, AtFacts DEF Progress, Waits
  <2>2. chain[at[r]].kind = "set"
    BY <2>1 DEF Vetted
  <2>3. \A m \in DOMAIN chain : m # at[r] => said'[r][m] = said[r][m]
    BY <1>2, TypeFacts
  <2> QED  BY <2>2, <2>3 DEF Vetted
<1> QED  BY <1>1, <1>2 DEF Same, Effect, Starts, Passes, Refuses, Hits, Reaches, Ends

LEMMA CheckedStays ==
  ASSUME TypeOK, \A r \in Requests : Progress(r), [Next]_vars, NEW e \in Stored, Checked(e)
  PROVE  Checked(e)'
<1>1. e.from \in Requests
  BY DEF Stored
<1>2. chain' = chain /\ req' = req /\ (Same(e.from) \/ Effect(e.from))
  BY <1>1, NextEffect
<1>3. Vetted(e.from)'
  BY <1>1, <1>2, VettedStays DEF Checked
<1> QED  BY <1>2, <1>3 DEF Checked, KeyFor, Key, Cloned

\* What a put stores has been checked by then: it comes after all gates and
\* after the proxy.
LEMMA PutChecked ==
  ASSUME TypeOK, NEW r \in Requests, Progress(r), Proxied(r), Waits(r), KindAt(r) = "set"
  PROVE  Checked(Entry(r))
<1>1. at[r] \in DOMAIN chain /\ chain[at[r]].kind = "set" /\ chain \in Resources
  BY AtFacts DEF Progress, Waits, KindAt
<1>2. \A m \in DOMAIN chain : chain[m].kind # "set" => m < at[r]
  BY <1>1, GatesFirst
<1>3. Vetted(r)
  BY <1>2 DEF Vetted, Progress
<1>4. in[r] = "backend"
  <2>1. PICK p \in DOMAIN chain : chain[p].kind = "proxy"
    BY <1>1, ChainFacts
  <2> QED  BY <1>3, <2>1 DEF Vetted, Proxied
<1> QED  BY <1>3, <1>4, EntryStored DEF Checked

LEMMA BucketEffect ==
  ASSUME TypeOK, [Next]_vars, NEW e \in kv' \cup late'
  PROVE  \/ e \in kv \cup late
         \/ \E r \in Requests : Waits(r) /\ KindAt(r) = "set" /\ e = Entry(r)
<1>1. ASSUME NEW r \in Requests, Handle(r)
      PROVE  e \in kv \cup late \/ (Waits(r) /\ KindAt(r) = "set" /\ e = Entry(r))
  <2>1. CASE kv' = kv /\ late' = late
    BY <2>1
  <2>2. CASE Store(r)
    BY <2>2 DEF Store, Put
  <2>3. CASE StoreFails(r)
    BY <2>3 DEF StoreFails
  <2> QED  BY <1>1, <2>1, <2>2, <2>3
           DEF Handle, Start, Accept, Decide, Refuse, Miss, Hit, Reach, Replied, Finish, Unreadable
<1>2. CASE PutLate
  BY <1>2 DEF PutLate, Put
<1>3. CASE ExpireEntry \/ UNCHANGED vars
  BY <1>3 DEF ExpireEntry, vars
<1> QED  BY <1>1, <1>2, <1>3 DEF Next, Terminated

LEMMA NextEntries ==
  ASSUME Inv, [Next]_vars
  PROVE  \A e \in kv' \cup late' : Checked(e)'
<1>1. TypeOK /\ \A r \in Requests : Progress(r) /\ Proxied(r)
  BY DEF Inv, RequestInv
<1>2. ASSUME NEW e \in kv' \cup late' PROVE Checked(e)'
  <2>1. e \in Stored /\ Checked(e)
    <3>1. CASE e \in kv \cup late
      BY <1>1, <3>1, TypeFacts DEF Inv
    <3>2. CASE \E r \in Requests : Waits(r) /\ KindAt(r) = "set" /\ e = Entry(r)
      BY <1>1, <3>2, PutChecked, EntryStored
    <3> QED  BY <1>1, <3>1, <3>2, BucketEffect
  <2> QED  BY <1>1, <2>1, CheckedStays
<1> QED  BY <1>2

LEMMA NextProgress ==
  ASSUME TypeOK, NEW r \in Requests, Progress(r), chain' = chain, Same(r) \/ Effect(r)
  PROVE  Progress(r)'
<1>0. /\ at[r] \in Nat /\ busy[r] \in BOOLEAN
      /\ at[r] # 0 => at[r] \in DOMAIN chain
      /\ \A m \in DOMAIN chain : m \in Nat /\ m # 0
      /\ DOMAIN said[r] = DOMAIN chain
  BY AtFacts, TypeFacts
<1>1. CASE Same(r)
  BY <1>1 DEF Same, Progress
<1>2. CASE Starts(r)
  <2>1. /\ at'[r] = at[r] + 1 /\ said'[r] = said[r] /\ busy'[r] = TRUE
        /\ verdict'[r] = verdict[r] /\ verdict[r] = "pending" /\ ~busy[r]
    BY <1>2 DEF Starts
  <2>2. /\ at[r] + 1 \in DOMAIN chain /\ at[r] + 1 > at[r] /\ at[r] + 1 # 0
        /\ \A m \in DOMAIN chain : m > at[r] + 1 => m > at[r]
        /\ \A m \in DOMAIN chain : m < at[r] + 1 => m < at[r] \/ m = at[r]
    <3>1. at[r] < Len(chain) /\ Len(chain) \in Nat /\ DOMAIN chain = 1..Len(chain)
      BY <1>2, TypeFacts DEF Starts
    <3> QED  BY <1>0, <3>1
  <2>3. said[r][at[r] + 1] = ""
    BY <2>2 DEF Progress
  <2>4. \A m \in DOMAIN chain : m < at[r] + 1 => said[r][m] = "yes"
    <3>1. at[r] # 0 => said[r][at[r]] = "yes"
      BY <2>1 DEF Progress
    <3>2. \A m \in DOMAIN chain : m < at[r] => said[r][m] = "yes"
      BY DEF Progress
    <3> QED  BY <1>0, <2>2, <3>1, <3>2
  <2>5. \A m \in DOMAIN chain : m > at[r] + 1 => said[r][m] = ""
    <3>1. \A m \in DOMAIN chain : m > at[r] => said[r][m] = ""
      BY DEF Progress
    <3> QED  BY <2>2, <3>1
  <2>6. /\ chain' = chain /\ said'[r][at'[r]] = ""
        /\ \A m \in DOMAIN chain : m > at'[r] => said'[r][m] = ""
        /\ \A m \in DOMAIN chain : m < at'[r] => said'[r][m] = "yes"
        /\ at'[r] # 0
    BY <2>1, <2>2, <2>3, <2>4, <2>5
  <2> QED  BY <2>1, <2>6, Zenon DEF Progress
<1>3. CASE Passes(r)
  BY <1>0, <1>3 DEF Passes, Progress, Waits
<1>4. CASE Refuses(r)
  BY <1>0, <1>4 DEF Refuses, Progress, Waits
<1>5. CASE Hits(r)
  BY <1>5 DEF Hits, Progress, Waits
<1>6. CASE Reaches(r)
  BY <1>6 DEF Reaches, Progress
<1>7. CASE Ends(r)
  BY <1>7 DEF Ends, Progress
<1> QED  BY <1>1, <1>2, <1>3, <1>4, <1>5, <1>6, <1>7 DEF Effect

LEMMA NextProxied ==
  ASSUME TypeOK, NEW r \in Requests, Progress(r), Proxied(r), chain' = chain, Same(r) \/ Effect(r)
  PROVE  Proxied(r)'
<1>0. /\ at[r] \in Nat
      /\ at[r] # 0 => at[r] \in DOMAIN chain
      /\ \A m \in DOMAIN chain : m \in Nat
      /\ DOMAIN said[r] = DOMAIN chain
  BY AtFacts, TypeFacts
<1>1. CASE Same(r) \/ Hits(r) \/ Ends(r)
  BY <1>1 DEF Same, Hits, Ends, Proxied
<1>2. CASE Starts(r)
  <2>1. \A m \in DOMAIN chain : m <= at[r] => m <= at'[r]
    BY <1>0, <1>2 DEF Starts
  <2> QED  BY <1>2, <2>1 DEF Starts, Proxied
<1>3. CASE Passes(r)
  BY <1>0, <1>3 DEF Passes, Proxied, KindAt
<1>4. CASE Refuses(r)
  BY <1>0, <1>4 DEF Refuses, Proxied
<1>5. CASE Reaches(r)
  <2>1. at[r] \in DOMAIN chain /\ chain[at[r]].kind = "proxy" /\ at[r] <= at[r]
    BY <1>0, <1>5, LessOrNot DEF Reaches, Progress, Waits, KindAt
  <2> QED  BY <1>5, <2>1 DEF Reaches, Proxied
<1> QED  BY <1>1, <1>2, <1>3, <1>4, <1>5 DEF Effect

LEMMA NextHitAt ==
  ASSUME Inv, NEW r \in Requests, [Next]_vars
  PROVE  HitAt(r)'
<1>0. /\ TypeOK /\ chain' = chain /\ req' = req /\ (Same(r) \/ Effect(r))
      /\ Progress(r) /\ HitAt(r) /\ \A d \in Requests : Progress(d)
      /\ served[r] \subseteq Stored /\ kv \subseteq Stored
  BY NextEffect, TypeFacts DEF Inv, RequestInv
<1>1. ASSUME NEW e \in served[r] \cup kv, Checked(e)
      PROVE  Checked(e)' /\ KeyFor(r)' = KeyFor(r)
  BY <1>0, <1>1, CheckedStays DEF KeyFor, Key, Cloned
<1>2. CASE served'[r] = served[r] /\ verdict'[r] = "hit"
  <2>1. verdict[r] = "hit" /\ at'[r] = at[r]
    BY <1>0, <1>2 DEF Same, Effect, Starts, Passes, Refuses, Hits, Reaches, Ends, HitAt, Waits
  <2> QED  BY <1>0, <1>1, <1>2, <2>1 DEF HitAt, KindAt
<1>3. CASE served'[r] = served[r] /\ verdict'[r] # "hit"
  BY <1>0, <1>3 DEF Same, Effect, Starts, Passes, Refuses, Hits, Reaches, Ends, HitAt, Waits
<1>4. CASE Hits(r)
  <2>1. \A e \in Under(KeyFor(r)) : e \in kv /\ e.key = KeyFor(r) /\ Checked(e)
    BY DEF Under, Inv
  <2>2. at[r] # 0
    BY <1>0, <1>4 DEF Hits, Waits, Progress
  <2> QED  BY <1>0, <1>1, <1>4, <2>1, <2>2 DEF HitAt, Hits, KindAt
<1> QED  BY <1>0, <1>2, <1>3, <1>4 DEF Same, Effect, Starts, Passes, Refuses, Reaches, Ends

LEMMA NextDeniedAt ==
  ASSUME TypeOK, NEW r \in Requests, DeniedAt(r), Same(r) \/ Effect(r)
  PROVE  DeniedAt(r)'
BY DEF DeniedAt, Same, Effect, Starts, Passes, Refuses, Hits, Reaches, Ends, Waits

LEMMA NextInv == Inv /\ [Next]_vars => Inv'
<1> SUFFICES ASSUME Inv, [Next]_vars PROVE Inv'
  OBVIOUS
<1>1. TypeOK /\ chain' = chain
      /\ \A r \in Requests : (Same(r) \/ Effect(r)) /\ Progress(r) /\ Proxied(r) /\ DeniedAt(r)
  BY NextEffect DEF Inv, RequestInv
<1>2. TypeOK'
  BY <1>1, NextTypes
<1>3. \A r \in Requests : RequestInv(r)'
  BY <1>1, NextProgress, NextProxied, NextHitAt, NextDeniedAt DEF RequestInv
<1> QED  BY <1>2, <1>3, NextEntries DEF Inv

-----------------------------------------------------------------------------
(* The theorems: what every reachable state satisfies.                     *)

\* In every reachable state the invariant holds.
THEOREM Invariance == Spec => []Inv
<1>1. Inv /\ [Next]_vars => Inv'
  BY NextInv
<1> QED  BY InitInv, <1>1, PTL DEF Spec

\* The variables keep their types, and the bucket keeps one entry for a key.
THEOREM TypeCorrect == Spec => []TypeOK
<1>1. Inv => TypeOK
  BY DEF Inv
<1> QED  BY Invariance, <1>1, PTL

\* Whatever filters a resource has and however many requests run at a time,
\* the cache holds only answers of the backend to requests that every gate
\* let through, under the keys of those requests.
THEOREM EntriesAreVetted == Spec => []EntryVetted
BY Invariance, ImpliesEntryVetted, PTL

\* A cached answer goes only to a request that passed the connect level, and
\* is the answer to a request with the same key that passed every gate.
THEOREM HitsAreVetted == Spec => []HitVetted
BY Invariance, ImpliesHitVetted, PTL

\* The backend is reached only past the connect and the request level and
\* the lookup, and not after a hit.
THEOREM BackendIsGated == Spec => []BackendGated
BY Invariance, ImpliesBackendGated, PTL

\* No filter sees a request before OPA's connect policy has let it through.
THEOREM OpaIsFirst == Spec => []OpaFirst
BY Invariance, ImpliesOpaFirst, PTL

\* A denial ends the request with an error.
THEOREM DenialsHold == Spec => []DenialHolds
BY Invariance, ImpliesDenialHolds, PTL

-----------------------------------------------------------------------------
(* What becomes of the method.                                             *)

AllAreGets == \A r \in Requests : seen[r] \in {"", "GET"}

LEMMA NextAllAreGets == Inv /\ AllAreGets /\ [Next]_vars => AllAreGets'
<1> SUFFICES ASSUME Inv, AllAreGets, [Next]_vars PROVE AllAreGets'
  OBVIOUS
<1>1. ASSUME NEW r \in Requests, Reach(r) PROVE AllAreGets'
  <2>1. req[r] \in [body: Bodies, method: Method] /\ seen \in [Requests -> {""} \cup Method]
    BY DEF Inv, TypeOK, Query
  <2>2. Cloned(req[r]).method = ""
    BY <2>1 DEF Cloned
  <2>3. seen' = [seen EXCEPT ![r] = "GET"]
    BY <1>1, <2>2 DEF Reach, SentAs
  <2> QED  BY <2>1, <2>3 DEF AllAreGets
<1>2. CASE seen' = seen
  BY <1>2 DEF AllAreGets
<1>3. (\E r \in Requests : Reach(r)) \/ seen' = seen
  BY DEF Next, Handle, Start, Accept, Decide, Refuse, Miss, Hit, Replied, Store, StoreFails,
         Finish, Unreadable, PutLate, ExpireEntry, Terminated, vars
<1> QED  BY <1>1, <1>2, <1>3

\* Whatever method a client sends, the backend is called with a GET: the
\* clones that the proxy forwards have no method.
THEOREM EverythingIsAGet == Spec => []AllAreGets
<1>1. Init => AllAreGets
  BY DEF Init, AllAreGets
<1> QED  BY <1>1, NextAllAreGets, Invariance, PTL DEF Spec

-----------------------------------------------------------------------------
(* Each run is one of FilterChain.                                         *)

LEMMA InitIsChain == Init => \A r \in Requests : FC(r)!Init
<1> SUFFICES ASSUME Init, NEW r \in Requests PROVE FC(r)!Init
  OBVIOUS
<1>1. chain \in Resources /\ at[r] = 0 /\ busy[r] = FALSE /\ verdict[r] = "pending"
      /\ \A m \in DOMAIN chain : said[r][m] = ""
  BY DEF Init
<1> QED  BY <1>1 DEF FC!Init

\* A step of a request is one of its chain's, or none.
LEMMA EffectOnChain ==
  ASSUME TypeOK, NEW r \in Requests, Progress(r), chain' = chain, Same(r) \/ Effect(r)
  PROVE  FC(r)!Next \/ UNCHANGED FC(r)!fcvars
<1> DEFINE passed == {m \in DOMAIN chain : said[r][m] = "yes"}
<1>0. /\ at[r] \in Nat
      /\ at[r] # 0 => at[r] \in DOMAIN chain
      /\ busy[r] => at[r] # 0 /\ said[r][at[r]] = ""
      /\ DOMAIN said[r] = DOMAIN chain
  BY AtFacts, TypeFacts DEF Progress
<1>1. CASE Same(r) \/ Reaches(r)
  <2>1. /\ chain' = chain /\ at'[r] = at[r] /\ busy'[r] = busy[r] /\ said'[r] = said[r]
        /\ verdict'[r] = verdict[r]
    BY <1>1 DEF Same, Reaches
  <2> QED  BY <2>1 DEF FC!fcvars
<1>2. CASE Starts(r)
  <2>1. at[r] + 1 \in DOMAIN chain
    <3>1. /\ at[r] < Len(chain) /\ Len(chain) \in Nat /\ DOMAIN chain = 1..Len(chain)
          /\ at[r] \in Nat
      BY <1>0, <1>2, TypeFacts DEF Starts
    <3> QED  BY <3>1
  <2>2. ~chain[at[r] + 1].parallel
    BY <2>1, GatesFirst, TypeFacts
  <2>3. FC(r)!StartMember
    BY <1>2, <2>2 DEF Starts, FC!StartMember
  <2> QED  BY <2>3 DEF FC!Next
<1>3. CASE Passes(r)
  <2>1. passed' = passed \cup {at[r]}
    BY <1>0, <1>3 DEF Passes, Waits
  <2>2. FC(r)!AcceptMember
    BY <1>3, <2>1 DEF Passes, Waits, FC!AcceptMember
  <2> QED  BY <2>2 DEF FC!Next
<1>4. CASE Refuses(r)
  <2>1. passed' = passed
    BY <1>0, <1>4 DEF Refuses, Waits
  <2>2. FC(r)!Fail
    BY <1>4, <2>1 DEF Refuses, Waits, FC!Fail
  <2> QED  BY <2>2 DEF FC!Next
<1>5. CASE Hits(r)
  <2>1. FC(r)!Hit
    BY <1>5 DEF Hits, Waits, KindAt, FC!Hit
  <2> QED  BY <2>1 DEF FC!Next
<1>6. CASE Ends(r)
  <2>1. ~busy[r] /\ busy'[r] = FALSE
    BY <1>0, <1>6, TypeFacts DEF Ends
  <2>2. FC(r)!Complete \/ FC(r)!Fail
    BY <1>6, <2>1 DEF Ends, FC!Complete, FC!Fail
  <2> QED  BY <2>2 DEF FC!Next
<1> QED  BY <1>1, <1>2, <1>3, <1>4, <1>5, <1>6 DEF Effect

\* Each request's run keeps the promise of a filter chain: its members are
\* handed control in their order, each after the one before it has let the
\* request through, and it is answered once.
THEOREM RunsAreFilterChains == Spec => EachKeepsChainPromise
<1>1. Inv /\ [Next]_vars
        => [\A r \in Requests : FC(r)!Next \/ UNCHANGED FC(r)!fcvars]_vars
  <2> SUFFICES ASSUME Inv, [Next]_vars, NEW r \in Requests
               PROVE  FC(r)!Next \/ UNCHANGED FC(r)!fcvars
    OBVIOUS
  <2>1. TypeOK /\ Progress(r) /\ chain' = chain /\ (Same(r) \/ Effect(r))
    BY NextEffect DEF Inv, RequestInv
  <2> QED  BY <2>1, EffectOnChain
<1> QED  BY InitIsChain, <1>1, Invariance, PTL DEF Spec, EachKeepsChainPromise
=============================================================================
