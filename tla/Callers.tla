------------------------------ MODULE Callers ------------------------------
(***************************************************************************)
(* The members of a filter chain (netio.Caller), the fields of each as the *)
(* constructors of filters, cache, opa and proxies set them, and           *)
(* netio.Sort, which puts the members of a resource in execution order.    *)
(*                                                                         *)
(* A caller is a record.  Of its request and response updaters only what   *)
(* they replace is kept: "hdr" stands for headers and trailers, "body" for *)
(* the body.  Filters come out of the parser with no updater at all        *)
(* (ParseFiltersV1 never calls SetExchangeHeaders or SetExchangeBody).     *)
(*                                                                         *)
(* onError and exchange are what the configuration asks of a filter: they  *)
(* are decoded with the rest of it, and nothing reads them afterwards.     *)
(***************************************************************************)
EXTENDS Naturals, Sequences

Level == {"none", "connect", "pre", "request", "response", "post"}
Kind  == {"opa", "get", "set", "filter", "proxy"}
Part  == {"hdr", "body"}
OnError == {"default", "continue"}

\* Every caller whose names, its own and those it awaits, are in Names.
\* Only filters are configured and can be parallel, and only a proxy carries
\* updaters.
Caller(Names) ==
  {c \in [kind: Kind, name: Names, level: Level, parallel: BOOLEAN,
          await: Seq(Names), req: SUBSET Part, res: SUBSET Part,
          onError: OnError, exchange: SUBSET Part] :
     /\ c.kind = "filter" \/ (~c.parallel /\ c.onError = "default" /\ c.exchange = {})
     /\ c.req = IF c.kind = "proxy" THEN Part ELSE {}
     /\ c.res = c.req}

-----------------------------------------------------------------------------
Opa(level) ==
  [kind |-> "opa", name |-> "", level |-> level, parallel |-> FALSE,
   await |-> <<>>, req |-> {}, res |-> {}, onError |-> "default", exchange |-> {}]

CacheGet ==
  [kind |-> "get", name |-> "Cache", level |-> "pre", parallel |-> FALSE,
   await |-> <<>>, req |-> {}, res |-> {}, onError |-> "default", exchange |-> {}]

CacheSet == [CacheGet EXCEPT !.kind = "set", !.level = "post"]

Filter(name, level, parallel, await) ==
  [kind |-> "filter", name |-> name, level |-> level, parallel |-> parallel,
   await |-> await, req |-> {}, res |-> {}, onError |-> "default", exchange |-> {}]

\* The filters that ParseV1 makes of a resource's: Level knows three levels.
FilterOf(Names) ==
  {c \in Caller(Names) : c.kind = "filter" /\ c.level \in {"connect", "request", "response"}}

HttpProxy ==
  [kind |-> "proxy", name |-> "", level |-> "none", parallel |-> FALSE,
   await |-> <<>>, req |-> Part, res |-> Part, onError |-> "default", exchange |-> {}]

-----------------------------------------------------------------------------
\* The callers of a level, in their order: the turns of Sort's loop.
OfLevel(callers, level) ==
  LET upTo[n \in 0..Len(callers)] ==
        IF n = 0 THEN <<>>
        ELSE IF callers[n].level = level THEN Append(upTo[n - 1], callers[n])
        ELSE upTo[n - 1]
  IN upTo[Len(callers)]

\* The callers of a pre- or post-level list: it is rebuilt from the main
\* callers met so far each time, `pre = append(main, caller)`, so only the
\* last caller of that level stays in it.
LastOnTopOfMain(callers, level) ==
  LET at == {n \in DOMAIN callers : callers[n].level = level}
      last == CHOOSE n \in at : \A m \in at : m <= n
  IN IF at = {} THEN <<>>
     ELSE Append(OfLevel(SubSeq(callers, 1, last - 1), "none"), callers[last])

\* The order Sort must not produce: the cache in front of the gates.
SortCacheFirst(callers) ==
  LastOnTopOfMain(callers, "pre") \o OfLevel(callers, "connect")
    \o OfLevel(callers, "request") \o OfLevel(callers, "none")
    \o OfLevel(callers, "response") \o LastOnTopOfMain(callers, "post")
Sort(callers) ==
  OfLevel(callers, "connect") \o LastOnTopOfMain(callers, "pre")
    \o OfLevel(callers, "request") \o OfLevel(callers, "none")
    \o OfLevel(callers, "response") \o LastOnTopOfMain(callers, "post")

\* The callers of a resource in the order ParseV1 appends them: OPA, cache,
\* filters (and not the filters first).
ParsedFiltersFirst(opa, cache, filters) ==
  filters \o (IF cache THEN <<CacheGet, CacheSet>> ELSE <<>>)
    \o (IF opa THEN <<Opa("connect"), Opa("request"), Opa("response")>> ELSE <<>>)
Parsed(opa, cache, filters) ==
  (IF opa THEN <<Opa("connect"), Opa("request"), Opa("response")>> ELSE <<>>)
    \o (IF cache THEN <<CacheGet, CacheSet>> ELSE <<>>) \o filters

\* The chain an HTTP proxy runs: NewHttpProxy sorts itself in.
HttpChain(callers) == Sort(Append(callers, HttpProxy))

-----------------------------------------------------------------------------
\* The m-th task that the l-th member of a chain awaits is its member j: the
\* last parallel one before it that has the name.
AwaitsIn(chain, l, m, j) ==
  /\ j < l /\ chain[j].parallel /\ chain[j].name = chain[l].await[m]
  /\ \A h \in (j + 1)..(l - 1) : chain[h].parallel => chain[h].name # chain[j].name

\* Some task is awaited by two entries of the chain's await lists.
AwaitedTwice(chain) ==
  \E j, l, h \in DOMAIN chain : \E m \in DOMAIN chain[l].await, n \in DOMAIN chain[h].await :
    <<l, m>> # <<h, n>> /\ AwaitsIn(chain, l, m, j) /\ AwaitsIn(chain, h, n, j)

\* A goroutine may still be cloning the request while a later member's
\* response is stamped into its header map.
Collides(chain) ==
  \E j, l \in DOMAIN chain :
    j < l /\ chain[j].parallel /\ ~chain[l].parallel /\ chain[l].kind \in {"filter", "proxy"}
=============================================================================
