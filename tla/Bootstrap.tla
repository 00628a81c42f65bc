----------------------------- MODULE Bootstrap ------------------------------
(***************************************************************************)
(* The start of the program: parser.ParseV1 goes through the resources of  *)
(* the configuration, in the order a Go map yields them, builds the chain  *)
(* of each and registers it through main's callback, NewProxy and          *)
(* server.HandleFunc; then the server listens.  What a failing step does   *)
(* differs: some end the program, some end the loop without a word.        *)
(***************************************************************************)
EXTENDS Router

CONSTANTS
  Ids,         \* the names of the resources
  Resources,   \* what each may be
  Requests,    \* paths that clients ask for
  Asked        \* and methods

\* What the configuration says of a filter, a callback of one included: its
\* address, scheme and level are sound; NATS is what it connects to when it is
\* built (an HTTP filter connects to nothing); its timeout, the sequence of
\* its characters.  Of the cache and of OPA alike.
Filter == [sound : BOOLEAN, nats : BOOLEAN, timeout : Seq(STRING)]
Cache == [sound : BOOLEAN, ttl : Seq(STRING)]
Opa == {"none", "sound", "unsound"}

Method == {"GET", "HEAD", "POST", "PUT", "PATCH", "DELETE", "OPTIONS"}

\* The backend's address does not parse; or NewProxy knows no such scheme, or
\* the frontend, which HandleFunc parses next, does not parse.
Backend == {"fine", "unparsable", "unsupported"}
Resource ==
  {r \in [frontend : Path, method : Method \cup {"*"}, backend : Backend,
          cors : BOOLEAN, opa : Opa, cache : Seq(Cache), filters : Seq(Filter)] :
     Len(r.cache) <= 1}

\* http.ServeMux cleans a path before the table sees it: only the first
\* segment, always, and the last one can be empty.
Clean(path) ==
  /\ Len(path) >= 2 /\ path[1] = Lit("")
  /\ \A n \in 2..Len(path) - 1 : path[n] # Lit("")

ASSUME ConfigurationAssumption ==
  /\ Resources \subseteq Resource
  /\ Requests \subseteq Path /\ \A path \in Requests : Clean(path)

VARIABLES
  conf,    \* the configuration, frozen
  down,    \* the NATS server is down, frozen
  left,    \* the resources not yet visited
  phase,   \* "parsing", "listening" or "exited"
  table    \* the default route table

vars == <<conf, down, left, phase, table>>

Init ==
  /\ conf \in [Ids -> Resources]
  /\ down \in BOOLEAN
  /\ left = Ids
  /\ phase = "parsing"
  /\ table = EmptyTable

-----------------------------------------------------------------------------
Digit == {"0", "1", "2", "3", "4", "5", "6", "7", "8", "9"}
Units == {<<"m", "s">>, <<"s">>, <<"m">>, <<"h">>}

\* Timeout: the unit is cut from the front of the string, where the digits
\* are, and is none of the known ones.
DigitsOf(str) ==
  LET ends == {n \in 0..Len(str) : \A m \in 1..n : str[m] \in Digit}
  IN CHOOSE n \in ends : \A m \in ends : m <= n
TimeoutFails(str) ==
  LET digits == SubSeq(str, 1, DigitsOf(str))
      unit == SubSeq(str, 1, DigitsOf(str))
  IN str # <<>> /\ (digits = <<>> \/ unit \notin Units)

\* HandleFunc: the options register first, then the method, or five for "*"
\* (an empty one is taken for "*" too).
AnyMethod == {"GET", "HEAD", "POST", "PUT", "DELETE"}
Handler(id, preflight) == [id |-> id, preflight |-> preflight]
WithOptions(t, id) ==
  IF conf[id].cors
  THEN Register(t, conf[id].frontend, "OPTIONS", Handler(id, TRUE)) ELSE t
WithMethods(t, id) ==
  LET Add(u, m) == Register(u, conf[id].frontend, m, Handler(id, FALSE))
  IN IF conf[id].method = "*"
     THEN Add(Add(Add(Add(Add(t, "GET"), "HEAD"), "POST"), "PUT"), "DELETE")
     ELSE Add(t, conf[id].method)
HandleFunc(t, id) == WithMethods(WithOptions(t, id), id)

-----------------------------------------------------------------------------
(* One turn of ParseV1's loop: the backend's address, OPA, the cache, the  *)
(* filters, then main's callback.                                          *)

Visit(id) == phase = "parsing" /\ id \in left

OpaFails(id) == conf[id].opa = "unsound" \/ (conf[id].opa = "sound" /\ down)
CacheFails(id) ==
  \E n \in DOMAIN conf[id].cache :
    LET cache == conf[id].cache[n]
    IN ~cache.sound \/ TimeoutFails(cache.ttl) \/ down
FiltersFail(id) ==
  \E n \in DOMAIN conf[id].filters :
    LET filter == conf[id].filters[n]
    IN ~filter.sound \/ TimeoutFails(filter.timeout) \/ (filter.nats /\ down)

\* `return nil`: the loop ends, and the server listens without the rest.
Stop(id) ==
  /\ Visit(id)
  /\ \/ conf[id].backend = "unparsable"
     \/ ~OpaFails(id) /\ ~CacheFails(id) /\ FiltersFail(id)
  /\ phase' = "listening"
  /\ UNCHANGED <<conf, down, left, table>>

\* `return err`, or NewProxy or HandleFunc fails: main ends the program.
Fatal(id) ==
  /\ Visit(id)
  /\ conf[id].backend # "unparsable"
  /\ \/ OpaFails(id) \/ CacheFails(id)
     \/ ~FiltersFail(id) /\ conf[id].backend = "unsupported"
  /\ phase' = "exited"
  /\ UNCHANGED <<conf, down, left, table>>

Serve(id) ==
  /\ Visit(id)
  /\ conf[id].backend = "fine"
  /\ ~OpaFails(id) /\ ~CacheFails(id) /\ ~FiltersFail(id)
  /\ table' = HandleFunc(table, id)
  /\ left' = left \ {id}
  /\ UNCHANGED <<conf, down, phase>>

Listen ==
  /\ phase = "parsing" /\ left = {}
  /\ phase' = "listening"
  /\ UNCHANGED <<conf, down, left, table>>

Terminated == phase # "parsing" /\ UNCHANGED vars

Next == (\E id \in Ids : Fatal(id) \/ Stop(id) \/ Serve(id)) \/ Listen \/ Terminated

Spec == Init /\ [][Next]_vars

-----------------------------------------------------------------------------
Route(id, m) == ParseRoute(conf[id].frontend, m)
Served(id) == (IF conf[id].method = "*" THEN AnyMethod ELSE {conf[id].method})
                \cup (IF conf[id].cors THEN {"OPTIONS"} ELSE {})
Registered == UNION {{Route(id, m) : m \in Served(id)} : id \in Ids \ left}

TypeOK ==
  /\ conf \in [Ids -> Resources] /\ down \in BOOLEAN
  /\ left \subseteq Ids
  /\ phase \in {"parsing", "listening", "exited"}
  /\ {table.routes[n] : n \in DOMAIN table.routes} = Registered
  /\ DOMAIN table.configs = {Hash(route) : route \in Registered}
  /\ \A h \in DOMAIN table.configs :
       table.configs[h] \in [id : Ids \ left, preflight : {h[1] = "OPTIONS" /\ conf[table.configs[h].id].cors}]

\* A standard template: its segments are where those of a clean path are,
\* and none is the literal "?" (written "%3F"), which the table takes for a
\* parameter.
Standard(route) == Clean(route.path) /\ \A n \in Places(route.path) : route.path[n] # Lit("?")

\* A pattern covers a path when the path has a segment wherever the pattern
\* has one and nowhere else, each being the pattern's own or a parameter.
Covers(route, path) ==
  /\ Places(path) = Places(route.path)
  /\ \A n \in Places(path) : route.path[n].par \/ path[n] = route.path[n]

\* The places where the table compares a pattern with a request.
IsOpen(segment) == segment.par \/ segment.name = "?"
FixedPlaces(route) == {n \in Places(route.path) : ~IsOpen(route.path[n])}
Fixed(route) == Cardinality(FixedPlaces(route))

\* Whatever the order in which the resources are registered, as long as their
\* patterns are standard templates, a request is given to a pattern that
\* covers it, one with the most literals, and to none only when none covers
\* it (router.Find).  Of several with as many literals any may be taken.
RoutesToMostSpecific ==
  (\A route \in Registered : Standard(route)) =>
    \A path \in Requests, m \in Asked :
      LET found == Find(table, path, m)
          fit == {route \in Registered : route.method = m /\ Covers(route, path)}
      IN IF fit = {} THEN found = <<>>
         ELSE /\ found # <<>> /\ found[1] \in fit
              /\ \A route \in fit : Fixed(route) <= Fixed(found[1])

\* The places that a pattern gives one name to, and what a name is bound to.
Namesakes(route, n) == {k \in DOMAIN route.values : NameAt(route, k) = NameAt(route, n)}
Bound(route, path, m, n) == Bind(route, ParseRoute(path, m), NameAt(route, n))

\* A parameter of a standard template gets the segment of the request at its
\* place (router.Bind), with two exceptions.  When its name stands in the
\* pattern once more, it gets the segment of either place, as a Go map's
\* order has it.  A segment of the request that begins with ":" is parsed
\* like a pattern's, and the parameter gets "?".
BindsSegments ==
  \A path \in Requests, m \in Asked :
    LET found == Find(table, path, m)
    IN found # <<>> /\ Standard(found[1]) =>
         \A n \in DOMAIN found[1].params :
           Namesakes(found[1], n) = {n} /\ ~path[n].par
           => n \in Places(path) /\ Bound(found[1], path, m, n) = {path[n].name}

\* A resource that is registered later takes a request over only with a
\* pattern that has more literals; the same pattern and method stay with
\* the resource that had them first.
Taken(t, path, m) ==
  LET found == Find(t, path, m)
  IN IF found = <<>> THEN [handler |-> {}, fixed |-> 0]
     ELSE [handler |-> {GetHandlerFunc(t, found[1])}, fixed |-> Fixed(found[1])]
StaysOrIsOutdone(now, next) ==
  now.handler = {} \/ next = now \/ next.fixed > now.fixed
RoutesStay ==
  [][\A path \in Requests, m \in Asked :
       StaysOrIsOutdone(Taken(table, path, m), Taken(table', path, m))]_vars

\* Every resource whose configuration is as documented is served once the
\* server listens, when all servers are up.
Documented(str) ==
  \/ str = <<>>
  \/ \E u \in Units : \E n \in 1..Len(str) - 1 :
       SubSeq(str, n + 1, Len(str)) = u /\ \A k \in 1..n : str[k] \in Digit
IsDocumented(r) ==
  /\ r.backend = "fine" /\ r.opa # "unsound"
  /\ \A n \in DOMAIN r.cache : r.cache[n].sound /\ Documented(r.cache[n].ttl)
  /\ \A n \in DOMAIN r.filters : r.filters[n].sound /\ Documented(r.filters[n].timeout)
DocumentedIsServed ==
  phase = "listening" /\ ~down /\ (\A id \in Ids : IsDocumented(conf[id])) => left = {}
=============================================================================
