------------------------------- MODULE Router -------------------------------
(***************************************************************************)
(* The route table (router.RouteTable): what a pattern and a request path  *)
(* are compared by, how a pattern is registered, and which of the          *)
(* registered patterns a request is given to.                              *)
(*                                                                         *)
(* A path is the sequence of segments that splitting it at "/" gives, the  *)
(* empty ones included.  A segment is a literal or a parameter (":name").  *)
(* Methods are in upper case: every place that stores or compares one      *)
(* converts it first.                                                      *)
(*                                                                         *)
(* HashOfPath, EqualWeight, RegisterOver and BindShifted are slips the     *)
(* properties must catch; no other definition uses them.                   *)
(***************************************************************************)
EXTENDS Naturals, Sequences, FiniteSets

Segment == [par : BOOLEAN, name : STRING]
Path == Seq(Segment)
Lit(name) == [par |-> FALSE, name |-> name]
Par(name) == [par |-> TRUE, name |-> name]

Places(path) == {n \in DOMAIN path : path[n] # Lit("")}

\* ParseRoute: empty segments are left out but counted.  A request path is
\* parsed like a pattern, so that a segment ":x" of it becomes "?" as well.
ParseRoute(path, method) ==
  [path   |-> path,
   method |-> method,
   values |-> [n \in Places(path) |-> IF path[n].par THEN "?" ELSE path[n].name],
   params |-> [n \in {m \in Places(path) : path[m].par} |-> path[n].name]]

HashOfPath(route) == <<"", route.path>>
Hash(route) == <<route.method, route.path>>

\* A Go map yields the zero value for a key that it does not have.
ValueAt(route, n) == IF n \in DOMAIN route.values THEN route.values[n] ELSE ""
Segments(route) == Cardinality(DOMAIN route.values)
Literals(route) == {n \in DOMAIN route.values : route.values[n] # "?"}

\* A literal weighs more than a parameter.
EqualWeight == 1
LiteralWeight == 2
RouteCompare(preferred, route) ==
  IF \/ Segments(preferred) # Segments(route)
     \/ \E n \in Literals(preferred) : preferred.values[n] # ValueAt(route, n)
  THEN 0
  ELSE 1 + LiteralWeight * Cardinality(Literals(preferred))
         + Cardinality(DOMAIN preferred.values \ Literals(preferred))

-----------------------------------------------------------------------------
EmptyTable == [routes |-> <<>>, configs |-> << >>]

\* The first handler registered for a method and pattern stays.
RegisterOver(table, path, method, handler) ==
  LET route == ParseRoute(path, method)
  IN [routes  |-> Append(table.routes, route),
      configs |-> [h \in DOMAIN table.configs \cup {Hash(route)} |->
                     IF h = Hash(route) THEN handler ELSE table.configs[h]]]
Register(table, path, method, handler) ==
  LET route == ParseRoute(path, method)
  IN IF Hash(route) \in DOMAIN table.configs THEN table
     ELSE [routes  |-> Append(table.routes, route),
           configs |-> [h \in DOMAIN table.configs \cup {Hash(route)} |->
                          IF h = Hash(route) THEN handler ELSE table.configs[h]]]

\* Find: the first of the registered routes with the greatest rank above 0.
\* (The source keeps one list for each number of segments; RouteCompare
\* tells them apart again.)  <<>> when there is none; best[n] is what the
\* loop has found after n turns.
Rank(found, prt) ==
  IF found = <<>> \/ found[1].method # prt.method THEN 0
  ELSE RouteCompare(found[1], prt)
Find(table, path, method) ==
  LET prt == ParseRoute(path, method)
      best[n \in 0..Len(table.routes)] ==
        IF n = 0 THEN <<>>
        ELSE LET found == best[n - 1]
                 route == <<table.routes[n]>>
             IN IF Rank(route, prt) > Rank(found, prt) THEN route ELSE found
  IN best[Len(table.routes)]

GetHandlerFunc(table, route) == table.configs[Hash(route)]

\* Bind: the values that a name may get.  Literals are bound as well, by
\* their own name, and when two segments go by one name the map's iteration
\* order decides.
NameAt(route, n) ==
  IF route.values[n] # "?" THEN route.values[n]
  ELSE IF n \in DOMAIN route.params THEN route.params[n] ELSE ""
BindShifted(route, prt, name) ==
  {ValueAt(prt, n + 1) : n \in {m \in DOMAIN route.values : NameAt(route, m) = name}}
Bind(route, prt, name) ==
  {ValueAt(prt, n) : n \in {m \in DOMAIN route.values : NameAt(route, m) = name}}
=============================================================================
