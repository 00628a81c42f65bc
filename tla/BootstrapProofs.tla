-------------------------- MODULE BootstrapProofs --------------------------
(***************************************************************************)
(* Proofs about Bootstrap and the route table: the types, which route a    *)
(* request is given to, what its parameters are, and that a route stays.   *)
(***************************************************************************)
EXTENDS Bootstrap, LoopProofs, FiniteSetTheorems

-----------------------------------------------------------------------------
(* A route and what it is compared by.                                     *)

LEMMA PlacesAreFinite ==
  ASSUME NEW p \in Path
  PROVE  /\ Places(p) \subseteq 1..Len(p) /\ IsFiniteSet(Places(p))
         /\ Cardinality(Places(p)) \in Nat
         /\ \A n \in Places(p) : p[n] \in Segment /\ p[n] # Lit("")
<1>0. p \in Seq(Segment)
  BY DEF Path
<1>1. Places(p) \in SUBSET (1..Len(p)) /\ IsFiniteSet(1..Len(p))
  <2>1. Len(p) \in Int
    BY <1>0
  <2>2. IsFiniteSet(1..Len(p))
    BY <2>1, FS_Interval
  <2>3. DOMAIN p = 1..Len(p)
    BY <1>0
  <2>4. Places(p) \subseteq DOMAIN p
    BY DEF Places
  <2> QED  BY <2>2, <2>3, <2>4
<1>2. IsFiniteSet(Places(p))
  BY <1>1, FS_Subset
<1>3. Cardinality(Places(p)) \in Nat
  BY <1>2, FS_CardinalityType
<1>4. \A n \in Places(p) : p[n] # Lit("")
  BY DEF Places
<1>5. \A n \in Places(p) : p[n] \in Segment
  BY <1>0, <1>1
<1> QED  BY <1>1, <1>2, <1>3, <1>4, <1>5

LEMMA RouteParts ==
  ASSUME NEW p \in Path, NEW m
  PROVE  LET r == ParseRoute(p, m)
         IN /\ r.path = p /\ r.method = m /\ Hash(r) = <<m, p>>
            /\ DOMAIN r.values = Places(p)
            /\ DOMAIN r.params = {n \in Places(p) : p[n].par}
            /\ \A n \in Places(p) : r.values[n] = IF p[n].par THEN "?" ELSE p[n].name
            /\ \A n \in DOMAIN r.params : r.params[n] = p[n].name
            /\ Literals(r) = FixedPlaces(r)
<1> DEFINE r == ParseRoute(p, m)
<1>1. /\ r.path = p /\ r.method = m
      /\ r.values = [n \in Places(p) |-> IF p[n].par THEN "?" ELSE p[n].name]
      /\ r.params = [n \in {i \in Places(p) : p[i].par} |-> p[n].name]
  BY DEF ParseRoute
<1> HIDE DEF r
<1>2. Literals(r) = FixedPlaces(r)
  BY <1>1, PlacesAreFinite DEF Literals, FixedPlaces, IsOpen, Segment
<1> QED  BY <1>1, <1>2 DEF Hash, r

\* What RouteCompare asks of a pattern and a path: as many segments, and at
\* each place of a literal that very segment.
Matches(route, path) ==
  /\ Cardinality(Places(path)) = Cardinality(Places(route.path))
  /\ \A n \in FixedPlaces(route) : n \in DOMAIN path /\ path[n] = route.path[n]

\* A pattern's rank for a path: 0 unless it matches the path, and greater for
\* one with more literals.
LEMMA RankOfCover ==
  ASSUME NEW p \in Path, NEW m, NEW q \in Path, NEW k
  PROVE  LET r == ParseRoute(p, m)
         IN /\ Fixed(r) \in Nat
            /\ RouteCompare(r, ParseRoute(q, k)) =
                 IF Matches(r, q) THEN 1 + Cardinality(Places(q)) + Fixed(r) ELSE 0
<1> DEFINE r == ParseRoute(p, m)
           prt == ParseRoute(q, k)
           P == Places(p)
           Q == Places(q)
           L == FixedPlaces(r)
<1>1. /\ r.path = p /\ DOMAIN r.values = P /\ Literals(r) = L
      /\ \A n \in P : r.values[n] = IF p[n].par THEN "?" ELSE p[n].name
  BY RouteParts
<1>2. /\ DOMAIN prt.values = Q
      /\ \A n \in Q : prt.values[n] = IF q[n].par THEN "?" ELSE q[n].name
  BY RouteParts
<1> HIDE DEF r, prt
<1>3. /\ IsFiniteSet(P) /\ Cardinality(P) \in Nat /\ Cardinality(Q) \in Nat
      /\ \A n \in P : p[n] \in Segment /\ p[n] # Lit("")
      /\ \A n \in Q : q[n] \in Segment /\ q[n] # Lit("")
  BY PlacesAreFinite
<1>4. L \in SUBSET P /\ \A n \in L : ~p[n].par /\ p[n].name # "?" /\ r.values[n] = p[n].name
  BY <1>1 DEF FixedPlaces, IsOpen
<1>5. IsFiniteSet(L) /\ Cardinality(L) \in Nat
  BY <1>3, <1>4, FS_Subset, FS_CardinalityType
<1>6. Cardinality(P \ L) = Cardinality(P) - Cardinality(L)
  <2>1. P \cap L = L
    BY <1>4
  <2> HIDE DEF P, L
  <2> QED  BY <1>3, <2>1, FS_Difference
<1>7. (\E n \in L : r.values[n] # ValueAt(prt, n)) <=> ~(\A n \in L : n \in DOMAIN q /\ q[n] = p[n])
  <2>1. ASSUME NEW n \in L
        PROVE  r.values[n] = ValueAt(prt, n) <=> n \in DOMAIN q /\ q[n] = p[n]
    <3>1. p[n] \in Segment /\ p[n] # Lit("") /\ ~p[n].par /\ p[n].name # "?" /\ r.values[n] = p[n].name
      BY <1>3, <1>4
    <3>2. p[n] = Lit(p[n].name) /\ p[n].name # ""
      BY <3>1 DEF Segment, Lit
    <3>3. CASE n \in Q
      <4>1. ValueAt(prt, n) = IF q[n].par THEN "?" ELSE q[n].name
        BY <1>2, <3>3 DEF ValueAt
      <4>2. q[n] \in Segment /\ n \in DOMAIN q
        BY <1>3, <3>3 DEF Places
      <4>3. ~q[n].par => q[n] = Lit(q[n].name)
        BY <4>2 DEF Segment, Lit
      <4>4. q[n] = p[n] => ~q[n].par /\ q[n].name = p[n].name
        BY <3>1
      <4> QED  BY <3>1, <3>2, <4>1, <4>2, <4>3, <4>4
    <3>4. CASE n \notin Q
      <4>1. ValueAt(prt, n) = ""
        BY <1>2, <3>4 DEF ValueAt
      <4>2. n \in DOMAIN q => q[n] = Lit("")
        BY <3>4 DEF Places
      <4> QED  BY <3>1, <3>2, <4>1, <4>2
    <3> QED  BY <3>3, <3>4
  <2> QED  BY <2>1
<1>8. Matches(r, q) <=> Cardinality(Q) = Cardinality(P) /\ \A n \in L : n \in DOMAIN q /\ q[n] = p[n]
  BY <1>1 DEF Matches
<1>9. RouteCompare(r, prt) =
        IF Cardinality(P) # Cardinality(Q) \/ \E n \in L : r.values[n] # ValueAt(prt, n)
        THEN 0 ELSE 1 + 2 * Cardinality(L) + Cardinality(P \ L)
  BY <1>1, <1>2 DEF RouteCompare, Segments, LiteralWeight
<1> HIDE DEF L, P, Q
<1>10. RouteCompare(r, prt) = IF Matches(r, q) THEN 1 + Cardinality(Q) + Cardinality(L) ELSE 0
  <2> DEFINE all == \A n \in L : n \in DOMAIN q /\ q[n] = p[n]
             differs == \E n \in L : r.values[n] # ValueAt(prt, n)
  <2>1. differs <=> ~all
    BY <1>7
  <2>2. Matches(r, q) <=> Cardinality(Q) = Cardinality(P) /\ all
    BY <1>8
  <2>3. RouteCompare(r, prt) =
          IF Cardinality(P) # Cardinality(Q) \/ differs
          THEN 0 ELSE 1 + 2 * Cardinality(L) + Cardinality(P \ L)
    BY <1>9
  <2> HIDE DEF all, differs
  <2>4. 1 + 2 * Cardinality(L) + Cardinality(P \ L) = 1 + Cardinality(P) + Cardinality(L)
    <3>1. Cardinality(P) \in Nat /\ Cardinality(L) \in Nat
      BY <1>3, <1>5
    <3> QED  BY <1>6, <3>1
  <2> QED  BY <2>1, <2>2, <2>3, <2>4
<1> QED  BY <1>5, <1>10 DEF Fixed, L, Q, r, prt

-----------------------------------------------------------------------------
(* Which route Find takes.                                                 *)

Routes == {ParseRoute(p, m) : p \in Path, m \in Method}

\* What Find can return.
Found == {<<>>} \cup {<<r>> : r \in Routes}

\* A route is one for requests with this path and method.
Fits(route, path, m) == route.method = m /\ Matches(route, path)

LEMMA RouteIsParsed ==
  ASSUME NEW r \in Routes
  PROVE  r.path \in Path /\ r.method \in Method /\ r = ParseRoute(r.path, r.method)
<1>1. PICK p \in Path, m \in Method : r = ParseRoute(p, m)
  BY DEF Routes
<1>2. r.path = p /\ r.method = m
  BY <1>1, RouteParts
<1> QED  BY <1>1, <1>2

LEMMA ParamsHaveValues ==
  ASSUME NEW r \in Routes
  PROVE  DOMAIN r.params \subseteq DOMAIN r.values
<1>1. PICK p \in Path, m \in Method : r = ParseRoute(p, m)
  BY DEF Routes
<1> QED  BY <1>1, RouteParts

LEMMA LiteralHasName ==
  ASSUME NEW p \in Path, NEW m, NEW n \in DOMAIN p, p[n] # Lit(""), ~p[n].par
  PROVE  ValueAt(ParseRoute(p, m), n) = p[n].name
<1> DEFINE values == [i \in Places(p) |-> IF p[i].par THEN "?" ELSE p[i].name]
<1>1. n \in Places(p)
  BY DEF Places
<1>2. ParseRoute(p, m).values = values
  BY DEF ParseRoute
<1>3. DOMAIN values = Places(p) /\ values[n] = p[n].name
  BY <1>1
<1> HIDE DEF values
<1> QED  BY <1>1, <1>2, <1>3 DEF ValueAt

LEMMA RankOfRoute ==
  ASSUME NEW r \in Routes, NEW path \in Path, NEW m
  PROVE  LET prt == ParseRoute(path, m)
         IN /\ Fixed(r) \in Nat /\ Cardinality(Places(path)) \in Nat
            /\ Rank(<<r>>, prt) =
                 IF Fits(r, path, m) THEN 1 + Cardinality(Places(path)) + Fixed(r) ELSE 0
            /\ Rank(<<>>, prt) = 0
<1> DEFINE prt == ParseRoute(path, m)
<1>1. r.path \in Path /\ r = ParseRoute(r.path, r.method)
  BY RouteIsParsed
<1>2. /\ Fixed(r) \in Nat
      /\ RouteCompare(r, prt) = IF Matches(r, path) THEN 1 + Cardinality(Places(path)) + Fixed(r) ELSE 0
  <2> DEFINE p == r.path
             k == r.method
  <2>1. p \in Path /\ r = ParseRoute(p, k)
    BY <1>1
  <2> HIDE DEF p, k
  <2>2. /\ Fixed(ParseRoute(p, k)) \in Nat
        /\ RouteCompare(ParseRoute(p, k), ParseRoute(path, m)) =
             IF Matches(ParseRoute(p, k), path)
             THEN 1 + Cardinality(Places(path)) + Fixed(ParseRoute(p, k)) ELSE 0
    BY <2>1, RankOfCover
  <2> QED  BY <2>1, <2>2
<1>3. prt.method = m
  BY RouteParts
<1> HIDE DEF prt
<1>4. <<r>> # <<>> /\ <<r>>[1] = r
  OBVIOUS
<1>5. Rank(<<r>>, prt) = IF r.method # m THEN 0 ELSE RouteCompare(r, prt)
  BY <1>3, <1>4 DEF Rank
<1>6. Rank(<<>>, prt) = 0
  BY DEF Rank
<1> QED  BY <1>2, <1>5, <1>6, PlacesAreFinite DEF Fits, prt

\* Find's loop, its value after every turn.
IsSearch(f, routes, prt) ==
  /\ f \in [0..Len(routes) -> Found]
  /\ f[0] = <<>>
  /\ \A n \in 1..Len(routes) :
       f[n] = IF Rank(<<routes[n]>>, prt) > Rank(f[n - 1], prt) THEN <<routes[n]>> ELSE f[n - 1]

LEMMA FindLoop ==
  ASSUME NEW t, t.routes \in Seq(Routes), NEW path, NEW m
  PROVE  \E f : IsSearch(f, t.routes, ParseRoute(path, m)) /\ Find(t, path, m) = f[Len(t.routes)]
<1> DEFINE N == Len(t.routes)
           prt == ParseRoute(path, m)
           Turn(n, s) == IF Rank(<<t.routes[n]>>, prt) > Rank(s, prt) THEN <<t.routes[n]>> ELSE s
           Step(f, n) == IF n = 0 THEN <<>> ELSE Turn(n, f[n - 1])
           F == CHOOSE f : f = [n \in 0..N |-> Step(f, n)]
           turn == [n \in 1..N |-> [s \in Found |-> Turn(n, s)]]
<1>1. N \in Nat
  OBVIOUS
<1>2. Find(t, path, m) = F[N]
  BY DEF Find
<1> HIDE DEF prt
<1>3. \A n \in 1..N, s \in Found : Turn(n, s) \in Found
  <2>1. \A n \in 1..N : <<t.routes[n]>> \in Found
    BY DEF Found
  <2> QED  BY <2>1
<1>4. <<>> \in Found
  BY DEF Found
<1> HIDE DEF Turn
<1>5. \E f : IsLoop(f, N, Found, <<>>, turn)
  <2> DEFINE v == <<>>
  <2>1. v \in Found /\ turn \in Turns(N, Found)
    BY <1>3, <1>4 DEF Turns
  <2> HIDE DEF turn, N, v
  <2>2. \E f : IsLoop(f, N, Found, v, turn)
    BY <1>1, <2>1, LoopExists
  <2> QED  BY <2>2 DEF v
<1>6. ASSUME NEW f, IsLoop(f, N, Found, <<>>, turn)
      PROVE  f = [n \in 0..N |-> Step(f, n)]
  <2>1. f \in [0..N -> Found] /\ f[0] = <<>> /\ \A n \in 1..N : f[n] = turn[n][f[n - 1]]
    BY <1>6 DEF IsLoop
  <2>2. ASSUME NEW n \in 1..N PROVE f[n] = Step(f, n)
    <3>1. f[n - 1] \in Found /\ n # 0
      BY <2>1
    <3>2. turn[n][f[n - 1]] = Turn(n, f[n - 1])
      BY <3>1
    <3> QED  BY <2>1, <3>1, <3>2
  <2>3. \A n \in 0..N : f[n] = Step(f, n)
    BY <2>1, <2>2
  <2> HIDE DEF Step
  <2> QED  BY <2>1, <2>3
<1>7. F = [n \in 0..N |-> Step(F, n)]
  <2>1. \E f : f = [n \in 0..N |-> Step(f, n)]
    BY <1>5, <1>6
  <2> HIDE DEF Step
  <2> QED  BY <2>1, Zenon
<1> HIDE DEF F
<1>8. \A n \in 0..N : F[n] = Step(F, n)
  <2> HIDE DEF Step
  <2> QED  BY <1>7
<1>9. F[0] = <<>> /\ \A n \in 1..N : F[n] = Turn(n, F[n - 1])
  BY <1>1, <1>8
<1>10. \A n \in 0..N : F[n] \in Found
  <2> DEFINE Good == {n \in 0..N : F[n] \in Found}
  <2>1. 0 \in Good
    BY <1>1, <1>4, <1>9
  <2>2. ASSUME NEW n \in 1..N, n - 1 \in Good PROVE n \in Good
    BY <1>3, <1>9, <2>2
  <2> HIDE DEF Good
  <2>3. \A n \in 0..N : n \in Good
    BY <1>1, <2>1, <2>2, AfterAllTurns
  <2> QED  BY <2>3 DEF Good
<1>11. F \in [0..N -> Found]
  <2> HIDE DEF Step
  <2> QED  BY <1>7, <1>10
<1> QED  BY <1>2, <1>9, <1>11 DEF IsSearch, Turn, prt

\* The route found is one of the table, for this request, and none for it has
\* a greater rank; none is found only when there is none for it.
LEMMA FindsBest ==
  ASSUME NEW t, t.routes \in Seq(Routes), NEW path \in Path, NEW m
  PROVE  LET found == Find(t, path, m)
         IN /\ found = <<>> => \A n \in 1..Len(t.routes) : ~Fits(t.routes[n], path, m)
            /\ found # <<>> =>
                 /\ \E n \in 1..Len(t.routes) : found = <<t.routes[n]>>
                 /\ found[1] \in Routes /\ Fits(found[1], path, m)
                 /\ \A n \in 1..Len(t.routes) :
                      Fits(t.routes[n], path, m) => Fixed(t.routes[n]) <= Fixed(found[1])
<1> DEFINE routes == t.routes
           N == Len(routes)
           prt == ParseRoute(path, m)
           R(n) == Rank(<<routes[n]>>, prt)
<1>1. PICK f : IsSearch(f, routes, prt) /\ Find(t, path, m) = f[N]
  BY FindLoop
<1>2. N \in Nat /\ \A n \in 1..N : routes[n] \in Routes
  OBVIOUS
<1>3. \A n \in 1..N : R(n) = IF Fits(routes[n], path, m)
                             THEN 1 + Cardinality(Places(path)) + Fixed(routes[n]) ELSE 0
  BY <1>2, RankOfRoute
<1>4. \A n \in 1..N : R(n) \in Nat /\ Fixed(routes[n]) \in Nat
  <2>1. Cardinality(Places(path)) \in Nat
    BY PlacesAreFinite
  <2>2. \A n \in 1..N : Fixed(routes[n]) \in Nat
    BY <1>2, RankOfRoute
  <2> HIDE DEF R, N, routes
  <2> QED  BY <1>3, <2>1, <2>2
<1>5. Rank(<<>>, prt) = 0
  BY DEF Rank
<1> HIDE DEF R, N, routes, prt
<1> DEFINE Best(n) == /\ f[n] = <<>> => \A i \in 1..n : R(i) = 0
                      /\ f[n] # <<>> => \E j \in 1..n : /\ f[n] = <<routes[j]>> /\ R(j) > 0
                                                        /\ \A i \in 1..n : R(i) <= R(j)
           Good == {n \in 0..N : Best(n)}
<1>6. 0 \in Good
  <2>1. f[0] = <<>> /\ 1..0 = {} /\ 0 \in 0..N
    BY <1>1, <1>2 DEF IsSearch, N
  <2> QED  BY <2>1
<1>7. ASSUME NEW n \in 1..N, n - 1 \in Good PROVE n \in Good
  <2>1. /\ Best(n - 1) /\ n \in 0..N /\ n \in 1..n
        /\ \A i \in 1..n : i = n \/ i \in 1..n - 1
        /\ \A i \in 1..n - 1 : i \in 1..n
        /\ \A i \in 1..n : i \in 1..N /\ R(i) \in Nat
    BY <1>2, <1>4, <1>7
  <2>2. f[n] = IF R(n) > Rank(f[n - 1], prt) THEN <<routes[n]>> ELSE f[n - 1]
    BY <1>1 DEF IsSearch, N, R
  <2>3. <<routes[n]>> # <<>>
    OBVIOUS
  <2>4. CASE f[n - 1] = <<>>
    <3>1. \A i \in 1..n - 1 : R(i) = 0
      BY <2>1, <2>4
    <3>2. CASE R(n) > 0
      <4>1. f[n] = <<routes[n]>>
        BY <1>5, <2>2, <2>4, <3>2
      <4>2. \A i \in 1..n : R(i) <= R(n)
        BY <2>1, <3>1, <3>2
      <4> QED  BY <2>1, <2>3, <3>2, <4>1, <4>2
    <3>3. CASE ~(R(n) > 0)
      <4>1. f[n] = <<>> /\ R(n) = 0
        BY <1>5, <2>1, <2>2, <2>4, <3>3
      <4> QED  BY <2>1, <3>1, <4>1
    <3> QED  BY <3>2, <3>3
  <2>5. CASE f[n - 1] # <<>>
    <3>1. PICK j \in 1..n - 1 : /\ f[n - 1] = <<routes[j]>> /\ R(j) > 0
                                /\ \A i \in 1..n - 1 : R(i) <= R(j)
      BY <2>1, <2>5
    <3>2. Rank(f[n - 1], prt) = R(j) /\ j \in 1..n
      BY <2>1, <3>1 DEF R
    <3>3. CASE R(n) > R(j)
      <4>1. f[n] = <<routes[n]>>
        BY <2>2, <3>2, <3>3
      <4>2. \A i \in 1..n : R(i) <= R(n)
        BY <2>1, <3>1, <3>2, <3>3
      <4>3. R(n) > 0
        BY <2>1, <3>1, <3>2, <3>3
      <4> QED  BY <2>1, <2>3, <4>1, <4>2, <4>3
    <3>4. CASE ~(R(n) > R(j))
      <4>1. f[n] = <<routes[j]>>
        BY <2>2, <3>1, <3>2, <3>4
      <4>2. \A i \in 1..n : R(i) <= R(j)
        BY <2>1, <3>1, <3>2, <3>4
      <4> QED  BY <2>1, <2>5, <3>1, <3>2, <4>1, <4>2
    <3> QED  BY <3>3, <3>4
  <2> QED  BY <2>4, <2>5
<1>8. Best(N)
  <2> HIDE DEF Good, Best
  <2>1. \A n \in 0..N : n \in Good
    BY <1>2, <1>6, <1>7, AfterAllTurns
  <2>2. N \in 0..N
    BY <1>2
  <2> QED  BY <2>1, <2>2 DEF Good
<1> DEFINE found == Find(t, path, m)
<1>9. Cardinality(Places(path)) \in Nat
  BY PlacesAreFinite
<1>10. CASE found = <<>>
  <2>1. \A i \in 1..N : ~Fits(routes[i], path, m)
    BY <1>1, <1>3, <1>4, <1>8, <1>9, <1>10
  <2> QED  BY <1>10, <2>1 DEF N, routes
<1>11. CASE found # <<>>
  <2>1. PICK j \in 1..N : found = <<routes[j]>> /\ R(j) > 0 /\ \A i \in 1..N : R(i) <= R(j)
    BY <1>1, <1>8, <1>11
  <2>2. found[1] = routes[j] /\ routes[j] \in Routes
    BY <1>2, <2>1
  <2>3. Fits(routes[j], path, m)
    BY <1>3, <2>1
  <2>4. ASSUME NEW i \in 1..N, Fits(routes[i], path, m)
        PROVE  Fixed(routes[i]) <= Fixed(routes[j])
    <3>1. /\ R(i) = 1 + Cardinality(Places(path)) + Fixed(routes[i])
          /\ R(j) = 1 + Cardinality(Places(path)) + Fixed(routes[j])
      BY <1>3, <2>3, <2>4
    <3>2. R(i) <= R(j) /\ Fixed(routes[i]) \in Nat /\ Fixed(routes[j]) \in Nat
      BY <1>4, <2>1
    <3> QED  BY <1>9, <3>1, <3>2
  <2> QED  BY <1>11, <2>1, <2>2, <2>3, <2>4 DEF N, routes
<1> QED  BY <1>10, <1>11

LEMMA RankOfFound ==
  ASSUME NEW s \in Found, NEW path \in Path, NEW m
  PROVE  LET prt == ParseRoute(path, m)
         IN /\ Rank(s, prt) \in Nat
            /\ s # <<>> => s[1] \in Routes /\ Fixed(s[1]) \in Nat
            /\ Rank(s, prt) =
                 IF s # <<>> /\ Fits(s[1], path, m)
                 THEN 1 + Cardinality(Places(path)) + Fixed(s[1]) ELSE 0
<1>1. Cardinality(Places(path)) \in Nat
  BY PlacesAreFinite
<1>2. CASE s = <<>>
  BY <1>2 DEF Rank
<1>3. CASE s # <<>>
  <2>1. PICK r \in Routes : s = <<r>>
    BY <1>3 DEF Found
  <2>2. s[1] = r
    BY <2>1
  <2> QED  BY <1>1, <1>3, <2>1, <2>2, RankOfRoute
<1> QED  BY <1>2, <1>3

\* Routes that are added behind those of a table do not change what Find
\* takes, unless for one of a greater rank.
LEMMA FindStays ==
  ASSUME NEW t, t.routes \in Seq(Routes), NEW u, u.routes \in Seq(Routes),
         Len(t.routes) <= Len(u.routes),
         \A n \in 1..Len(t.routes) : u.routes[n] = t.routes[n],
         NEW path \in Path, NEW m
  PROVE  /\ Find(t, path, m) \in Found /\ Find(u, path, m) \in Found
         /\ \/ Find(u, path, m) = Find(t, path, m)
            \/ Rank(Find(u, path, m), ParseRoute(path, m)) > Rank(Find(t, path, m), ParseRoute(path, m))
<1> DEFINE N == Len(t.routes)
           M == Len(u.routes)
           prt == ParseRoute(path, m)
<1>1. N \in Nat /\ M \in Nat /\ N <= M /\ N \in 0..N /\ M \in 0..M
  OBVIOUS
<1>2. PICK f : IsSearch(f, t.routes, prt) /\ Find(t, path, m) = f[N]
  BY FindLoop
<1>3. PICK g : IsSearch(g, u.routes, prt) /\ Find(u, path, m) = g[M]
  BY FindLoop
<1>4. /\ f \in [0..N -> Found] /\ f[0] = <<>>
      /\ \A n \in 1..N :
           f[n] = IF Rank(<<t.routes[n]>>, prt) > Rank(f[n - 1], prt) THEN <<t.routes[n]>> ELSE f[n - 1]
  BY <1>2 DEF IsSearch
<1>5. /\ g \in [0..M -> Found] /\ g[0] = <<>>
      /\ \A n \in 1..M :
           g[n] = IF Rank(<<u.routes[n]>>, prt) > Rank(g[n - 1], prt) THEN <<u.routes[n]>> ELSE g[n - 1]
  BY <1>3 DEF IsSearch
<1>6. \A s \in Found : Rank(s, prt) \in Nat
  BY RankOfFound
<1>7. \A n \in 1..N : u.routes[n] = t.routes[n]
  OBVIOUS
<1>r. \A n \in 1..M : u.routes[n] \in Routes
  OBVIOUS
<1> HIDE DEF N, M, prt
<1>8. g[N] = f[N]
  <2> DEFINE Good == {n \in 0..N : g[n] = f[n]}
  <2>1. 0 \in Good
    BY <1>1, <1>4, <1>5
  <2>2. ASSUME NEW n \in 1..N, n - 1 \in Good PROVE n \in Good
    <3>1. n \in 1..M /\ n \in 0..N /\ g[n - 1] = f[n - 1]
      BY <1>1, <2>2
    <3> QED  BY <1>4, <1>5, <1>7, <3>1
  <2> HIDE DEF Good
  <2>3. \A n \in 0..N : n \in Good
    BY <1>1, <2>1, <2>2, AfterAllTurns
  <2> QED  BY <1>1, <2>3 DEF Good
<1>9. \A n \in 1..M : g[n] = g[n - 1] \/ Rank(g[n], prt) > Rank(g[n - 1], prt)
  BY <1>5
<1> DEFINE Kept(n) == g[n] = g[N] \/ Rank(g[n], prt) > Rank(g[N], prt)
           Good == {n \in 0..M : n >= N => Kept(n)}
<1>10. 0 \in Good
  BY <1>1
<1>11. ASSUME NEW n \in 1..M, n - 1 \in Good PROVE n \in Good
  <2>1. CASE n > N
    <3>1. Kept(n - 1) /\ n \in 0..M /\ n - 1 \in 0..M /\ N \in 0..M
      BY <1>1, <1>11, <2>1
    <3>2. Rank(g[n], prt) \in Nat /\ Rank(g[n - 1], prt) \in Nat /\ Rank(g[N], prt) \in Nat
      BY <1>5, <1>6, <3>1
    <3>3. Kept(n)
      BY <1>9, <3>1, <3>2
    <3> QED  BY <3>1, <3>3
  <2>2. CASE ~(n > N)
    BY <1>1, <2>2
  <2> QED  BY <2>1, <2>2
<1>12. M \in Good
  <2> HIDE DEF Good
  <2>1. \A n \in 0..M : n \in Good
    BY <1>1, <1>10, <1>11, AfterAllTurns
  <2> QED  BY <1>1, <2>1
<1>13. f[N] \in Found /\ g[M] \in Found /\ Kept(M)
  BY <1>1, <1>4, <1>5, <1>12
<1> QED  BY <1>2, <1>3, <1>8, <1>13 DEF prt

-----------------------------------------------------------------------------
(* What the table holds, and what a registration adds.                     *)

RoutesOf(t) == {t.routes[n] : n \in DOMAIN t.routes}

IsTable(t) ==
  /\ t.routes \in Seq(Routes)
  /\ DOMAIN t.configs = {Hash(r) : r \in RoutesOf(t)}

\* u is t with more routes behind the others.
Grows(t, u) ==
  /\ Len(t.routes) <= Len(u.routes)
  /\ \A n \in 1..Len(t.routes) : u.routes[n] = t.routes[n]
  /\ \A h \in DOMAIN t.configs : h \in DOMAIN u.configs /\ u.configs[h] = t.configs[h]

LEMMA Registers ==
  ASSUME NEW t, IsTable(t), NEW path \in Path, NEW m \in Method, NEW handler
  PROVE  LET u == Register(t, path, m, handler)
             route == ParseRoute(path, m)
         IN /\ IsTable(u) /\ Grows(t, u)
            /\ RoutesOf(u) = RoutesOf(t) \cup {route}
            /\ \A h \in DOMAIN u.configs :
                 h \in DOMAIN t.configs \/ (h = Hash(route) /\ u.configs[h] = handler)
            /\ route \in RoutesOf(t) => u = t
<1> DEFINE u == Register(t, path, m, handler)
           route == ParseRoute(path, m)
<1>1. t.routes \in Seq(Routes) /\ DOMAIN t.configs = {Hash(r) : r \in RoutesOf(t)}
  BY DEF IsTable
<1>2. route \in Routes /\ Hash(route) = <<m, path>>
  <2>1. Hash(route) = <<m, path>>
    BY RouteParts
  <2>2. route \in Routes
    BY DEF Routes
  <2> QED  BY <2>1, <2>2
<1>3. \A r \in RoutesOf(t) : r \in Routes
  BY <1>1 DEF RoutesOf
<1>4. CASE Hash(route) \in DOMAIN t.configs
  <2>1. u = t
    BY <1>4 DEF Register
  <2>2. PICK r \in RoutesOf(t) : Hash(r) = Hash(route)
    BY <1>1, <1>4
  <2>3. r.method = m /\ r.path = path
    BY <1>2, <2>2 DEF Hash
  <2>4. r = route
    BY <1>3, <2>2, <2>3, RouteIsParsed
  <2>5. RoutesOf(t) = RoutesOf(t) \cup {route}
    BY <2>2, <2>4
  <2>6. Grows(t, t)
    BY <1>1 DEF Grows
  <2> HIDE DEF u, route
  <2> QED  BY <2>1, <2>5, <2>6 DEF u, route
<1>5. CASE Hash(route) \notin DOMAIN t.configs
  <2>1. /\ u.routes = Append(t.routes, route)
        /\ u.configs = [h \in DOMAIN t.configs \cup {Hash(route)} |->
                          IF h = Hash(route) THEN handler ELSE t.configs[h]]
    BY <1>5 DEF Register
  <2> HIDE DEF u, route
  <2>2. /\ u.routes \in Seq(Routes) /\ Len(u.routes) = Len(t.routes) + 1
        /\ \A n \in 1..Len(t.routes) : u.routes[n] = t.routes[n]
        /\ u.routes[Len(t.routes) + 1] = route
    BY <1>1, <1>2, <2>1
  <2>3. Len(t.routes) \in Nat /\ DOMAIN t.routes = 1..Len(t.routes) /\ DOMAIN u.routes = 1..Len(u.routes)
    BY <1>1, <2>2
  <2>4. RoutesOf(u) = RoutesOf(t) \cup {route}
    <3>1. \A n \in DOMAIN u.routes : n \in DOMAIN t.routes \/ n = Len(t.routes) + 1
      BY <2>2, <2>3
    <3>2. \A n \in DOMAIN t.routes : n \in DOMAIN u.routes /\ u.routes[n] = t.routes[n]
      BY <2>2, <2>3
    <3>3. Len(t.routes) + 1 \in DOMAIN u.routes
      BY <2>2, <2>3
    <3> QED  BY <2>2, <3>1, <3>2, <3>3 DEF RoutesOf
  <2>5. DOMAIN u.configs = {Hash(r) : r \in RoutesOf(u)}
    BY <1>1, <2>1, <2>4
  <2>6. Grows(t, u)
    <3>1. Len(t.routes) <= Len(u.routes)
      BY <2>2, <2>3
    <3>2. \A h \in DOMAIN t.configs : h \in DOMAIN u.configs /\ u.configs[h] = t.configs[h]
      BY <1>5, <2>1
    <3> QED  BY <2>2, <3>1, <3>2 DEF Grows
  <2>7. \A h \in DOMAIN u.configs :
          h \in DOMAIN t.configs \/ (h = Hash(route) /\ u.configs[h] = handler)
    BY <2>1
  <2>8. route \notin RoutesOf(t)
    BY <1>1, <1>5
  <2> QED  BY <2>2, <2>4, <2>5, <2>6, <2>7, <2>8 DEF IsTable, u, route
<1> QED  BY <1>4, <1>5

LEMMA GrowsOn ==
  ASSUME NEW t, NEW u, NEW v, IsTable(t), IsTable(u), IsTable(v), Grows(t, u), Grows(u, v)
  PROVE  Grows(t, v)
<1>1. Len(t.routes) \in Nat /\ Len(u.routes) \in Nat /\ Len(v.routes) \in Nat
  BY DEF IsTable
<1> QED  BY <1>1 DEF Grows

\* What HandleFunc makes of a table: u holds the routes of t, and those of the
\* resource for the methods, with the resource's handlers.
OwnHandler(id, h) == Handler(id, h[1] = "OPTIONS" /\ conf[id].cors)
Adds(t, u, id, methods) ==
  /\ IsTable(u) /\ Grows(t, u)
  /\ RoutesOf(u) = RoutesOf(t) \cup {Route(id, m) : m \in methods}
  /\ \A h \in DOMAIN u.configs : h \in DOMAIN t.configs \/ u.configs[h] = OwnHandler(id, h)

\* One more method.  A handler that is not the resource's for this method is
\* not stored, because the route has one already.
LEMMA AddsOne ==
  ASSUME conf \in [Ids -> Resource], NEW id \in Ids, NEW t, IsTable(t), NEW u,
         NEW methods, Adds(t, u, id, methods), NEW m \in Method, NEW preflight,
         preflight = (m = "OPTIONS" /\ conf[id].cors) \/ m \in methods
  PROVE  Adds(t, Register(u, conf[id].frontend, m, Handler(id, preflight)), id, methods \cup {m})
<1> DEFINE path == conf[id].frontend
           handler == Handler(id, preflight)
           v == Register(u, path, m, handler)
           route == ParseRoute(path, m)
<1>1. path \in Path
  BY DEF Resource
<1>2. IsTable(u) /\ Grows(t, u) /\ RoutesOf(u) = RoutesOf(t) \cup {Route(id, k) : k \in methods}
  BY DEF Adds
<1>3. \A h \in DOMAIN u.configs : h \in DOMAIN t.configs \/ u.configs[h] = OwnHandler(id, h)
  BY DEF Adds
<1>4. route = Route(id, m) /\ Hash(route) = <<m, path>>
  <2>1. route = Route(id, m)
    BY DEF Route
  <2> HIDE DEF path
  <2> QED  BY <1>1, <2>1, RouteParts
<1> HIDE DEF path, handler
<1>5. /\ IsTable(v) /\ Grows(u, v) /\ RoutesOf(v) = RoutesOf(u) \cup {route}
      /\ \A h \in DOMAIN v.configs :
           h \in DOMAIN u.configs \/ (h = Hash(route) /\ v.configs[h] = handler)
      /\ route \in RoutesOf(u) => v = u
  BY <1>1, <1>2, Registers
<1> HIDE DEF v, route
<1>6. Grows(t, v)
  BY <1>2, <1>5, GrowsOn
<1>7. RoutesOf(v) = RoutesOf(t) \cup {Route(id, k) : k \in methods \cup {m}}
  BY <1>2, <1>4, <1>5
<1>8. CASE m \in methods
  <2>1. route \in RoutesOf(u)
    BY <1>2, <1>4, <1>8
  <2>2. v = u
    BY <1>5, <2>1
  <2>3. Adds(t, v, id, methods \cup {m})
    BY <1>3, <1>5, <1>6, <1>7, <2>2 DEF Adds
  <2> QED  BY <2>3 DEF v, path, handler
<1>9. CASE preflight = (m = "OPTIONS" /\ conf[id].cors)
  <2>1. handler = OwnHandler(id, Hash(route))
    <3>1. Hash(route)[1] = m
      BY <1>4
    <3> QED  BY <1>9, <3>1 DEF OwnHandler, handler
  <2>2. \A h \in DOMAIN u.configs : v.configs[h] = u.configs[h]
    BY <1>5 DEF Grows
  <2>3. \A h \in DOMAIN v.configs : h \in DOMAIN t.configs \/ v.configs[h] = OwnHandler(id, h)
    BY <1>3, <1>5, <2>1, <2>2
  <2>4. Adds(t, v, id, methods \cup {m})
    BY <1>5, <1>6, <1>7, <2>3 DEF Adds
  <2> QED  BY <2>4 DEF v, path, handler
<1> QED  BY <1>8, <1>9

LEMMA ResourceRegistered ==
  ASSUME conf \in [Ids -> Resource], NEW id \in Ids, NEW t, IsTable(t)
  PROVE  Adds(t, HandleFunc(t, id), id, Served(id))
<1> DEFINE Add(u, m) == Register(u, conf[id].frontend, m, Handler(id, FALSE))
           options == IF conf[id].cors THEN {"OPTIONS"} ELSE {}
           t0 == WithOptions(t, id)
<1>1. Adds(t, t, id, {})
  BY DEF Adds, Grows, IsTable
<1>2. conf[id].cors \in BOOLEAN /\ conf[id].method \in Method \cup {"*"}
  BY DEF Resource
<1>3. Adds(t, t0, id, options)
  <2>1. CASE conf[id].cors
    <3>1. TRUE = ("OPTIONS" = "OPTIONS" /\ conf[id].cors) /\ {} \cup {"OPTIONS"} = options
      BY <1>2, <2>1
    <3>2. "OPTIONS" \in Method
      BY DEF Method
    <3> HIDE DEF options
    <3>3. Adds(t, Register(t, conf[id].frontend, "OPTIONS", Handler(id, TRUE)), id, {} \cup {"OPTIONS"})
      <4> DEFINE m == "OPTIONS"
                 preflight == TRUE
                 methods == {}
      <4>1. /\ preflight = (m = "OPTIONS" /\ conf[id].cors) /\ m \in Method
            /\ Adds(t, t, id, methods)
        BY <1>1, <3>1, <3>2
      <4> HIDE DEF m, preflight, methods
      <4>2. Adds(t, Register(t, conf[id].frontend, m, Handler(id, preflight)), id, methods \cup {m})
        BY <4>1, AddsOne
      <4> QED  BY <4>2 DEF m, preflight, methods
    <3> QED  BY <2>1, <3>1, <3>3 DEF WithOptions
  <2>2. CASE ~conf[id].cors
    BY <1>1, <2>2 DEF WithOptions
  <2> QED  BY <2>1, <2>2
<1> HIDE DEF t0, options
<1>4. ASSUME NEW u, NEW methods, Adds(t, u, id, methods), options \subseteq methods,
             NEW m \in Method
      PROVE  Adds(t, Add(u, m), id, methods \cup {m})
  <2>1. (FALSE = (m = "OPTIONS" /\ conf[id].cors)) \/ m \in methods
    BY <1>2, <1>4 DEF options
  <2> DEFINE preflight == FALSE
  <2>2. preflight = (m = "OPTIONS" /\ conf[id].cors) \/ m \in methods
    BY <2>1
  <2> HIDE DEF preflight
  <2>3. Adds(t, Register(u, conf[id].frontend, m, Handler(id, preflight)), id, methods \cup {m})
    BY <1>4, <2>2, AddsOne
  <2> QED  BY <2>3 DEF preflight
<1>5. HandleFunc(t, id) =
        IF conf[id].method = "*"
        THEN Add(Add(Add(Add(Add(t0, "GET"), "HEAD"), "POST"), "PUT"), "DELETE")
        ELSE Add(t0, conf[id].method)
  BY DEF HandleFunc, WithMethods, t0
<1> HIDE DEF Add
<1>6. CASE conf[id].method = "*"
  <2> DEFINE t1 == Add(t0, "GET")
             t2 == Add(t1, "HEAD")
             t3 == Add(t2, "POST")
             t4 == Add(t3, "PUT")
             t5 == Add(t4, "DELETE")
             m1 == options \cup {"GET"}
             m2 == m1 \cup {"HEAD"}
             m3 == m2 \cup {"POST"}
             m4 == m3 \cup {"PUT"}
             m5 == m4 \cup {"DELETE"}
  <2>1. /\ options \subseteq options /\ options \subseteq m1 /\ options \subseteq m2
        /\ options \subseteq m3 /\ options \subseteq m4
    OBVIOUS
  <2>2. /\ "GET" \in Method /\ "HEAD" \in Method /\ "POST" \in Method /\ "PUT" \in Method
        /\ "DELETE" \in Method
    BY DEF Method
  <2>3. m5 = Served(id)
    BY <1>6 DEF Served, AnyMethod, options
  <2>4. HandleFunc(t, id) = t5
    BY <1>5, <1>6
  <2> HIDE DEF m5, t5
  <2>5. Adds(t, t1, id, m1)
    BY <1>3, <1>4, <2>1, <2>2
  <2> HIDE DEF m1, t1
  <2>6. Adds(t, t2, id, m2)
    BY <1>4, <2>1, <2>2, <2>5
  <2> HIDE DEF m2, t2
  <2>7. Adds(t, t3, id, m3)
    BY <1>4, <2>1, <2>2, <2>6
  <2> HIDE DEF m3, t3
  <2>8. Adds(t, t4, id, m4)
    BY <1>4, <2>1, <2>2, <2>7
  <2> HIDE DEF m4, t4
  <2>9. Adds(t, t5, id, m5)
    BY <1>4, <2>1, <2>2, <2>8 DEF m5, t5
  <2> QED  BY <2>3, <2>4, <2>9
<1>7. CASE conf[id].method # "*"
  <2>1. conf[id].method \in Method
    BY <1>2, <1>7
  <2>2. Adds(t, Add(t0, conf[id].method), id, options \cup {conf[id].method})
    BY <1>3, <1>4, <2>1
  <2>3. options \cup {conf[id].method} = Served(id)
    BY <1>7 DEF Served, options
  <2> QED  BY <1>5, <1>7, <2>2, <2>3
<1> QED  BY <1>6, <1>7

-----------------------------------------------------------------------------
(* The invariant: the types, and a table that registrations can build.     *)

Inv == TypeOK /\ IsTable(table)

\* The handlers of the table, as TypeOK has them.
Owned(h, handler) ==
  handler \in [id : Ids \ left, preflight : {h[1] = "OPTIONS" /\ conf[handler.id].cors}]

LEMMA TypeParts ==
  ASSUME IsTable(table)
  PROVE  TypeOK <=> /\ conf \in [Ids -> Resources] /\ down \in BOOLEAN /\ left \subseteq Ids
                    /\ phase \in {"parsing", "listening", "exited"}
                    /\ RoutesOf(table) = Registered
                    /\ \A h \in DOMAIN table.configs : Owned(h, table.configs[h])
<1>1. DOMAIN table.configs = {Hash(r) : r \in RoutesOf(table)}
  BY DEF IsTable
<1>2. RoutesOf(table) = {table.routes[n] : n \in DOMAIN table.routes}
  BY DEF RoutesOf
<1> QED  BY <1>1, <1>2, Zenon DEF TypeOK, Owned

LEMMA OwnedBy ==
  ASSUME NEW h, NEW handler
  PROVE  Owned(h, handler) <=>
           \E id \in Ids \ left : handler = OwnHandler(id, h)
<1>1. ASSUME Owned(h, handler) PROVE \E id \in Ids \ left : handler = OwnHandler(id, h)
  <2>1. /\ handler = [id |-> handler.id, preflight |-> handler.preflight]
        /\ handler.id \in Ids \ left
        /\ handler.preflight = (h[1] = "OPTIONS" /\ conf[handler.id].cors)
    BY <1>1 DEF Owned
  <2>2. handler = OwnHandler(handler.id, h)
    BY <2>1, Zenon DEF OwnHandler, Handler
  <2> QED  BY <2>1, <2>2
<1>2. ASSUME NEW id \in Ids \ left, handler = OwnHandler(id, h) PROVE Owned(h, handler)
  <2>1. handler = [id |-> id, preflight |-> (h[1] = "OPTIONS" /\ conf[id].cors)]
    BY <1>2, Zenon DEF OwnHandler, Handler
  <2>2. handler.id = id
    BY <2>1
  <2> QED  BY <2>1, <2>2 DEF Owned
<1> QED  BY <1>1, <1>2

LEMMA InitInv == Init => Inv
<1> SUFFICES ASSUME Init PROVE Inv
  OBVIOUS
<1>1. /\ conf \in [Ids -> Resources] /\ down \in BOOLEAN /\ left = Ids /\ phase = "parsing"
      /\ table = [routes |-> <<>>, configs |-> << >>]
  BY DEF Init, EmptyTable
<1>2. table.routes = <<>> /\ DOMAIN table.routes = {} /\ DOMAIN table.configs = {}
  BY <1>1
<1>3. RoutesOf(table) = {}
  BY <1>2 DEF RoutesOf
<1>4. IsTable(table)
  BY <1>2, <1>3 DEF IsTable
<1>5. Registered = {}
  BY <1>1 DEF Registered
<1> QED  BY <1>1, <1>2, <1>3, <1>4, <1>5, TypeParts DEF Inv

\* A resource that is served gets its routes, behind those of the table.
LEMMA ServeAdds ==
  ASSUME Inv, NEW id \in Ids, Serve(id)
  PROVE  Adds(table, table', id, Served(id))
<1>1. conf \in [Ids -> Resource]
  BY ConfigurationAssumption DEF Inv, TypeOK
<1> QED  BY <1>1, ResourceRegistered DEF Inv, Serve

LEMMA ServeKeepsInv ==
  ASSUME Inv, NEW id \in Ids, Serve(id)
  PROVE  Inv'
<1>1. IsTable(table) /\ TypeOK
  BY DEF Inv
<1>2. /\ conf \in [Ids -> Resources] /\ down \in BOOLEAN /\ left \subseteq Ids
      /\ phase \in {"parsing", "listening", "exited"}
      /\ RoutesOf(table) = Registered
      /\ \A h \in DOMAIN table.configs : Owned(h, table.configs[h])
  BY <1>1, TypeParts
<1>3. conf' = conf /\ down' = down /\ phase' = phase /\ left' = left \ {id} /\ id \in left
  BY DEF Serve, Visit
<1>4. /\ IsTable(table') /\ Grows(table, table')
      /\ RoutesOf(table') = RoutesOf(table) \cup {Route(id, m) : m \in Served(id)}
      /\ \A h \in DOMAIN table'.configs :
           h \in DOMAIN table.configs \/ table'.configs[h] = OwnHandler(id, h)
  BY ServeAdds DEF Adds
<1>5. Ids \ left' = (Ids \ left) \cup {id}
  BY <1>3
<1>6. RoutesOf(table') = Registered'
  <2> DEFINE R(i) == {Route(i, m) : m \in Served(i)}
  <2>1. Registered = UNION {R(i) : i \in Ids \ left}
    BY DEF Registered
  <2>2. Registered' = UNION {R(i) : i \in Ids \ left'}
    BY <1>3 DEF Registered, Route, Served
  <2>3. RoutesOf(table') = Registered \cup R(id)
    BY <1>2, <1>4
  <2> HIDE DEF R
  <2> QED  BY <1>5, <2>1, <2>2, <2>3
<1>7. ASSUME NEW h \in DOMAIN table'.configs PROVE Owned(h, table.configs[h])'
  <2> DEFINE handler == table'.configs[h]
  <2>1. \E i \in (Ids \ left) \cup {id} : handler = OwnHandler(i, h)
    <3>1. CASE h \in DOMAIN table.configs
      <4>1. handler = table.configs[h]
        BY <1>4, <3>1 DEF Grows
      <4>2. Owned(h, handler)
        BY <1>2, <3>1, <4>1
      <4> HIDE DEF handler
      <4> QED  BY <4>2, OwnedBy
    <3>2. CASE h \notin DOMAIN table.configs
      BY <1>4, <3>2
    <3> QED  BY <3>1, <3>2
  <2> HIDE DEF handler
  <2>2. PICK i \in Ids \ left' : handler = OwnHandler(i, h)
    BY <1>5, <2>1
  <2>3. handler = [id |-> i, preflight |-> (h[1] = "OPTIONS" /\ conf[i].cors)]
    BY <2>2, Zenon DEF OwnHandler, Handler
  <2>4. handler.id = i
    BY <2>3
  <2>5. handler \in [id : Ids \ left', preflight : {h[1] = "OPTIONS" /\ conf'[handler.id].cors}]
    BY <1>3, <2>3, <2>4
  <2> QED  BY <2>5 DEF Owned, handler
<1>8. IsTable(table)' => (TypeOK <=> /\ conf \in [Ids -> Resources] /\ down \in BOOLEAN /\ left \subseteq Ids
                    /\ phase \in {"parsing", "listening", "exited"}
                    /\ RoutesOf(table) = Registered
                    /\ \A h \in DOMAIN table.configs : Owned(h, table.configs[h]))'
  BY TypeParts, PTL
<1>9. left' \subseteq Ids
  BY <1>2, <1>3
<1>10. TypeOK'
  BY <1>2, <1>3, <1>4, <1>6, <1>7, <1>8, <1>9
<1> QED  BY <1>4, <1>10 DEF Inv

LEMMA NextKeepsInv == Inv /\ [Next]_vars => Inv'
<1> SUFFICES ASSUME Inv, [Next]_vars PROVE Inv'
  OBVIOUS
<1>1. ASSUME NEW id \in Ids, Serve(id) PROVE Inv'
  BY <1>1, ServeKeepsInv
<1>2. ASSUME /\ conf' = conf /\ down' = down /\ left' = left /\ table' = table
             /\ phase' \in {"parsing", "listening", "exited"}
      PROVE  Inv'
  <2>1. Registered' = Registered
    BY <1>2 DEF Registered, Route, Served
  <2>2. IsTable(table)'
    BY <1>2 DEF Inv, IsTable, RoutesOf
  <2>3. TypeOK'
    BY <1>2, <2>1, Zenon DEF Inv, TypeOK
  <2> QED  BY <2>2, <2>3 DEF Inv
<1>3. ASSUME NEW id \in Ids, Fatal(id) \/ Stop(id) PROVE Inv'
  <2>1. phase' \in {"parsing", "listening", "exited"} /\ UNCHANGED <<conf, down, left, table>>
    BY <1>3 DEF Fatal, Stop
  <2> QED  BY <1>2, <2>1
<1>4. CASE Listen
  BY <1>2, <1>4 DEF Listen
<1>5. CASE UNCHANGED vars
  <2>1. phase \in {"parsing", "listening", "exited"}
    BY DEF Inv, TypeOK
  <2> QED  BY <1>2, <1>5, <2>1 DEF vars
<1> QED  BY <1>1, <1>3, <1>4, <1>5 DEF Next, Terminated

\* The start of the program keeps the invariant.
THEOREM Invariance == Spec => []Inv
<1> QED  BY InitInv, NextKeepsInv, PTL DEF Spec

\* The table holds exactly the routes of the resources visited so far, each
\* with a handler of a resource that asked for it.
THEOREM TypeCorrect == Spec => []TypeOK
<1>1. Inv => TypeOK
  BY DEF Inv
<1> QED  BY <1>1, Invariance, PTL

-----------------------------------------------------------------------------
(* What a request gets.                                                    *)

\* The table's routes are those of the resources visited so far.
LEMMA TableHoldsRegistered ==
  ASSUME Inv
  PROVE  /\ table.routes \in Seq(Routes)
         /\ \A r : r \in Registered <=> \E n \in 1..Len(table.routes) : r = table.routes[n]
<1>1. table.routes \in Seq(Routes) /\ RoutesOf(table) = Registered
  BY TypeParts DEF Inv, IsTable
<1>2. DOMAIN table.routes = 1..Len(table.routes)
  BY <1>1
<1> QED  BY <1>1, <1>2 DEF RoutesOf

\* The segments of a clean path are at consecutive places, from the second.
LEMMA PlacesOfClean ==
  ASSUME NEW p \in Path, Clean(p)
  PROVE  \E k \in Nat : Places(p) = 2..k /\ Cardinality(Places(p)) = k - 1 /\ k >= 1
<1>0. p \in Seq(Segment)
  BY DEF Path
<1> DEFINE N == Len(p)
<1>1. N \in Nat
  BY <1>0
<1>2. DOMAIN p = 1..N
  BY <1>0
<1>a. N >= 2
  BY DEF Clean
<1>b. p[1] = Lit("")
  BY DEF Clean
<1>c. \A n \in 2..N - 1 : p[n] # Lit("")
  BY DEF Clean
<1> HIDE DEF N
<1> DEFINE last == p[N] # Lit("")
<1>3. \E k \in Nat : k >= 1 /\ IF last THEN k = N ELSE k = N - 1
  <2> HIDE DEF last
  <2>1. N - 1 \in Nat /\ N - 1 >= 1 /\ N >= 1
    BY <1>1, <1>a
  <2> QED  BY <1>1, <2>1
<1>k. PICK k \in Nat : k >= 1 /\ IF last THEN k = N ELSE k = N - 1
  BY <1>3
<1>4. Places(p) = 2..k
  <2>1. ASSUME NEW n \in 1..N PROVE p[n] # Lit("") <=> n \in 2..k
    <3>1. n = 1 \/ n \in 2..N - 1 \/ n = N
      BY <1>1, <1>a
    <3>2. CASE n = 1
      <4>1. n \notin 2..k
        BY <3>2
      <4> QED  BY <1>b, <3>2, <4>1
    <3>3. CASE n \in 2..N - 1
      <4> HIDE DEF last
      <4>1. n \in 2..k
        BY <1>1, <1>k, <3>3
      <4> QED  BY <1>c, <3>3, <4>1
    <3>4. CASE n = N
      <4>1. last <=> n \in 2..k
        <5> HIDE DEF last
        <5> QED  BY <1>1, <1>a, <1>k, <3>4
      <4> QED  BY <3>4, <4>1
    <3> QED  BY <3>1, <3>2, <3>3, <3>4
  <2>2. 2..k \subseteq 1..N
    <3> HIDE DEF last
    <3> QED  BY <1>1, <1>k
  <2> QED  BY <1>2, <2>1, <2>2 DEF Places
<1>5. Cardinality(2..k) = k - 1
  <2> DEFINE a == 2
  <2>1. a \in Int /\ k \in Int
    OBVIOUS
  <2> HIDE DEF a
  <2>2. Cardinality(a..k) = IF a > k THEN 0 ELSE k - a + 1
    BY <2>1, FS_Interval
  <2>3. Cardinality(2..k) = IF 2 > k THEN 0 ELSE k - 2 + 1
    BY <2>2 DEF a
  <2>4. k >= 1
    BY <1>k
  <2> DEFINE c == Cardinality(2..k)
  <2>5. c = IF 2 > k THEN 0 ELSE k - 2 + 1
    BY <2>3
  <2> HIDE DEF c
  <2>6. c = k - 1
    BY <2>4, <2>5
  <2> QED  BY <2>6 DEF c
<1> QED  BY <1>k, <1>4, <1>5

\* For a standard template and a clean path, to match is to cover.
LEMMA MatchesIsCovers ==
  ASSUME NEW r \in Routes, Standard(r), NEW path \in Path, Clean(path)
  PROVE  Matches(r, path) <=> Covers(r, path)
<1>1. r.path \in Path /\ Clean(r.path) /\ \A n \in Places(r.path) : r.path[n] # Lit("?")
  BY RouteIsParsed DEF Standard
<1> DEFINE p == r.path
<1>2. \A n \in Places(p) : p[n] \in Segment
  BY <1>1, PlacesAreFinite
<1>3. \A n \in Places(p) : IsOpen(p[n]) <=> p[n].par
  BY <1>1, <1>2 DEF IsOpen, Segment, Lit
<1>4. PICK j \in Nat : Places(p) = 2..j /\ Cardinality(Places(p)) = j - 1 /\ j >= 1
  <2> HIDE DEF p
  <2> QED  BY <1>1, PlacesOfClean DEF p
<1>5. PICK k \in Nat : Places(path) = 2..k /\ Cardinality(Places(path)) = k - 1 /\ k >= 1
  BY PlacesOfClean
<1>6. Cardinality(Places(path)) = Cardinality(Places(p)) <=> Places(path) = Places(p)
  <2> HIDE DEF p
  <2>1. Cardinality(Places(path)) = Cardinality(Places(p)) => j = k
    BY <1>4, <1>5
  <2> QED  BY <1>4, <1>5, <2>1
<1>7. Places(path) \subseteq DOMAIN path
  BY DEF Places
<1>8. \A n : n \in FixedPlaces(r) <=> n \in Places(p) /\ ~p[n].par
  BY <1>3 DEF FixedPlaces
<1>9. Places(path) = Places(p) =>
        ((\A n \in FixedPlaces(r) : n \in DOMAIN path /\ path[n] = p[n])
         <=> \A n \in Places(path) : p[n].par \/ path[n] = p[n])
  BY <1>7, <1>8
<1>10. Matches(r, path) <=>
         /\ Cardinality(Places(path)) = Cardinality(Places(p))
         /\ \A n \in FixedPlaces(r) : n \in DOMAIN path /\ path[n] = p[n]
  BY DEF Matches
<1>11. Covers(r, path) <=>
         /\ Places(path) = Places(p)
         /\ \A n \in Places(path) : p[n].par \/ path[n] = p[n]
  BY DEF Covers
<1> HIDE DEF p
<1> QED  BY <1>6, <1>9, <1>10, <1>11

LEMMA InvRoutesToMostSpecific == Inv => RoutesToMostSpecific
<1> SUFFICES ASSUME Inv, \A route \in Registered : Standard(route),
                    NEW path \in Requests, NEW m \in Asked
             PROVE  LET found == Find(table, path, m)
                        fit == {route \in Registered : route.method = m /\ Covers(route, path)}
                    IN IF fit = {} THEN found = <<>>
                       ELSE /\ found # <<>> /\ found[1] \in fit
                            /\ \A route \in fit : Fixed(route) <= Fixed(found[1])
  BY DEF RoutesToMostSpecific
<1> DEFINE found == Find(table, path, m)
           fit == {route \in Registered : route.method = m /\ Covers(route, path)}
           N == Len(table.routes)
<1>1. path \in Path /\ Clean(path)
  BY ConfigurationAssumption
<1>2. /\ table.routes \in Seq(Routes)
      /\ \A r : r \in Registered <=> \E n \in 1..N : r = table.routes[n]
  BY TableHoldsRegistered
<1>3. /\ found = <<>> => \A n \in 1..N : ~Fits(table.routes[n], path, m)
      /\ found # <<>> =>
           /\ \E n \in 1..N : found = <<table.routes[n]>>
           /\ found[1] \in Routes /\ Fits(found[1], path, m)
           /\ \A n \in 1..N : Fits(table.routes[n], path, m) => Fixed(table.routes[n]) <= Fixed(found[1])
  BY <1>1, <1>2, FindsBest
<1>4. \A r : r \in fit <=> \E n \in 1..N : r = table.routes[n] /\ Fits(r, path, m)
  <2>1. \A r \in Registered : r \in Routes
    BY <1>2
  <2>2. \A r \in Registered : Matches(r, path) <=> Covers(r, path)
    BY <1>1, <2>1, MatchesIsCovers
  <2> QED  BY <1>2, <2>2 DEF Fits
<1> HIDE DEF found, fit, N
<1>5. CASE found = <<>>
  <2>1. fit = {}
    BY <1>3, <1>4, <1>5
  <2> QED  BY <1>5, <2>1 DEF found, fit
<1>6. CASE found # <<>>
  <2>1. PICK n \in 1..N : found = <<table.routes[n]>>
    BY <1>3, <1>6
  <2>2. found[1] = table.routes[n]
    BY <2>1
  <2>3. found[1] \in fit
    BY <1>3, <1>4, <1>6, <2>2
  <2>4. \A route \in fit : Fixed(route) <= Fixed(found[1])
    BY <1>3, <1>4, <1>6
  <2> QED  BY <1>6, <2>3, <2>4 DEF found, fit
<1> QED  BY <1>5, <1>6

\* Whatever the standard templates and the order of the resources, a request
\* is given to one with the most literals among those that cover it.
THEOREM MostSpecificIsTaken == Spec => []RoutesToMostSpecific
<1> QED  BY InvRoutesToMostSpecific, Invariance, PTL

\* A parameter whose name stands once in a standard template that is taken is
\* bound to what the request was parsed to have at its place.
LEMMA BoundToItsPlace ==
  ASSUME Inv, NEW path \in Requests, NEW m \in Asked,
         Find(table, path, m) # <<>>, Standard(Find(table, path, m)[1]),
         NEW n \in DOMAIN Find(table, path, m)[1].params,
         Namesakes(Find(table, path, m)[1], n) = {n}
  PROVE  /\ n \in Places(path)
         /\ Bound(Find(table, path, m)[1], path, m, n) = {ValueAt(ParseRoute(path, m), n)}
<1> DEFINE r == Find(table, path, m)[1]
           prt == ParseRoute(path, m)
<1>1. path \in Path /\ Clean(path)
  BY ConfigurationAssumption
<1>2. r \in Routes /\ Fits(r, path, m)
  BY <1>1, TableHoldsRegistered, FindsBest
<1>3. n \in DOMAIN r.params /\ Namesakes(r, n) = {n} /\ Standard(r)
  OBVIOUS
<1> HIDE DEF r
<1>4. Places(path) = Places(r.path)
  <2>1. Covers(r, path)
    BY <1>1, <1>2, <1>3, MatchesIsCovers DEF Fits
  <2> QED  BY <2>1 DEF Covers
<1>5. n \in Places(r.path)
  <2>1. PICK p \in Path, k \in Method : r = ParseRoute(p, k)
    BY <1>2 DEF Routes
  <2>2. r.path = p /\ DOMAIN r.params = {i \in Places(p) : p[i].par}
    BY <2>1, RouteParts
  <2> QED  BY <1>3, <2>2
<1> HIDE DEF prt
<1>6. Bind(r, prt, NameAt(r, n)) = {ValueAt(prt, n)}
  <2> DEFINE name == NameAt(r, n)
             at == {k \in DOMAIN r.values : NameAt(r, k) = name}
  <2>1. Bind(r, prt, name) = {ValueAt(prt, k) : k \in at}
    BY DEF Bind
  <2>2. at = {n}
    BY <1>3 DEF Namesakes
  <2> HIDE DEF at, name
  <2>3. {ValueAt(prt, k) : k \in at} = {ValueAt(prt, n)}
    BY <2>2
  <2> QED  BY <2>1, <2>3 DEF name
<1>7. Bound(r, path, m, n) = {ValueAt(prt, n)}
  BY <1>6 DEF Bound, prt
<1> QED  BY <1>4, <1>5, <1>7 DEF r, prt

LEMMA InvBindsSegments == Inv => BindsSegments
<1> SUFFICES ASSUME Inv, NEW path \in Requests, NEW m \in Asked,
                    Find(table, path, m) # <<>>, Standard(Find(table, path, m)[1]),
                    NEW n \in DOMAIN Find(table, path, m)[1].params,
                    Namesakes(Find(table, path, m)[1], n) = {n}, ~path[n].par
             PROVE  /\ n \in Places(path)
                    /\ Bound(Find(table, path, m)[1], path, m, n) = {path[n].name}
  BY Zenon DEF BindsSegments
<1>1. /\ n \in Places(path)
      /\ Bound(Find(table, path, m)[1], path, m, n) = {ValueAt(ParseRoute(path, m), n)}
  BY BoundToItsPlace
<1>2. n \in DOMAIN path /\ path[n] # Lit("")
  BY <1>1 DEF Places
<1>3. path \in Path
  BY ConfigurationAssumption
<1>4. ValueAt(ParseRoute(path, m), n) = path[n].name
  BY <1>2, <1>3, LiteralHasName
<1> QED  BY <1>1, <1>4

\* A parameter of a standard template gets the segment at its place, if the
\* pattern has its name once and the segment does not begin with ":".
THEOREM ParametersAreBound == Spec => []BindsSegments
<1> QED  BY InvBindsSegments, Invariance, PTL

\* The second of the exceptions: of a segment that begins with ":" a parameter
\* is told nothing but "?", whatever comes after the colon.
HidesColonSegments ==
  \A path \in Requests, m \in Asked :
    LET found == Find(table, path, m)
    IN found # <<>> /\ Standard(found[1]) =>
         \A n \in DOMAIN found[1].params :
           Namesakes(found[1], n) = {n} /\ path[n].par => Bound(found[1], path, m, n) = {"?"}

LEMMA InvHidesColonSegments == Inv => HidesColonSegments
<1> SUFFICES ASSUME Inv, NEW path \in Requests, NEW m \in Asked,
                    Find(table, path, m) # <<>>, Standard(Find(table, path, m)[1]),
                    NEW n \in DOMAIN Find(table, path, m)[1].params,
                    Namesakes(Find(table, path, m)[1], n) = {n}, path[n].par
             PROVE  Bound(Find(table, path, m)[1], path, m, n) = {"?"}
  BY Zenon DEF HidesColonSegments
<1>1. /\ n \in Places(path)
      /\ Bound(Find(table, path, m)[1], path, m, n) = {ValueAt(ParseRoute(path, m), n)}
  BY BoundToItsPlace
<1>2. ValueAt(ParseRoute(path, m), n) = "?"
  BY <1>1 DEF ParseRoute, ValueAt
<1> QED  BY <1>1, <1>2

\* A request's segment that begins with ":" never reaches a parameter: Bind
\* gives "?" in its place, whatever templates are registered in whatever order.
THEOREM ColonSegmentsAreHidden == Spec => []HidesColonSegments
<1> QED  BY InvHidesColonSegments, Invariance, PTL

-----------------------------------------------------------------------------
(* What later registrations change.                                        *)

\* A table that grows takes a request from its handler only for a route with
\* more literals.
LEMMA GrowthStays ==
  ASSUME NEW t, IsTable(t), NEW u, IsTable(u), Grows(t, u), NEW path \in Path, NEW m
  PROVE  StaysOrIsOutdone(Taken(t, path, m), Taken(u, path, m))
<1> DEFINE a == Find(t, path, m)
           b == Find(u, path, m)
           prt == ParseRoute(path, m)
           c == Cardinality(Places(path))
<1>1. t.routes \in Seq(Routes) /\ u.routes \in Seq(Routes)
  BY DEF IsTable
<1>2. a \in Found /\ b \in Found /\ (b = a \/ Rank(b, prt) > Rank(a, prt))
  BY <1>1, FindStays DEF Grows
<1>3. /\ a # <<>> => /\ \E n \in 1..Len(t.routes) : a = <<t.routes[n]>>
                     /\ Fits(a[1], path, m)
      /\ b # <<>> => Fits(b[1], path, m)
  BY <1>1, FindsBest
<1> HIDE DEF a, b, c, prt
<1>4. c \in Nat
  BY PlacesAreFinite DEF c
<1>5. \A s \in Found :
        /\ s # <<>> => Fixed(s[1]) \in Nat
        /\ Rank(s, prt) = IF s # <<>> /\ Fits(s[1], path, m) THEN 1 + c + Fixed(s[1]) ELSE 0
  BY RankOfFound DEF c, prt
<1>6. CASE a = <<>>
  <2>1. Taken(t, path, m).handler = {}
    BY <1>6 DEF Taken, a
  <2> QED  BY <2>1 DEF StaysOrIsOutdone
<1>7. CASE a # <<>> /\ b = a
  <2>1. PICK n \in 1..Len(t.routes) : a = <<t.routes[n]>>
    BY <1>3, <1>7
  <2>2. Hash(a[1]) \in DOMAIN t.configs
    BY <1>1, <2>1 DEF IsTable, RoutesOf
  <2>3. GetHandlerFunc(u, b[1]) = GetHandlerFunc(t, a[1])
    BY <1>7, <2>2 DEF GetHandlerFunc, Grows
  <2>4. Taken(t, path, m) = Taken(u, path, m)
    BY <1>7, <2>3 DEF Taken, a, b
  <2> QED  BY <2>4 DEF StaysOrIsOutdone
<1>8. CASE a # <<>> /\ b # a
  <2>1. Rank(b, prt) > Rank(a, prt) /\ Rank(a, prt) = 1 + c + Fixed(a[1]) /\ Fixed(a[1]) \in Nat
    BY <1>2, <1>3, <1>5, <1>8
  <2>2. b # <<>> /\ Rank(b, prt) = 1 + c + Fixed(b[1]) /\ Fixed(b[1]) \in Nat
    BY <1>2, <1>3, <1>4, <1>5, <2>1
  <2>3. Fixed(b[1]) > Fixed(a[1])
    BY <1>4, <2>1, <2>2
  <2>4. Taken(t, path, m).fixed = Fixed(a[1]) /\ Taken(u, path, m).fixed = Fixed(b[1])
    BY <1>8, <2>2 DEF Taken, a, b
  <2> QED  BY <2>3, <2>4 DEF StaysOrIsOutdone
<1> QED  BY <1>6, <1>7, <1>8

\* RoutesStay's claim of one step.
StepStays ==
  \A path \in Requests, m \in Asked :
    StaysOrIsOutdone(Taken(table, path, m), Taken(table', path, m))

LEMMA NextStays == Inv /\ [Next]_vars => [StepStays]_vars
<1> SUFFICES ASSUME Inv, [Next]_vars, NEW path \in Requests, NEW m \in Asked
             PROVE  StaysOrIsOutdone(Taken(table, path, m), Taken(table', path, m))
  BY DEF StepStays
<1>1. path \in Path
  BY ConfigurationAssumption
<1>2. CASE \E id \in Ids : Serve(id)
  <2>1. PICK id \in Ids : Serve(id)
    BY <1>2
  <2>2. IsTable(table) /\ IsTable(table') /\ Grows(table, table')
    BY <2>1, ServeAdds DEF Adds, Inv
  <2> QED  BY <1>1, <2>2, GrowthStays
<1>3. CASE table' = table
  <2>1. IsTable(table) /\ Grows(table, table)
    BY DEF Inv, IsTable, Grows
  <2>2. StaysOrIsOutdone(Taken(table, path, m), Taken(table, path, m))
    BY <1>1, <2>1, GrowthStays
  <2> QED  BY <1>3, <2>2
<1>4. (\E id \in Ids : Serve(id)) \/ table' = table
  BY DEF Next, Fatal, Stop, Listen, Terminated, vars
<1> QED  BY <1>2, <1>3, <1>4

\* A request stays with its handler while resources are registered, unless a
\* pattern with more literals takes it over.
THEOREM HandlersStay == Spec => RoutesStay
<1>1. Spec => [][StepStays]_vars
  BY Invariance, NextStays, PTL DEF Spec
<1>2. [][StepStays]_vars => RoutesStay
  BY DEF RoutesStay, StepStays
<1> QED  BY <1>1, <1>2

-----------------------------------------------------------------------------
(* What becomes of timeouts.                                               *)

\* Whatever is written for a timeout is refused: the unit is cut from where
\* the digits are.
THEOREM EveryTimeoutFails ==
  ASSUME NEW S, NEW str \in Seq(S)
  PROVE  TimeoutFails(str) <=> str # <<>>
<1> DEFINE ends == {n \in 0..Len(str) : \A m \in 1..n : str[m] \in Digit}
           last == DigitsOf(str)
<1>1. Len(str) \in Nat
  OBVIOUS
<1>2. \E n \in ends : \A m \in ends : m <= n
  <2> DEFINE rest == {Len(str) - n : n \in ends}
  <2>1. 0 \in ends /\ ends \subseteq 0..Len(str)
    BY <1>1
  <2> HIDE DEF ends
  <2>2. rest \in SUBSET Nat /\ rest # {}
    <3>1. rest # {}
      BY <2>1
    <3>2. \A n \in 0..Len(str) : Len(str) - n \in Nat
      BY <1>1
    <3> QED  BY <2>1, <3>1, <3>2
  <2>3. PICK x \in rest : \A y \in rest : x <= y
    <3> HIDE DEF rest
    <3> QED  BY <2>2, LeastNumber
  <2>4. PICK n \in ends : x = Len(str) - n
    OBVIOUS
  <2>5. ASSUME NEW m \in ends PROVE m <= n
    <3>1. Len(str) - n <= Len(str) - m
      BY <2>3, <2>4
    <3> QED  BY <1>1, <2>1, <3>1
  <2> QED  BY <2>5
<1>3. last \in ends
  <2> DEFINE IsLast(n) == \A m \in ends : m <= n
  <2>1. last = CHOOSE n \in ends : IsLast(n)
    BY DEF DigitsOf
  <2>2. \E n \in ends : IsLast(n)
    BY <1>2
  <2> HIDE DEF ends, IsLast, last
  <2> QED  BY <2>1, <2>2
<1> DEFINE unit == SubSeq(str, 1, last)
<1>4. CASE last = 0
  <2>1. unit = <<>>
    BY <1>4
  <2> QED  BY <2>1 DEF TimeoutFails
<1>5. CASE last # 0
  <2>1. last \in 1..Len(str) /\ str[1] \in Digit
    BY <1>1, <1>3, <1>5
  <2> HIDE DEF last
  <2>2. unit[1] = str[1] /\ str # <<>>
    BY <1>1, <2>1
  <2>3. unit \notin Units
    <3>1. \A u \in Units : u[1] \notin Digit
      BY DEF Units, Digit
    <3> QED  BY <2>1, <2>2, <3>1
  <2> QED  BY <2>2, <2>3 DEF TimeoutFails, last
<1> QED  BY <1>4, <1>5

\* So no resource that is served has a timeout, neither for its filters nor
\* for its cache, however well it is written.
ServedHaveNone ==
  \A id \in Ids \ left :
    /\ \A n \in DOMAIN conf[id].filters : conf[id].filters[n].timeout = <<>>
    /\ \A n \in DOMAIN conf[id].cache : conf[id].cache[n].ttl = <<>>

\* Every resource that the program serves goes without timeouts.
THEOREM NoTimeoutIsServed == Spec => []ServedHaveNone
<1>1. Init => ServedHaveNone
  BY DEF Init, ServedHaveNone
<1>2. Inv /\ ServedHaveNone /\ [Next]_vars => ServedHaveNone'
  <2> SUFFICES ASSUME Inv, ServedHaveNone, [Next]_vars PROVE ServedHaveNone'
    OBVIOUS
  <2>1. ASSUME NEW id \in Ids, Serve(id) PROVE ServedHaveNone'
    <3>1. conf' = conf /\ left' = left \ {id} /\ ~CacheFails(id) /\ ~FiltersFail(id)
      BY <2>1 DEF Serve
    <3>2. conf[id] \in Resource
      BY ConfigurationAssumption DEF Inv, TypeOK
    <3>3. conf[id].cache \in Seq(Cache) /\ conf[id].filters \in Seq(Filter)
      BY <3>2 DEF Resource
    <3>4. ASSUME NEW n \in DOMAIN conf[id].filters PROVE conf[id].filters[n].timeout = <<>>
      <4>1. conf[id].filters[n] \in Filter /\ ~TimeoutFails(conf[id].filters[n].timeout)
        BY <3>1, <3>3 DEF FiltersFail
      <4>2. conf[id].filters[n].timeout \in Seq(STRING)
        BY <4>1 DEF Filter
      <4> QED  BY <4>1, <4>2, EveryTimeoutFails
    <3>5. ASSUME NEW n \in DOMAIN conf[id].cache PROVE conf[id].cache[n].ttl = <<>>
      <4>1. conf[id].cache[n] \in Cache /\ ~TimeoutFails(conf[id].cache[n].ttl)
        BY <3>1, <3>3 DEF CacheFails
      <4>2. conf[id].cache[n].ttl \in Seq(STRING)
        BY <4>1 DEF Cache
      <4> QED  BY <4>1, <4>2, EveryTimeoutFails
    <3>6. \A i \in Ids \ left' : i \in Ids \ left \/ i = id
      BY <3>1
    <3> QED  BY <3>1, <3>4, <3>5, <3>6 DEF ServedHaveNone
  <2>2. CASE conf' = conf /\ left' = left
    BY <2>2 DEF ServedHaveNone
  <2>3. (\E id \in Ids : Serve(id)) \/ (conf' = conf /\ left' = left)
    BY DEF Next, Fatal, Stop, Listen, Terminated, vars
  <2> QED  BY <2>1, <2>2, <2>3
<1> QED  BY <1>1, <1>2, Invariance, PTL DEF Spec
=============================================================================
