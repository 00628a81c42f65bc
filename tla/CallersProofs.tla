--------------------------- MODULE CallersProofs ---------------------------
(***************************************************************************)
(* Proofs about Callers: what Sort makes of the callers of a resource, for *)
(* any number of filters in any order.                                     *)
(***************************************************************************)
EXTENDS Callers, LoopProofs

\* OfLevel's loop has a value after every turn.
LEMMA OfLevelLoop ==
  ASSUME NEW S, NEW callers \in Seq(S), NEW level
  PROVE  \E f \in [0..Len(callers) -> Seq(S)] :
           /\ f[0] = <<>>
           /\ \A n \in 1..Len(callers) :
                f[n] = IF callers[n].level = level
                       THEN Append(f[n - 1], callers[n]) ELSE f[n - 1]
           /\ OfLevel(callers, level) = f[Len(callers)]
<1> DEFINE N == Len(callers)
           Turn(n, s) == IF callers[n].level = level THEN Append(s, callers[n]) ELSE s
           Step(f, n) == IF n = 0 THEN <<>>
                         ELSE IF callers[n].level = level THEN Append(f[n - 1], callers[n])
                         ELSE f[n - 1]
           F == CHOOSE f : f = [n \in 0..N |-> Step(f, n)]
           turn == [n \in 1..N |-> [s \in Seq(S) |-> Turn(n, s)]]
           Fits(f) == f[0] = <<>> /\ \A n \in 1..N : f[n] = turn[n][f[n - 1]]
<1>1. N \in Nat
  OBVIOUS
<1>2. turn \in [1..N -> [Seq(S) -> Seq(S)]]
  <2>1. \A n \in 1..N, s \in Seq(S) : Turn(n, s) \in Seq(S)
    OBVIOUS
  <2> HIDE DEF Turn
  <2> QED  BY <2>1
<1>3. \E f \in [0..N -> Seq(S)] : Fits(f)
  <2> DEFINE V == Seq(S)
             v == <<>>
  <2>1. v \in V /\ turn \in Turns(N, V)
    BY <1>2 DEF Turns
  <2> HIDE DEF turn, N, V, v
  <2>2. \E f : IsLoop(f, N, V, v, turn)
    BY <1>1, <2>1, LoopExists
  <2> QED  BY <2>2 DEF V, v, IsLoop
<1>4. ASSUME NEW f \in [0..N -> Seq(S)], Fits(f)
      PROVE  \A n \in 0..N : f[n] = Step(f, n)
  <2>1. ASSUME NEW n \in 1..N PROVE f[n] = Step(f, n)
    <3>1. f[n - 1] \in Seq(S)
      OBVIOUS
    <3>2. turn[n][f[n - 1]] = Turn(n, f[n - 1])
      <4> HIDE DEF Turn
      <4> QED  BY <3>1
    <3>3. Turn(n, f[n - 1]) = Step(f, n)
      OBVIOUS
    <3> HIDE DEF turn, Turn, Step
    <3> QED  BY <1>4, <3>2, <3>3
  <2>2. f[0] = Step(f, 0)
    BY <1>4
  <2> HIDE DEF Step
  <2> QED  BY <2>1, <2>2
<1>5. \E f : f = [n \in 0..N |-> Step(f, n)]
  <2>1. PICK f \in [0..N -> Seq(S)] : Fits(f)
    BY <1>3
  <2>2. \A n \in 0..N : f[n] = Step(f, n)
    BY <1>4, <2>1
  <2> HIDE DEF Step
  <2>3. f = [n \in 0..N |-> Step(f, n)]
    BY <2>2
  <2> QED  BY <2>3
<1>6. F = [n \in 0..N |-> Step(F, n)]
  <2> HIDE DEF Step
  <2> QED  BY <1>5, Zenon
<1>7. OfLevel(callers, level) = F[N]
  BY DEF OfLevel
<1> HIDE DEF F
<1>8. \A n \in 0..N : F[n] = Step(F, n)
  <2> HIDE DEF Step
  <2> QED  BY <1>6
<1>9. F[0] = <<>> /\ \A n \in 1..N : F[n] = Turn(n, F[n - 1])
  BY <1>1, <1>8
<1>10. \A n \in 0..N : F[n] \in Seq(S)
  <2> DEFINE Good == {n \in 0..N : F[n] \in Seq(S)}
  <2>1. 0 \in Good
    <3>1. <<>> \in Seq(S) /\ 0 \in 0..N
      BY <1>1
    <3> QED  BY <1>9, <3>1
  <2>2. ASSUME NEW n \in 1..N, n - 1 \in Good PROVE n \in Good
    <3>1. F[n - 1] \in Seq(S) /\ callers[n] \in S /\ n \in 0..N
      BY <2>2
    <3>2. Turn(n, F[n - 1]) \in Seq(S)
      BY <3>1
    <3> HIDE DEF Turn
    <3> QED  BY <1>9, <3>1, <3>2
  <2> HIDE DEF Good
  <2>3. \A n \in 0..N : n \in Good
    BY <1>1, <2>1, <2>2, AfterAllTurns
  <2> QED  BY <2>3 DEF Good
<1>11. F \in [0..N -> Seq(S)]
  <2> HIDE DEF Step
  <2> QED  BY <1>6, <1>10
<1> QED  BY <1>7, <1>9, <1>11

\* s consists of those of the first n callers that are of the level, in their
\* order: g says where each comes from.
PicksOut(g, s, callers, level, n) ==
  /\ g \in [1..Len(s) -> 1..n]
  /\ \A i, j \in 1..Len(s) : i < j => g[i] < g[j]
  /\ \A i \in 1..Len(s) : callers[g[i]].level = level /\ s[i] = callers[g[i]]
  /\ \A m \in 1..n : callers[m].level = level => \E i \in 1..Len(s) : g[i] = m

\* OfLevel keeps all callers of the level and no others, in their order.
LEMMA OfLevelKeeps ==
  ASSUME NEW S, NEW callers \in Seq(S), NEW level
  PROVE  /\ OfLevel(callers, level) \in Seq(S)
         /\ \E g : PicksOut(g, OfLevel(callers, level), callers, level, Len(callers))
<1> DEFINE N == Len(callers)
<1>1. N \in Nat
  OBVIOUS
<1>2. PICK f \in [0..N -> Seq(S)] :
        /\ f[0] = <<>>
        /\ \A n \in 1..N : f[n] = IF callers[n].level = level
                                  THEN Append(f[n - 1], callers[n]) ELSE f[n - 1]
        /\ OfLevel(callers, level) = f[N]
  BY OfLevelLoop
<1> DEFINE Good == {n \in 0..N : \E g : PicksOut(g, f[n], callers, level, n)}
<1>3. 0 \in Good
  <2>1. Len(f[0]) = 0 /\ 1..0 = {}
    BY <1>2
  <2>2. PicksOut([i \in 1..0 |-> 1], f[0], callers, level, 0)
    BY <2>1 DEF PicksOut
  <2> QED  BY <1>1, <2>2
<1>4. ASSUME NEW n \in 1..N, n - 1 \in Good PROVE n \in Good
  <2> DEFINE s == f[n - 1]
  <2>1. s \in Seq(S) /\ Len(s) \in Nat /\ callers[n] \in S /\ n - 1 \in 0..N
    OBVIOUS
  <2>2. PICK g : PicksOut(g, s, callers, level, n - 1)
    BY <1>4
  <2>3. CASE callers[n].level # level
    <3>1. f[n] = s
      BY <1>2, <2>3
    <3> HIDE DEF s
    <3>2. PicksOut(g, s, callers, level, n)
      <4>1. g \in [1..Len(s) -> 1..n]
        BY <2>2 DEF PicksOut
      <4>2. \A m \in 1..n : callers[m].level = level => m \in 1..n - 1
        BY <2>3
      <4> QED  BY <2>2, <4>1, <4>2 DEF PicksOut
    <3> QED  BY <3>1, <3>2
  <2>4. CASE callers[n].level = level
    <3>1. f[n] = Append(s, callers[n])
      BY <1>2, <2>4
    <3>2. /\ Len(f[n]) = Len(s) + 1
          /\ \A i \in 1..Len(s) : f[n][i] = s[i]
          /\ f[n][Len(s) + 1] = callers[n]
      BY <2>1, <3>1
    <3> DEFINE h == [i \in 1..Len(s) + 1 |-> IF i = Len(s) + 1 THEN n ELSE g[i]]
    <3>0. Len(s) \in Nat
      BY <2>1
    <3> HIDE DEF s
    <3>a. \A i \in 1..Len(s) : g[i] \in 1..n - 1
      BY <2>2 DEF PicksOut
    <3>3. \A i \in 1..Len(s) : h[i] = g[i] /\ g[i] \in 1..n - 1
      BY <3>0, <3>a
    <3>4. h[Len(s) + 1] = n
      BY <3>0
    <3>5. h \in [1..Len(s) + 1 -> 1..n]
      <4>1. \A i \in 1..Len(s) + 1 : (IF i = Len(s) + 1 THEN n ELSE g[i]) \in 1..n
        <5>1. \A i \in 1..Len(s) + 1 : i # Len(s) + 1 => i \in 1..Len(s)
          BY <3>0
        <5>2. n \in 1..n /\ \A x \in 1..n - 1 : x \in 1..n
          OBVIOUS
        <5> HIDE DEF h
        <5> QED  BY <5>1, <5>2, <3>a
      <4> QED  BY <4>1
    <3> HIDE DEF h
    <3>6. \A i, j \in 1..Len(s) + 1 : i < j => h[i] < h[j]
      <4> SUFFICES ASSUME NEW i \in 1..Len(s) + 1, NEW j \in 1..Len(s) + 1, i < j
                   PROVE  h[i] < h[j]
        OBVIOUS
      <4>1. i \in 1..Len(s)
        BY <2>1
      <4>2. CASE j = Len(s) + 1
        BY <3>3, <3>4, <4>1, <4>2
      <4>3. CASE j # Len(s) + 1
        <5>1. j \in 1..Len(s)
          BY <2>1, <4>3
        <5>2. g[i] < g[j]
          BY <2>2, <4>1, <5>1 DEF PicksOut
        <5> QED  BY <3>3, <4>1, <5>1, <5>2
      <4> QED  BY <4>2, <4>3
    <3>7. ASSUME NEW i \in 1..Len(s) + 1
          PROVE  callers[h[i]].level = level /\ f[n][i] = callers[h[i]]
      <4>1. CASE i = Len(s) + 1
        BY <2>4, <3>2, <3>4, <4>1
      <4>2. CASE i # Len(s) + 1
        <5>1. i \in 1..Len(s)
          BY <3>0, <4>2
        <5> QED  BY <2>2, <3>2, <3>3, <5>1 DEF PicksOut
      <4> QED  BY <4>1, <4>2
    <3>8. ASSUME NEW m \in 1..n, callers[m].level = level
          PROVE  \E i \in 1..Len(s) + 1 : h[i] = m
      <4>1. CASE m = n
        BY <2>1, <3>4, <4>1
      <4>2. CASE m # n
        <5>1. m \in 1..n - 1
          BY <4>2
        <5>2. PICK i \in 1..Len(s) : g[i] = m
          BY <2>2, <3>8, <5>1 DEF PicksOut
        <5> QED  BY <2>1, <3>3, <5>2
      <4> QED  BY <4>1, <4>2
    <3>9. PicksOut(h, f[n], callers, level, n)
      BY <3>2, <3>5, <3>6, <3>7, <3>8 DEF PicksOut
    <3> QED  BY <3>9
  <2> QED  BY <2>3, <2>4
<1>5. N \in Good
  <2> HIDE DEF Good
  <2>1. \A n \in 0..N : n \in Good
    BY <1>1, <1>3, <1>4, AfterAllTurns
  <2> QED  BY <1>1, <2>1
<1> QED  BY <1>1, <1>2, <1>5
-----------------------------------------------------------------------------
(* The callers of a resource.                                              *)

\* Those that ParseV1 and NewHttpProxy make, for filters with these names.
Filters(Names) == {f \in FilterOf(Names) : ~f.parallel}
OneOf(Names) ==
  {Opa("connect"), Opa("request"), Opa("response"), CacheGet, CacheSet, HttpProxy}
    \cup Filters(Names)

\* Where the callers of a level are in a chain.
Place(level) ==
  [connect |-> 1, pre |-> 2, request |-> 3, none |-> 4, response |-> 5, post |-> 6][level]

LEMMA OwnCallers ==
  /\ CacheSet.kind = "set" /\ CacheSet.level = "post" /\ ~CacheSet.parallel
  /\ CacheGet.kind = "get" /\ CacheGet.level = "pre" /\ ~CacheGet.parallel
  /\ HttpProxy.kind = "proxy" /\ HttpProxy.level = "none" /\ ~HttpProxy.parallel
  /\ \A level : Opa(level).kind = "opa" /\ Opa(level).level = level /\ ~Opa(level).parallel
BY DEF CacheGet, CacheSet, HttpProxy, Opa

LEMMA KindAndLevel ==
  ASSUME NEW Names, NEW c \in OneOf(Names)
  PROVE  /\ ~c.parallel
         /\ c.kind = "proxy" <=> c.level = "none"
         /\ c.kind = "get" <=> c.level = "pre"
         /\ c.kind = "set" <=> c.level = "post"
         /\ c.kind \in {"opa", "filter"} <=> c.level \in {"connect", "request", "response"}
<1>1. CASE c \in Filters(Names)
  BY <1>1 DEF Filters, FilterOf
<1>2. CASE c \in {Opa("connect"), Opa("request"), Opa("response"), CacheGet, CacheSet, HttpProxy}
  BY <1>2, OwnCallers
<1> QED  BY <1>1, <1>2 DEF OneOf

LEMMA Places ==
  /\ Place("connect") = 1 /\ Place("pre") = 2 /\ Place("request") = 3
  /\ Place("none") = 4 /\ Place("response") = 5 /\ Place("post") = 6
BY DEF Place

\* What ParseV1 lists before the filters, and how many that are.
Policies(opa) == IF opa THEN <<Opa("connect"), Opa("request"), Opa("response")>> ELSE <<>>
Cached(cache) == IF cache THEN <<CacheGet, CacheSet>> ELSE <<>>
Listed(opa, cache, filters) == Append(Parsed(opa, cache, filters), HttpProxy)

\* Each caller before the filters stands at its place of the list; after them
\* there is only the proxy.
LEMMA ListedCallers ==
  ASSUME NEW Names, NEW opa \in BOOLEAN, NEW cache \in BOOLEAN,
         NEW fs \in Seq(Filters(Names))
  PROVE  LET cs == Listed(opa, cache, fs)
             o == IF opa THEN 3 ELSE 0
             k == IF cache THEN o + 2 ELSE o
         IN /\ cs \in Seq(OneOf(Names))
            /\ Len(cs) = k + Len(fs) + 1
            /\ cs[k + Len(fs) + 1] = HttpProxy
            /\ opa => cs[1] = Opa("connect") /\ cs[2] = Opa("request") /\ cs[3] = Opa("response")
            /\ cache => cs[o + 1] = CacheGet /\ cs[o + 2] = CacheSet
            /\ \A n \in k + 1..k + Len(fs) : cs[n] \in Filters(Names)
<1> DEFINE P == Policies(opa)
           K == Cached(cache)
           o == IF opa THEN 3 ELSE 0
           k == IF cache THEN o + 2 ELSE o
           S == OneOf(Names)
           Q == P \o K
           R == Q \o fs
           cs == Append(R, HttpProxy)
<1>1. /\ P \in Seq(S) /\ Len(P) = o
      /\ opa => P[1] = Opa("connect") /\ P[2] = Opa("request") /\ P[3] = Opa("response")
  <2>1. Opa("connect") \in S /\ Opa("request") \in S /\ Opa("response") \in S
    BY DEF OneOf
  <2> HIDE DEF S
  <2> QED  BY <2>1 DEF Policies
<1>2. /\ K \in Seq(S) /\ Len(K) = k - o
      /\ cache => K[1] = CacheGet /\ K[2] = CacheSet
  <2>1. CacheGet \in S /\ CacheSet \in S
    BY DEF OneOf
  <2> HIDE DEF S
  <2> QED  BY <2>1 DEF Cached
<1>3. fs \in Seq(S) /\ Len(fs) \in Nat /\ HttpProxy \in S
      /\ \A n \in 1..Len(fs) : fs[n] \in Filters(Names)
  BY DEF OneOf, Filters
<1>4. o \in Nat /\ k \in Nat /\ k >= o /\ (opa => o = 3) /\ (cache => k = o + 2)
  OBVIOUS
<1>5. Listed(opa, cache, fs) = cs
  BY DEF Listed, Parsed, Policies, Cached
<1> HIDE DEF P, K, S, o, k
<1>6. /\ Q \in Seq(S) /\ Len(Q) = k
      /\ \A i \in 1..o : Q[i] = P[i]
      /\ \A i \in 1..k - o : Q[o + i] = K[i]
  BY <1>1, <1>2, <1>4
<1> HIDE DEF Q
<1>7. /\ R \in Seq(S) /\ Len(R) = k + Len(fs)
      /\ \A i \in 1..k : R[i] = Q[i]
      /\ \A i \in 1..Len(fs) : R[k + i] = fs[i]
  BY <1>3, <1>4, <1>6
<1> HIDE DEF R
<1>8. /\ cs \in Seq(S) /\ Len(cs) = k + Len(fs) + 1
      /\ \A i \in 1..k + Len(fs) : cs[i] = R[i]
      /\ cs[k + Len(fs) + 1] = HttpProxy
  BY <1>3, <1>4, <1>7
<1> HIDE DEF cs
<1>9. opa => cs[1] = Opa("connect") /\ cs[2] = Opa("request") /\ cs[3] = Opa("response")
  <2>1. opa => \A i \in 1..3 : i \in 1..o /\ i \in 1..k /\ i \in 1..k + Len(fs)
    BY <1>3, <1>4
  <2>2. opa => \A i \in 1..3 : cs[i] = P[i]
    BY <2>1, <1>6, <1>7, <1>8
  <2> QED  BY <2>2, <1>1
<1>10. cache => cs[o + 1] = CacheGet /\ cs[o + 2] = CacheSet
  <2>1. cache => \A i \in 1..2 : i \in 1..k - o /\ o + i \in 1..k /\ o + i \in 1..k + Len(fs)
    BY <1>3, <1>4
  <2>2. cache => \A i \in 1..2 : cs[o + i] = K[i]
    BY <2>1, <1>6, <1>7, <1>8
  <2> QED  BY <2>2, <1>2
<1>11. \A n \in k + 1..k + Len(fs) : cs[n] \in Filters(Names)
  <2> SUFFICES ASSUME NEW n \in k + 1..k + Len(fs) PROVE cs[n] \in Filters(Names)
    OBVIOUS
  <2>1. n - k \in 1..Len(fs) /\ n \in 1..k + Len(fs) /\ k + (n - k) = n
    BY <1>3, <1>4
  <2>2. cs[n] = fs[n - k]
    BY <2>1, <1>7, <1>8
  <2> QED  BY <2>1, <2>2, <1>3
<1> QED  BY <1>5, <1>8, <1>9, <1>10, <1>11 DEF S, o, k

\* At which places of the list the levels and kinds are.
LEMMA ListedLevels ==
  ASSUME NEW Names, NEW opa \in BOOLEAN, NEW cache \in BOOLEAN,
         NEW fs \in Seq(Filters(Names)), NEW n \in 1..Len(Listed(opa, cache, fs))
  PROVE  LET cs == Listed(opa, cache, fs)
             o == IF opa THEN 3 ELSE 0
         IN /\ cs[n].level = "none" <=> n = Len(cs)
            /\ cs[n].level = "pre" <=> cache /\ n = o + 1
            /\ cs[n].level = "post" <=> cache /\ n = o + 2
            /\ cs[n].kind = "opa" /\ cs[n].level = "connect" => n = 1
<1> DEFINE o == IF opa THEN 3 ELSE 0
           k == IF cache THEN o + 2 ELSE o
           cs == Listed(opa, cache, fs)
<1>1. /\ cs \in Seq(OneOf(Names))
      /\ Len(cs) = k + Len(fs) + 1
      /\ cs[k + Len(fs) + 1] = HttpProxy
      /\ opa => cs[1] = Opa("connect") /\ cs[2] = Opa("request") /\ cs[3] = Opa("response")
      /\ cache => cs[o + 1] = CacheGet /\ cs[o + 2] = CacheSet
      /\ \A m \in k + 1..k + Len(fs) : cs[m] \in Filters(Names)
  BY ListedCallers
<1>2. Len(fs) \in Nat
  OBVIOUS
<1> HIDE DEF cs
<1>3. n \in 1..o \/ (cache /\ n \in {o + 1, o + 2}) \/ n \in k + 1..k + Len(fs)
        \/ n = k + Len(fs) + 1
  BY <1>1, <1>2 DEF cs
<1>4. CASE n \in 1..o
  <2>1. opa /\ o = 3 /\ n \in {1, 2, 3}
    BY <1>4
  <2>2. /\ cs[1].level = "connect" /\ cs[2].level = "request" /\ cs[3].level = "response"
    BY <1>1, <2>1, OwnCallers
  <2>3. n # Len(cs) /\ (n = 1 \/ cs[n].level # "connect")
    BY <1>1, <1>2, <2>1, <2>2
  <2>4. ~(n = o + 1) /\ ~(n = o + 2) /\ cs[n].level \notin {"none", "pre", "post"}
    BY <2>1, <2>2
  <2> HIDE DEF o
  <2> QED  BY <2>3, <2>4 DEF cs, o
<1>5. CASE cache /\ n \in {o + 1, o + 2}
  <2>1. /\ n = o + 1 => cs[n].level = "pre" /\ cs[n].kind = "get"
        /\ n = o + 2 => cs[n].level = "post" /\ cs[n].kind = "set"
    BY <1>1, <1>5, OwnCallers
  <2>2. n # Len(cs) /\ o + 1 # o + 2
    BY <1>1, <1>2, <1>5
  <2>3. cs[n].kind # "opa" /\ cs[n].level # "none" /\ cs[n].level # "connect"
    BY <1>5, <2>1
  <2>4. (cs[n].level = "pre" <=> n = o + 1) /\ (cs[n].level = "post" <=> n = o + 2)
    BY <1>5, <2>1, <2>2
  <2> QED  BY <1>5, <2>2, <2>3, <2>4 DEF cs
<1>6. CASE n \in k + 1..k + Len(fs)
  <2>1. cs[n].kind = "filter" /\ cs[n].level \in {"connect", "request", "response"}
    BY <1>1, <1>6 DEF Filters, FilterOf
  <2>2. n # Len(cs) /\ (cache => n # o + 1 /\ n # o + 2)
    BY <1>1, <1>2, <1>6
  <2> QED  BY <2>1, <2>2 DEF cs
<1>7. CASE n = k + Len(fs) + 1
  <2>1. cs[n].kind = "proxy" /\ cs[n].level = "none"
    BY <1>1, <1>7, OwnCallers
  <2>2. n = Len(cs) /\ (cache => n # o + 1 /\ n # o + 2)
    BY <1>1, <1>2, <1>7
  <2> QED  BY <2>1, <2>2 DEF cs
<1> QED  BY <1>3, <1>4, <1>5, <1>6, <1>7

\* A pre- or post-level list is its caller alone when no main caller precedes
\* that, and empty without one.
LEMMA LastAlone ==
  ASSUME NEW S, NEW callers \in Seq(S), NEW level,
         NEW last \in 1..Len(callers),
         \A n \in 1..Len(callers) : callers[n].level = level <=> n = last,
         \A n \in 1..last - 1 : callers[n].level # "none"
  PROVE  LastOnTopOfMain(callers, level) = <<callers[last]>>
<1> DEFINE at == {n \in DOMAIN callers : callers[n].level = level}
           before == SubSeq(callers, 1, last - 1)
<1>1. at = {last}
  OBVIOUS
<1>2. (CHOOSE n \in at : \A m \in at : m <= n) = last
  <2>1. last <= last
    OBVIOUS
  <2> HIDE DEF at
  <2> QED  BY <1>1, <2>1
<1>3. /\ before \in Seq(S) /\ Len(before) = last - 1
      /\ \A n \in 1..last - 1 : before[n] = callers[n]
  OBVIOUS
<1>4. OfLevel(before, "none") = <<>>
  <2> DEFINE s == OfLevel(before, "none")
  <2>1. s \in Seq(S)
    BY <1>3, OfLevelKeeps
  <2>2. PICK g : PicksOut(g, s, before, "none", Len(before))
    BY <1>3, OfLevelKeeps
  <2> HIDE DEF s
  <2>3. ASSUME s # <<>> PROVE FALSE
    <3>1. 1 \in 1..Len(s)
      BY <2>1, <2>3
    <3>2. g[1] \in 1..Len(before) /\ before[g[1]].level = "none"
      BY <2>2, <3>1 DEF PicksOut
    <3> QED  BY <1>3, <3>2
  <2> QED  BY <2>3 DEF s
<1>5. LastOnTopOfMain(callers, level) = Append(<<>>, callers[last])
  BY <1>1, <1>2, <1>4 DEF LastOnTopOfMain
<1> QED  BY <1>5

LEMMA NoneOnTop ==
  ASSUME NEW S, NEW callers \in Seq(S), NEW level,
         \A n \in 1..Len(callers) : callers[n].level # level
  PROVE  LastOnTopOfMain(callers, level) = <<>>
<1>1. {n \in DOMAIN callers : callers[n].level = level} = {}
  OBVIOUS
<1> QED  BY <1>1 DEF LastOnTopOfMain

-----------------------------------------------------------------------------
(* The chain: the lists of the levels, one after the other.                *)

Ordered(s) ==
  \A i, j \in 1..Len(s) : i < j => Place(s[i].level) <= Place(s[j].level)

\* Callers in the order of their levels, up to the p-th level.
UpToPlace(s, p) == Ordered(s) /\ \A i \in 1..Len(s) : Place(s[i].level) \in 0..p

LEMMA Join ==
  ASSUME NEW S, NEW s \in Seq(S), NEW t \in Seq(S), NEW p \in Nat, NEW q \in Nat, p < q,
         UpToPlace(s, p), \A i \in 1..Len(t) : Place(t[i].level) = q
  PROVE  /\ s \o t \in Seq(S) /\ UpToPlace(s \o t, q)
         /\ \A i \in 1..Len(s) : i \in 1..Len(s \o t) /\ (s \o t)[i] = s[i]
         /\ \A i \in 1..Len(t) : \E j \in 1..Len(s \o t) : (s \o t)[j] = t[i]
         /\ \A i \in 1..Len(s \o t) : i \in 1..Len(s) \/ Place((s \o t)[i].level) = q
<1> DEFINE u == s \o t
<1>1. /\ u \in Seq(S) /\ Len(u) = Len(s) + Len(t)
      /\ \A i \in 1..Len(s) : u[i] = s[i]
      /\ \A i \in 1..Len(t) : u[Len(s) + i] = t[i]
  OBVIOUS
<1>2. Len(s) \in Nat /\ Len(t) \in Nat
  OBVIOUS
<1> HIDE DEF u
<1>3. \A i \in 1..Len(u) : i \in 1..Len(s) \/ (i > Len(s) /\ i - Len(s) \in 1..Len(t))
  BY <1>1, <1>2
<1>4. \A i \in 1..Len(u) : i > Len(s) => Place(u[i].level) = q
  <2> SUFFICES ASSUME NEW i \in 1..Len(u), i > Len(s) PROVE Place(u[i].level) = q
    OBVIOUS
  <2>1. i - Len(s) \in 1..Len(t) /\ Len(s) + (i - Len(s)) = i
    BY <1>2, <1>3
  <2> QED  BY <1>1, <2>1
<1>5. \A i \in 1..Len(s) : u[i].level = s[i].level /\ Place(s[i].level) \in 0..p
  BY <1>1 DEF UpToPlace
<1>6. \A i \in 1..Len(u) : Place(u[i].level) \in 0..q
  <2> SUFFICES ASSUME NEW i \in 1..Len(u) PROVE Place(u[i].level) \in 0..q
    OBVIOUS
  <2>1. CASE i > Len(s)
    BY <1>4, <2>1
  <2>2. CASE i \in 1..Len(s)
    <3>1. Place(u[i].level) \in 0..p
      BY <1>5, <2>2
    <3> QED  BY <1>3, <3>1, <2>2
  <2> QED  BY <1>3, <2>1, <2>2
<1>7. Ordered(u)
  <2> SUFFICES ASSUME NEW i \in 1..Len(u), NEW j \in 1..Len(u), i < j
               PROVE  Place(u[i].level) <= Place(u[j].level)
    BY DEF Ordered
  <2>1. CASE j > Len(s)
    BY <1>4, <1>6, <2>1
  <2>2. CASE j \in 1..Len(s)
    <3>1. i \in 1..Len(s)
      BY <1>2, <2>2
    <3> QED  BY <1>5, <2>2, <3>1 DEF UpToPlace, Ordered
  <2> QED  BY <1>3, <2>1, <2>2
<1>8. \A i \in 1..Len(s) : i \in 1..Len(u) /\ u[i] = s[i]
  BY <1>1, <1>2
<1>9. \A i \in 1..Len(t) : \E j \in 1..Len(u) : u[j] = t[i]
  <2>1. \A i \in 1..Len(t) : Len(s) + i \in 1..Len(u)
    BY <1>1, <1>2
  <2> QED  BY <1>1, <2>1
<1> QED  BY <1>1, <1>3, <1>4, <1>6, <1>7, <1>8, <1>9 DEF UpToPlace, u

\* A list of OfLevel fits behind callers of earlier levels.
LEMMA LevelPlace ==
  ASSUME NEW S, NEW callers \in Seq(S), NEW level
  PROVE  /\ OfLevel(callers, level) \in Seq(S)
         /\ \A i \in 1..Len(OfLevel(callers, level)) :
              /\ OfLevel(callers, level)[i].level = level
              /\ Place(OfLevel(callers, level)[i].level) = Place(level)
<1> DEFINE s == OfLevel(callers, level)
<1>1. s \in Seq(S)
  BY OfLevelKeeps
<1>2. PICK g : PicksOut(g, s, callers, level, Len(callers))
  BY OfLevelKeeps
<1> HIDE DEF s
<1>3. \A i \in 1..Len(s) : s[i].level = level
  BY <1>2 DEF PicksOut
<1> QED  BY <1>1, <1>3 DEF s

\* The chain of a resource, whatever its configuration: its members are in
\* the order of their levels, the proxy is one of them, and the policy of the
\* connect level comes first.
THEOREM ChainIsSorted ==
  ASSUME NEW Names, NEW opa \in BOOLEAN, NEW cache \in BOOLEAN,
         NEW filters \in Seq(Filters(Names))
  PROVE  LET chain == HttpChain(Parsed(opa, cache, filters))
         IN /\ chain \in Seq(OneOf(Names))
            /\ Ordered(chain)
            /\ \E i \in 1..Len(chain) : chain[i].kind = "proxy"
            /\ \A i \in 1..Len(chain) :
                 chain[i].kind = "opa" /\ chain[i].level = "connect" => i = 1
<1> DEFINE cs == Listed(opa, cache, filters)
           S == OneOf(Names)
           o == IF opa THEN 3 ELSE 0
<1>1. /\ cs \in Seq(S) /\ Len(cs) \in 1..Len(cs) /\ cs[Len(cs)].level = "none"
      /\ Len(cs) >= o + 1 /\ (cache => Len(cs) > o + 2 /\ cs[o + 1] = CacheGet /\ cs[o + 2] = CacheSet)
  BY ListedCallers, OwnCallers
<1>2. \A n \in 1..Len(cs) :
        /\ cs[n].level = "none" <=> n = Len(cs)
        /\ cs[n].level = "pre" <=> cache /\ n = o + 1
        /\ cs[n].level = "post" <=> cache /\ n = o + 2
        /\ cs[n].kind = "opa" /\ cs[n].level = "connect" => n = 1
  BY ListedLevels
<1> HIDE DEF cs, S
<1> DEFINE pre == LastOnTopOfMain(cs, "pre")
           post == LastOnTopOfMain(cs, "post")
<1>3. /\ pre \in Seq(S) /\ \A i \in 1..Len(pre) : pre[i].level = "pre"
      /\ post \in Seq(S) /\ \A i \in 1..Len(post) : post[i].level = "post"
  <2>1. CASE cache
    <3>1. pre = <<cs[o + 1]>>
      <4> DEFINE last == o + 1
      <4>1. last \in 1..Len(cs)
        BY <1>1, <2>1
      <4>2. \A n \in 1..Len(cs) : cs[n].level = "pre" <=> n = last
        BY <1>2, <2>1
      <4>3. \A n \in 1..last - 1 : cs[n].level # "none"
        BY <1>1, <1>2, <2>1
      <4> HIDE DEF last
      <4>4. pre = <<cs[last]>>
        BY <1>1, <4>1, <4>2, <4>3, LastAlone
      <4> QED  BY <4>4 DEF last
    <3>2. post = <<cs[o + 2]>>
      <4> DEFINE last == o + 2
      <4>1. last \in 1..Len(cs)
        BY <1>1, <2>1
      <4>2. \A n \in 1..Len(cs) : cs[n].level = "post" <=> n = last
        BY <1>2, <2>1
      <4>3. \A n \in 1..last - 1 : cs[n].level # "none"
        BY <1>1, <1>2, <2>1
      <4> HIDE DEF last
      <4>4. post = <<cs[last]>>
        BY <1>1, <4>1, <4>2, <4>3, LastAlone
      <4> QED  BY <4>4 DEF last
    <3>3. CacheGet \in S /\ CacheSet \in S
      BY DEF OneOf, S
    <3> HIDE DEF pre, post
    <3> QED  BY <1>1, <2>1, <3>1, <3>2, <3>3, OwnCallers
  <2>2. CASE ~cache
    <3>1. pre = <<>> /\ post = <<>>
      BY <1>1, <1>2, <2>2, NoneOnTop
    <3> HIDE DEF pre, post
    <3> QED  BY <3>1
  <2> QED  BY <2>1, <2>2
<1> HIDE DEF pre, post, o
<1> DEFINE connect == OfLevel(cs, "connect")
           request == OfLevel(cs, "request")
           main == OfLevel(cs, "none")
           response == OfLevel(cs, "response")
<1>4. /\ connect \in Seq(S) /\ request \in Seq(S) /\ main \in Seq(S) /\ response \in Seq(S)
      /\ \A i \in 1..Len(connect) : connect[i].level = "connect"
      /\ \A i \in 1..Len(request) : request[i].level = "request"
      /\ \A i \in 1..Len(main) : main[i].level = "none"
      /\ \A i \in 1..Len(response) : response[i].level = "response"
  BY <1>1, LevelPlace
<1>5. \A i \in 1..Len(connect) : connect[i].kind = "opa" => i = 1
  <2>1. PICK g : PicksOut(g, connect, cs, "connect", Len(cs))
    BY <1>1, OfLevelKeeps
  <2> HIDE DEF connect
  <2> SUFFICES ASSUME NEW i \in 1..Len(connect), connect[i].kind = "opa" PROVE i = 1
    OBVIOUS
  <2>2. g[i] \in 1..Len(cs) /\ cs[g[i]].level = "connect" /\ cs[g[i]].kind = "opa"
    BY <2>1 DEF PicksOut
  <2>3. g[i] = 1
    BY <1>2, <2>2
  <2>4. i > 1 => 1 \in 1..Len(connect)
    OBVIOUS
  <2>5. i > 1 => g[1] \in 1..Len(cs) /\ g[1] < g[i]
    BY <2>1, <2>4 DEF PicksOut
  <2> QED  BY <2>3, <2>5
<1>6. \E i \in 1..Len(main) : main[i].kind = "proxy"
  <2>1. PICK g : PicksOut(g, main, cs, "none", Len(cs))
    BY <1>1, OfLevelKeeps
  <2> HIDE DEF main
  <2>2. PICK i \in 1..Len(main) : g[i] = Len(cs)
    BY <1>1, <2>1 DEF PicksOut
  <2>3. main[i] \in S /\ main[i].level = "none"
    BY <1>4
  <2> QED  BY <2>3, KindAndLevel DEF S
<1> HIDE DEF connect, request, main, response
<1> DEFINE s2 == connect \o pre
           s3 == s2 \o request
           s4 == s3 \o main
           s5 == s4 \o response
           s6 == s5 \o post
<1>7. HttpChain(Parsed(opa, cache, filters)) = s6
  BY DEF HttpChain, Sort, connect, request, main, response, pre, post, cs, Listed
<1>p. /\ \A i \in 1..Len(pre) : Place(pre[i].level) = 2
      /\ \A i \in 1..Len(request) : Place(request[i].level) = 3
      /\ \A i \in 1..Len(main) : Place(main[i].level) = 4
      /\ \A i \in 1..Len(response) : Place(response[i].level) = 5
      /\ \A i \in 1..Len(post) : Place(post[i].level) = 6
  BY <1>3, <1>4, Places
<1>8. UpToPlace(connect, 1)
  <2>1. \A i \in 1..Len(connect) : Place(connect[i].level) = 1
    BY <1>4, Places
  <2> QED  BY <2>1 DEF UpToPlace, Ordered
<1>9. /\ s2 \in Seq(S) /\ UpToPlace(s2, 2)
      /\ \A i \in 1..Len(connect) : i \in 1..Len(s2) /\ s2[i] = connect[i]
      /\ \A i \in 1..Len(s2) : i \in 1..Len(connect) \/ Place(s2[i].level) = 2
  BY <1>3, <1>4, <1>p, <1>8, Join
<1> HIDE DEF s2
<1>10. /\ s3 \in Seq(S) /\ UpToPlace(s3, 3)
       /\ \A i \in 1..Len(s2) : i \in 1..Len(s3) /\ s3[i] = s2[i]
       /\ \A i \in 1..Len(s3) : i \in 1..Len(s2) \/ Place(s3[i].level) = 3
  BY <1>4, <1>9, <1>p, Join
<1> HIDE DEF s3
<1>11. /\ s4 \in Seq(S) /\ UpToPlace(s4, 4)
       /\ \A i \in 1..Len(s3) : i \in 1..Len(s4) /\ s4[i] = s3[i]
       /\ \A i \in 1..Len(main) : \E j \in 1..Len(s4) : s4[j] = main[i]
       /\ \A i \in 1..Len(s4) : i \in 1..Len(s3) \/ Place(s4[i].level) = 4
  BY <1>4, <1>10, <1>p, Join
<1> HIDE DEF s4
<1>12. /\ s5 \in Seq(S) /\ UpToPlace(s5, 5)
       /\ \A i \in 1..Len(s4) : i \in 1..Len(s5) /\ s5[i] = s4[i]
       /\ \A i \in 1..Len(s5) : i \in 1..Len(s4) \/ Place(s5[i].level) = 5
  <2>1. s4 \in Seq(S) /\ UpToPlace(s4, 4)
    BY <1>11
  <2>2. response \in Seq(S) /\ \A i \in 1..Len(response) : Place(response[i].level) = 5
    BY <1>4, <1>p
  <2> QED  BY <2>1, <2>2, Join
<1> HIDE DEF s5
<1>13. /\ s6 \in Seq(S) /\ UpToPlace(s6, 6)
       /\ \A i \in 1..Len(s5) : i \in 1..Len(s6) /\ s6[i] = s5[i]
       /\ \A i \in 1..Len(s6) : i \in 1..Len(s5) \/ Place(s6[i].level) = 6
  BY <1>3, <1>12, <1>p, Join
<1> HIDE DEF s6
<1>14. \E i \in 1..Len(s6) : s6[i].kind = "proxy"
  <2>1. PICK i \in 1..Len(main) : main[i].kind = "proxy"
    BY <1>6
  <2>2. PICK j \in 1..Len(s4) : s4[j] = main[i]
    BY <1>11
  <2> QED  BY <1>12, <1>13, <2>1, <2>2
<1>15. ASSUME NEW i \in 1..Len(s6), s6[i].kind = "opa", s6[i].level = "connect"
       PROVE  i = 1
  <2>1. Place(s6[i].level) = 1
    BY <1>15, Places
  <2>2. i \in 1..Len(s5) /\ Place(s5[i].level) = 1
    BY <1>13, <2>1
  <2>3. i \in 1..Len(s4) /\ Place(s4[i].level) = 1
    BY <1>12, <2>2
  <2>4. i \in 1..Len(s3) /\ Place(s3[i].level) = 1
    BY <1>11, <2>3
  <2>5. i \in 1..Len(s2) /\ Place(s2[i].level) = 1
    BY <1>10, <2>4
  <2>6. i \in 1..Len(connect)
    BY <1>9, <2>5
  <2>7. connect[i].kind = "opa"
    BY <1>9, <1>10, <1>11, <1>12, <1>13, <1>15, <2>2, <2>3, <2>4, <2>5, <2>6
  <2> QED  BY <1>5, <2>6, <2>7
<1> QED  BY <1>7, <1>13, <1>14, <1>15 DEF UpToPlace, S
=============================================================================
