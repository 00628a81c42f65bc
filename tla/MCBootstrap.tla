---------------------------- MODULE MCBootstrap ----------------------------
(* Three resources out of patterns that overlap in every way: equal, with   *)
(* parameters at different places, with empty segments; and one resource    *)
(* for each thing that can go wrong while it is set up.                     *)
EXTENDS Bootstrap, TLC

A == Lit("a")
B == Lit("b")
E == Lit("")

Patterns ==
  {<<E, A, B>>, <<E, A, Par("x")>>, <<E, Par("x"), B>>, <<E, Par("x"), Par("y")>>,
   <<E, A, E, Par("x")>>, <<E, Par("a"), A>>, <<E, Par("x"), B, E>>}

ResourceOf(frontend, method, cors) ==
  [frontend |-> frontend, method |-> method, cors |-> cors, backend |-> "fine",
   opa |-> "none", cache |-> <<>>, filters |-> <<>>]
Plain(method) == ResourceOf(<<E, A>>, method, TRUE)
FilterOf(nats, timeout) == [sound |-> TRUE, nats |-> nats, timeout |-> timeout]
With(filter) == [Plain("GET") EXCEPT !.filters = <<filter>>]

Sound ==
  {ResourceOf(p, "POST", FALSE) : p \in Patterns} \cup {Plain("*"), Plain("PATCH")}
Ill ==
  {[Plain("GET") EXCEPT !.backend = "unparsable"],
   [Plain("GET") EXCEPT !.backend = "unsupported"],
   [Plain("GET") EXCEPT !.opa = "sound"],
   [Plain("GET") EXCEPT !.opa = "unsound"],
   [Plain("GET") EXCEPT !.cache = <<[sound |-> TRUE, ttl |-> <<>>]>>],
   With(FilterOf(FALSE, <<>>)), With(FilterOf(TRUE, <<>>)),
   With([FilterOf(FALSE, <<>>) EXCEPT !.sound = FALSE]),
   With(FilterOf(FALSE, <<"3", "s">>))}

MCResources == Sound \cup Ill
MCDocumented ==
  {Plain("GET"), With(FilterOf(TRUE, <<>>)), With(FilterOf(FALSE, <<"3", "s">>))}

MCRequests ==
  {<<E, E>>, <<E, A>>, <<E, A, B>>, <<E, B, B>>, <<E, B, A>>, <<E, A, A>>,
   <<E, A, E>>, <<E, A, Par("x")>>}

\* The order in which resources are visited is free, so their names are
\* interchangeable.
Symmetry == Permutations(Ids)
=============================================================================
