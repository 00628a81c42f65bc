--------------------------- MODULE MCHttpResource ---------------------------
(* Resources with a cache, with and without OPA, with filters of every      *)
(* level as the parser lists them: in no particular order of levels.        *)
EXTENDS HttpResource

MCFilters ==
  {<<>>, <<Filter("s", "response", FALSE, <<>>), Filter("q", "request", FALSE, <<>>),
           Filter("c", "connect", FALSE, <<>>)>>}

MCConfigs == [opa: BOOLEAN, cache: {TRUE}, filters: MCFilters]
=============================================================================
