----------------------------- MODULE MCCascade -----------------------------
(* Chains as the program builds them: those of HTTP resources, sorted by    *)
(* NewHttpProxy, and those of a NATS filter's callbacks, in the order of    *)
(* the configuration.                                                       *)
EXTENDS Cascade

MCNames == {"", "Cache", "a", "b", "c"}

Calls(name, level, await) == Filter(name, level, FALSE, await)
Async(name, level) == Filter(name, level, TRUE, <<>>)
AsyncAwaiting(name, level, await) == Filter(name, level, TRUE, await)
Continues(f) == [f EXCEPT !.onError = "continue"]
Exchanges(f, parts) == [f EXCEPT !.exchange = parts]

\* Parallel filters on either side of the proxy, awaited or not, by filters
\* that run before or after it, among OPA and cache members.
HttpResources ==
  { <<Async("a", "request"), Calls("b", "request", <<"a">>)>>,
    <<Async("a", "request"), Calls("b", "response", <<"a">>)>>,
    <<Async("a", "connect"), Async("b", "request"), Calls("c", "response", <<"b", "a">>)>>,
    <<Calls("b", "request", <<"a">>), Async("a", "response")>>,
    <<Calls("c", "request", <<>>), Async("a", "response"), Calls("b", "response", <<>>)>>,
    <<Async("a", "request"), Async("a", "request"), Calls("b", "request", <<"a">>)>>,
    <<Continues(Calls("b", "request", <<>>)), Exchanges(Calls("c", "response", <<>>), {"hdr"})>> }

\* A task that two callers await, or one awaits twice.
SharedAwaits ==
  { <<Async("a", "request"), Calls("b", "request", <<"a">>), Calls("c", "response", <<"a">>)>> }

Callbacks ==
  { <<Async("a", "none"), Calls("b", "none", <<"a">>)>>,
    <<Calls("b", "none", <<>>), Async("a", "none"), Calls("c", "none", <<>>)>>,
    <<Async("a", "none"), Calls("b", "none", <<"a", "a">>)>>,
    <<Async("a", "none"), AsyncAwaiting("b", "none", <<"a">>), Calls("c", "none", <<"b">>)>>,
    <<>> }

Http(rs) == {HttpChain(Parsed(o, c, fs)) : o \in BOOLEAN, c \in BOOLEAN, fs \in rs}

MCChains == Http(HttpResources \cup SharedAwaits) \cup Callbacks
SharedChains == {HttpChain(fs) : fs \in SharedAwaits}
IsolationChains ==
  {HttpChain(<<Async("a", "request")>>),
   HttpChain(<<Async("a", "request"), Calls("b", "request", <<>>)>>)}

\* Filters with the settings that the configuration offers, on either side of
\* the proxy.
ConfiguredChains ==
  {HttpChain(Parsed(o, c, <<Continues(Calls("b", "request", <<>>)),
                            Exchanges(Calls("c", "response", <<>>), {"hdr"})>>)) :
     o \in BOOLEAN, c \in BOOLEAN}
=============================================================================
