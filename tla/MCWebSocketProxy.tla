-------------------------- MODULE MCWebSocketProxy --------------------------
(* A resource with nothing but a cache, and one with, at each level, a      *)
(* filter that awaits a parallel one twice.                                 *)
EXTENDS WebSocketProxy

AwaitsTwice(level) ==
  <<Filter("s", level, TRUE, <<>>), Filter("q", level, FALSE, <<"s", "s">>)>>

MCResources ==
  {Parsed(FALSE, TRUE, <<>>),
   Parsed(FALSE, FALSE, AwaitsTwice("connect") \o AwaitsTwice("response")
                          \o AwaitsTwice("request"))}
=============================================================================
