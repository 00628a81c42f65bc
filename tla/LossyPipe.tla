----------------------------- MODULE LossyPipe -----------------------------
(***************************************************************************)
(* One direction of a proxied session: one side says messages, numbered in *)
(* the order it says them, a gate lets some of them through, and those     *)
(* that get to the other side take one of several lanes.  In a lane they   *)
(* arrive in the order they were said; between lanes there is no order.    *)
(* None arrives twice, and any of them may be lost.                        *)
(***************************************************************************)
EXTENDS Naturals

VARIABLES said,     \* how many messages have been said
          through,  \* those the gate has let through
          got       \* those that have arrived, each with its lane

lpvars == <<said, through, got>>

Init == said = 0 /\ through = {} /\ got = {}

\* The gate decides when a message is said, or later.
Say ==
  /\ said' = said + 1
  /\ through' \in {through, through \cup {said'}}
  /\ UNCHANGED got

Pass ==
  /\ \E m \in 1..said : m \notin through /\ through' = through \cup {m}
  /\ UNCHANGED <<said, got>>

Arrive ==
  /\ \E a \in got' :
       /\ got' = got \cup {a} /\ a.msg \in through
       /\ \A g \in got : g.msg # a.msg /\ (g.via = a.via => g.msg < a.msg)
  /\ UNCHANGED <<said, through>>

Next == Say \/ Pass \/ Arrive

Spec == Init /\ [][Next]_lpvars
=============================================================================
