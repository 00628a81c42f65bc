---------------------------- MODULE FilterChain ----------------------------
(***************************************************************************)
(* What running a filter chain promises: its members are handed control    *)
(* one after the other in the order of the chain, none is skipped or       *)
(* started twice, a member that is not parallel has finished without error *)
(* before the next one starts (one configured with "onError: continue" may *)
(* have failed, which the code never makes use of), and the answer is      *)
(* given once: "ok" only when the chain is through, "hit" only by a cache  *)
(* lookup.                                                                 *)
(***************************************************************************)
EXTENDS Callers

CONSTANT Chains

VARIABLES chain,    \* the members, frozen
          started,  \* how many of them were handed control
          open,     \* the last of them is synchronous and has not finished
          passed,   \* the synchronous ones that finished without error
          answer

fcvars == <<chain, started, open, passed, answer>>

Init ==
  /\ chain \in Chains
  /\ started = 0
  /\ open = FALSE
  /\ passed = {}
  /\ answer = "pending"

StartMember ==
  /\ answer = "pending" /\ ~open /\ started < Len(chain)
  /\ started' = started + 1
  /\ open' = ~chain[started + 1].parallel
  /\ UNCHANGED <<chain, passed, answer>>

AcceptMember ==
  /\ answer = "pending" /\ open
  /\ open' = FALSE
  /\ passed' = passed \cup {started}
  /\ UNCHANGED <<chain, started, answer>>

PassOver ==
  /\ answer = "pending" /\ open /\ chain[started].onError = "continue"
  /\ open' = FALSE
  /\ UNCHANGED <<chain, started, passed, answer>>

Hit ==
  /\ answer = "pending" /\ open /\ chain[started].kind = "get"
  /\ answer' = "hit" /\ open' = FALSE
  /\ UNCHANGED <<chain, started, passed>>

Fail ==
  /\ answer = "pending"
  /\ answer' = "error" /\ open' = FALSE
  /\ UNCHANGED <<chain, started, passed>>

Complete ==
  /\ answer = "pending" /\ ~open /\ started = Len(chain)
  /\ answer' = "ok"
  /\ UNCHANGED <<chain, started, open, passed>>

Next == StartMember \/ AcceptMember \/ PassOver \/ Hit \/ Fail \/ Complete

Spec == Init /\ [][Next]_fcvars
=============================================================================
