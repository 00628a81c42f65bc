--------------------------- MODULE CascadeProofs ---------------------------
(***************************************************************************)
(* Proofs about Cascade, for every set of names and every set of chains.   *)
(***************************************************************************)
EXTENDS Cascade, TLAPS

USE DEF mainState, mainVars, goVars

(* What ChainsAssumption says of the members of a chain.                   *)

LEMMA Length ==
  ASSUME chain \in Chains
  PROVE  /\ Len(chain) \in Nat
         /\ Member = 1..Len(chain)
<1>1. chain \in Seq(Caller(Names))
  BY ChainsAssumption
<1> QED  BY <1>1 DEF Member

LEMMA MemberFacts ==
  ASSUME chain \in Chains, NEW j \in Member
  PROVE  /\ chain[j].kind \in Kind
         /\ chain[j].name \in Names
         /\ chain[j].parallel \in BOOLEAN
         /\ chain[j].parallel => chain[j].kind = "filter"
         /\ chain[j].await \in Seq(Names)
         /\ chain[j].req = IF chain[j].kind = "proxy" THEN Part ELSE {}
         /\ chain[j].res = chain[j].req
<1>1. chain \in Seq(Caller(Names))
  BY ChainsAssumption
<1>2. chain[j] \in Caller(Names)
  BY <1>1 DEF Member
<1> QED  BY <1>2 DEF Caller

LEMMA AwaitFacts ==
  ASSUME chain \in Chains, NEW j \in Member
  PROVE  /\ Len(chain[j].await) \in Nat
         /\ \A m \in 1..Len(chain[j].await) : chain[j].await[m] \in Names
<1>1. chain[j].await \in Seq(Names)
  BY MemberFacts
<1> QED  BY <1>1

-----------------------------------------------------------------------------
(* Type correctness.                                                       *)

Origins == [hdr: Content, body: Content]

\* The parallel members, and the others.
Par == {j \in Member : chain[j].parallel}

LEMMA ChainFrozen == [Next]_vars => chain' = chain /\ Member' = Member /\ Par' = Par
<1>1. [Next]_vars => chain' = chain
  BY DEF Next, vars, Terminated, Main, Goroutine, AwaitUnknown, AwaitExpired,
         AwaitFailure, AwaitResult, AwaitClosed, Spin, Call, ReturnError,
         ReturnHit, ReturnNothing, ReturnResponse, UpdateIn, Stamp, StampFatal,
         Finish, BeginClone, EndClone, Deliver, CloseChannel, Expire, Calling,
         Give
<1> QED  BY <1>1 DEF Member, Par

LEMMA UpdateType ==
  ASSUME chain \in Chains, NEW parts,
         NEW new \in Origins
  PROVE  /\ \A old \in Origins : Update(old, parts, new) \in Origins
         /\ \A old \in [hdr: Content, body: Content, rid: Content] :
              Update(old, parts, new) \in [hdr: Content, body: Content, rid: Content]
BY DEF Update, Origins

LEMMA CreateType ==
  ASSUME chain \in Chains, NEW o \in Origins, NEW j \in Member, NEW parts
  PROVE  CreateOrUpdate(o, j, parts) \in Origins
<1>1. [hdr |-> j, body |-> j] \in Origins
  BY Length DEF Origins, Content
<1> QED  BY <1>1, UpdateType DEF CreateOrUpdate

LEMMA TypeInit == Init => TypeOK
<1> SUFFICES ASSUME Init PROVE TypeOK
  OBVIOUS
<1>1. chain \in Chains /\ i = 1 /\ k = 1
  BY DEF Init
<1>2. 0 \in Content /\ Nil \in Origins
  BY <1>1, Length DEF Content, Origins, Nil
<1>3. i \in 1..Len(chain) + 1
  BY <1>1, Length
<1>4. k \in 1..(IF i \in Member THEN Len(chain[i].await) + 1 ELSE 1)
  BY <1>1, AwaitFacts
<1> QED  BY <1>1, <1>2, <1>3, <1>4 DEF Init, TypeOK, Origins, Nil

\* A task found at an await is a member of the chain.
LEMMA TaskIsMember ==
  ASSUME TypeOK, AtAwait
  PROVE  /\ i \in Member /\ k \in 1..Len(chain[i].await)
         /\ chain[i].await[k] \in Names
         /\ Task # 0 => Task \in Member
<1>0. chain \in Chains /\ i \in Member
  BY DEF AtAwait, Running, TypeOK
<1>1. k \in 1..Len(chain[i].await)
  <2>1. k \in 1..Len(chain[i].await) + 1 /\ k <= Len(chain[i].await)
    BY <1>0 DEF AtAwait, TypeOK
  <2> QED  BY <1>0, <2>1, AwaitFacts
<1>2. chain[i].await[k] \in Names
  BY <1>0, <1>1, AwaitFacts
<1>3. Task \in 0..Len(chain)
  BY <1>2 DEF Task, TypeOK, Content
<1> QED  BY <1>0, <1>1, <1>2, <1>3, Length

\* What a call, or the goroutine of a parallel caller, can return.
LEMMA OutcomeFacts ==
  ASSUME chain \in Chains, NEW j \in Member, NEW o \in Outcomes(chain[j].kind)
  PROVE  /\ o \in Outcome /\ o # ""
         /\ chain[j].kind \in {"filter", "proxy"} => o \in {"err", "ok", "cut"}
         /\ o = "hit" => chain[j].kind = "get"
<1>1. chain[j].kind \in {"opa", "get", "set", "filter", "proxy"}
  BY MemberFacts DEF Kind
<1> QED  BY <1>1 DEF Outcomes, Outcome

LEMMA TypeStep == TypeOK /\ [Next]_vars => TypeOK'
<1> SUFFICES ASSUME TypeOK, [Next]_vars PROVE TypeOK'
  OBVIOUS
<1>0. /\ chain \in Chains
      /\ in \in [hdr: Content, body: Content, rid: Content]
      /\ out \in Origins /\ loc \in Origins /\ snap \in [Member -> Origins]
  BY DEF TypeOK, Origins
<1>s. chain' = chain
  BY ChainFrozen
<1>t. Member' = Member /\ Content' = Content /\ Origins' = Origins
  BY <1>s DEF Member, Content, Origins
<1>k. ASSUME i' \in 1..Len(chain) + 1, pc' \in {"await", "calling", "update", "stamp"},
             k' \in 1..(IF i' \in Member THEN Len(chain[i'].await) + 1 ELSE 1),
             in' \in [hdr: Content, body: Content, rid: Content],
             out' \in Origins, loc' \in Origins, tasks' \in [Names -> Content],
             gpc' \in [Member -> {"idle", "spun", "cloning", "calling", "closing", "ended"}],
             snap' \in [Member -> Origins], buf' \in [Member -> Outcome \cup {""}],
             closed' \in [Member -> BOOLEAN], ctx' \in [Member -> {"live", "done"}],
             got' \in [Member -> Outcome \cup {""}],
             verdict' \in {"pending", "ok", "hit", "failed", "notfound",
                           "timeout", "panic", "fatal"}
      PROVE  TypeOK'
  BY <1>0, <1>s, <1>t, <1>k DEF TypeOK, Origins
<1>a. ASSUME Advance, i \in Member
      PROVE  /\ i' \in 1..Len(chain) + 1
             /\ k' \in 1..(IF i' \in Member THEN Len(chain[i'].await) + 1 ELSE 1)
             /\ pc' \in {"await", "calling", "update", "stamp"}
  <2>1. i' \in 1..Len(chain) + 1 /\ k' = 1 /\ pc' = "await"
    BY <1>0, <1>a, Length DEF Advance
  <2>2. i' \in Member => Len(chain[i'].await) \in Nat
    BY <1>0, AwaitFacts
  <2> QED  BY <2>1, <2>2
<1>1. CASE AwaitUnknown \/ AwaitExpired \/ AwaitFailure \/ AwaitClosed
             \/ StampFatal \/ Finish
  <2>1. buf' \in [Member -> Outcome \cup {""}]
    BY <1>1, TaskIsMember DEF AwaitUnknown, AwaitExpired, AwaitFailure,
       AwaitClosed, StampFatal, Finish, TypeOK
  <2> QED
    BY <1>0, <1>1, <1>k, <2>1 DEF AwaitUnknown, AwaitExpired, AwaitFailure,
       AwaitClosed, StampFatal, Finish, TypeOK, Give
<1>2. CASE AwaitResult
  <2>1. Task \in Member /\ i \in Member /\ k \in 1..Len(chain[i].await)
    BY <1>2, TaskIsMember DEF AwaitResult
  <2>2. loc' \in Origins
    BY <1>0, <1>2, <2>1, CreateType DEF AwaitResult
  <2>3. out' \in Origins
    BY <1>0, <1>2, <2>2 DEF AwaitResult
  <2>4. in' \in [hdr: Content, body: Content, rid: Content]
    BY <1>0, <1>2, <2>2, UpdateType DEF AwaitResult
  <2>5. k' \in 1..(IF i' \in Member THEN Len(chain[i'].await) + 1 ELSE 1)
    <3>1. i' = i /\ k' = k + 1
      BY <1>2 DEF AwaitResult
    <3>2. k + 1 \in 1..Len(chain[i].await) + 1
      BY <1>0, <2>1, AwaitFacts
    <3> QED  BY <2>1, <3>1, <3>2
  <2>6. buf' \in [Member -> Outcome \cup {""}]
    BY <1>2, <2>1 DEF AwaitResult, TypeOK
  <2> QED  BY <1>0, <1>2, <1>k, <2>2, <2>3, <2>4, <2>5, <2>6 DEF AwaitResult, TypeOK
<1>3. CASE Spin
  <2>1. i \in Member /\ i \in Content
    BY <1>0, <1>3, Length DEF Spin, Dispatch, Running, Content
  <2>2. tasks' \in [Names -> Content]
    BY <1>0, <1>3, <2>1, MemberFacts DEF Spin, Register, TypeOK
  <2>3. gpc' \in [Member -> {"idle", "spun", "cloning", "calling", "closing", "ended"}]
    BY <1>3, <2>1 DEF Spin, TypeOK
  <2> QED  BY <1>0, <1>3, <1>a, <1>k, <2>1, <2>2, <2>3 DEF Spin, TypeOK
<1>4. CASE Call
  BY <1>0, <1>4, <1>k DEF Call, TypeOK
<1>c. ASSUME NEW o, Calling(o)
      PROVE  i \in Member /\ got' \in [Member -> Outcome \cup {""}]
  BY <1>0, <1>c, OutcomeFacts DEF Calling, Running, TypeOK
<1>5. CASE ReturnError \/ ReturnHit
  <2>1. PICK o : Calling(o)
    BY <1>5 DEF ReturnError, ReturnHit
  <2>2. got' \in [Member -> Outcome \cup {""}]
    BY <1>c, <2>1
  <2>3. /\ UNCHANGED <<mainState, gpc, snap, buf, closed, ctx>>
        /\ verdict' \in {"failed", "hit"}
    BY <1>5, <2>1 DEF ReturnError, ReturnHit, Calling, Give
  <2> QED  BY <1>0, <1>k, <2>2, <2>3 DEF TypeOK
<1>6. CASE ReturnNothing
  BY <1>0, <1>6, <1>a, <1>c, <1>k DEF ReturnNothing, Calling, TypeOK
<1>7. CASE ReturnResponse
  <2>1. PICK o : Calling(o)
    BY <1>7 DEF ReturnResponse
  <2>2. out' \in Origins
    BY <1>0, <1>7, <1>c, <2>1, CreateType DEF ReturnResponse
  <2> QED  BY <1>0, <1>7, <1>c, <1>k, <2>1, <2>2 DEF ReturnResponse, Calling, TypeOK
<1>8. CASE UpdateIn
  <2>1. in' \in [hdr: Content, body: Content, rid: Content]
    BY <1>0, <1>8, UpdateType DEF UpdateIn
  <2> QED  BY <1>0, <1>8, <1>k, <2>1 DEF UpdateIn, TypeOK
<1>9. CASE Stamp
  <2>1. i \in Member
    BY <1>9 DEF Stamp, Running
  <2>2. in' \in [hdr: Content, body: Content, rid: Content]
    <3>1. out.hdr \in Content
      BY <1>0 DEF Origins
    <3> QED  BY <1>0, <1>9, <3>1 DEF Stamp
  <2> QED  BY <1>0, <1>9, <1>a, <1>k, <2>1, <2>2 DEF Stamp, TypeOK
<1>10. ASSUME NEW j \in Member, Goroutine(j) \/ Expire(j)
       PROVE  TypeOK'
  <2>1. CASE BeginClone(j) \/ EndClone(j)
    <3>1. PICK s \in Origins : snap' = [snap EXCEPT ![j] = s]
      <4>1. /\ [snap[j] EXCEPT !.hdr = in.hdr] \in Origins
            /\ [snap[j] EXCEPT !.body = in.body] \in Origins
        BY <1>0 DEF Origins
      <4> QED  BY <2>1, <4>1 DEF BeginClone, EndClone
    <3>2. snap' \in [Member -> Origins]
      BY <1>0, <3>1
    <3>3. gpc' \in [Member -> {"idle", "spun", "cloning", "calling", "closing", "ended"}]
      BY <2>1 DEF BeginClone, EndClone, TypeOK
    <3>4. UNCHANGED <<mainVars, buf, closed, ctx, got>>
      BY <2>1 DEF BeginClone, EndClone
    <3> QED  BY <1>0, <1>k, <3>2, <3>3, <3>4 DEF TypeOK
  <2>2. CASE Deliver(j)
    <3>1. /\ got' \in [Member -> Outcome \cup {""}]
          /\ buf' \in [Member -> Outcome \cup {""}]
      <4>1. PICK o \in Outcomes(chain[j].kind) :
              /\ got' = [got EXCEPT ![j] = o]
              /\ buf' = [buf EXCEPT ![j] = o]
        BY <2>2 DEF Deliver
      <4>2. o \in Outcome
        BY <1>0, OutcomeFacts
      <4> QED  BY <4>1, <4>2 DEF TypeOK
    <3>2. gpc' \in [Member -> {"idle", "spun", "cloning", "calling", "closing", "ended"}]
      BY <2>2 DEF Deliver, TypeOK
    <3> QED  BY <1>0, <1>k, <2>2, <3>1, <3>2 DEF Deliver, TypeOK
  <2>3. CASE CloseChannel(j)
    <3>1. /\ gpc' \in [Member -> {"idle", "spun", "cloning", "calling", "closing", "ended"}]
          /\ closed' \in [Member -> BOOLEAN]
      BY <2>3 DEF CloseChannel, TypeOK
    <3> QED  BY <1>0, <1>k, <2>3, <3>1 DEF CloseChannel, TypeOK
  <2>4. CASE Expire(j)
    <3>1. ctx' \in [Member -> {"live", "done"}]
      BY <2>4 DEF Expire, TypeOK
    <3> QED  BY <1>0, <1>k, <2>4, <3>1 DEF Expire, TypeOK
  <2> QED  BY <1>10, <2>1, <2>2, <2>3, <2>4 DEF Goroutine
<1>11. CASE UNCHANGED vars
  BY <1>0, <1>11, <1>k DEF vars, TypeOK
<1> QED
  BY <1>1, <1>2, <1>3, <1>4, <1>5, <1>6, <1>7, <1>8, <1>9, <1>10, <1>11
     DEF Next, Main, Terminated

\* In every run the state of Cascade is of its type.
THEOREM TypeCorrect == Spec => []TypeOK
BY TypeInit, TypeStep, PTL DEF Spec

-----------------------------------------------------------------------------
(* The inductive invariant, in parts.                                      *)

\* A registered task is a parallel member before the one main is at, and
\* every such member is registered.
Tasks ==
  /\ \A n \in Names : tasks[n] # 0 => tasks[n] < i /\ tasks[n] \in Par
  /\ \A j \in Par : j < i => tasks[chain[j].name] # 0

\* A goroutine belongs to a parallel member main has passed; what is in its
\* channel is what its call returned.
Goroutines ==
  \A j \in Member :
    /\ gpc[j] # "idle" => j < i /\ j \in Par
    /\ buf[j] # "" => /\ gpc[j] \in {"closing", "ended"}
                      /\ got[j] \in {"err", "ok", "cut"}
                      /\ buf[j] = got[j]

\* Main calls only synchronous members, having awaited their whole list.
MainAt ==
  pc # "await" => /\ i \in Member
                  /\ i \notin Par
                  /\ k = Len(chain[i].await) + 1

\* A synchronous member whose result main has taken in.
Used(j) == j < i \/ (j = i /\ pc \in {"update", "stamp"})

\* It did not fail: its response was read, or did not have to be, an earlier
\* member having answered a whole one.
Fine(j) ==
  \/ got[j] \in {"none", "ok"}
  \/ /\ got[j] = "cut" /\ "body" \notin chain[j].res
     /\ \E l \in Member \ Par : l < j /\ got[l] = "ok"

\* So it is with all of them; there is a response only if one was whole, and
\* the member whose response is being used has returned one.
Passed ==
  /\ \A j \in Member \ Par : Used(j) => Fine(j)
  /\ pc \in {"update", "stamp"} => got[i] \in {"ok", "cut"}
  /\ out # Nil => \E l \in Member \ Par : Used(l) /\ got[l] = "ok"
  /\ verdict = "ok" => i = Len(chain) + 1

\* Await's pointer is main's, and from the proxy on the response is its.
Response ==
  /\ pc = "await" /\ out # Nil => loc = out
  /\ \A p \in Proxies :
       p < i \/ (p = i /\ pc \in {"update", "stamp"}) => out = [hdr |-> p, body |-> p]

Inv == TypeOK /\ Tasks /\ Goroutines /\ MainAt /\ Passed
         /\ NotFoundHonest /\ Response

LEMMA InvInit == Init => Inv
<1> SUFFICES ASSUME Init PROVE Inv
  OBVIOUS
<1>1. TypeOK /\ chain \in Chains
  BY TypeInit DEF TypeOK
<1>2. Member = 1..Len(chain) /\ Len(chain) \in Nat
  BY <1>1, Length
<1>3. i = 1 /\ k = 1 /\ pc = "await" /\ verdict = "pending" /\ out = Nil
  BY DEF Init
<1>4. Tasks
  <2>1. \A n \in Names : tasks[n] = 0
    BY DEF Init
  <2> QED  BY <1>2, <1>3, <2>1 DEF Tasks, Par
<1>5. Goroutines
  BY <1>2 DEF Init, Goroutines
<1>6. MainAt /\ Passed /\ NotFoundHonest
  BY <1>2, <1>3 DEF MainAt, Passed, Used, NotFoundHonest
<1>7. Response
  BY <1>2, <1>3 DEF Response, Proxies
<1> QED  BY <1>1, <1>4, <1>5, <1>6, <1>7 DEF Inv

\* The shapes of a step, as far as the parts of the invariant tell apart.
LEMMA SpinStep ==
  ASSUME TypeOK, Spin
  PROVE  /\ i \in Member /\ i \in Par /\ chain[i].name \in Names
         /\ tasks' = [tasks EXCEPT ![chain[i].name] = i]
         /\ i' = i + 1 /\ i \in Nat /\ k' = 1 /\ pc' = "await" /\ loc' = out
         /\ gpc' = [gpc EXCEPT ![i] = "spun"]
         /\ UNCHANGED <<chain, in, out, snap, buf, closed, ctx, got, verdict>>
         /\ verdict = "pending" /\ pc = "await"
<1>1. i \in Member /\ chain \in Chains
  BY DEF Spin, Dispatch, Running, TypeOK
<1>2. i \in Nat
  BY <1>1, Length
<1> QED  BY <1>1, <1>2, MemberFacts DEF Spin, Dispatch, Running, Register, Advance, Par

LEMMA Bounds ==
  ASSUME TypeOK
  PROVE  /\ chain \in Chains /\ Len(chain) \in Nat /\ Member = 1..Len(chain)
         /\ i \in 1..Len(chain) + 1 /\ k \in Nat
         /\ \A n \in Names : tasks[n] \in 0..Len(chain)
         /\ \A j \in Member : chain[j].name \in Names
<1>1. chain \in Chains /\ Len(chain) \in Nat /\ Member = 1..Len(chain)
  BY Length DEF TypeOK
<1>2. k \in Nat
  <2>1. k \in 1..(IF i \in Member THEN Len(chain[i].await) + 1 ELSE 1)
    BY DEF TypeOK
  <2> QED  BY <1>1, <2>1, AwaitFacts
<1>3. \A j \in Member : chain[j].name \in Names
  BY <1>1, MemberFacts
<1>4. i \in 1..Len(chain) + 1 /\ \A n \in Names : tasks[n] \in 0..Len(chain)
  BY DEF TypeOK, Content
<1> QED  BY <1>1, <1>2, <1>3, <1>4

\* Otherwise main stays, or leaves a synchronous member.
LEMMA OtherStep ==
  ASSUME [Next]_vars, ~Spin
  PROVE  /\ tasks' = tasks
         /\ i' = i \/ (i' = i + 1 /\ k' = 1 /\ pc # "await" /\ pc' = "await")
BY DEF Next, vars, Terminated, Main, Goroutine, AwaitUnknown, AwaitExpired,
       AwaitFailure, AwaitResult, AwaitClosed, Call, ReturnError, ReturnHit,
       ReturnNothing, ReturnResponse, UpdateIn, Stamp, StampFatal, Finish,
       BeginClone, EndClone, Deliver, CloseChannel, Expire, Calling, Give, Advance

LEMMA TasksStep == TypeOK /\ MainAt /\ Tasks /\ [Next]_vars => Tasks'
<1> SUFFICES ASSUME TypeOK, MainAt, Tasks, [Next]_vars PROVE Tasks'
  OBVIOUS
<1>0. chain' = chain /\ Member' = Member /\ Par' = Par /\ Par \subseteq Member
  BY ChainFrozen DEF Par
<1>1. CASE Spin
  <2>1. \A n \in Names : tasks'[n] = IF n = chain[i].name THEN i ELSE tasks[n]
    <3>1. tasks' = [tasks EXCEPT ![chain[i].name] = i]
      BY <1>1, SpinStep
    <3> QED  BY <3>1 DEF TypeOK
  <2>2. i \in Member /\ i \in Par /\ i' = i + 1
    BY <1>1, SpinStep
  <2>3. ASSUME NEW n \in Names, tasks'[n] # 0
        PROVE  tasks'[n] < i' /\ tasks'[n] \in Par
    BY <2>1, <2>2, <2>3, Bounds DEF Tasks
  <2>4. ASSUME NEW j \in Par, j < i'
        PROVE  tasks'[chain[j].name] # 0
    BY <1>0, <2>1, <2>2, <2>4, Bounds DEF Tasks
  <2> QED  BY <1>0, <2>3, <2>4 DEF Tasks
<1>2. CASE ~Spin
  BY <1>0, <1>2, OtherStep, Bounds DEF Tasks, MainAt
<1> QED  BY <1>1, <1>2

-----------------------------------------------------------------------------
\* What can change the goroutines, their channels and results.
LEMMA StepKinds ==
  ASSUME [Next]_vars
  PROVE  \/ Spin
         \/ \E o \in Outcome : Calling(o)
         \/ AwaitFailure \/ AwaitResult
         \/ \E j \in Member : Goroutine(j)
         \/ UNCHANGED <<gpc, got>> /\ buf' = buf
BY DEF Next, vars, Terminated, Main, AwaitUnknown, AwaitExpired, AwaitClosed,
       Call, ReturnError, ReturnHit, ReturnNothing, ReturnResponse, UpdateIn,
       Stamp, StampFatal, Finish, Expire, Outcome

LEMMA GoroutinesStep == TypeOK /\ MainAt /\ Goroutines /\ [Next]_vars => Goroutines'
<1> SUFFICES ASSUME TypeOK, MainAt, Goroutines, [Next]_vars PROVE Goroutines'
  OBVIOUS
<1>0. chain' = chain /\ Member' = Member /\ Par' = Par /\ Par \subseteq Member /\ i' \in {i, i + 1}
  BY ChainFrozen, SpinStep, OtherStep DEF Par
<1>i. i \in Nat /\ \A j \in Member : j \in Nat
  BY Bounds
<1>m. \A j \in Member : j < i => j < i'
  BY <1>0, <1>i
<1>1. CASE Spin
  <2>1. \A j \in Member : gpc'[j] = IF j = i THEN "spun" ELSE gpc[j]
    BY <1>1, SpinStep DEF TypeOK
  <2>2. /\ i \in Member /\ i \in Par /\ i < i'
        /\ buf' = buf /\ got' = got
    BY <1>1, <1>i, SpinStep
  <2>3. gpc[i] = "idle"
    <3>1. i \in Member /\ ~(i < i)
      BY <2>2, <1>i
    <3> QED  BY <3>1 DEF Goroutines
  <2> QED  BY <1>0, <1>m, <2>1, <2>2, <2>3 DEF Goroutines
<1>2. ASSUME NEW o, Calling(o), i \notin Par
      PROVE  Goroutines'
  <2>1. gpc[i] = "idle" /\ i \in Member
    BY <1>2, Bounds DEF Calling, Running, Goroutines
  <2>2. \A j \in Member : j # i => got'[j] = got[j]
    BY <1>2 DEF Calling, TypeOK
  <2>3. gpc' = gpc /\ buf' = buf /\ buf[i] = ""
    BY <1>2, <2>1 DEF Calling, Goroutines, TypeOK
  <2> QED  BY <1>0, <1>m, <2>1, <2>2, <2>3 DEF Goroutines
<1>3. CASE gpc' = gpc /\ got' = got /\ (buf' = buf \/ \E t \in Member : buf' = [buf EXCEPT ![t] = ""])
  <2>1. \A j \in Member : buf'[j] # "" => buf'[j] = buf[j]
    BY <1>3 DEF TypeOK
  <2> QED  BY <1>0, <1>3, <1>m, <2>1 DEF Goroutines
<1>4. ASSUME NEW j \in Member, BeginClone(j) \/ EndClone(j) \/ CloseChannel(j)
      PROVE  Goroutines'
  <2>1. /\ gpc[j] # "idle" /\ UNCHANGED <<i, buf, got>>
        /\ gpc[j] \in {"closing", "ended"} => gpc'[j] \in {"closing", "ended"}
        /\ \A l \in Member : l # j => gpc'[l] = gpc[l]
    BY <1>4 DEF BeginClone, EndClone, CloseChannel, TypeOK
  <2> QED  BY <1>0, <2>1, <1>i DEF Goroutines
<1>5. ASSUME NEW j \in Member, Deliver(j)
      PROVE  Goroutines'
  <2>1. PICK o \in Outcomes(chain[j].kind) :
          /\ gpc[j] # "idle"
          /\ got' = [got EXCEPT ![j] = o]
          /\ buf' = [buf EXCEPT ![j] = o]
    BY <1>5 DEF Deliver
  <2>2. j \in Par /\ j < i
    BY <2>1 DEF Goroutines
  <2>3. o \in {"err", "ok", "cut"}
    BY <2>1, <2>2, OutcomeFacts, MemberFacts, Bounds DEF Par
  <2>4. \A l \in Member : /\ gpc'[l] = IF l = j THEN "closing" ELSE gpc[l]
                          /\ got'[l] = IF l = j THEN o ELSE got[l]
                          /\ buf'[l] = IF l = j THEN o ELSE buf[l]
    BY <1>5, <2>1 DEF Deliver, TypeOK
  <2>5. i' = i
    BY <1>5 DEF Deliver
  <2> QED  BY <1>0, <2>2, <2>3, <2>4, <2>5 DEF Goroutines
<1>6. CASE gpc' = gpc /\ got' = got /\ buf' = buf
  BY <1>3, <1>6
<1>7. CASE AwaitFailure \/ AwaitResult
  BY <1>3, <1>7, TaskIsMember DEF AwaitFailure, AwaitResult
<1> QED
  BY <1>1, <1>2, <1>4, <1>5, <1>6, <1>7, StepKinds DEF Goroutine, MainAt, Calling

-----------------------------------------------------------------------------
LEMMA MainAtStep == TypeOK /\ MainAt /\ [Next]_vars => MainAt'
<1> SUFFICES ASSUME TypeOK, MainAt, [Next]_vars PROVE MainAt'
  OBVIOUS
<1>0. chain' = chain /\ Member' = Member /\ Par' = Par
  BY ChainFrozen
<1>1. \/ Call
      \/ pc' = "await"
      \/ pc # "await" /\ i' = i /\ k' = k
  BY DEF Next, vars, Terminated, Main, Goroutine, AwaitUnknown, AwaitExpired,
         AwaitFailure, AwaitResult, AwaitClosed, Spin, ReturnError, ReturnHit,
         ReturnNothing, ReturnResponse, UpdateIn, Stamp, StampFatal, Finish,
         BeginClone, EndClone, Deliver, CloseChannel, Expire, Calling, Give, Advance,
         AtAwait, Dispatch
<1>2. CASE Call
  <2>1. i \in Member /\ i \notin Par /\ i' = i /\ k' = k
    BY <1>2 DEF Call, Dispatch, Running, Par
  <2>2. k \in 1..Len(chain[i].await) + 1 /\ k > Len(chain[i].await)
    BY <1>2, <2>1 DEF Call, Dispatch, TypeOK
  <2>3. k = Len(chain[i].await) + 1
    BY <2>1, <2>2, AwaitFacts, Bounds
  <2> QED  BY <1>0, <2>1, <2>3 DEF MainAt
<1> QED  BY <1>0, <1>1, <1>2 DEF MainAt

-----------------------------------------------------------------------------
\* A goroutine whose result was given does not give another.
LEMMA DoneStays ==
  ASSUME TypeOK, [Next]_vars, NEW j \in Member, j < i,
         gpc[j] \in {"closing", "ended"}
  PROVE  gpc'[j] \in {"closing", "ended"} /\ got'[j] = got[j]
<1>0. j # i
  BY Bounds
<1>1. CASE Spin
  <2>1. gpc' = [gpc EXCEPT ![i] = "spun"] /\ got' = got
    BY <1>1, SpinStep
  <2> QED  BY <1>0, <2>1 DEF TypeOK
<1>2. ASSUME NEW o \in Outcome, Calling(o)
      PROVE  gpc'[j] = gpc[j] /\ got'[j] = got[j]
  BY <1>0, <1>2 DEF Calling, TypeOK
<1>3. CASE AwaitFailure \/ AwaitResult
  BY <1>3 DEF AwaitFailure, AwaitResult
<1>4. ASSUME NEW l \in Member, Goroutine(l)
      PROVE  gpc'[j] \in {"closing", "ended"} /\ got'[j] = got[j]
  BY <1>4 DEF Goroutine, BeginClone, EndClone, Deliver, CloseChannel, TypeOK
<1> QED  BY <1>1, <1>2, <1>3, <1>4, StepKinds

-----------------------------------------------------------------------------
\* Once the verdict is given, main has returned.
LEMMA VerdictStays ==
  ASSUME [Next]_vars, verdict # "pending"
  PROVE  UNCHANGED mainVars
BY DEF Next, vars, Terminated, Main, Goroutine, AwaitUnknown, AwaitExpired,
       AwaitFailure, AwaitResult, AwaitClosed, Spin, Call, ReturnError, ReturnHit,
       ReturnNothing, ReturnResponse, UpdateIn, Stamp, StampFatal, Finish,
       BeginClone, EndClone, Deliver, CloseChannel, Expire, Calling,
       AtAwait, Dispatch, Running

\* What a call of a synchronous member changes.
LEMMA CallFacts ==
  ASSUME TypeOK, MainAt, NEW o \in Outcome, Calling(o)
  PROVE  /\ i \in Member \ Par /\ pc = "calling"
         /\ o \in Outcomes(chain[i].kind)
         /\ \A j \in Member : got'[j] = IF j = i THEN o ELSE got[j]
<1>1. i \in Member /\ pc = "calling" /\ got' = [got EXCEPT ![i] = o] /\ o \in Outcomes(chain[i].kind)
  BY DEF Calling, Running
<1>2. i \notin Par
  BY <1>1 DEF MainAt
<1> QED  BY <1>1, <1>2 DEF TypeOK

\* The results main has taken in stay, and stay taken in.
LEMMA UsedStays ==
  ASSUME TypeOK, Goroutines, MainAt, [Next]_vars, NEW j \in Member \ Par, Used(j)
  PROVE  Used(j)' /\ got'[j] = got[j]
<1>0. i \in Nat /\ j \in Nat /\ j \in Member /\ Par \subseteq Member
  BY Bounds DEF Par
<1>1. Used(j)'
  <2>1. CASE Spin
    <3>1. i' = i + 1 /\ pc = "await"
      BY <2>1, SpinStep
    <3> QED  BY <1>0, <3>1 DEF Used
  <2>2. CASE i' = i + 1
    BY <1>0, <2>2 DEF Used
  <2>3. CASE i' = i /\ (pc' = pc \/ pc \in {"await", "calling"} \/ pc' = "stamp")
    BY <2>3 DEF Used
  <2> QED
    BY <2>1, <2>2, <2>3
       DEF Next, vars, Terminated, Main, Goroutine, AwaitUnknown, AwaitExpired,
           AwaitFailure, AwaitResult, AwaitClosed, Call, Calling, ReturnError,
           ReturnHit, ReturnNothing, ReturnResponse, UpdateIn, Stamp, StampFatal,
           Finish, BeginClone, EndClone, Deliver, CloseChannel, Expire, Give, Advance,
           Dispatch
<1>2. got'[j] = got[j]
  <2>1. ASSUME NEW o \in Outcome, Calling(o)
        PROVE  got'[j] = got[j]
    <3>1. j # i
      <4>1. pc = "calling"
        BY <2>1, CallFacts
      <4>2. j < i
        BY <4>1 DEF Used
      <4> QED  BY <1>0, <4>2
    <3> QED  BY <2>1, <3>1, CallFacts
  <2>2. ASSUME NEW l \in Member, Goroutine(l)
        PROVE  got'[j] = got[j]
    <3>1. CASE Deliver(l)
      <4>1. l \in Par
        BY <3>1 DEF Deliver, Goroutines
      <4>2. PICK o : got' = [got EXCEPT ![l] = o]
        BY <3>1 DEF Deliver
      <4> QED  BY <1>0, <4>1, <4>2 DEF TypeOK
    <3>2. CASE got' = got
      BY <3>2
    <3> QED  BY <2>2, <3>1, <3>2 DEF Goroutine, BeginClone, EndClone, CloseChannel
  <2>3. CASE Spin \/ AwaitFailure \/ AwaitResult
    BY <2>3, SpinStep DEF AwaitFailure, AwaitResult
  <2> QED  BY <2>1, <2>2, <2>3, StepKinds
<1> QED  BY <1>1, <1>2

\* A result is newly taken in only from a call that did not fail.
LEMMA NewlyUsed ==
  ASSUME TypeOK, MainAt, [Next]_vars, NEW j \in Member \ Par, Used(j)', ~Used(j)
  PROVE  j = i /\ (ReturnNothing \/ ReturnResponse)
<1>0. i \in Nat /\ j \in Nat
  BY Bounds
<1>1. CASE Spin
  <2>1. i' = i + 1 /\ pc' = "await" /\ i \in Par
    BY <1>1, SpinStep
  <2> QED  BY <1>0, <2>1 DEF Used
<1>2. CASE ReturnNothing \/ ReturnResponse
  <2>1. (i' = i + 1 /\ pc' = "await") \/ i' = i
    BY <1>2 DEF ReturnNothing, ReturnResponse, Advance
  <2> QED  BY <1>0, <1>2, <2>1 DEF Used
<1>3. CASE Stamp
  <2>1. i' = i + 1 /\ pc' = "await" /\ pc = "stamp"
    BY <1>3 DEF Stamp, Advance
  <2> QED  BY <1>0, <2>1 DEF Used
<1>4. CASE i' = i /\ (pc' = pc \/ pc' = "calling" \/ pc = "update")
  BY <1>4 DEF Used
<1> QED
  BY <1>1, <1>2, <1>3, <1>4
     DEF Next, vars, Terminated, Main, Goroutine, AwaitUnknown, AwaitExpired,
         AwaitFailure, AwaitResult, AwaitClosed, Call, Calling, ReturnError,
         ReturnHit, UpdateIn, StampFatal, Finish, BeginClone, EndClone, Deliver,
         CloseChannel, Expire, Give

LEMMA PassedStep ==
  TypeOK /\ Goroutines /\ MainAt /\ Passed /\ [Next]_vars => Passed'
<1> SUFFICES ASSUME TypeOK, Goroutines, MainAt, Passed, [Next]_vars
             PROVE  Passed'
  OBVIOUS
<1>0. /\ chain' = chain /\ Member' = Member /\ Par' = Par /\ Par \subseteq Member
      /\ i \in Nat /\ \A j \in Member : j \in Nat
  BY ChainFrozen, Bounds DEF Par
<1>1. verdict' = "ok" => i' = Len(chain') + 1
  <2>1. CASE verdict # "pending"
    BY <1>0, <2>1, VerdictStays DEF Passed
  <2>2. CASE verdict = "pending"
    <3>1. verdict' = "ok" => Finish
      BY <2>2 DEF Next, vars, Terminated, Main, Goroutine, AwaitUnknown,
         AwaitExpired, AwaitFailure, AwaitResult, AwaitClosed, Spin, Call,
         ReturnError, ReturnHit, ReturnNothing, ReturnResponse, UpdateIn, Stamp,
         StampFatal, BeginClone, EndClone, Deliver, CloseChannel, Expire, Give
    <3> QED  BY <1>0, <3>1 DEF Finish, Give
  <2> QED  BY <2>1, <2>2
<1>2. ASSUME NEW j \in Member \ Par, Used(j), Fine(j)
      PROVE  Fine(j)'
  <2>1. got'[j] = got[j]
    BY <1>2, UsedStays
  <2>2. ASSUME NEW l \in Member \ Par, l < j, got[l] = "ok"
        PROVE  got'[l] = "ok"
    <3>1. Used(l)
      BY <1>0, <1>2, <2>2 DEF Used
    <3> QED  BY <2>2, <3>1, UsedStays
  <2> QED  BY <1>0, <1>2, <2>1, <2>2 DEF Fine
<1>3. CASE ReturnResponse
  <2>1. PICK o \in Outcome : Calling(o) /\ o \in {"ok", "cut"} /\ ~ReadFails(out, chain[i].res, o)
    BY <1>3 DEF ReturnResponse, Outcome
  <2>2. /\ i \in Member \ Par /\ i' = i /\ pc' = "update"
        /\ \A j \in Member : got'[j] = IF j = i THEN o ELSE got[j]
    BY <1>3, <2>1, CallFacts DEF ReturnResponse
  <2>3. ASSUME o = "cut"
        PROVE  "body" \notin chain[i].res /\ \E l \in Member \ Par : l < i /\ got'[l] = "ok"
    <3>1. "body" \notin chain[i].res /\ out # Nil
      BY <2>1, <2>3 DEF ReadFails
    <3>2. PICK l \in Member \ Par : Used(l) /\ got[l] = "ok"
      BY <3>1 DEF Passed
    <3>3. l < i
      <4>1. pc = "calling"
        BY <2>1, CallFacts
      <4> QED  BY <3>2, <4>1 DEF Used
    <3>4. got'[l] = "ok"
      BY <3>2, UsedStays
    <3> QED  BY <3>1, <3>3, <3>4
  <2>4. Fine(i)'
    BY <1>0, <2>1, <2>2, <2>3 DEF Fine
  <2>5. \A j \in Member \ Par : Used(j)' => Fine(j)'
    BY <1>2, <2>2, <2>4, NewlyUsed DEF Passed
  <2>6. \E l \in Member \ Par : Used(l)' /\ got'[l] = "ok"
    <3>1. CASE o = "ok"
      BY <2>2, <3>1 DEF Used
    <3>2. CASE o = "cut"
      <4>1. PICK l \in Member \ Par : l < i /\ got'[l] = "ok"
        BY <2>3, <3>2
      <4> QED  BY <2>2, <4>1 DEF Used
    <3> QED  BY <2>1, <3>1, <3>2
  <2> QED  BY <1>0, <1>1, <2>1, <2>2, <2>5, <2>6 DEF Passed
<1>4. CASE ~ReturnResponse
  <2>1. ASSUME NEW j \in Member \ Par, Used(j)', ~Used(j)
        PROVE  Fine(j)'
    <3>1. j = i /\ ReturnNothing
      BY <1>4, <2>1, NewlyUsed
    <3>2. Calling("none") /\ "none" \in Outcome
      BY <3>1 DEF ReturnNothing, Outcome
    <3>3. got'[j] = "none"
      BY <3>1, <3>2, CallFacts
    <3> QED  BY <3>3 DEF Fine
  <2>2. \A j \in Member \ Par : Used(j)' => Fine(j)'
    BY <1>2, <2>1 DEF Passed
  <2>3. pc' \in {"update", "stamp"} => pc \in {"update", "stamp"} /\ i' = i
    BY <1>4 DEF Next, vars, Terminated, Main, Goroutine, AwaitUnknown, AwaitExpired,
       AwaitFailure, AwaitResult, AwaitClosed, Spin, Call, Calling, ReturnError,
       ReturnHit, ReturnNothing, UpdateIn, Stamp, StampFatal, Finish, BeginClone,
       EndClone, Deliver, CloseChannel, Expire, Give, Advance
  <2>4. pc' \in {"update", "stamp"} => got'[i'] \in {"ok", "cut"}
    <3> SUFFICES ASSUME pc' \in {"update", "stamp"} PROVE got'[i'] \in {"ok", "cut"}
      OBVIOUS
    <3>1. pc \in {"update", "stamp"} /\ i' = i /\ i \in Member \ Par
      BY <2>3 DEF MainAt
    <3>2. got'[i] = got[i]
      BY <3>1, UsedStays DEF Used
    <3> QED  BY <3>1, <3>2 DEF Passed
  <2>5. out' # Nil => out # Nil
    BY <1>4 DEF Next, vars, Terminated, Main, Goroutine, AwaitUnknown, AwaitExpired,
       AwaitFailure, AwaitResult, AwaitClosed, Spin, Call, Calling, ReturnError,
       ReturnHit, ReturnNothing, UpdateIn, Stamp, StampFatal, Finish, BeginClone,
       EndClone, Deliver, CloseChannel, Expire, Give
  <2>6. out' # Nil => \E l \in Member \ Par : Used(l)' /\ got'[l] = "ok"
    BY <2>5, UsedStays DEF Passed
  <2> QED  BY <1>0, <1>1, <2>2, <2>4, <2>6 DEF Passed, Nil
<1> QED  BY <1>3, <1>4

LEMMA NotFoundStep ==
  TypeOK /\ Tasks /\ NotFoundHonest /\ [Next]_vars => NotFoundHonest'
<1> SUFFICES ASSUME TypeOK, Tasks, NotFoundHonest, [Next]_vars,
                    verdict' = "notfound", NEW j \in 1..(i' - 1),
                    chain'[j].parallel
             PROVE  chain'[j].name # chain'[i'].await[k']
  BY DEF NotFoundHonest
<1>1. CASE verdict # "pending"
  BY <1>1, VerdictStays DEF NotFoundHonest
<1>2. CASE verdict = "pending"
  <2>1. AwaitUnknown
    BY <1>2 DEF Next, vars, Terminated, Main, Goroutine, AwaitExpired,
       AwaitFailure, AwaitResult, AwaitClosed, Spin, Call, ReturnError, ReturnHit,
       ReturnNothing, ReturnResponse, UpdateIn, Stamp, StampFatal, Finish,
       BeginClone, EndClone, Deliver, CloseChannel, Expire, Give
  <2>2. chain' = chain /\ i' = i /\ k' = k /\ tasks[chain[i].await[k]] = 0
    BY <2>1 DEF AwaitUnknown, Give, Task
  <2>3. j \in Member /\ j < i
    BY <2>2, Bounds
  <2>4. tasks[chain[j].name] # 0
    BY <2>2, <2>3 DEF Tasks, Par
  <2> QED  BY <2>2, <2>4
<1> QED  BY <1>1, <1>2

-----------------------------------------------------------------------------
LEMMA UpdateNone ==
  ASSUME NEW o \in Origins, NEW new
  PROVE  Update(o, {}, new) = o
BY DEF Update, Origins

LEMMA UpdateAll ==
  ASSUME NEW o \in Origins, NEW new \in Origins
  PROVE  Update(o, Part, new) = new
BY DEF Update, Origins, Part

\* Taking a response in: only a proxy's replaces the one there is.
LEMMA CreateFacts ==
  ASSUME TypeOK, NEW o \in Origins, NEW j \in Member
  PROVE  /\ \A l \in Member \ Proxies : o # Nil => CreateOrUpdate(o, j, chain[l].res) = o
         /\ j \in Proxies => CreateOrUpdate(o, j, chain[j].res) = [hdr |-> j, body |-> j]
<1>1. [hdr |-> j, body |-> j] \in Origins
  BY Bounds DEF Origins, Content
<1>2. \A l \in Member : chain[l].res = IF l \in Proxies THEN Part ELSE {}
  BY MemberFacts, Bounds DEF Proxies
<1>3. ASSUME NEW l \in Member \ Proxies, o # Nil
      PROVE  CreateOrUpdate(o, j, chain[l].res) = o
  BY <1>2, <1>3, UpdateNone DEF CreateOrUpdate
<1>4. ASSUME j \in Proxies
      PROVE  CreateOrUpdate(o, j, chain[j].res) = [hdr |-> j, body |-> j]
  BY <1>1, <1>2, <1>4, UpdateAll DEF CreateOrUpdate
<1> QED  BY <1>3, <1>4

LEMMA ResponseStep == TypeOK /\ MainAt /\ Response /\ [Next]_vars => Response'
<1> SUFFICES ASSUME TypeOK, MainAt, Response, [Next]_vars PROVE Response'
  OBVIOUS
<1>0. /\ chain' = chain /\ Proxies' = Proxies /\ Proxies \subseteq Member
      /\ out \in Origins /\ loc \in Origins
  BY ChainFrozen DEF Proxies, TypeOK, Origins
<1>i. /\ i \in Nat /\ \A j \in Member : j \in Nat /\ j # 0
      /\ \A j \in Member : j < i => j # i
      /\ \A j \in Member : j < i + 1 => j < i \/ j = i
  BY Bounds
<1>p. /\ \A p, q \in Proxies : p = q
      /\ \A p \in Proxies : p \notin Par
  <2>1. \A p, q \in Proxies : p = q
    BY OneProxyAssumption, Bounds DEF Proxies, Member
  <2>2. \A p \in Proxies : p \notin Par
    BY MemberFacts, Bounds DEF Proxies, Par
  <2> QED  BY <2>1, <2>2
<1>n. \A p \in Proxies : [hdr |-> p, body |-> p] # Nil
  BY <1>0, <1>i DEF Nil
<1>1. CASE Spin
  <2>1. i \in Par /\ i' = i + 1 /\ pc' = "await" /\ loc' = out /\ out' = out
    BY <1>1, SpinStep
  <2> QED  BY <1>0, <1>i, <1>p, <2>1 DEF Response
<1>2. CASE AwaitResult
  <2>1. /\ pc = "await" /\ pc' = pc /\ i' = i /\ i \in Member /\ Task \in Member
        /\ loc' = CreateOrUpdate(loc, Task, chain[i].res)
        /\ out' = IF out = Nil THEN Nil ELSE loc'
    BY <1>2, TaskIsMember DEF AwaitResult, AtAwait
  <2>2. ASSUME NEW p \in Proxies, p < i PROVE out' = [hdr |-> p, body |-> p]
    <3>1. out = [hdr |-> p, body |-> p] /\ out # Nil /\ loc = out
      BY <1>n, <2>1, <2>2 DEF Response
    <3>2. i \in Member \ Proxies
      BY <1>0, <1>i, <1>p, <2>1, <2>2
    <3>3. loc' = loc
      BY <1>0, <2>1, <3>1, <3>2, CreateFacts
    <3> QED  BY <2>1, <3>1, <3>3
  <2> QED  BY <1>0, <2>1, <2>2 DEF Response
<1>3. CASE ReturnNothing
  <2>1. Calling("none") /\ i' = i + 1 /\ pc' = "await" /\ loc' = out /\ out' = out
    BY <1>3 DEF ReturnNothing, Advance
  <2>2. i \in Member /\ "none" \in Outcomes(chain[i].kind)
    BY <2>1 DEF Calling, Running
  <2>3. i \notin Proxies
    BY <2>2, OutcomeFacts, Bounds DEF Proxies
  <2> QED  BY <1>0, <1>i, <2>1, <2>3 DEF Response
<1>4. CASE ReturnResponse
  <2>1. /\ i \in Member /\ i' = i /\ pc' = "update"
        /\ out' = CreateOrUpdate(out, i, chain[i].res)
    BY <1>4 DEF ReturnResponse, Calling, Running
  <2>2. ASSUME NEW p \in Proxies, p < i PROVE out' = [hdr |-> p, body |-> p]
    <3>1. out = [hdr |-> p, body |-> p] /\ out # Nil
      BY <1>n, <2>2 DEF Response
    <3>2. i \in Member \ Proxies
      BY <1>0, <1>i, <1>p, <2>1, <2>2
    <3> QED  BY <1>0, <2>1, <3>1, <3>2, CreateFacts
  <2>3. i \in Proxies => out' = [hdr |-> i, body |-> i]
    BY <1>0, <2>1, CreateFacts
  <2> QED  BY <1>0, <2>1, <2>2, <2>3 DEF Response
<1>5. CASE Stamp
  <2>1. pc = "stamp" /\ i' = i + 1 /\ pc' = "await" /\ loc' = out /\ out' = out
    BY <1>5 DEF Stamp, Advance
  <2> QED  BY <1>0, <1>i, <2>1 DEF Response
<1>6. CASE UpdateIn
  <2>1. pc = "update" /\ i' = i /\ pc' = "stamp" /\ out' = out
    BY <1>6 DEF UpdateIn
  <2> QED  BY <1>0, <2>1 DEF Response
<1>7. CASE out' = out /\ i' = i /\ ((pc' = pc /\ loc' = loc) \/ pc' = "calling")
  BY <1>0, <1>7 DEF Response
<1> QED
  BY <1>1, <1>2, <1>3, <1>4, <1>5, <1>6, <1>7
     DEF Next, vars, Terminated, Main, Goroutine, AwaitUnknown, AwaitExpired,
         AwaitFailure, AwaitClosed, Call, ReturnError, ReturnHit, StampFatal,
         Finish, BeginClone, EndClone, Deliver, CloseChannel, Expire, Give

-----------------------------------------------------------------------------
LEMMA InvStep == Inv /\ [Next]_vars => Inv'
BY TypeStep, TasksStep, GoroutinesStep, MainAtStep, PassedStep,
   NotFoundStep, ResponseStep DEF Inv

LEMMA Invariance == Spec => []Inv
BY InvInit, InvStep, PTL DEF Spec

\* "task not found" is never reported for a task that was spun.
THEOREM NotFoundHonestHolds == Spec => []NotFoundHonest
<1>1. Inv => NotFoundHonest
  BY DEF Inv
<1> QED  BY <1>1, Invariance, PTL

\* A chain ends "ok" only if no synchronous member failed.
THEOREM FailClosedHolds == Spec => []FailClosed
<1>1. Inv => FailClosed
  <2> SUFFICES ASSUME Inv, verdict = "ok", NEW j \in Member, Sync(j)
               PROVE  got[j] \in {"none", "ok"} \/ (got[j] = "cut" /\ BodyUnused(j))
    BY DEF FailClosed
  <2>1. i = Len(chain) + 1
    BY DEF Inv, Passed
  <2>2. j < i
    BY <2>1, Bounds DEF Inv
  <2>3. Fine(j)
    BY <2>2 DEF Inv, Passed, Used, Par, Sync
  <2>4. \A l \in Member \ Par : l < j => l \in 1..(j - 1) /\ Sync(l)
    BY Bounds DEF Inv, Par, Sync
  <2> QED  BY <2>3, <2>4 DEF Fine, BodyUnused
<1> QED  BY <1>1, Invariance, PTL

\* The response a chain with a proxy ends with is the proxy's, save what a
\* filter behind it exchanges.
THEOREM ResponseIsProxysHolds == Spec => []ResponseIsProxys
<1>1. Inv => ResponseIsProxys
  <2> SUFFICES ASSUME Inv, verdict = "ok", NEW p \in Proxies, NEW part \in Part
               PROVE  out[part] = p
    BY DEF ResponseIsProxys
  <2>1. i = Len(chain) + 1
    BY DEF Inv, Passed
  <2>2. p < i
    BY <2>1, Bounds DEF Inv, Proxies
  <2>3. out = [hdr |-> p, body |-> p]
    BY <2>2 DEF Inv, Response
  <2> QED  BY <2>3 DEF Part
<1> QED  BY <1>1, Invariance, PTL

-----------------------------------------------------------------------------
(* Cascade implements FilterChain.                                         *)

PassedSet == {j \in 1..(i - 1) : ~chain[j].parallel /\ got[j] \in {"none", "ok", "cut"}}

\* The abstract step a step of Cascade takes, if any.
LEMMA RefineInit == Init => FC!Init
<1> SUFFICES ASSUME Init PROVE FC!Init
  OBVIOUS
<1>1. chain \in Chains /\ i = 1 /\ pc = "await" /\ verdict = "pending"
  BY DEF Init
<1>2. PassedSet = {}
  BY <1>1 DEF PassedSet
<1> QED  BY <1>1, <1>2 DEF FC!Init, PassedSet, Called, InCall

LEMMA RefineStep == Inv /\ [Next]_vars => [FC!Next]_(FC!fcvars)
<1> SUFFICES ASSUME Inv, [Next]_vars PROVE [FC!Next]_(FC!fcvars)
  OBVIOUS
<1> USE DEF Called, InCall
<1>0. /\ TypeOK /\ chain' = chain /\ Par' = Par /\ Member' = Member
      /\ i \in Nat /\ Member = 1..Len(chain) /\ Len(chain) \in Nat
  BY ChainFrozen, Bounds DEF Inv
<1>1. ASSUME i' = i, \A j \in 1..(i - 1) : ~chain[j].parallel => got'[j] = got[j]
      PROVE  PassedSet' = PassedSet
  BY <1>0, <1>1 DEF PassedSet
<1>2. CASE Spin
  <2>1. /\ i \in Member /\ chain[i].parallel /\ pc = "await" /\ pc' = "await"
        /\ i' = i + 1 /\ verdict = "pending" /\ verdict' = verdict /\ got' = got
    BY <1>0, <1>2, SpinStep DEF Par
  <2>2. PassedSet' = PassedSet
    BY <1>0, <2>1 DEF PassedSet
  <2> QED  BY <1>0, <2>1, <2>2 DEF FC!Next, FC!StartMember, PassedSet
<1>3. CASE Call
  <2>1. /\ i \in Member /\ ~chain[i].parallel /\ pc = "await" /\ pc' = "calling"
        /\ i' = i /\ verdict = "pending" /\ verdict' = verdict /\ got' = got
    BY <1>3 DEF Call, Dispatch, Running
  <2>2. PassedSet' = PassedSet
    BY <1>1, <2>1
  <2> QED  BY <1>0, <2>1, <2>2 DEF FC!Next, FC!StartMember, PassedSet
<1>c. ASSUME NEW o \in Outcome, Calling(o)
      PROVE  /\ i \in Member /\ pc = "calling" /\ verdict = "pending"
             /\ chain[i].kind = "get" \/ o # "hit"
             /\ ~chain[i].parallel
             /\ \A j \in Member : got'[j] = IF j = i THEN o ELSE got[j]
  <2>1. i \in Member /\ pc = "calling" /\ verdict = "pending" /\ i \notin Par
    BY <1>c DEF Calling, Running, Inv, MainAt
  <2>2. o \in Outcomes(chain[i].kind) /\ got' = [got EXCEPT ![i] = o]
    BY <1>c DEF Calling
  <2> QED  BY <1>0, <2>1, <2>2, OutcomeFacts DEF TypeOK, Par
<1>4. ASSUME NEW o \in Outcome, Calling(o), i' = i
      PROVE  PassedSet' = PassedSet
  BY <1>0, <1>1, <1>4, <1>c
<1>5. ASSUME i \in Member, ~chain[i].parallel, i' = i + 1, got'[i] \in {"none", "ok", "cut"},
             \A j \in 1..(i - 1) : got'[j] = got[j]
      PROVE  PassedSet' = PassedSet \cup {i}
  BY <1>0, <1>5 DEF PassedSet
<1>6. CASE ReturnError
  <2>1. PICK o \in Outcome : Calling(o)
    BY <1>6 DEF ReturnError
  <2>2. i' = i /\ pc' = pc /\ verdict' = "failed"
    BY <1>6 DEF ReturnError, Give
  <2> QED  BY <1>0, <1>4, <1>c, <2>1, <2>2 DEF FC!Next, FC!Fail, PassedSet
<1>7. CASE ReturnHit
  <2>1. Calling("hit") /\ "hit" \in Outcome
    BY <1>7 DEF ReturnHit, Outcome
  <2>2. i' = i /\ pc' = pc /\ verdict' = "hit"
    BY <1>7 DEF ReturnHit, Give
  <2> QED  BY <1>0, <1>4, <1>c, <2>1, <2>2 DEF FC!Next, FC!Hit, PassedSet
<1>8. CASE ReturnNothing
  <2>1. Calling("none") /\ "none" \in Outcome
    BY <1>8 DEF ReturnNothing, Outcome
  <2>2. i' = i + 1 /\ pc' = "await" /\ verdict' = verdict
    BY <1>8 DEF ReturnNothing, Advance
  <2>3. PassedSet' = PassedSet \cup {i}
    BY <1>0, <1>5, <1>c, <2>1, <2>2
  <2> QED  BY <1>0, <1>c, <2>1, <2>2, <2>3 DEF FC!Next, FC!AcceptMember, PassedSet
<1>9. CASE ReturnResponse
  <2>1. PICK o \in Outcome : Calling(o)
    BY <1>9 DEF ReturnResponse, Outcome
  <2>2. i' = i /\ pc' = "update" /\ verdict' = verdict
    BY <1>9 DEF ReturnResponse
  <2> QED  BY <1>0, <1>4, <1>c, <2>1, <2>2 DEF FC!fcvars, PassedSet
<1>10. CASE UpdateIn
  <2>1. pc = "update" /\ pc' = "stamp" /\ i' = i /\ verdict' = verdict /\ got' = got
    BY <1>10 DEF UpdateIn
  <2>2. PassedSet' = PassedSet
    BY <1>1, <2>1
  <2> QED  BY <1>0, <2>1, <2>2 DEF FC!fcvars, PassedSet
<1>11. CASE Stamp
  <2>1. /\ i \in Member /\ pc = "stamp" /\ i' = i + 1 /\ pc' = "await"
        /\ verdict = "pending" /\ verdict' = verdict /\ got' = got
    BY <1>11 DEF Stamp, Advance, Running
  <2>2. ~chain[i].parallel /\ got[i] \in {"none", "ok", "cut"}
    BY <2>1 DEF Inv, MainAt, Passed, Used, Fine, Par
  <2>3. PassedSet' = PassedSet \cup {i}
    BY <1>5, <2>1, <2>2
  <2> QED  BY <1>0, <2>1, <2>2, <2>3 DEF FC!Next, FC!AcceptMember, PassedSet
<1>12. CASE AwaitUnknown \/ AwaitExpired \/ AwaitFailure \/ AwaitClosed \/ StampFatal
  <2>1. /\ i' = i /\ pc' = pc /\ verdict = "pending" /\ got' = got
        /\ verdict' \in {"notfound", "timeout", "failed", "panic", "fatal"}
    BY <1>12 DEF AwaitUnknown, AwaitExpired, AwaitFailure, AwaitClosed,
       StampFatal, Give, AtAwait, Running
  <2>2. PassedSet' = PassedSet
    BY <1>1, <2>1
  <2> QED  BY <1>0, <2>1, <2>2 DEF FC!Next, FC!Fail, PassedSet
<1>13. CASE AwaitResult
  <2>1. i' = i /\ pc' = pc /\ verdict' = verdict /\ got' = got
    BY <1>13 DEF AwaitResult
  <2>2. PassedSet' = PassedSet
    BY <1>1, <2>1
  <2> QED  BY <1>0, <2>1, <2>2 DEF FC!fcvars, PassedSet
<1>14. CASE Finish
  <2>1. /\ i' = i /\ pc' = pc /\ verdict = "pending" /\ verdict' = "ok"
        /\ got' = got /\ i = Len(chain) + 1
    BY <1>14 DEF Finish, Give
  <2>2. pc = "await"
    BY <1>0, <2>1 DEF Inv, MainAt
  <2>3. PassedSet' = PassedSet
    BY <1>1, <2>1
  <2> QED  BY <1>0, <2>1, <2>2, <2>3 DEF FC!Next, FC!Complete, PassedSet
<1>15. ASSUME NEW j \in Member, Goroutine(j) \/ Expire(j)
       PROVE  UNCHANGED FC!fcvars
  <2>1. UNCHANGED mainVars
    BY <1>15 DEF Goroutine, BeginClone, EndClone, Deliver, CloseChannel, Expire
  <2>2. \A l \in Member : ~chain[l].parallel => got'[l] = got[l]
    <3>1. CASE Deliver(j)
      <4>1. gpc[j] # "idle" /\ \A l \in Member : l # j => got'[l] = got[l]
        BY <1>0, <3>1 DEF Deliver, TypeOK
      <4>2. chain[j].parallel
        BY <4>1 DEF Inv, Goroutines, Par
      <4> QED  BY <4>1, <4>2
    <3>2. CASE got' = got
      BY <3>2
    <3> QED
      BY <1>15, <3>1, <3>2 DEF Goroutine, BeginClone, EndClone, CloseChannel, Expire
  <2>3. PassedSet' = PassedSet
    <3>1. i' = i
      BY <2>1
    <3>2. 1..(i - 1) \subseteq Member
      BY Bounds DEF Inv
    <3> QED  BY <1>1, <2>2, <3>1, <3>2
  <2> QED  BY <2>1, <2>3 DEF FC!fcvars, PassedSet
<1>16. CASE UNCHANGED vars
  BY <1>16 DEF vars, FC!fcvars
<1> QED
  BY <1>2, <1>3, <1>6, <1>7, <1>8, <1>9, <1>10, <1>11, <1>12, <1>13, <1>14,
     <1>15, <1>16 DEF Next, Main, Terminated

\* Every run of Cascade is a run of the abstract filter chain.
THEOREM KeepsChainPromiseHolds == Spec => KeepsChainPromise
BY RefineInit, RefineStep, Invariance, PTL DEF Spec, KeepsChainPromise, FC!Spec
-----------------------------------------------------------------------------
(* Which tasks are awaited: what it takes to read a nil response, and what *)
(* an await keeps apart.                                                   *)

\* A task is registered under its name, by the last member that has it.
Latest ==
  \A n \in Names : tasks[n] # 0 =>
    /\ chain[tasks[n]].name = n
    /\ \A h \in Par : tasks[n] < h /\ h < i => chain[h].name # n

\* Some entry main has been through awaits member j.
Collected(j) ==
  \E l \in Member : \E m \in DOMAIN chain[l].await : Awaits(l, m, j) /\ Behind(l, m)

\* Every entry main has been through was answered.
AwaitedSoFar ==
  \A l \in Member : \A m \in DOMAIN chain[l].await :
    Behind(l, m) => \E j \in Member : Awaits(l, m, j) /\ Answered(j)

\* What main has awaited has delivered; an empty channel of a goroutine that
\* has delivered was emptied by an await.
Channels ==
  \A j \in Member :
    /\ Collected(j) => gpc[j] \in {"closing", "ended"}
    /\ closed[j] => gpc[j] = "ended"
    /\ verdict = "pending" /\ gpc[j] \in {"closing", "ended"} /\ buf[j] = "" => Collected(j)

\* Before the proxy is left the request is the client's, and so is what was
\* cloned from it, then or by a member awaited in front of the proxy.
AwaitedBefore(j, p) ==
  \E l \in 1..(p - 1) : \E m \in DOMAIN chain[l].await : Awaits(l, m, j)
Untouched ==
  \A p \in Proxies :
    /\ i < p => in.hdr = 0 /\ in.body = 0
    /\ \A j \in Member : j < p /\ (i < p \/ AwaitedBefore(j, p)) => snap[j] = Nil

\* The collision is with the goroutine of a filter nobody has awaited.
Collision ==
  verdict = "fatal" =>
    \E j \in 1..(i - 1) :
      /\ chain[j].parallel
      /\ \A l \in 1..i : \A m \in DOMAIN chain[l].await : ~Awaits(l, m, j)

Sharing == Inv /\ Latest /\ AwaitedSoFar /\ Channels /\ PanicNeedsSharedAwait /\ Untouched /\ Collision

LEMMA Entries ==
  ASSUME TypeOK, NEW l \in Member
  PROVE  /\ Len(chain[l].await) \in Nat
         /\ DOMAIN chain[l].await = 1..Len(chain[l].await)
<1>1. chain[l].await \in Seq(Names)
  BY MemberFacts, Bounds
<1> QED  BY <1>1

LEMMA SharingInit == Init => Sharing
<1> SUFFICES ASSUME Init PROVE Sharing
  OBVIOUS
<1>1. Inv /\ TypeOK
  BY InvInit DEF Inv
<1>2. /\ i = 1 /\ k = 1 /\ verdict = "pending"
      /\ \A j \in Member : gpc[j] = "idle" /\ ~closed[j] /\ snap[j] = Nil
      /\ in.hdr = 0 /\ in.body = 0
      /\ \A n \in Names : tasks[n] = 0
  BY DEF Init
<1>3. \A l \in Member : \A m \in DOMAIN chain[l].await : ~Behind(l, m)
  <2> SUFFICES ASSUME NEW l \in Member, NEW m \in DOMAIN chain[l].await, Behind(l, m)
               PROVE  FALSE
    OBVIOUS
  <2>1. l \in Nat \ {0} /\ m \in Nat \ {0}
    BY <1>1, Entries, Bounds
  <2> QED  BY <1>2, <2>1 DEF Behind
<1> QED
  BY <1>1, <1>2, <1>3
     DEF Sharing, Latest, AwaitedSoFar, Collected, Channels, PanicNeedsSharedAwait, Untouched, Collision

LEMMA LatestStep ==
  TypeOK /\ MainAt /\ Tasks /\ Latest /\ [Next]_vars => Latest'
<1> SUFFICES ASSUME TypeOK, MainAt, Tasks, Latest, [Next]_vars PROVE Latest'
  OBVIOUS
<1>0. /\ chain' = chain /\ Par' = Par /\ i \in Nat
      /\ \A h \in Par : h \in Nat
  BY ChainFrozen, Bounds DEF Par
<1>1. CASE Spin
  <2>1. i' = i + 1 /\ tasks' = [tasks EXCEPT ![chain[i].name] = i]
    BY <1>1, SpinStep
  <2>2. \A n \in Names : tasks'[n] = IF n = chain[i].name THEN i ELSE tasks[n]
    BY <2>1 DEF TypeOK
  <2>3. \A h \in Par : h < i + 1 => h < i \/ h = i
    BY <1>0
  <2>4. \A h \in Par : ~(i < h /\ h < i + 1)
    BY <1>0
  <2> QED  BY <1>0, <2>1, <2>2, <2>3, <2>4 DEF Latest
<1>2. CASE ~Spin
  <2>1. tasks' = tasks /\ (i' = i \/ (i' = i + 1 /\ i \notin Par))
    BY <1>2, OtherStep DEF MainAt
  <2>2. \A h \in Par : h < i' => h < i
    BY <1>0, <2>1
  <2> QED  BY <1>0, <2>1, <2>2 DEF Latest
<1> QED  BY <1>1, <1>2

\* The task found at an await is the member the entry awaits.
LEMMA TaskAwaited ==
  ASSUME TypeOK, Tasks, Latest, AtAwait, Task # 0
  PROVE  /\ Task \in Member /\ Task < i
         /\ i \in Member /\ k \in DOMAIN chain[i].await
         /\ Awaits(i, k, Task)
         /\ \A j \in Member : Awaits(i, k, j) => j = Task
<1> DEFINE n == chain[i].await[k]
<1>1. n \in Names /\ Task \in Member /\ i \in Member /\ k \in DOMAIN chain[i].await
  BY TaskIsMember, Entries
<1>2. /\ Task < i /\ Task \in Par /\ chain[Task].name = n
      /\ \A h \in Par : Task < h /\ h < i => chain[h].name # n
  BY <1>1 DEF Tasks, Latest, Task
<1>3. Member = 1..Len(chain) /\ Len(chain) \in Nat /\ i \in Nat /\ Task \in Nat
  BY <1>1, Bounds
<1>4. Awaits(i, k, Task)
  <2> SUFFICES ASSUME NEW h \in (Task + 1)..(i - 1), chain[h].parallel
               PROVE  chain[h].name # chain[Task].name
    BY <1>2 DEF Awaits, AwaitsIn, Par
  <2>1. h \in Member /\ Task < h /\ h < i
    BY <1>1, <1>3
  <2> QED  BY <1>2, <2>1 DEF Par
<1>5. ASSUME NEW j \in Member, Awaits(i, k, j)
      PROVE  j = Task
  <2>1. j < i /\ j \in Par /\ chain[j].name = n /\ j \in Nat
    BY <1>3, <1>5 DEF Awaits, AwaitsIn, Par
  <2>2. ~(Task < j)
    BY <1>2, <2>1
  <2>3. ~(j < Task)
    <3>1. SUFFICES ASSUME j < Task PROVE FALSE
      OBVIOUS
    <3>2. Task \in (j + 1)..(i - 1)
      BY <1>2, <1>3, <2>1, <3>1
    <3> QED  BY <1>2, <1>5, <2>1, <3>2 DEF Awaits, AwaitsIn, Par
  <2> QED  BY <1>3, <2>1, <2>2, <2>3
<1> QED  BY <1>1, <1>2, <1>4, <1>5

\* Main goes through the entries one by one.
LEMMA BehindStep ==
  ASSUME TypeOK, MainAt, [Next]_vars,
         NEW l \in Member, NEW m \in DOMAIN chain[l].await
  PROVE  /\ Behind(l, m) => Behind(l, m)'
         /\ Behind(l, m)' => Behind(l, m) \/ (AwaitResult /\ l = i /\ m = k)
<1>0. /\ l \in Nat /\ m \in Nat \ {0} /\ i \in Nat /\ k \in Nat
      /\ m <= Len(chain[l].await) /\ Len(chain[l].await) \in Nat
  BY Entries, Bounds
<1>1. ASSUME i' = i + 1, k' = 1, k > Len(chain[i].await)
      PROVE  Behind(l, m) <=> Behind(l, m)'
  BY <1>0, <1>1 DEF Behind
<1>2. CASE AwaitResult
  <2>1. i' = i /\ k' = k + 1
    BY <1>2 DEF AwaitResult
  <2> QED  BY <1>0, <1>2, <2>1 DEF Behind
<1>3. CASE Spin
  <2>1. k > Len(chain[i].await) /\ i' = i + 1 /\ k' = 1
    BY <1>3 DEF Spin, Dispatch, Advance
  <2> QED  BY <1>1, <2>1
<1>4. CASE i' = i + 1 /\ k' = 1 /\ pc # "await"
  <2>1. k > Len(chain[i].await)
    <3>1. i \in Member /\ k = Len(chain[i].await) + 1
      BY <1>4 DEF MainAt
    <3> QED  BY <3>1, Entries
  <2> QED  BY <1>1, <1>4, <2>1
<1>5. CASE i' = i /\ k' = k
  BY <1>5 DEF Behind
<1> QED
  BY <1>2, <1>3, <1>4, <1>5
     DEF Next, vars, Terminated, Main, Goroutine, AwaitUnknown, AwaitExpired,
         AwaitFailure, AwaitClosed, Call, ReturnError, ReturnHit,
         ReturnNothing, ReturnResponse, UpdateIn, Stamp, StampFatal, Finish,
         BeginClone, EndClone, Deliver, CloseChannel, Expire, Calling, Give, Advance

LEMMA AwaitedStep ==
  TypeOK /\ MainAt /\ Tasks /\ Goroutines /\ Latest /\ AwaitedSoFar /\ [Next]_vars
    => AwaitedSoFar'
<1> SUFFICES ASSUME TypeOK, MainAt, Tasks, Goroutines, Latest, AwaitedSoFar, [Next]_vars,
                    NEW l \in Member, NEW m \in DOMAIN chain[l].await, Behind(l, m)'
             PROVE  \E j \in Member : Awaits(l, m, j)' /\ Answered(j)'
  BY ChainFrozen DEF AwaitedSoFar
<1>0. \A j \in Member : Awaits(l, m, j)' <=> Awaits(l, m, j)
  BY ChainFrozen DEF Awaits, AwaitsIn
<1>1. ASSUME NEW j \in Member, Awaits(l, m, j), Answered(j), l <= i
      PROVE  Answered(j)'
  <2>1. j < i
    BY <1>1, Bounds DEF Awaits, AwaitsIn
  <2> QED  BY <1>1, <2>1, DoneStays DEF Answered
<1>2. CASE Behind(l, m)
  <2>1. l <= i
    BY <1>2, Bounds DEF Behind
  <2> QED  BY <1>0, <1>1, <1>2, <2>1 DEF AwaitedSoFar
<1>3. CASE AwaitResult /\ l = i /\ m = k
  <2>1. Task # 0 /\ buf[Task] # "" /\ buf[Task] # "err" /\ AtAwait
    BY <1>3 DEF AwaitResult, Refused
  <2>2. Task \in Member /\ Awaits(i, k, Task)
    BY <2>1, TaskAwaited
  <2>4. l <= i
    BY <1>3, Bounds
  <2>3. Answered(Task)
    BY <2>1, <2>2 DEF Goroutines, Answered
  <2> QED  BY <1>0, <1>1, <1>3, <2>2, <2>3, <2>4
<1> QED  BY <1>2, <1>3, BehindStep

LEMMA CollectedStep ==
  ASSUME TypeOK, MainAt, Tasks, Latest, [Next]_vars, NEW j \in Member
  PROVE  /\ Collected(j) => j < i /\ Collected(j)'
         /\ Collected(j)' => Collected(j) \/ (AwaitResult /\ Task = j)
<1>0. chain' = chain /\ Member' = Member
  BY ChainFrozen
<1>1. \A l \in Member : \A m \in DOMAIN chain[l].await : Awaits(l, m, j)' <=> Awaits(l, m, j)
  BY <1>0 DEF Awaits, AwaitsIn
<1>2. Collected(j)' <=> \E l \in Member : \E m \in DOMAIN chain[l].await :
                          Awaits(l, m, j) /\ Behind(l, m)'
  BY <1>0, <1>1 DEF Collected
<1>3. Collected(j) => Collected(j)'
  BY <1>2, BehindStep DEF Collected
<1>4. Collected(j) => j < i
  <2> SUFFICES ASSUME NEW l \in Member, NEW m \in DOMAIN chain[l].await,
                      Awaits(l, m, j), Behind(l, m)
               PROVE  j < i
    BY DEF Collected
  <2> QED  BY Bounds DEF Awaits, AwaitsIn, Behind
<1>5. ASSUME Collected(j)', ~Collected(j)
      PROVE  AwaitResult /\ Task = j
  <2>1. PICK l \in Member : \E m \in DOMAIN chain[l].await :
          Awaits(l, m, j) /\ Behind(l, m)'
    BY <1>2, <1>5
  <2>2. PICK m \in DOMAIN chain[l].await : Awaits(l, m, j) /\ Behind(l, m)'
    BY <2>1
  <2>3. AwaitResult /\ l = i /\ m = k
    BY <1>5, <2>2, BehindStep DEF Collected
  <2>4. AtAwait /\ Task # 0
    BY <2>3 DEF AwaitResult
  <2> QED  BY <2>2, <2>3, <2>4, TaskAwaited
<1> QED  BY <1>3, <1>4, <1>5

LEMMA ChannelsStep ==
  TypeOK /\ MainAt /\ Tasks /\ Goroutines /\ Latest /\ Channels /\ [Next]_vars
    => Channels'
<1> SUFFICES ASSUME TypeOK, MainAt, Tasks, Goroutines, Latest, Channels, [Next]_vars,
                    NEW j \in Member
             PROVE  /\ Collected(j)' => gpc'[j] \in {"closing", "ended"}
                    /\ closed'[j] => gpc'[j] = "ended"
                    /\ verdict' = "pending" /\ gpc'[j] \in {"closing", "ended"} /\ buf'[j] = ""
                         => Collected(j)'
  BY ChainFrozen DEF Channels
<1>1. ASSUME Collected(j)'
      PROVE  gpc'[j] \in {"closing", "ended"}
  <2>1. CASE Collected(j)
    BY <2>1, CollectedStep, DoneStays DEF Channels
  <2>2. CASE AwaitResult /\ Task = j
    <3>1. buf[j] # "" /\ gpc' = gpc
      BY <2>2 DEF AwaitResult
    <3> QED  BY <3>1 DEF Goroutines
  <2> QED  BY <1>1, <2>1, <2>2, CollectedStep
<1>2. ASSUME closed'[j]
      PROVE  gpc'[j] = "ended"
  <2>1. CASE Spin
    <3>1. gpc' = [gpc EXCEPT ![i] = "spun"] /\ closed' = closed /\ i \in Member
      BY <2>1, SpinStep
    <3>2. gpc[i] = "idle"
      <4>1. ~(i < i)
        BY Bounds
      <4> QED  BY <3>1, <4>1 DEF Goroutines
    <3> QED  BY <1>2, <3>1, <3>2 DEF Channels, TypeOK
  <2>2. ASSUME NEW l \in Member, Goroutine(l)
        PROVE  gpc'[j] = "ended"
    BY <1>2, <2>2 DEF Goroutine, BeginClone, EndClone, Deliver, CloseChannel, Channels, TypeOK
  <2>3. CASE gpc' = gpc /\ closed' = closed
    BY <1>2, <2>3 DEF Channels
  <2> QED
    BY <2>1, <2>2, <2>3
       DEF Next, vars, Terminated, Main, AwaitUnknown, AwaitExpired, AwaitFailure,
           AwaitResult, AwaitClosed, Call, ReturnError, ReturnHit, ReturnNothing,
           ReturnResponse, UpdateIn, Stamp, StampFatal, Finish, Expire, Calling
<1>3. ASSUME verdict' = "pending", gpc'[j] \in {"closing", "ended"}, buf'[j] = ""
      PROVE  Collected(j)'
  <2>1. verdict = "pending"
    BY <1>3, VerdictStays
  <2>2. CASE gpc[j] \in {"closing", "ended"} /\ buf[j] = ""
    BY <2>1, <2>2, CollectedStep DEF Channels
  <2>3. CASE AwaitResult /\ Task = j
    <3>1. AtAwait /\ Task # 0 /\ chain' = chain /\ i' = i /\ k' = k + 1
      BY <2>3 DEF AwaitResult
    <3>2. i \in Member /\ k \in DOMAIN chain[i].await /\ Awaits(i, k, j) /\ k \in Nat
      BY <2>3, <3>1, TaskAwaited, Bounds
    <3>3. \E l \in Member : \E m \in DOMAIN chain[l].await :
            Awaits(l, m, j) /\ l = i' /\ m < k'
      BY <3>1, <3>2
    <3> QED  BY <3>1, <3>3, ChainFrozen DEF Collected, Behind, Awaits, AwaitsIn
  <2>4. CASE AwaitResult /\ Task # j
    <3>1. buf' = [buf EXCEPT ![Task] = ""] /\ gpc' = gpc
      BY <2>4 DEF AwaitResult
    <3> QED  BY <1>3, <2>2, <2>4, <3>1 DEF TypeOK
  <2>5. ~AwaitFailure
    BY <1>3 DEF AwaitFailure, Give
  <2>6. CASE Spin
    <3>1. gpc' = [gpc EXCEPT ![i] = "spun"] /\ buf' = buf /\ i \in Member
      BY <2>6, SpinStep
    <3> QED  BY <1>3, <2>2, <3>1 DEF TypeOK
  <2>7. ASSUME NEW l \in Member, Goroutine(l)
        PROVE  gpc[j] \in {"closing", "ended"} /\ buf[j] = ""
    <3>1. CASE Deliver(l)
      <4>1. PICK o \in Outcomes(chain[l].kind) : buf' = [buf EXCEPT ![l] = o]
        BY <3>1 DEF Deliver
      <4>2. o # ""
        BY OutcomeFacts, Bounds
      <4>3. gpc' = [gpc EXCEPT ![l] = "closing"]
        BY <3>1 DEF Deliver
      <4> QED  BY <1>3, <4>1, <4>2, <4>3 DEF TypeOK
    <3>2. CASE BeginClone(l) \/ EndClone(l) \/ CloseChannel(l)
      BY <1>3, <3>2 DEF BeginClone, EndClone, CloseChannel, TypeOK
    <3> QED  BY <2>7, <3>1, <3>2 DEF Goroutine
  <2>8. CASE gpc' = gpc /\ buf' = buf
    BY <1>3, <2>2, <2>8
  <2> QED
    BY <2>2, <2>3, <2>4, <2>5, <2>6, <2>7, <2>8, StepKinds DEF Calling
<1> QED  BY <1>1, <1>2, <1>3

LEMMA PanicStep ==
  TypeOK /\ Tasks /\ Latest /\ Channels /\ PanicNeedsSharedAwait /\ [Next]_vars
    => PanicNeedsSharedAwait'
<1> SUFFICES ASSUME TypeOK, Tasks, Latest, Channels, PanicNeedsSharedAwait,
                    [Next]_vars, verdict' = "panic"
             PROVE  \E j \in Member, l \in Member : \E m \in DOMAIN chain[l].await :
                      Awaits(i, k, j)' /\ Awaits(l, m, j)' /\ Behind(l, m)'
  BY ChainFrozen DEF PanicNeedsSharedAwait
<1>1. CASE verdict # "pending"
  <2>1. UNCHANGED <<chain, i, k>> /\ verdict = "panic"
    BY <1>1, VerdictStays
  <2> QED  BY <2>1 DEF PanicNeedsSharedAwait, Awaits, AwaitsIn, Behind
<1>2. CASE verdict = "pending"
  <2>1. AwaitClosed
    BY <1>2 DEF Next, vars, Terminated, Main, Goroutine, AwaitUnknown, AwaitExpired,
       AwaitFailure, AwaitResult, Spin, Call, ReturnError, ReturnHit,
       ReturnNothing, ReturnResponse, UpdateIn, Stamp, StampFatal, Finish,
       BeginClone, EndClone, Deliver, CloseChannel, Expire, Give
  <2>2. AtAwait /\ Task # 0 /\ buf[Task] = "" /\ closed[Task] /\ UNCHANGED <<chain, i, k>>
    BY <2>1 DEF AwaitClosed, Give
  <2>3. Task \in Member /\ Awaits(i, k, Task)
    BY <2>2, TaskAwaited
  <2>4. Collected(Task)
    BY <1>2, <2>2, <2>3 DEF Channels
  <2>5. PICK l \in Member : \E m \in DOMAIN chain[l].await : Awaits(l, m, Task) /\ Behind(l, m)
    BY <2>4 DEF Collected
  <2>6. \E j \in Member : \E m \in DOMAIN chain[l].await :
          Awaits(i, k, j) /\ Awaits(l, m, j) /\ Behind(l, m)
    BY <2>3, <2>5
  <2> QED  BY <2>2, <2>6 DEF Awaits, AwaitsIn, Behind
<1> QED  BY <1>1, <1>2

LEMMA CollisionStep ==
  TypeOK /\ MainAt /\ Goroutines /\ Channels /\ Collision /\ [Next]_vars => Collision'
<1> SUFFICES ASSUME TypeOK, MainAt, Goroutines, Channels, Collision, [Next]_vars,
                    verdict' = "fatal"
             PROVE  Collision'
  BY DEF Collision
<1>1. CASE verdict # "pending"
  <2>1. UNCHANGED <<chain, i>> /\ verdict = "fatal"
    BY <1>1, VerdictStays
  <2> QED  BY <2>1 DEF Collision, Awaits, AwaitsIn
<1>2. CASE verdict = "pending"
  <2>1. StampFatal
    BY <1>2 DEF Next, vars, Terminated, Main, Goroutine, AwaitUnknown, AwaitExpired,
       AwaitFailure, AwaitResult, AwaitClosed, Spin, Call, ReturnError, ReturnHit,
       ReturnNothing, ReturnResponse, UpdateIn, Stamp, Finish,
       BeginClone, EndClone, Deliver, CloseChannel, Expire, Give
  <2>2. PICK j \in Member : gpc[j] = "cloning"
    BY <2>1 DEF StampFatal
  <2>3. i \in Member /\ k = Len(chain[i].await) + 1 /\ UNCHANGED <<chain, i>>
    BY <2>1 DEF StampFatal, Give, MainAt
  <2>4. j < i /\ chain[j].parallel /\ ~Collected(j)
    BY <2>2 DEF Goroutines, Channels, Par
  <2>5. j \in 1..(i - 1)
    BY <2>4, Bounds
  <2>6. ASSUME NEW l \in 1..i, NEW m \in DOMAIN chain[l].await, Awaits(l, m, j)
        PROVE  FALSE
    <3>1. l \in Member /\ (l < i \/ l = i)
      BY <2>3, Bounds
    <3>2. m <= Len(chain[l].await) /\ m \in Nat /\ Len(chain[l].await) \in Nat
      BY <3>1, Entries
    <3>3. Behind(l, m)
      BY <2>3, <3>1, <3>2 DEF Behind
    <3> QED  BY <2>4, <2>6, <3>1, <3>3 DEF Collected
  <2> QED  BY <2>3, <2>4, <2>5, <2>6 DEF Collision, Awaits, AwaitsIn
<1> QED  BY <1>1, <1>2

\* Only a proxy's updaters replace headers or body of the request.
LEMMA RequestStays ==
  ASSUME TypeOK, [Next]_vars, NEW p \in Proxies, i < p
  PROVE  in'.hdr = in.hdr /\ in'.body = in.body
<1>0. /\ in \in [hdr: Content, body: Content, rid: Content]
      /\ p \in Member /\ i # p /\ i \in Nat
  <2>1. p \in Member /\ i \in Nat /\ p \in Nat
    BY Bounds DEF Proxies
  <2>2. i # p
    BY <2>1
  <2>3. in \in [hdr: Content, body: Content, rid: Content]
    BY DEF TypeOK
  <2> QED  BY <2>1, <2>2, <2>3
<1>1. ASSUME i \in Member, NEW new
      PROVE  Update(in, chain[i].req, new).hdr = in.hdr /\ Update(in, chain[i].req, new).body = in.body
  <2>1. i \notin Proxies
    BY <1>0, OneProxyAssumption, Bounds DEF Proxies, Member
  <2>2. chain[i].req = {}
    BY <1>1, <2>1, MemberFacts, Bounds DEF Proxies
  <2> QED  BY <1>0, <2>2 DEF Update
<1>2. CASE AwaitResult
  BY <1>1, <1>2 DEF AwaitResult, AtAwait, Running
<1>3. CASE UpdateIn
  BY <1>1, <1>3 DEF UpdateIn, Running
<1>4. CASE Stamp
  BY <1>0, <1>4 DEF Stamp
<1>5. CASE in' = in
  BY <1>5
<1> QED
  BY <1>2, <1>3, <1>4, <1>5
     DEF Next, vars, Terminated, Main, Goroutine, AwaitUnknown, AwaitExpired,
         AwaitFailure, AwaitClosed, Spin, Call, ReturnError, ReturnHit,
         ReturnNothing, ReturnResponse, StampFatal, Finish,
         BeginClone, EndClone, Deliver, CloseChannel, Expire, Calling, Give

LEMMA UntouchedStep ==
  TypeOK /\ MainAt /\ Channels /\ Untouched /\ [Next]_vars => Untouched'
<1> SUFFICES ASSUME TypeOK, MainAt, Channels, Untouched, [Next]_vars,
                    NEW p \in Proxies
             PROVE  /\ i' < p => in'.hdr = 0 /\ in'.body = 0
                    /\ \A j \in Member : j < p /\ (i' < p \/ AwaitedBefore(j, p)') => snap'[j] = Nil
  BY ChainFrozen DEF Untouched, Proxies
<1>0. /\ chain' = chain /\ p \in Member /\ p \in Nat /\ i \in Nat
      /\ Member = 1..Len(chain) /\ Len(chain) \in Nat
  BY ChainFrozen, Bounds DEF Proxies
<1>1. i' < p => i < p
  <2>1. i' \in {i, i + 1}
    BY SpinStep, OtherStep
  <2> QED  BY <1>0, <2>1
<1>2. i' < p => in'.hdr = 0 /\ in'.body = 0
  BY <1>1, RequestStays DEF Untouched
<1>3. ASSUME NEW j \in Member, j < p, i' < p \/ AwaitedBefore(j, p)'
      PROVE  snap'[j] = Nil
  <2>1. i < p \/ AwaitedBefore(j, p)
    BY <1>0, <1>1, <1>3 DEF AwaitedBefore, Awaits, AwaitsIn
  <2>2. snap[j] = Nil
    BY <1>3, <2>1 DEF Untouched
  <2>3. CASE snap'[j] = snap[j]
    BY <2>2, <2>3
  <2>4. CASE BeginClone(j) \/ EndClone(j)
    <3>1. ~Collected(j)
      BY <2>4 DEF BeginClone, EndClone, Channels
    <3>2. i < p
      <4>1. SUFFICES ASSUME AwaitedBefore(j, p), ~(i < p) PROVE FALSE
        BY <2>1
      <4>2. PICK l \in 1..(p - 1) : \E m \in DOMAIN chain[l].await : Awaits(l, m, j)
        BY <4>1 DEF AwaitedBefore
      <4>3. l \in Member /\ l < i
        BY <1>0, <4>1
      <4> QED  BY <3>1, <4>2, <4>3 DEF Collected, Behind
    <3>3. in.hdr = 0 /\ in.body = 0
      BY <3>2 DEF Untouched
    <3>4. \/ snap'[j] = [snap[j] EXCEPT !.hdr = 0]
          \/ snap'[j] = [snap[j] EXCEPT !.body = 0]
      <4>1. snap \in [Member -> [hdr: Content, body: Content]]
        BY DEF TypeOK
      <4>2. \/ snap' = [snap EXCEPT ![j].hdr = in.hdr]
            \/ snap' = [snap EXCEPT ![j].body = in.body]
        BY <2>4 DEF BeginClone, EndClone
      <4> QED  BY <3>3, <4>1, <4>2
    <3> QED  BY <2>2, <3>4 DEF Nil
  <2>5. ASSUME NEW l \in Member, l # j, Goroutine(l)
        PROVE  snap'[j] = snap[j]
    BY <2>5 DEF Goroutine, BeginClone, EndClone, Deliver, CloseChannel, TypeOK
  <2> QED
    BY <2>3, <2>4, <2>5
       DEF Next, vars, Terminated, Main, Goroutine, AwaitUnknown, AwaitExpired,
           AwaitFailure, AwaitResult, AwaitClosed, Spin, Call, ReturnError, ReturnHit,
           ReturnNothing, ReturnResponse, UpdateIn, Stamp, StampFatal, Finish,
           Deliver, CloseChannel, Expire, Calling
<1> QED  BY <1>2, <1>3

LEMMA SharingStep == Sharing /\ [Next]_vars => Sharing'
BY InvStep, LatestStep, AwaitedStep, ChannelsStep, PanicStep, CollisionStep, UntouchedStep
   DEF Sharing, Inv

\* A member is called, or spun, only once every task it awaits has returned
\* a response.
THEOREM AwaitedFirstHolds == Spec => []AwaitedFirst
<1>1. Sharing => AwaitedFirst
  <2> SUFFICES ASSUME Sharing, NEW l \in Member, Started(l),
                      NEW m \in DOMAIN chain[l].await
               PROVE  Behind(l, m)
    BY DEF AwaitedFirst, Sharing, AwaitedSoFar
  <2>1. /\ m \in Nat /\ m <= Len(chain[l].await) /\ Len(chain[l].await) \in Nat
    BY Entries DEF Sharing, Inv
  <2>2. l = i /\ Called => k = Len(chain[l].await) + 1
    BY DEF Sharing, Inv, MainAt, Called
  <2> QED  BY <2>1, <2>2 DEF Started, Behind
<1> QED  BY <1>1, SharingInit, SharingStep, PTL DEF Spec

\* Cascade reads a nil response only for a task that was awaited before.
THEOREM PanicNeedsSharedAwaitHolds == Spec => []PanicNeedsSharedAwait
<1>1. Sharing => PanicNeedsSharedAwait
  BY DEF Sharing
<1> QED  BY <1>1, SharingInit, SharingStep, PTL DEF Spec

\* An awaited filter and the run do not disturb each other.
THEOREM IsolatedWhenAwaitedHolds == Spec => []IsolatedWhenAwaited
<1>1. Sharing => IsolatedWhenAwaited
  <2> SUFFICES ASSUME Sharing, NEW p \in Proxies, NEW l \in 1..(p - 1),
                      NEW m \in DOMAIN chain[l].await, NEW j \in Member, Awaits(l, m, j)
               PROVE  snap[j] = Nil
    BY DEF IsolatedWhenAwaited, Sharing, Collision
  <2>1. j < p /\ AwaitedBefore(j, p)
    BY Bounds DEF Sharing, Inv, AwaitedBefore, Awaits, AwaitsIn, Proxies
  <2> QED  BY <2>1 DEF Sharing, Untouched
<1> QED  BY <1>1, SharingInit, SharingStep, PTL DEF Spec
=============================================================================
