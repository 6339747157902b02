--------------------------- MODULE ToolGateProofs ---------------------------
(***************************************************************************)
(* What holds of ToolGate for every number of prompts, tools, limits and   *)
(* windows.                                                                *)
(***************************************************************************)
EXTENDS ToolGate, TLAPS, FiniteSetTheorems, WellFoundedInduction

\* The state of the rate limit and of the threads that use it.
RateTypes ==
    /\ now \in Nat
    /\ rate \in [Tool -> Seq(Nat)] /\ granted \in [Tool -> Seq(Nat)]

\* A call names a tool once it has been made; between the clock and the mutex it
\* is about a limited tool and has not waited for long.
CallOK(c) ==
    /\ c = [pc |-> c.pc, tool |-> c.tool, arg |-> c.arg, stamp |-> c.stamp, out |-> c.out]
    /\ c.pc \in {"policy", "validate", "rate", "run"} => c.tool \in Tool
    /\ c.pc = "rate" => /\ c.tool \in Limited /\ c.stamp \in Nat
                        /\ c.stamp <= now /\ now <= c.stamp + MaxDelay
CallsOK == /\ call = [t \in Thread |-> call[t]]
           /\ \A t \in Thread : CallOK(call[t])

\* The entries of a tool's window, r, are those of the last calls that passed, g.
Dropped(g, r) == Len(g) - Len(r)
Aligned(g, r) ==
    /\ Len(r) <= Len(g)
    /\ \A k \in 1..Len(r) : /\ r[k] <= g[Dropped(g, r) + k]
                            /\ g[Dropped(g, r) + k] <= r[k] + MaxDelay

\* Calls pass one after the other; those no longer in the window passed long ago;
\* between a call and the MaxCalls-th after it more than the stretch has gone by.
InOrder(g) ==
    /\ \A i, j \in 1..Len(g) : i <= j => g[i] <= g[j]
    /\ \A i \in 1..Len(g) : g[i] <= now
DroppedOld(g, r) == \A i \in 1..Dropped(g, r) : g[i] + Window < now + MaxDelay
Spaced(g) ==
    \A i, j \in 1..Len(g) : i + MaxCalls <= j => g[i] + Window < g[j] + MaxDelay

WindowInv(g, r) == Aligned(g, r) /\ InOrder(g) /\ DroppedOld(g, r) /\ Spaced(g)
RateInv == \A n \in Tool : WindowInv(granted[n], rate[n])

\* A prompt whose session nobody else touches sees its own outputs in the window,
\* and it has been stopped exactly when they are all the same.
IdleInv ==
    /\ idle = [s \in Session |-> idle[s]] /\ own = [p \in Prompt |-> own[p]]
    /\ prompt = [p \in Prompt |-> prompt[p]] /\ alone = [p \in Prompt |-> alone[p]]
    /\ \A p \in Prompt : prompt[p] = [pc |-> prompt[p].pc, iter |-> prompt[p].iter]
    /\ \A p \in Prompt : alone[p] =>
          /\ own[p] = idle[SessionOf[p]]
          /\ prompt[p].pc = "stopped" <=> IdleTest(own[p])
-----------------------------------------------------------------------------
\* A nonempty set of naturals has a least element.
LEMMA LeastNat ==
    ASSUME NEW T \in SUBSET Nat, T # {}
    PROVE  \E k \in T : \A l \in T : k <= l
<1>1. IsWellFoundedOn(OpToRel(<, Nat), Nat)
  BY NatLessThanWellFounded
<1>2. \E k \in T : \A l \in T : ~(<<l, k>> \in OpToRel(<, Nat))
  BY <1>1, WFMin, Zenon
<1>3. PICK k \in T : \A l \in T : ~(<<l, k>> \in OpToRel(<, Nat))
  BY <1>2
<1>4. ASSUME NEW l \in T PROVE k <= l
  <2>1. l \in Nat /\ k \in Nat
    OBVIOUS
  <2>2. ~(l < k)
    BY <1>3, <2>1 DEF OpToRel
  <2> QED BY <2>1, <2>2
<1> QED BY <1>4

\* Prune drops expired entries from the front, up to the first that is not.
LEMMA PruneDrops ==
    ASSUME NEW r \in Seq(Nat), NEW stamp \in Nat
    PROVE  \E d \in 0..Len(r) :
              /\ Prune(r, stamp) \in Seq(Nat)
              /\ Len(Prune(r, stamp)) = Len(r) - d
              /\ \A k \in 1..Len(r) - d : Prune(r, stamp)[k] = r[d + k]
              /\ \A i \in 1..d : r[i] + Window < stamp
              /\ d < Len(r) => stamp <= r[d + 1] + Window
<1> DEFINE young == {i \in 1..Len(r) : ~Expired(stamp, r[i])}
           P == Prune(r, stamp)
<1>1. Len(r) \in Nat /\ Window \in Nat /\ \A i \in 1..Len(r) : r[i] \in Nat
  BY GateAssumption
<1>2. \A i \in 1..Len(r) : i \in young <=> stamp <= r[i] + Window
  BY <1>1 DEF Expired
<1>3. CASE young = {}
  <2>1. P = <<>>
    BY <1>3 DEF Prune
  <2>2. P \in Seq(Nat) /\ Len(P) = Len(r) - Len(r)
    BY <1>1, <2>1
  <2>3. \A i \in 1..Len(r) : r[i] + Window < stamp
    BY <1>1, <1>2, <1>3
  <2> HIDE DEF P
  <2>4. Len(r) \in 0..Len(r) /\ \A k \in 1..Len(r) - Len(r) : P[k] = r[Len(r) + k]
    BY <1>1
  <2>5. ~(Len(r) < Len(r))
    BY <1>1
  <2> QED BY <2>2, <2>3, <2>4, <2>5 DEF P
<1>4. CASE young # {}
  <2> DEFINE m == CHOOSE i \in young : \A j \in young : i <= j
  <2>1. young \in SUBSET Nat
    BY <1>1
  <2>2. m \in young /\ \A j \in young : m <= j
    <3> HIDE DEF young
    <3> QED BY <1>4, <2>1, LeastNat
  <2>3. P = SubSeq(r, m, Len(r))
    BY <1>4 DEF Prune
  <2>4. m \in 1..Len(r) /\ stamp <= r[m] + Window
    BY <1>2, <2>2
  <2> HIDE DEF m, P, young
  <2>5. \A i \in 1..m - 1 : r[i] + Window < stamp
    <3> SUFFICES ASSUME NEW i \in 1..m - 1 PROVE r[i] + Window < stamp
      OBVIOUS
    <3>1. i \in 1..Len(r) /\ i \notin young
      BY <1>1, <2>2, <2>4
    <3> QED BY <1>1, <1>2, <3>1
  <2>6. P \in Seq(Nat) /\ Len(P) = Len(r) - (m - 1)
    BY <1>1, <2>3, <2>4
  <2>7. \A k \in 1..Len(r) - (m - 1) : P[k] = r[m - 1 + k]
    BY <1>1, <2>3, <2>4
  <2>8. m - 1 \in 0..Len(r) /\ (m - 1) + 1 = m
    BY <1>1, <2>4
  <2> QED BY <2>4, <2>5, <2>6, <2>7, <2>8 DEF P
<1> QED BY <1>3, <1>4

\* Moments are natural numbers, and so are the limits.
LEMMA Moments ==
    ASSUME NEW g \in Seq(Nat)
    PROVE  Len(g) \in Nat /\ \A i \in 1..Len(g) : g[i] \in Nat
  OBVIOUS

LEMMA Limits == Window \in Nat /\ MaxDelay \in Nat /\ MaxCalls \in Nat
  BY GateAssumption

\* Dropping expired entries keeps what is known of the window.
LEMMA PruneKeeps ==
    ASSUME now \in Nat, NEW g \in Seq(Nat), NEW r \in Seq(Nat), WindowInv(g, r),
           NEW stamp \in Nat, stamp <= now
    PROVE  WindowInv(g, Prune(r, stamp))
<1> DEFINE P == Prune(r, stamp)
           o == Dropped(g, r)
<1>1. PICK d \in 0..Len(r) :
         /\ P \in Seq(Nat) /\ Len(P) = Len(r) - d
         /\ \A k \in 1..Len(r) - d : P[k] = r[d + k]
         /\ \A i \in 1..d : r[i] + Window < stamp
  BY PruneDrops
<1>2. /\ Len(g) \in Nat /\ Len(r) \in Nat /\ d \in Nat /\ d <= Len(r) /\ Window \in Nat
      /\ MaxDelay \in Nat
      /\ \A i \in 1..Len(g) : g[i] \in Nat
      /\ \A i \in 1..Len(r) : r[i] \in Nat
  <2>1. Len(g) \in Nat /\ \A i \in 1..Len(g) : g[i] \in Nat
    BY Moments
  <2>2. Len(r) \in Nat /\ \A i \in 1..Len(r) : r[i] \in Nat
    BY Moments
  <2>3. d \in Nat /\ d <= Len(r)
    BY <2>2
  <2> QED BY <2>1, <2>2, <2>3, Limits
<1>3. /\ o \in Nat /\ Len(r) <= Len(g) /\ o = Len(g) - Len(r)
      /\ \A k \in 1..Len(r) : r[k] <= g[o + k] /\ g[o + k] <= r[k] + MaxDelay
  BY <1>2 DEF WindowInv, Aligned, Dropped
<1>4. Dropped(g, P) = o + d
  BY <1>1, <1>2, <1>3 DEF Dropped
<1> HIDE DEF P, o
<1>5. Aligned(g, P)
  <2> SUFFICES ASSUME NEW k \in 1..Len(P)
               PROVE  P[k] <= g[(o + d) + k] /\ g[(o + d) + k] <= P[k] + MaxDelay
    BY <1>1, <1>2, <1>3, <1>4 DEF Aligned
  <2>1. d + k \in 1..Len(r) /\ P[k] = r[d + k] /\ o + (d + k) = (o + d) + k
    BY <1>1, <1>2, <1>3
  <2> QED BY <1>3, <2>1
<1>6. DroppedOld(g, P)
  <2> SUFFICES ASSUME NEW i \in 1..o + d PROVE g[i] + Window < now + MaxDelay
    BY <1>4 DEF DroppedOld
  <2>1. CASE i <= o
    BY <1>2, <1>3, <2>1 DEF WindowInv, DroppedOld, o
  <2>2. CASE i > o
    <3>1. i - o \in 1..d /\ i - o \in 1..Len(r) /\ o + (i - o) = i /\ i \in 1..Len(g)
      BY <1>2, <1>3, <2>2
    <3>2. g[i] <= r[i - o] + MaxDelay /\ r[i - o] + Window < stamp
      BY <1>1, <1>3, <3>1
    <3>3. g[i] \in Nat /\ r[i - o] \in Nat /\ Window \in Nat /\ MaxDelay \in Nat
      BY <1>2, <3>1
    <3>4. PICK a \in Nat, b \in Nat : a = g[i] /\ b = r[i - o]
      BY <3>3
    <3>5. a <= b + MaxDelay /\ b + Window < stamp
      BY <3>2, <3>4
    <3>6. a + Window < now + MaxDelay
      BY <3>3, <3>5
    <3> QED BY <3>4, <3>6
  <2> QED BY <1>2, <1>3, <2>1, <2>2
<1> QED BY <1>5, <1>6 DEF WindowInv, P

\* A call passes when fewer than MaxCalls entries are left: the MaxCalls-th call
\* before it was dropped, and so passed long ago.
LEMMA GrantKeeps ==
    ASSUME now \in Nat, NEW g \in Seq(Nat), NEW r \in Seq(Nat), WindowInv(g, r),
           NEW stamp \in Nat, stamp <= now, now <= stamp + MaxDelay, Len(r) < MaxCalls
    PROVE  WindowInv(Append(g, now), Append(r, stamp))
<1> DEFINE G == Append(g, now)
           R == Append(r, stamp)
           o == Dropped(g, r)
<1>1. /\ Len(g) \in Nat /\ Len(r) \in Nat /\ Window \in Nat /\ MaxDelay \in Nat
      /\ MaxCalls \in Nat
      /\ \A i \in 1..Len(g) : g[i] \in Nat
      /\ \A i \in 1..Len(r) : r[i] \in Nat
  <2>1. Len(g) \in Nat /\ \A i \in 1..Len(g) : g[i] \in Nat
    BY Moments
  <2>2. Len(r) \in Nat /\ \A i \in 1..Len(r) : r[i] \in Nat
    BY Moments
  <2> QED BY <2>1, <2>2, Limits
<1>2. /\ Len(G) = Len(g) + 1 /\ G[Len(g) + 1] = now /\ \A i \in 1..Len(g) : G[i] = g[i]
      /\ Len(R) = Len(r) + 1 /\ R[Len(r) + 1] = stamp /\ \A i \in 1..Len(r) : R[i] = r[i]
  OBVIOUS
<1>3. /\ o \in Nat /\ Len(r) <= Len(g) /\ o = Len(g) - Len(r)
      /\ \A k \in 1..Len(r) : r[k] <= g[o + k] /\ g[o + k] <= r[k] + MaxDelay
      /\ \A i \in 1..o : g[i] + Window < now + MaxDelay
  BY <1>1 DEF WindowInv, Aligned, Dropped, DroppedOld
<1>4. Dropped(G, R) = o
  BY <1>1, <1>2, <1>3 DEF Dropped
<1>9. Len(G) = Len(g) + 1
  BY <1>2
<1> HIDE DEF G, R, o
<1>5. Aligned(G, R)
  <2> SUFFICES ASSUME NEW k \in 1..Len(R)
               PROVE  R[k] <= G[o + k] /\ G[o + k] <= R[k] + MaxDelay
    BY <1>1, <1>2, <1>3, <1>4 DEF Aligned
  <2>1. CASE k = Len(r) + 1
    BY <1>1, <1>2, <1>3, <2>1
  <2>2. CASE k # Len(r) + 1
    <3>1. k \in 1..Len(r) /\ o + k \in 1..Len(g)
      BY <1>1, <1>2, <1>3, <2>2
    <3> QED BY <1>2, <1>3, <3>1
  <2> QED BY <2>1, <2>2
<1>6. InOrder(G)
  <2>1. ASSUME NEW i \in 1..Len(G) PROVE G[i] <= now
    <3>1. CASE i = Len(g) + 1
      BY <1>2, <3>1
    <3>2. CASE i # Len(g) + 1
      <4>1. i \in 1..Len(g)
        BY <1>1, <1>9, <3>2
      <4> QED BY <1>2, <4>1 DEF WindowInv, InOrder
    <3> QED BY <3>1, <3>2
  <2>2. ASSUME NEW i \in 1..Len(G), NEW j \in 1..Len(G), i <= j PROVE G[i] <= G[j]
    <3>1. CASE j = Len(g) + 1
      BY <1>2, <2>1, <3>1
    <3>2. CASE j # Len(g) + 1
      <4>1. i \in 1..Len(g) /\ j \in 1..Len(g)
        BY <1>1, <1>2, <2>2, <3>2
      <4> QED BY <1>2, <2>2, <4>1 DEF WindowInv, InOrder
    <3> QED BY <3>1, <3>2
  <2> QED BY <2>1, <2>2 DEF InOrder
<1>7. DroppedOld(G, R)
  <2> SUFFICES ASSUME NEW i \in 1..o PROVE G[i] + Window < now + MaxDelay
    BY <1>4 DEF DroppedOld
  <2>1. i \in 1..Len(g)
    BY <1>1, <1>3
  <2> QED BY <1>2, <1>3, <2>1
<1>8. Spaced(G)
  <2>1. ASSUME NEW i \in 1..Len(G), NEW j \in 1..Len(G), i + MaxCalls <= j
        PROVE  G[i] + Window < G[j] + MaxDelay
    <3>0. Len(g) \in Nat /\ MaxCalls \in Nat
      BY <1>1
    <3>1. CASE j = Len(g) + 1
      <4>1. i \in 1..o /\ i \in 1..Len(g)
        BY <1>1, <1>2, <1>3, <2>1, <3>1
      <4> QED BY <1>2, <1>3, <3>1, <4>1
    <3>2. CASE j # Len(g) + 1
      <4>1. j \in 1..Len(g)
        BY <3>0, <1>9, <3>2
      <4>2. i \in 1..Len(g)
        BY <3>0, <1>9, <2>1, <4>1
      <4> QED BY <1>2, <2>1, <4>1, <4>2 DEF WindowInv, Spaced
    <3> QED BY <3>1, <3>2
  <2> QED BY <2>1 DEF Spaced
<1> QED BY <1>5, <1>6, <1>7, <1>8 DEF WindowInv, G, R
-----------------------------------------------------------------------------
WindowsOK == RateTypes /\ CallsOK /\ RateInv

\* The changes a step of a thread can make to its call.
LEMMA GotoOK ==
    ASSUME now \in Nat, CallsOK, NEW t \in Thread, NEW place \in {"validate", "run"},
           call[t].tool \in Tool, Goto(t, place), UNCHANGED now
    PROVE  CallsOK'
<1>1. call' = [call EXCEPT ![t] = [@ EXCEPT !.pc = place]]
  BY DEF Goto
<1>2. call' = [u \in Thread |-> call'[u]]
  BY <1>1 DEF CallsOK
<1>3. ASSUME NEW u \in Thread PROVE CallOK(call[u])'
  <2>1. CASE u = t
    <3>1. call'[u] = [call[t] EXCEPT !.pc = place] /\ CallOK(call[t])
      BY <1>1, <2>1 DEF CallsOK
    <3> QED BY <3>1 DEF CallOK
  <2>2. CASE u # t
    BY <1>1, <2>2 DEF CallsOK, CallOK
  <2> QED BY <2>1, <2>2
<1> QED BY <1>2, <1>3 DEF CallsOK

LEMMA OutputOK ==
    ASSUME now \in Nat, CallsOK, NEW t \in Thread, NEW why, Output(t, why), UNCHANGED now
    PROVE  CallsOK'
<1>1. call' = [call EXCEPT ![t] = [@ EXCEPT !.pc = "done", !.out = why]]
  BY DEF Output, CallsOK
<1>2. call' = [u \in Thread |-> call'[u]]
  BY <1>1 DEF CallsOK
<1>3. ASSUME NEW u \in Thread PROVE CallOK(call[u])'
  <2>1. CASE u = t
    <3>1. call'[u] = [call[t] EXCEPT !.pc = "done", !.out = why] /\ CallOK(call[t])
      BY <1>1, <2>1 DEF CallsOK
    <3> QED BY <3>1 DEF CallOK
  <2>2. CASE u # t
    BY <1>1, <2>2 DEF CallsOK, CallOK
  <2> QED BY <2>1, <2>2
<1> QED BY <1>2, <1>3 DEF CallsOK

LEMMA FreeOK == ASSUME now \in Nat PROVE CallOK(Free)
BY DEF CallOK, Free

\* Nothing but CheckActionRateLimit changes the windows of the rate limit.
LEMMA WindowsSame ==
    ASSUME WindowsOK, UNCHANGED <<now, rate, granted>>
    PROVE  RateTypes' /\ RateInv'
BY DEF WindowsOK, RateTypes, RateInv, WindowInv, Aligned, Dropped, InOrder, DroppedOld, Spaced

LEMMA RateLimitOK ==
    ASSUME WindowsOK, NEW t \in Thread, CheckActionRateLimit(t)
    PROVE  WindowsOK'
<1> DEFINE n == call[t].tool
           stamp == call[t].stamp
           kept == Prune(rate[n], stamp)
<1>1. /\ now \in Nat /\ now' = now /\ CallsOK /\ call[t].pc = "rate"
      /\ rate \in [Tool -> Seq(Nat)] /\ granted \in [Tool -> Seq(Nat)]
  BY DEF WindowsOK, RateTypes, CheckActionRateLimit
<1>2. /\ n \in Tool /\ stamp \in Nat /\ stamp <= now /\ now <= stamp + MaxDelay
  BY <1>1 DEF CallsOK, CallOK
<1>3. rate[n] \in Seq(Nat) /\ granted[n] \in Seq(Nat) /\ WindowInv(granted[n], rate[n])
  BY <1>1, <1>2 DEF WindowsOK, RateInv
<1>4. WindowInv(granted[n], kept) /\ kept \in Seq(Nat)
  <2> HIDE DEF n, stamp
  <2>1. WindowInv(granted[n], kept)
    BY <1>1, <1>2, <1>3, PruneKeeps
  <2>2. kept \in Seq(Nat)
    BY <1>2, <1>3, PruneDrops
  <2> QED BY <2>1, <2>2
<1>5. CASE Len(kept) >= MaxCalls
  <2>1. /\ rate' = [rate EXCEPT ![n] = kept] /\ Output(t, <<n, "limited">>)
        /\ granted' = granted
    BY <1>5 DEF CheckActionRateLimit
  <2>2. CallsOK'
    BY <1>1, <2>1, OutputOK
  <2> HIDE DEF n, stamp, kept
  <2>3. RateTypes'
    BY <1>1, <1>2, <1>4, <2>1 DEF RateTypes
  <2>4. ASSUME NEW m \in Tool PROVE WindowInv(granted'[m], rate'[m])
    <3>1. CASE m = n
      BY <1>1, <1>2, <1>4, <2>1, <3>1
    <3>2. CASE m # n
      BY <1>1, <1>2, <2>1, <3>2 DEF WindowsOK, RateInv
    <3> QED BY <3>1, <3>2
  <2>5. RateInv'
    BY <1>1, <2>4 DEF RateInv, WindowInv, InOrder, DroppedOld, Aligned, Spaced, Dropped
  <2> QED BY <2>2, <2>3, <2>5 DEF WindowsOK
<1>6. CASE ~(Len(kept) >= MaxCalls)
  <2>1. /\ rate' = [rate EXCEPT ![n] = Append(kept, stamp)] /\ Goto(t, "run")
        /\ granted' = [granted EXCEPT ![n] = Append(granted[n], now)]
    BY <1>6 DEF CheckActionRateLimit
  <2>2. CallsOK'
    BY <1>1, <1>2, <2>1, GotoOK
  <2> HIDE DEF n, stamp, kept
  <2>3. Append(kept, stamp) \in Seq(Nat) /\ Append(granted[n], now) \in Seq(Nat)
    BY <1>1, <1>2, <1>3, <1>4
  <2>4. RateTypes'
    BY <1>1, <1>2, <2>1, <2>3 DEF RateTypes
  <2>5. Len(kept) < MaxCalls
    BY <1>4, <1>6, GateAssumption
  <2>6. WindowInv(Append(granted[n], now), Append(kept, stamp))
    BY <1>1, <1>2, <1>3, <1>4, <2>5, GrantKeeps
  <2>7. ASSUME NEW m \in Tool PROVE WindowInv(granted'[m], rate'[m])
    <3>1. CASE m = n
      <4>1. granted'[m] = Append(granted[n], now) /\ rate'[m] = Append(kept, stamp)
        BY <1>1, <1>2, <2>1, <3>1
      <4> QED BY <2>6, <4>1
    <3>2. CASE m # n
      <4>1. granted'[m] = granted[m] /\ rate'[m] = rate[m]
        BY <1>1, <1>2, <2>1, <3>2
      <4> QED BY <4>1 DEF WindowsOK, RateInv
    <3> QED BY <3>1, <3>2
  <2>8. RateInv'
    BY <1>1, <2>7 DEF RateInv, WindowInv, InOrder, DroppedOld, Aligned, Spaced, Dropped
  <2> QED BY <2>2, <2>4, <2>8 DEF WindowsOK
<1> QED BY <1>5, <1>6

LEMMA WindowsInit == Init => WindowsOK
<1> SUFFICES ASSUME Init PROVE WindowsOK
  OBVIOUS
<1>1. RateTypes
  BY DEF Init, RateTypes
<1>2. CallsOK
  BY <1>1, FreeOK DEF Init, CallsOK, RateTypes
<1>3. RateInv
  <2> SUFFICES ASSUME NEW n \in Tool PROVE WindowInv(<<>>, <<>>)
    BY DEF RateInv, Init
  <2> QED BY DEF WindowInv, Aligned, Dropped, InOrder, DroppedOld, Spaced
<1> QED BY <1>1, <1>2, <1>3 DEF WindowsOK

LEMMA WindowsStep == WindowsOK /\ [Next]_vars => WindowsOK'
<1> SUFFICES ASSUME WindowsOK, [Next]_vars PROVE WindowsOK'
  OBVIOUS
<1>1. now \in Nat /\ CallsOK
  BY DEF WindowsOK, RateTypes
<1>2. ASSUME UNCHANGED <<now, rate, granted>>, CallsOK' PROVE WindowsOK'
  BY <1>2, WindowsSame DEF WindowsOK
<1>3. ASSUME UNCHANGED <<now, call>> PROVE CallsOK'
  BY <1>1, <1>3 DEF CallsOK, CallOK
<1>4. ASSUME NEW p \in Prompt, Begin(p) \/ Finish(p) PROVE WindowsOK'
  BY <1>2, <1>3, <1>4 DEF Begin, Finish, gateVars
<1>5. ASSUME NEW p \in Prompt, CheckIdleProgress(p) PROVE WindowsOK'
  <2>1. UNCHANGED <<now, rate, granted>> /\ call' = [u \in Thread |-> IF u[1] = p THEN Free ELSE call[u]]
    BY <1>5 DEF CheckIdleProgress, gateVars
  <2>2. CallOK(Free)'
    BY <1>1, <2>1, FreeOK DEF CallOK, Free
  <2>3. \A u \in Thread : CallOK(call[u])'
    BY <1>1, <2>1, <2>2 DEF CallsOK, CallOK
  <2> QED BY <1>2, <2>1, <2>3 DEF CallsOK
<1>6. ASSUME NEW p \in Prompt, NEW k \in Slot, NEW calls \in [1..k -> Tool \X Arg],
             AskTools(p, calls)
      PROVE  WindowsOK'
  <2>1. /\ UNCHANGED <<now, rate, granted>>
        /\ call' = [u \in Thread |->
                  IF u[1] = p /\ u[2] \in 1..k
                  THEN [Free EXCEPT !.pc = "policy", !.tool = calls[u[2]][1],
                                    !.arg = calls[u[2]][2]]
                  ELSE call[u]]
    BY <1>6 DEF AskTools, gateVars
  <2>2. ASSUME NEW u \in Thread PROVE CallOK(call[u])'
    <3>1. CASE u[1] = p /\ u[2] \in 1..k
      <4>1. calls[u[2]][1] \in Tool
        BY <3>1
      <4>2. call'[u] = [Free EXCEPT !.pc = "policy", !.tool = calls[u[2]][1],
                                    !.arg = calls[u[2]][2]]
        BY <2>1, <3>1
      <4> QED BY <4>1, <4>2 DEF CallOK, Free
    <3>2. CASE ~(u[1] = p /\ u[2] \in 1..k)
      BY <1>1, <2>1, <3>2 DEF CallsOK, CallOK
    <3> QED BY <3>1, <3>2
  <2> QED BY <1>2, <2>1, <2>2 DEF CallsOK
<1>7. ASSUME NEW t \in Thread, CheckPolicy(t) PROVE WindowsOK'
  <2>1. UNCHANGED <<now, rate, granted>> /\ call[t].tool \in Tool
    BY <1>1, <1>7 DEF CheckPolicy, CallsOK, CallOK
  <2>2. (\E why : Output(t, why)) \/ Goto(t, "validate")
    BY <1>7 DEF CheckPolicy
  <2>3. CallsOK'
    BY <1>1, <2>1, <2>2, OutputOK, GotoOK
  <2> QED BY <1>2, <2>1, <2>3
<1>8. ASSUME NEW t \in Thread, Validate(t) PROVE WindowsOK'
  <2>1. UNCHANGED <<now, rate, granted>> /\ call[t].tool \in Tool
    BY <1>1, <1>8 DEF Validate, CallsOK, CallOK, gateVars
  <2>2. CASE Output(t, <<call[t].tool, "unsafe">>)
    BY <1>1, <1>2, <2>1, <2>2, OutputOK
  <2>3. CASE ReadClock(t)
    <3> DEFINE pl == IF call[t].tool \in Limited THEN "rate" ELSE "run"
               st == IF call[t].tool \in Limited THEN now ELSE 0
    <3>1. call' = [call EXCEPT ![t] = [@ EXCEPT !.pc = pl, !.stamp = st]]
      BY <1>1, <2>3 DEF ReadClock, CallsOK
    <3>2. call' = [u \in Thread |-> call'[u]]
      BY <1>1, <3>1 DEF CallsOK
    <3>3. ASSUME NEW u \in Thread PROVE CallOK(call[u])'
      <4>1. CASE u = t
        <5>1. call'[u] = [call[t] EXCEPT !.pc = pl, !.stamp = st] /\ CallOK(call[t])
          BY <1>1, <3>1, <4>1 DEF CallsOK
        <5>2. st \in Nat /\ MaxDelay \in Nat
          BY <1>1, GateAssumption
        <5>3. pl = "rate" => st = now /\ call[t].tool \in Limited
          OBVIOUS
        <5> HIDE DEF pl, st
        <5>4. call'[u] = [pc |-> pl, tool |-> call[t].tool, arg |-> call[t].arg,
                          stamp |-> st, out |-> call[t].out]
          BY <5>1 DEF CallOK
        <5>5. pl = "rate" => st <= now' /\ now' <= st + MaxDelay
          BY <1>1, <2>1, <5>2, <5>3
        <5> QED BY <2>1, <5>2, <5>3, <5>4, <5>5 DEF CallOK
      <4>2. CASE u # t
        BY <1>1, <2>1, <3>1, <4>2 DEF CallsOK, CallOK
      <4> QED BY <4>1, <4>2
    <3> QED BY <1>2, <2>1, <3>2, <3>3 DEF CallsOK
  <2> QED BY <1>8, <2>2, <2>3 DEF Validate
<1>9. ASSUME NEW t \in Thread, CheckActionRateLimit(t) PROVE WindowsOK'
  BY <1>9, RateLimitOK
<1>10. ASSUME NEW t \in Thread, NEW x \in Result, Execute(t, x) PROVE WindowsOK'
  BY <1>1, <1>2, <1>10, OutputOK DEF Execute, gateVars
<1>11. ASSUME NEW s \in Session, ResetSession(s) PROVE WindowsOK'
  BY <1>2, <1>3, <1>11 DEF ResetSession
<1>12. CASE Tick
  <2>1. /\ now' = now + 1 /\ UNCHANGED <<rate, granted, call>> /\ MaxDelay \in Nat
        /\ Window \in Nat
        /\ \A t \in Thread : call[t].pc = "rate" => now - call[t].stamp < MaxDelay
    BY <1>12, GateAssumption DEF Tick, gateVars
  <2>2. RateTypes'
    BY <1>1, <2>1 DEF WindowsOK, RateTypes
  <2>3. ASSUME NEW u \in Thread PROVE CallOK(call[u])'
    BY <1>1, <2>1 DEF CallsOK, CallOK
  <2>4. CallsOK'
    BY <1>1, <2>1, <2>3 DEF CallsOK
  <2>5. ASSUME NEW m \in Tool PROVE WindowInv(granted[m], rate[m])'
    <3>1. /\ WindowInv(granted[m], rate[m]) /\ granted'[m] = granted[m] /\ rate'[m] = rate[m]
          /\ granted[m] \in Seq(Nat) /\ rate[m] \in Seq(Nat)
      BY <2>1 DEF WindowsOK, RateInv, RateTypes
    <3>2. PICK g \in Seq(Nat), r \in Seq(Nat) : g = granted[m] /\ r = rate[m]
      BY <3>1
    <3>3. Aligned(g, r) /\ Spaced(g)
      BY <3>1, <3>2 DEF WindowInv
    <3>4. InOrder(g)'
      <4>1. InOrder(g)
        BY <3>1, <3>2 DEF WindowInv
      <4>2. ASSUME NEW i \in 1..Len(g) PROVE g[i] <= now'
        <5>1. g[i] \in Nat /\ g[i] <= now
          BY <4>1 DEF InOrder
        <5> QED BY <1>1, <2>1, <5>1
      <4> QED BY <4>1, <4>2 DEF InOrder
    <3>5. DroppedOld(g, r)'
      <4>1. Dropped(g, r) \in Int
        BY <3>2 DEF Dropped
      <4>2. ASSUME NEW i \in 1..Dropped(g, r) PROVE g[i] + Window < now' + MaxDelay
        <5>1. g[i] + Window < now + MaxDelay
          BY <3>1, <3>2 DEF WindowInv, DroppedOld
        <5>2. i \in 1..Len(g)
          BY <3>2, <3>3, <4>1 DEF Dropped, Aligned
        <5>3. g[i] \in Nat
          BY <5>2
        <5> QED BY <1>1, <2>1, <5>1, <5>3
      <4> QED BY <4>2 DEF DroppedOld
    <3>6. WindowInv(g, r)'
      BY <3>3, <3>4, <3>5 DEF WindowInv, Aligned, Dropped, Spaced
    <3> QED BY <3>1, <3>2, <3>6
  <2> QED BY <2>2, <2>4, <2>5 DEF WindowsOK, RateInv
<1>13. CASE UNCHANGED vars
  BY <1>2, <1>3, <1>13 DEF vars
<1> QED BY <1>4, <1>5, <1>6, <1>7, <1>8, <1>9, <1>10, <1>11, <1>12, <1>13 DEF Next, CallStep
-----------------------------------------------------------------------------
\* RateKept, at one tool and one stretch of time.
LEMMA StretchKept ==
    ASSUME WindowsOK, NEW n \in Limited, NEW from \in 0..now
    PROVE  Cardinality(Granted(n, from..from + Window - MaxDelay)) <= MaxCalls
<1> DEFINE T == from..from + Window - MaxDelay
           S == Granted(n, T)
<1>1. /\ n \in Tool /\ granted[n] \in Seq(Nat) /\ WindowInv(granted[n], rate[n])
      /\ from \in Nat
  BY GateAssumption DEF WindowsOK, RateTypes, RateInv
<1>2. PICK g \in Seq(Nat) : g = granted[n]
  BY <1>1
<1>3. Window \in Nat /\ MaxDelay \in Nat /\ MaxCalls \in Nat /\ Len(g) \in Nat
  BY <1>2, GateAssumption
<1>4. S \in SUBSET (1..Len(g)) /\ \A i \in S : g[i] \in T
  BY <1>2 DEF Granted
<1>5. Spaced(g)
  BY <1>1, <1>2 DEF WindowInv
<1> HIDE DEF S
<1>6. CASE S = {}
  <2>1. Cardinality(S) = 0
    BY <1>6, FS_EmptySet
  <2> QED BY <1>3, <2>1 DEF S
<1>7. CASE S # {}
  <2>1. S \in SUBSET Nat
    BY <1>4
  <2>2. PICK m \in S : \A l \in S : m <= l
    BY <1>7, <2>1, LeastNat
  <2>3. ASSUME NEW i \in S PROVE i \in m..m + MaxCalls - 1
    <3>1. i \in Nat /\ m \in Nat /\ m <= i /\ i \in 1..Len(g) /\ m \in 1..Len(g)
      BY <1>4, <2>1, <2>2
    <3>2. PICK a \in Nat, b \in Nat : a = g[m] /\ b = g[i]
      BY <3>1
    <3>3. a \in T /\ b \in T
      BY <1>4, <3>2
    <3>4. from <= a /\ b + MaxDelay <= from + Window
      BY <1>1, <1>3, <3>3
    <3>5. ~(m + MaxCalls <= i)
      <4>1. SUFFICES ASSUME m + MaxCalls <= i PROVE FALSE
        OBVIOUS
      <4>2. a + Window < b + MaxDelay
        BY <1>5, <3>1, <3>2, <4>1 DEF Spaced
      <4> QED BY <1>1, <1>3, <3>4, <4>2
    <3> QED BY <1>3, <3>1, <3>5
  <2>4. m \in Int /\ m + MaxCalls - 1 \in Int /\ m <= m + MaxCalls - 1
    <3>1. m \in Nat /\ m \in m..m + MaxCalls - 1
      BY <2>1, <2>3
    <3> QED BY <1>3, <3>1
  <2>5. /\ IsFiniteSet(m..m + MaxCalls - 1)
        /\ Cardinality(m..m + MaxCalls - 1) = (m + MaxCalls - 1) - m + 1
    BY <2>4, FS_Interval
  <2>6. S \subseteq m..m + MaxCalls - 1
    BY <2>3
  <2>7. Cardinality(S) <= Cardinality(m..m + MaxCalls - 1)
    BY <2>5, <2>6, FS_Subset
  <2>8. (m + MaxCalls - 1) - m + 1 = MaxCalls
    BY <1>3, <2>4
  <2> QED BY <2>5, <2>7, <2>8 DEF S
<1> QED BY <1>6, <1>7

\* No more than MaxCalls calls of a limited tool pass in a stretch of time
\* (SafetyGuard::CheckActionRateLimit), for any number of threads and any delay
\* between the clock and the mutex up to MaxDelay.
THEOREM RateKeptAlways == Spec => []RateKept
<1>1. WindowsOK => RateKept
  BY StretchKept DEF RateKept
<1> QED BY <1>1, WindowsInit, WindowsStep, PTL DEF Spec
-----------------------------------------------------------------------------
\* Only the rate limit ends a call that has read the clock.
LEMMA OnlyLimitRefuses ==
    ASSUME WindowsOK, [Next]_vars, NEW t \in Thread,
           call[t].pc = "rate", call'[t].pc = "done"
    PROVE  CheckActionRateLimit(t)
<1>1. call = [u \in Thread |-> call[u]]
  BY DEF WindowsOK, CallsOK
<1>2. ~UNCHANGED call
  OBVIOUS
<1>3. ASSUME NEW u \in Thread, CallStep(u) PROVE CheckActionRateLimit(t)
  <2>1. CASE u # t
    <3>1. call'[t] = call[t]
      BY <1>1, <1>3, <2>1 DEF CallStep, CheckPolicy, Validate, CheckActionRateLimit, Execute,
                              Output, Goto, ReadClock
    <3> QED BY <3>1
  <2>2. CASE u = t
    BY <1>3, <2>2 DEF CallStep, CheckPolicy, Validate, Execute
  <2> QED BY <2>1, <2>2
<1>4. ASSUME NEW p \in Prompt, CheckIdleProgress(p) PROVE FALSE
  BY <1>4 DEF CheckIdleProgress, Free
<1>5. ASSUME NEW p \in Prompt, NEW calls, AskTools(p, calls) PROVE FALSE
  <2>1. call'[t] = IF t[1] = p /\ t[2] \in DOMAIN calls
                   THEN [Free EXCEPT !.pc = "policy", !.tool = calls[t[2]][1],
                                     !.arg = calls[t[2]][2]]
                   ELSE call[t]
    BY <1>5 DEF AskTools
  <2> QED BY <2>1 DEF Free
<1>6. ASSUME NEW p \in Prompt, Begin(p) \/ Finish(p) PROVE FALSE
  BY <1>2, <1>6 DEF Begin, Finish
<1>7. ASSUME NEW s \in Session, ResetSession(s) PROVE FALSE
  BY <1>2, <1>7 DEF ResetSession
<1>8. ~Tick
  BY <1>2 DEF Tick
<1> QED BY <1>2, <1>3, <1>4, <1>5, <1>6, <1>7, <1>8 DEF Next, vars

\* Every entry that the limit counts against a call belongs to a call that passed
\* in the last Window seconds and the delay.
LEMMA CountedPassed ==
    ASSUME WindowsOK, NEW t \in Thread, CheckActionRateLimit(t), call'[t].pc = "done"
    PROVE  Cardinality(Granted(call[t].tool, now - Window - MaxDelay..now)) >= MaxCalls
<1> DEFINE n == call[t].tool
           stamp == call[t].stamp
           kept == Prune(rate[n], stamp)
           T == now - Window - MaxDelay..now
           S == Granted(n, T)
<1>1. /\ now \in Nat /\ CallsOK /\ call[t].pc = "rate"
      /\ rate \in [Tool -> Seq(Nat)] /\ granted \in [Tool -> Seq(Nat)]
  BY DEF WindowsOK, RateTypes, CheckActionRateLimit
<1>2. /\ n \in Tool /\ stamp \in Nat /\ stamp <= now /\ now <= stamp + MaxDelay
  BY <1>1 DEF CallsOK, CallOK
<1>3. rate[n] \in Seq(Nat) /\ granted[n] \in Seq(Nat) /\ WindowInv(granted[n], rate[n])
  BY <1>1, <1>2 DEF WindowsOK, RateInv
<1>4. Len(kept) >= MaxCalls
  <2>1. ASSUME Goto(t, "run") PROVE FALSE
    <3>1. call'[t] = [call[t] EXCEPT !.pc = "run"] /\ CallOK(call[t])
      BY <1>1, <2>1 DEF Goto, CallsOK
    <3> QED BY <3>1 DEF CallOK
  <2> QED BY <2>1 DEF CheckActionRateLimit
<1>5. PICK g \in Seq(Nat), r \in Seq(Nat) : g = granted[n] /\ r = rate[n]
  BY <1>3
<1> HIDE DEF n, stamp
<1>6. PICK d \in 0..Len(r) :
         /\ Len(kept) = Len(r) - d
         /\ d < Len(r) => stamp <= r[d + 1] + Window
  BY <1>2, <1>5, PruneDrops
<1>7. /\ Len(g) \in Nat /\ Len(r) \in Nat /\ d \in Nat /\ d <= Len(r) /\ MaxCalls \in Nat
      /\ Window \in Nat /\ MaxDelay \in Nat
  BY GateAssumption
<1>8. /\ Len(r) <= Len(g) /\ InOrder(g)
      /\ \A k \in 1..Len(r) : r[k] <= g[Dropped(g, r) + k]
  BY <1>3, <1>5 DEF WindowInv, Aligned
<1>9. S = {i \in 1..Len(g) : g[i] \in T}
  BY <1>5 DEF Granted
<1>10. IsFiniteSet(1..Len(g)) /\ S \subseteq 1..Len(g)
  BY <1>7, <1>9, FS_Interval
<1>11. IsFiniteSet(S) /\ Cardinality(S) \in Nat
  BY <1>10, FS_Subset, FS_CardinalityType
<1> HIDE DEF kept, S
<1>12. CASE d = Len(r)
  BY <1>4, <1>6, <1>7, <1>11, <1>12 DEF S, n
<1>13. CASE d < Len(r)
  <2> DEFINE a == Len(g) - Len(r) + d + 1
  <2>1. /\ a \in 1..Len(g) /\ d + 1 \in 1..Len(r) /\ Dropped(g, r) + (d + 1) = a
    BY <1>7, <1>8, <1>13 DEF Dropped
  <2>2. PICK e \in Nat, f \in Nat : e = r[d + 1] /\ f = g[a]
    <3> HIDE DEF a
    <3>1. r[d + 1] \in Nat /\ g[a] \in Nat
      BY <2>1
    <3> QED BY <3>1
  <2>3. e <= f /\ stamp <= e + Window
    BY <1>6, <1>8, <1>13, <2>1, <2>2
  <2>4. now - Window - MaxDelay <= f
    BY <1>1, <1>2, <1>7, <2>3
  <2>5. a..Len(g) \subseteq S
    <3> SUFFICES ASSUME NEW i \in a..Len(g) PROVE i \in S
      OBVIOUS
    <3> HIDE DEF a
    <3>1. i \in 1..Len(g) /\ a <= i
      BY <1>7, <2>1
    <3>2. PICK h \in Nat : h = g[i]
      BY <3>1
    <3>3. f <= h /\ h <= now
      BY <1>8, <2>1, <2>2, <3>1, <3>2 DEF InOrder
    <3>4. h \in T
      BY <1>1, <1>7, <2>4, <3>3
    <3> QED BY <1>9, <3>1, <3>2, <3>4
  <2>6. a \in Int /\ Len(g) \in Int /\ a <= Len(g) /\ Len(g) - a + 1 = Len(r) - d
    BY <1>7, <2>1
  <2> HIDE DEF a
  <2>7. Cardinality(a..Len(g)) = Len(g) - a + 1
    BY <2>6, FS_Interval
  <2>8. Cardinality(a..Len(g)) <= Cardinality(S)
    BY <1>11, <2>5, FS_Subset
  <2> QED BY <1>4, <1>6, <1>7, <1>11, <2>6, <2>7, <2>8 DEF S, n
<1> QED BY <1>7, <1>12, <1>13

\* SafetyGuard refuses a call for its rate only when MaxCalls calls have passed
\* lately, although it drops old entries only up to the first young one.
THEOREM RefusalJustifiedAlways == Spec => RefusalJustified
<1> DEFINE Justified ==
      \A t \in Thread :
          call[t].pc = "rate" /\ call'[t].pc = "done" =>
              Cardinality(Granted(call[t].tool, now - Window - MaxDelay..now)) >= MaxCalls
<1>1. WindowsOK /\ [Next]_vars => [Justified]_vars
  <2> SUFFICES ASSUME WindowsOK, [Next]_vars, NEW t \in Thread,
                      call[t].pc = "rate", call'[t].pc = "done"
               PROVE  Cardinality(Granted(call[t].tool, now - Window - MaxDelay..now)) >= MaxCalls
    OBVIOUS
  <2> QED BY OnlyLimitRefuses, CountedPassed
<1> HIDE DEF Justified
<1>2. Spec => [][Justified]_vars
  BY <1>1, WindowsInit, WindowsStep, PTL DEF Spec
<1> QED BY <1>2 DEF RefusalJustified, Justified
-----------------------------------------------------------------------------
LEMMA IdleInit == Init => IdleInv
BY DEF Init, IdleInv

LEMMA IdleStep == IdleInv /\ [Next]_vars => IdleInv'
<1> SUFFICES ASSUME IdleInv, [Next]_vars PROVE IdleInv'
  OBVIOUS
<1>1. ASSUME UNCHANGED <<idle, prompt, own, alone>> PROVE IdleInv'
  BY <1>1 DEF IdleInv
<1>2. SessionOf \in [Prompt -> Session] /\ IdleWindow \in Nat /\ IdleWindow > 0
  BY GateAssumption
<1>3. ASSUME NEW p \in Prompt, Begin(p) PROVE IdleInv'
  <2>1. /\ prompt' = [prompt EXCEPT ![p] = [pc |-> "asking", iter |-> 0]]
        /\ idle' = [idle EXCEPT ![SessionOf[p]] = <<>>]
        /\ own' = [own EXCEPT ![p] = <<>>]
        /\ alone' = [q \in Prompt |->
                       IF q = p THEN TRUE ELSE alone[q] /\ q \notin Others(p)]
    BY <1>3 DEF Begin
  <2>2. ~IdleTest(<<>>)
    BY <1>2 DEF IdleTest
  <2>3. ASSUME NEW q \in Prompt, alone'[q]
        PROVE  own'[q] = idle'[SessionOf[q]] /\ (prompt'[q].pc = "stopped" <=> IdleTest(own'[q]))
    <3>1. CASE q = p
      <4>1. own'[q] = <<>> /\ idle'[SessionOf[q]] = <<>> /\ prompt'[q].pc = "asking"
        BY <1>2, <2>1, <3>1 DEF IdleInv
      <4> QED BY <2>2, <4>1
    <3>2. CASE q # p
      <4>1. alone[q] /\ SessionOf[q] # SessionOf[p]
        BY <2>1, <2>3, <3>2 DEF Others
      <4>2. own'[q] = own[q] /\ prompt'[q] = prompt[q] /\ idle'[SessionOf[q]] = idle[SessionOf[q]]
        BY <1>2, <2>1, <3>2, <4>1 DEF IdleInv
      <4> QED BY <4>1, <4>2 DEF IdleInv
    <3> QED BY <3>1, <3>2
  <2>4. /\ idle' = [s \in Session |-> idle'[s]] /\ own' = [q \in Prompt |-> own'[q]]
        /\ prompt' = [q \in Prompt |-> prompt'[q]] /\ alone' = [q \in Prompt |-> alone'[q]]
        /\ \A q \in Prompt : prompt'[q] = [pc |-> prompt'[q].pc, iter |-> prompt'[q].iter]
    BY <2>1 DEF IdleInv
  <2> QED BY <2>3, <2>4 DEF IdleInv, IdleTest
<1>4. ASSUME NEW p \in Prompt, Finish(p) PROVE IdleInv'
  <2>1. /\ prompt' = [prompt EXCEPT ![p] = [pc |-> "idle", iter |-> 0]] /\ idle' = idle
        /\ own' = [own EXCEPT ![p] = <<>>] /\ alone' = [alone EXCEPT ![p] = FALSE]
    BY <1>4 DEF Finish
  <2>2. ASSUME NEW q \in Prompt, alone'[q]
        PROVE  own'[q] = idle'[SessionOf[q]] /\ (prompt'[q].pc = "stopped" <=> IdleTest(own'[q]))
    <3>1. q # p
      BY <2>1, <2>2 DEF IdleInv
    <3>2. alone[q] /\ own'[q] = own[q] /\ prompt'[q] = prompt[q]
      BY <2>1, <2>2, <3>1 DEF IdleInv
    <3> QED BY <2>1, <3>2 DEF IdleInv
  <2>3. /\ idle' = [s \in Session |-> idle'[s]] /\ own' = [q \in Prompt |-> own'[q]]
        /\ prompt' = [q \in Prompt |-> prompt'[q]] /\ alone' = [q \in Prompt |-> alone'[q]]
        /\ \A q \in Prompt : prompt'[q] = [pc |-> prompt'[q].pc, iter |-> prompt'[q].iter]
    BY <2>1 DEF IdleInv
  <2> QED BY <2>2, <2>3 DEF IdleInv, IdleTest
<1>5. ASSUME NEW p \in Prompt, NEW calls, AskTools(p, calls) PROVE IdleInv'
  <2>1. /\ prompt[p].pc = "asking" /\ prompt' = [prompt EXCEPT ![p].pc = "tools"]
        /\ UNCHANGED <<idle, own, alone>>
    BY <1>5 DEF AskTools
  <2>2. \A q \in Prompt : prompt'[q].pc = "stopped" <=> prompt[q].pc = "stopped"
    BY <2>1 DEF IdleInv
  <2>3. /\ prompt' = [q \in Prompt |-> prompt'[q]]
        /\ \A q \in Prompt : prompt'[q] = [pc |-> prompt'[q].pc, iter |-> prompt'[q].iter]
    BY <2>1 DEF IdleInv
  <2> QED BY <2>1, <2>2, <2>3 DEF IdleInv
<1>6. ASSUME NEW p \in Prompt, CheckIdleProgress(p) PROVE IdleInv'
  <2> DEFINE seen == Last(IdleWindow, Append(idle[SessionOf[p]], Signature(p)))
             mine == Last(IdleWindow, Append(own[p], Signature(p)))
             place == IF IdleTest(seen) THEN "stopped" ELSE "asking"
  <2>1. /\ idle' = [idle EXCEPT ![SessionOf[p]] = seen]
        /\ prompt' = [prompt EXCEPT ![p].pc = place, ![p].iter = @ + 1]
        /\ own' = [own EXCEPT ![p] = mine]
        /\ alone' = [q \in Prompt |-> alone[q] /\ q \notin Others(p)]
    BY <1>6 DEF CheckIdleProgress
  <2>2. alone[p] => mine = seen
    BY DEF IdleInv
  <2> HIDE DEF seen, mine, place
  <2>5. \A q \in Prompt :
           /\ prompt'[q] = [pc |-> prompt'[q].pc, iter |-> prompt'[q].iter]
           /\ prompt'[q] = IF q = p THEN [pc |-> place, iter |-> prompt[p].iter + 1] ELSE prompt[q]
    <3>1. prompt[p] = [pc |-> prompt[p].pc, iter |-> prompt[p].iter]
      BY DEF IdleInv
    <3>2. prompt'[p] = [[prompt[p] EXCEPT !.pc = place] EXCEPT !.iter = prompt[p].iter + 1]
      <4>1. prompt = [q \in Prompt |-> prompt[q]]
        BY DEF IdleInv
      <4> QED BY <2>1, <3>1, <4>1
    <3>3. prompt'[p] = [pc |-> place, iter |-> prompt[p].iter + 1]
      BY <3>1, <3>2
    <3>4. \A q \in Prompt \ {p} : prompt'[q] = prompt[q]
      BY <2>1 DEF IdleInv
    <3> QED BY <3>3, <3>4 DEF IdleInv
  <2>3. ASSUME NEW q \in Prompt, alone'[q]
        PROVE  own'[q] = idle'[SessionOf[q]] /\ (prompt'[q].pc = "stopped" <=> IdleTest(own'[q]))
    <3>0. alone[q] /\ q \notin Others(p)
      BY <2>1, <2>3
    <3>1. CASE q = p
      <4>0. idle = [x \in Session |-> idle[x]] /\ own = [x \in Prompt |-> own[x]]
        BY DEF IdleInv
      <4>1. own'[q] = seen /\ idle'[SessionOf[q]] = seen
        BY <1>2, <2>1, <2>2, <3>0, <3>1, <4>0
      <4>2. prompt'[q].pc = place
        <5>1. prompt'[q] = [pc |-> place, iter |-> prompt[p].iter + 1]
          BY <2>5, <3>1
        <5> QED BY <5>1
      <4>3. place = "stopped" <=> IdleTest(seen)
        BY DEF place
      <4> QED BY <4>1, <4>2, <4>3
    <3>2. CASE q # p
      <4>1. alone[q] /\ SessionOf[q] # SessionOf[p]
        BY <3>0, <3>2 DEF Others
      <4>2. own'[q] = own[q] /\ prompt'[q] = prompt[q] /\ idle'[SessionOf[q]] = idle[SessionOf[q]]
        BY <1>2, <2>1, <2>5, <3>2, <4>1 DEF IdleInv
      <4> QED BY <4>1, <4>2 DEF IdleInv
    <3> QED BY <3>1, <3>2
  <2>4. /\ idle' = [s \in Session |-> idle'[s]] /\ own' = [q \in Prompt |-> own'[q]]
        /\ prompt' = [q \in Prompt |-> prompt'[q]] /\ alone' = [q \in Prompt |-> alone'[q]]
    BY <2>1 DEF IdleInv
  <2> QED BY <2>3, <2>4, <2>5 DEF IdleInv, IdleTest
<1>7. ASSUME NEW t \in Thread, CallStep(t) PROVE IdleInv'
  BY <1>1, <1>7 DEF CallStep, CheckPolicy, Validate, CheckActionRateLimit, Execute, promptVars
<1>8. ASSUME NEW s \in Session, ResetSession(s) PROVE IdleInv'
  <2>1. /\ idle' = [idle EXCEPT ![s] = <<>>] /\ UNCHANGED <<prompt, own>>
        /\ alone' = [p \in Prompt |-> alone[p] /\ SessionOf[p] # s]
    BY <1>8 DEF ResetSession
  <2>2. ASSUME NEW q \in Prompt, alone'[q]
        PROVE  own'[q] = idle'[SessionOf[q]] /\ (prompt'[q].pc = "stopped" <=> IdleTest(own'[q]))
    <3>1. alone[q] /\ SessionOf[q] # s
      BY <2>1, <2>2
    <3>2. idle'[SessionOf[q]] = idle[SessionOf[q]]
      BY <1>2, <2>1, <3>1 DEF IdleInv
    <3> QED BY <2>1, <3>1, <3>2 DEF IdleInv
  <2>3. idle' = [x \in Session |-> idle'[x]] /\ alone' = [q \in Prompt |-> alone'[q]]
    BY <2>1 DEF IdleInv
  <2> QED BY <2>1, <2>2, <2>3 DEF IdleInv, IdleTest
<1>9. CASE Tick
  BY <1>1, <1>9 DEF Tick, promptVars
<1>10. CASE UNCHANGED vars
  BY <1>1, <1>10 DEF vars
<1> QED BY <1>3, <1>4, <1>5, <1>6, <1>7, <1>8, <1>9, <1>10 DEF Next

\* A prompt alone on its session is stopped as idle exactly when its last
\* IdleWindow iterations had the same outputs (ToolPolicy::CheckIdleProgress).
THEOREM IdleExactAlways == Spec => []IdleExact
<1>1. IdleInv => IdleExact
  BY GateAssumption DEF IdleInv, IdleExact, IdleTest
<1> QED BY <1>1, IdleInit, IdleStep, PTL DEF Spec
=============================================================================
