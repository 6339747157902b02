------------------------ MODULE SessionHistoryProofs -----------------------
(***************************************************************************)
(* What holds of a conversation for every set of prompts and every limit:  *)
(* the history is bounded and ordered, in memory and in the file, and no   *)
(* tool result is sent to the model without its call.                      *)
(***************************************************************************)
EXTENDS SessionHistory, TLAPS, FiniteSetTheorems, WellFoundedInduction, SequenceTheorems

\* p is between a response with tool calls and the next one.
Busy(p) == pc[p] \in {"run", "check"} \/ (pc[p] = "summarise" /\ ret[p] = "check")

IterOK == \A p \in Prompt : Busy(p) => iter[p] < MaxIter

\* Who waits for a summary has taken session_compacting_, and has it alone.
CompactOK ==
    \A p \in Prompt : pc[p] = "summarise" =>
        /\ compacting
        /\ batch[p] # <<>>
        /\ \A q \in Prompt : pc[q] = "summarise" => q = p

\* Without an entry there is no history, and before Shutdown a file only when
\* nobody is at work.
Absent ==
    ~present => /\ hist = <<>>
                /\ file # <<>> /\ ~closing => \A p \in Prompt : pc[p] \in {"new", "done"}

\* The prompts that may have left one message above the limit, and the results
\* that the compacting one has appended before its trim.
Over == {p \in Prompt : \/ pc[p] \in {"run", "done"}
                        \/ pc[p] = "summarise" /\ ref[p] = object}
Begun == {p \in Prompt : pc[p] # "new"}
Slack == IF \E p \in Prompt : pc[p] = "summarise" /\ ref[p] = object THEN MaxTools ELSE 0

SizeOK ==
    /\ Len(hist) <= MaxHistory + Cardinality(Over) + Slack
    /\ Len(file) <= MaxHistory + Cardinality(Begun) + MaxTools

\* The stage that p has reached, and that of the step after a trim.
StageAt(then, i) == CASE then = "ask" -> 3 * i
                      [] then = "check" -> 3 * i + 2
                      [] OTHER -> 3 * i + 3
Reached(p) == CASE pc[p] = "new" -> -2
                [] pc[p] = "run" -> 3 * iter[p] + 1
                [] pc[p] = "summarise" -> StageAt(ret[p], iter[p])
                [] OTHER -> StageAt(pc[p], iter[p])

\* No message of the history, nor of the file that a prompt may load after
\* Shutdown, is ahead of its prompt.
Behind(h, p) == \A i \in 1..Len(h) : h[i].by = p => Stage(h[i]) <= Reached(p)

BehindOK ==
    \A p \in Prompt : pc[p] # "done" => Behind(hist, p) /\ Behind(file, p)

\* No result before its call.
Closed(l) ==
    \A j \in 1..Len(l) : l[j].role = "tool" => \E i \in 1..(j - 1) : Answers(l[j], l[i])

LocalOK ==
    \A p \in Prompt :
        /\ pc[p] = "ask" \/ Busy(p) => Closed(local[p])
        /\ Busy(p) => \E i \in 1..Len(local[p]) : local[p][i] = Message("call", p, iter[p])

HInv == /\ TypeOK /\ IterOK /\ CompactOK /\ Absent /\ SizeOK /\ HistoryOrdered
        /\ BehindOK /\ LocalOK
-----------------------------------------------------------------------------
\* g is a part of h that nothing was taken out of.
Window(g, h) ==
    /\ g \in Seq(Msg) /\ Len(g) <= Len(h)
    /\ \E d \in Nat : /\ d + Len(g) <= Len(h)
                      /\ \A i \in 1..Len(g) : g[i] = h[i + d]

LEMMA LenNat ==
    ASSUME NEW h \in Seq(Msg)
    PROVE  Len(h) \in Nat
BY LenProperties

LEMMA SameWindow ==
    ASSUME NEW h \in Seq(Msg)
    PROVE  Window(h, h)
<1>1. Len(h) \in Nat /\ 0 \in Nat /\ 0 + Len(h) <= Len(h)
  BY LenNat
<1>2. \A i \in 1..Len(h) : h[i] = h[i + 0]
  BY <1>1
<1>3. \E d \in Nat : d + Len(h) <= Len(h) /\ \A i \in 1..Len(h) : h[i] = h[i + d]
  <2> WITNESS 0 \in Nat
  <2> QED BY <1>1, <1>2
<1> QED BY <1>1, <1>3 DEF Window

LEMMA SubSeqWindow ==
    ASSUME NEW h \in Seq(Msg), NEW a \in Nat, a >= 1, NEW b \in Nat, b <= Len(h), a <= b + 1
    PROVE  /\ Window(SubSeq(h, a, b), h)
           /\ Len(SubSeq(h, a, b)) = b - a + 1
<1>0. Len(h) \in Nat
  BY LenNat
<1>1. \A i \in a..b : h[i] \in Msg
  <2> TAKE i \in a..b
  <2>1. i \in 1..Len(h)
    BY <1>0
  <2> QED BY <2>1, ElementOfSeq
<1>2. SubSeq(h, a, b) \in Seq(Msg)
  BY <1>0, <1>1, SubSeqProperties
<1>3. Len(SubSeq(h, a, b)) = b - a + 1
  BY <1>0, <1>1, SubSeqProperties
<1>4. a - 1 \in Nat /\ (a - 1) + (b - a + 1) <= Len(h) /\ b - a + 1 <= Len(h)
  BY <1>0
<1>5. ASSUME NEW i \in 1..(b - a + 1)
      PROVE  SubSeq(h, a, b)[i] = h[i + (a - 1)]
  BY <1>0, <1>1, SubSeqProperties
<1> QED BY <1>2, <1>3, <1>4, <1>5 DEF Window

LEMMA WindowOrdered ==
    ASSUME NEW h \in Seq(Msg), NEW g, Window(g, h), Ordered(h)
    PROVE  Ordered(g)
<1>1. PICK d \in Nat : /\ d + Len(g) <= Len(h)
                       /\ \A i \in 1..Len(g) : g[i] = h[i + d]
  BY DEF Window
<1>2. Len(g) \in Nat /\ Len(h) \in Nat
  BY LenNat DEF Window
<1>3. ASSUME NEW i \in 1..Len(g), NEW j \in 1..Len(g), i < j
      PROVE  /\ g[j].role # "summary"
             /\ g[i].by = g[j].by => Stage(g[i]) <= Stage(g[j])
  <2>1. i + d \in 1..Len(h) /\ j + d \in 1..Len(h) /\ i + d < j + d
    BY <1>1, <1>2, <1>3
  <2>2. g[i] = h[i + d] /\ g[j] = h[j + d]
    BY <1>1
  <2>3. /\ h[j + d].role # "summary"
        /\ h[i + d].by = h[j + d].by => Stage(h[i + d]) <= Stage(h[j + d])
    BY <2>1 DEF Ordered
  <2> QED BY <2>2, <2>3
<1> QED BY <1>3 DEF Ordered

\* The messages of a window are messages of the whole.
LEMMA WindowMember ==
    ASSUME NEW h \in Seq(Msg), NEW g, Window(g, h), NEW i \in 1..Len(g)
    PROVE  \E k \in 1..Len(h) : g[i] = h[k]
<1>1. PICK d \in Nat : /\ d + Len(g) <= Len(h)
                       /\ \A j \in 1..Len(g) : g[j] = h[j + d]
  BY DEF Window
<1>2. Len(g) \in Nat /\ Len(h) \in Nat
  BY LenNat DEF Window
<1>3. i + d \in 1..Len(h) /\ g[i] = h[i + d]
  BY <1>1, <1>2
<1> QED BY <1>3

LEMMA NewestWindow ==
    ASSUME NEW h \in Seq(Msg), NEW n \in Nat
    PROVE  /\ Window(Newest(h, n), h)
           /\ Len(Newest(h, n)) <= n /\ Len(Newest(h, n)) <= Len(h)
           /\ n > 0 /\ h # <<>> => Newest(h, n) # <<>>
<1>0. Len(h) \in Nat
  BY LenNat
<1>1. CASE Len(h) > n
  <2>1. Newest(h, n) = SubSeq(h, Len(h) - n + 1, Len(h))
    BY <1>1 DEF Newest, Last
  <2>2. Len(h) - n + 1 \in Nat /\ Len(h) - n + 1 >= 1 /\ Len(h) - n + 1 <= Len(h) + 1
    BY <1>0, <1>1
  <2>3. Window(Newest(h, n), h) /\ Len(Newest(h, n)) = Len(h) - (Len(h) - n + 1) + 1
    BY <1>0, <2>1, <2>2, SubSeqWindow
  <2>4. Len(Newest(h, n)) = n
    BY <1>0, <2>3
  <2>5. n > 0 => Newest(h, n) # <<>>
    <3> SUFFICES ASSUME n > 0, Newest(h, n) = <<>> PROVE FALSE
      OBVIOUS
    <3>1. Len(<<>>) = 0
      OBVIOUS
    <3> QED BY <3>1, <2>4
  <2> QED BY <1>0, <1>1, <2>3, <2>4, <2>5
<1>2. CASE ~(Len(h) > n)
  BY <1>0, <1>2, SameWindow DEF Newest
<1> QED BY <1>1, <1>2

LEMMA HardTrimWindow ==
    ASSUME NEW h \in Seq(Msg)
    PROVE  /\ Window(HardTrim(h), h)
           /\ Len(HardTrim(h)) <= MaxHistory /\ Len(HardTrim(h)) <= Len(h)
           /\ h # <<>> => HardTrim(h) # <<>>
BY HistoryAssumption, NewestWindow DEF HardTrim

LEMMA SavedWindow ==
    ASSUME NEW h \in Seq(Msg)
    PROVE  Window(Saved(h), h) /\ Len(Saved(h)) <= Len(h)
<1>1. (IF FileLimit > 2 THEN FileLimit ELSE 2) \in Nat
  BY HistoryAssumption
<1> QED BY <1>1, NewestWindow DEF Saved
-----------------------------------------------------------------------------
\* What CompactHistory summarises.

\* A non-empty set of natural numbers has a least element.
LEMMA LeastNat ==
    ASSUME NEW T \in SUBSET Nat, T # {}
    PROVE  \E k \in T : \A l \in T : k <= l
<1>1. IsWellFoundedOn(OpToRel(<, Nat), Nat)
  BY NatLessThanWellFounded
<1>2. PICK k \in T : \A l \in T : ~(<<l, k>> \in OpToRel(<, Nat))
  BY <1>1, WFMin, Zenon
<1>3. ASSUME NEW l \in T PROVE k <= l
  <2>1. l \in Nat /\ k \in Nat
    OBVIOUS
  <2>2. ~(l < k)
    BY <1>2, <2>1 DEF OpToRel
  <2> QED BY <2>1, <2>2
<1> QED BY <1>3

LEMMA LeastIn ==
    ASSUME NEW T \in SUBSET Nat, T # {}
    PROVE  Least(T) \in T
BY LeastNat DEF Least

\* The batch is not empty and not longer than the history.
LEMMA BatchInside ==
    ASSUME NEW h \in Seq(Msg), Len(h) > Threshold
    PROVE  BatchSize(h) \in Nat /\ BatchSize(h) >= 2 /\ BatchSize(h) <= Len(h)
<1>0. Len(h) \in Nat /\ CompactCount \in Nat /\ CompactCount >= 2 /\ CompactCount <= Len(h)
  BY LenNat, HistoryAssumption
<1> DEFINE P == {k \in CompactCount..Len(h) : k >= Len(h) - 2 \/ h[k].role # "tool"}
           T(n) == {k \in n..Len(h) : k >= Len(h) - 2 \/ h[k + 1].role # "tool"}
<1>1. P \in SUBSET Nat /\ Len(h) \in P
  BY <1>0
<1>2. Least(P) \in P
  BY <1>1, LeastIn
<1>3. PICK n \in Nat : n = PastResults(h) /\ n >= CompactCount /\ n <= Len(h)
  <2>1. PICK k \in P : k = PastResults(h)
    BY <1>2, Zenon DEF PastResults
  <2>2. k \in Nat /\ k >= CompactCount /\ k <= Len(h)
    BY <1>0, <2>1
  <2> QED BY <2>1, <2>2
<1>4. T(n) \in SUBSET Nat /\ Len(h) \in T(n)
  BY <1>0, <1>3
<1>5. Least(T(n)) \in T(n)
  BY <1>4, LeastIn
<1>6. ToolsEnd(h, n) \in Nat /\ ToolsEnd(h, n) >= n /\ ToolsEnd(h, n) <= Len(h)
  BY <1>0, <1>3, <1>5 DEF ToolsEnd
<1> QED BY <1>0, <1>3, <1>6 DEF BatchSize
-----------------------------------------------------------------------------
\* What SanitizeHistory keeps.

\* Messages keep their order, ...
KeepsOrder(l, h, n) ==
    \A j \in 1..Len(l) :
        \E k \in 1..n : /\ l[j] = h[k]
                        /\ Stays(h, h[k])
                        /\ \A c \in 1..(k - 1) :
                              Stays(h, h[c]) => \E e \in 1..(j - 1) : l[e] = h[c]

\* ... and what stays is there.
KeepsAll(l, h, n) ==
    \A c \in 1..n : Stays(h, h[c]) => \E e \in 1..Len(l) : l[e] = h[c]

KeptOK(l, h, n) == l \in Seq(Msg) /\ KeepsOrder(l, h, n) /\ KeepsAll(l, h, n)

LEMMA KeptStep ==
    ASSUME NEW h \in Seq(Msg), NEW n \in Nat, n + 1 <= Len(h), NEW l, KeptOK(l, h, n)
    PROVE  /\ Stays(h, h[n + 1]) => KeptOK(Append(l, h[n + 1]), h, n + 1)
           /\ ~Stays(h, h[n + 1]) => KeptOK(l, h, n + 1)
<1>0. Len(h) \in Nat /\ Len(l) \in Nat /\ l \in Seq(Msg) /\ n + 1 \in 1..Len(h)
  BY LenNat DEF KeptOK
<1>m. h[n + 1] \in Msg
  BY <1>0, ElementOfSeq
<1>1. ASSUME Stays(h, h[n + 1])
      PROVE  KeptOK(Append(l, h[n + 1]), h, n + 1)
  <2>1. PICK g \in Seq(Msg) : g = Append(l, h[n + 1])
    BY <1>0, <1>m, AppendProperties
  <2>2. Len(g) = Len(l) + 1 /\ g[Len(l) + 1] = h[n + 1] /\ \A j \in 1..Len(l) : g[j] = l[j]
    BY <1>0, <1>m, <2>1, AppendProperties
  <2>3. ASSUME NEW j \in 1..Len(g)
        PROVE  \E k \in 1..(n + 1) : /\ g[j] = h[k]
                                     /\ Stays(h, h[k])
                                     /\ \A c \in 1..(k - 1) :
                                          Stays(h, h[c]) => \E e \in 1..(j - 1) : g[e] = h[c]
    <3>1. CASE j = Len(l) + 1
      <4>1. g[j] = h[n + 1] /\ n + 1 \in 1..(n + 1)
        BY <2>2, <3>1
      <4>2. ASSUME NEW c \in 1..((n + 1) - 1), Stays(h, h[c])
            PROVE  \E e \in 1..(j - 1) : g[e] = h[c]
        <5>1. c \in 1..n
          OBVIOUS
        <5>2. PICK e \in 1..Len(l) : l[e] = h[c]
          BY <4>2, <5>1 DEF KeptOK, KeepsAll
        <5>3. e \in 1..(j - 1) /\ g[e] = l[e]
          BY <1>0, <2>2, <3>1
        <5> QED BY <5>2, <5>3
      <4> QED BY <4>1, <4>2, <1>1
    <3>2. CASE j # Len(l) + 1
      <4>1. j \in 1..Len(l) /\ g[j] = l[j]
        BY <1>0, <2>2, <3>2
      <4>2. PICK k \in 1..n : /\ l[j] = h[k]
                              /\ Stays(h, h[k])
                              /\ \A c \in 1..(k - 1) :
                                   Stays(h, h[c]) => \E e \in 1..(j - 1) : l[e] = h[c]
        BY <4>1 DEF KeptOK, KeepsOrder
      <4>3. \A e \in 1..(j - 1) : g[e] = l[e]
        BY <1>0, <2>2, <4>1
      <4>4. k \in 1..(n + 1) /\ g[j] = h[k]
        BY <4>1, <4>2
      <4>5. ASSUME NEW c \in 1..(k - 1), Stays(h, h[c])
            PROVE  \E e \in 1..(j - 1) : g[e] = h[c]
        <5>1. PICK e \in 1..(j - 1) : l[e] = h[c]
          BY <4>2, <4>5
        <5> QED BY <5>1, <4>3
      <4> QED BY <4>2, <4>4, <4>5
    <3> QED BY <3>1, <3>2
  <2>4. ASSUME NEW c \in 1..(n + 1), Stays(h, h[c])
        PROVE  \E e \in 1..Len(g) : g[e] = h[c]
    <3>1. CASE c = n + 1
      <4>1. Len(l) + 1 \in 1..Len(g) /\ g[Len(l) + 1] = h[c]
        BY <1>0, <2>2, <3>1
      <4> QED BY <4>1
    <3>2. CASE c # n + 1
      <4>1. PICK e \in 1..Len(l) : l[e] = h[c]
        BY <2>4, <3>2 DEF KeptOK, KeepsAll
      <4>2. e \in 1..Len(g) /\ g[e] = h[c]
        BY <1>0, <2>2, <4>1
      <4> QED BY <4>2
    <3> QED BY <3>1, <3>2
  <2>5. KeepsOrder(g, h, n + 1)
    BY <2>3 DEF KeepsOrder
  <2>6. KeepsAll(g, h, n + 1)
    BY <2>4 DEF KeepsAll
  <2>7. KeptOK(g, h, n + 1)
    BY <2>5, <2>6 DEF KeptOK
  <2> QED BY <2>1, <2>7
<1>2. ASSUME ~Stays(h, h[n + 1])
      PROVE  KeptOK(l, h, n + 1)
  <2>1. KeepsOrder(l, h, n + 1)
    <3>1. 1..n \subseteq 1..(n + 1)
      OBVIOUS
    <3> QED BY <3>1 DEF KeptOK, KeepsOrder
  <2>2. KeepsAll(l, h, n + 1)
    <3>1. \A c \in 1..(n + 1) : c = n + 1 \/ c \in 1..n
      OBVIOUS
    <3> QED BY <1>2, <3>1 DEF KeptOK, KeepsAll
  <2> QED BY <1>0, <2>1, <2>2 DEF KeptOK
<1> QED BY <1>1, <1>2

KeptThen(k, h, i) == IF i = 0 THEN <<>>
                     ELSE IF Stays(h, h[i]) THEN Append(k[i - 1], h[i])
                     ELSE k[i - 1]
IsKept(h, m, k) == k = [i \in 0..m |-> KeptThen(k, h, i)]

\* The recursive function of SanitizeHistory exists ...
LEMMA KeptExists ==
    ASSUME NEW h, NEW m \in Nat
    PROVE  \E k : IsKept(h, m, k)
<1> DEFINE T == {i \in Nat : ~\E k : IsKept(h, i, k)}
<1>1. SUFFICES ASSUME T # {} PROVE FALSE
  BY Zenon
<1>2. PICK n \in T : \A l \in T : n <= l
  <2>1. T \in SUBSET Nat
    OBVIOUS
  <2> HIDE DEF T
  <2> QED BY <1>1, <2>1, LeastNat
<1>3. n \in Nat /\ ~\E k : IsKept(h, n, k)
  OBVIOUS
<1>4. CASE n = 0
  <2> DEFINE g == [i \in 0..n |-> <<>>]
  <2>1. \A i \in 0..n : g[i] = KeptThen(g, h, i)
    BY <1>4 DEF KeptThen
  <2>2. g = [i \in 0..n |-> g[i]]
    OBVIOUS
  <2> HIDE DEF g
  <2>3. g = [i \in 0..n |-> KeptThen(g, h, i)]
    BY <2>1, <2>2
  <2> QED BY <1>3, <2>3 DEF IsKept
<1>5. CASE n # 0
  <2>1. n - 1 \in Nat /\ ~(n <= n - 1)
    BY <1>3, <1>5
  <2>2. PICK f : f = [i \in 0..n - 1 |-> KeptThen(f, h, i)]
    BY <1>2, <2>1 DEF IsKept
  <2> DEFINE g == [i \in 0..n |-> IF i = n THEN KeptThen(f, h, n) ELSE f[i]]
  <2>3. ASSUME NEW i \in 0..n PROVE g[i] = KeptThen(g, h, i)
    <3>1. i # 0 => i - 1 \in 0..n - 1 /\ i - 1 \in 0..n /\ i - 1 # n
      BY <1>3
    <3>2. i # 0 => g[i - 1] = f[i - 1]
      BY <3>1
    <3>3. KeptThen(g, h, i) = KeptThen(f, h, i)
      <4> HIDE DEF g
      <4> QED BY <3>2 DEF KeptThen
    <3>4. CASE i = n
      BY <3>3, <3>4
    <3>5. CASE i # n
      <4>1. i \in 0..n - 1
        BY <1>3, <3>5
      <4>2. f[i] = KeptThen(f, h, i)
        BY <2>2, <4>1
      <4> QED BY <3>3, <3>5, <4>2
    <3> QED BY <3>4, <3>5
  <2>4. g = [i \in 0..n |-> g[i]]
    OBVIOUS
  <2> HIDE DEF g
  <2>5. g = [i \in 0..n |-> KeptThen(g, h, i)]
    BY <2>3, <2>4
  <2> QED BY <1>3, <2>5 DEF IsKept
<1> QED BY <1>4, <1>5

LEMMA SanitizeIs ==
    ASSUME NEW h \in Seq(Msg)
    PROVE  \E k : IsKept(h, Len(h), k) /\ SanitizeHistory(h) = k[Len(h)]
<1>1. Len(h) \in Nat
  BY LenNat
<1>2. PICK m \in Nat : m = Len(h)
  BY <1>1
<1>3. \E k : IsKept(h, m, k)
  BY KeptExists
<1>4. \E k : k = [i \in 0..Len(h) |-> KeptThen(k, h, i)]
  BY <1>2, <1>3 DEF IsKept
<1> DEFINE kept == CHOOSE k : k = [i \in 0..Len(h) |-> KeptThen(k, h, i)]
<1>5. SanitizeHistory(h) = kept[Len(h)]
  BY DEF SanitizeHistory, KeptThen
<1>6. kept = [i \in 0..Len(h) |-> KeptThen(kept, h, i)]
  BY <1>4
<1> HIDE DEF kept
<1> QED BY <1>5, <1>6 DEF IsKept

\* ... and what it returns.
LEMMA SanitizeKeeps ==
    ASSUME NEW h \in Seq(Msg)
    PROVE  KeptOK(SanitizeHistory(h), h, Len(h))
<1>0. PICK m \in Nat : m = Len(h)
  BY LenNat
<1>1. PICK k : IsKept(h, m, k) /\ SanitizeHistory(h) = k[m]
  BY <1>0, SanitizeIs
<1>2. \A i \in 0..m : k[i] = KeptThen(k, h, i)
  BY <1>1 DEF IsKept
<1> DEFINE T == {i \in 0..m : ~KeptOK(k[i], h, i)}
<1>3. SUFFICES ASSUME T # {} PROVE FALSE
  <2>1. m \in 0..m
    OBVIOUS
  <2> QED BY <1>0, <1>1, <2>1, Zenon
<1>4. PICK n \in T : \A l \in T : n <= l
  <2>1. T \in SUBSET Nat
    OBVIOUS
  <2> HIDE DEF T
  <2> QED BY <1>3, <2>1, LeastNat
<1>5. n \in 0..m /\ ~KeptOK(k[n], h, n)
  OBVIOUS
<1>6. n # 0
  <2>1. k[0] = <<>>
    BY <1>2 DEF KeptThen
  <2>2. <<>> \in Seq(Msg) /\ 1..Len(<<>>) = {}
    BY EmptySeq
  <2>3. 1..0 = {}
    OBVIOUS
  <2>4. KeptOK(<<>>, h, 0)
    BY <2>2, <2>3, Zenon DEF KeptOK, KeepsOrder, KeepsAll
  <2> QED BY <1>5, <2>1, <2>4
<1>7. PICK j \in Nat : j = n - 1 /\ n = j + 1 /\ j \in 0..m /\ ~(n <= j) /\ j + 1 <= Len(h)
  BY <1>0, <1>5, <1>6
<1>8. KeptOK(k[j], h, j)
  BY <1>4, <1>7
<1>9. CASE Stays(h, h[j + 1])
  <2>1. k[n] = Append(k[j], h[j + 1])
    BY <1>2, <1>5, <1>6, <1>7, <1>9 DEF KeptThen
  <2> QED BY <1>5, <1>7, <1>8, <1>9, <2>1, KeptStep
<1>10. CASE ~Stays(h, h[j + 1])
  <2>1. k[n] = k[j]
    BY <1>2, <1>5, <1>6, <1>7, <1>10 DEF KeptThen
  <2> QED BY <1>5, <1>7, <1>8, <1>10, <2>1, KeptStep
<1> QED BY <1>9, <1>10

\* A result does not come before its call in an ordered history.
LEMMA CallFirst ==
    ASSUME NEW h \in Seq(Msg), Ordered(h), NEW k \in 1..Len(h), NEW c \in 1..Len(h),
           h[k].role = "tool", Answers(h[k], h[c])
    PROVE  c \in 1..(k - 1)
<1>0. Len(h) \in Nat /\ h[k] \in Msg /\ h[c] \in Msg
  BY LenNat, ElementOfSeq
<1>1. PICK n \in Nat : n = h[k].it /\ n = h[c].it
  BY <1>0 DEF Answers, Msg
<1>2. Stage(h[k]) = 3 * n + 2 /\ Stage(h[c]) = 3 * n + 1
  BY <1>1 DEF Answers, Stage
<1>3. c # k
  BY DEF Answers
<1>4. ~(k < c)
  BY <1>2 DEF Ordered, Answers
<1> QED BY <1>0, <1>3, <1>4

\* What SanitizeHistory makes of an ordered history can be sent.
LEMMA SanitizeClosed ==
    ASSUME NEW h \in Seq(Msg), Ordered(h)
    PROVE  SanitizeHistory(h) \in Seq(Msg) /\ Closed(SanitizeHistory(h))
<1>1. PICK l : l = SanitizeHistory(h) /\ KeptOK(l, h, Len(h))
  BY SanitizeKeeps
<1>2. l \in Seq(Msg)
  BY <1>1 DEF KeptOK
<1>3. ASSUME NEW j \in 1..Len(l), l[j].role = "tool"
      PROVE  \E i \in 1..(j - 1) : Answers(l[j], l[i])
  <2>1. PICK k \in 1..Len(h) :
           /\ l[j] = h[k]
           /\ Stays(h, h[k])
           /\ \A c \in 1..(k - 1) : Stays(h, h[c]) => \E e \in 1..(j - 1) : l[e] = h[c]
    BY <1>1 DEF KeptOK, KeepsOrder
  <2>2. PICK c \in 1..Len(h) : Answers(h[k], h[c])
    BY <1>3, <2>1 DEF Stays
  <2>3. c \in 1..(k - 1)
    BY <1>3, <2>1, <2>2, CallFirst
  <2>4. Stays(h, h[c])
    BY <2>2 DEF Answers, Stays
  <2>5. PICK e \in 1..(j - 1) : l[e] = h[c]
    BY <2>1, <2>3, <2>4
  <2> QED BY <2>1, <2>2, <2>5
<1> QED BY <1>1, <1>2, <1>3 DEF Closed
-----------------------------------------------------------------------------
\* How many messages there are.

LEMMA CountPrompts ==
    ASSUME NEW S \in SUBSET Prompt, NEW T \in SUBSET Prompt, S \subseteq T
    PROVE  /\ Cardinality(S) \in Nat /\ Cardinality(T) \in Nat
           /\ Cardinality(S) <= Cardinality(T)
           /\ \A p \in T \ S : Cardinality(S) + 1 <= Cardinality(T)
<1>0. IsFiniteSet(Prompt)
  BY HistoryAssumption
<1>1. IsFiniteSet(S) /\ IsFiniteSet(T)
  BY <1>0, FS_Subset
<1>2. Cardinality(S) \in Nat /\ Cardinality(T) \in Nat /\ Cardinality(S) <= Cardinality(T)
  BY <1>1, FS_Subset, FS_CardinalityType
<1>3. ASSUME NEW p \in T \ S
      PROVE  Cardinality(S) + 1 <= Cardinality(T)
  <2>1. IsFiniteSet(S \cup {p}) /\ Cardinality(S \cup {p}) = Cardinality(S) + 1
    BY <1>1, FS_AddElement
  <2>2. S \cup {p} \subseteq T
    OBVIOUS
  <2>3. Cardinality(S \cup {p}) <= Cardinality(T)
    BY <1>1, <2>2, FS_Subset
  <2> QED BY <2>1, <2>3
<1> QED BY <1>2, <1>3

\* A step of p leaves the other prompts and the identity of the vector alone.
Others(p) ==
    /\ \A q \in Prompt : q # p =>
          /\ pc'[q] = pc[q] /\ iter'[q] = iter[q] /\ local'[q] = local[q]
          /\ ret'[q] = ret[q] /\ ref'[q] = ref[q] /\ batch'[q] = batch[q]
    /\ object' = object

InOver(p) == pc[p] \in {"run", "done"} \/ (pc[p] = "summarise" /\ ref[p] = object)

LEMMA SizeTypes ==
    ASSUME TypeOK
    PROVE  /\ Cardinality(Over) \in Nat /\ Cardinality(Begun) \in Nat
           /\ Cardinality(Over) <= Cardinality(Begun)
           /\ Slack \in Nat /\ Slack <= MaxTools /\ MaxTools \in Nat /\ MaxHistory \in Nat
           /\ Len(hist) \in Nat /\ Len(file) \in Nat
<1>1. Over \in SUBSET Prompt /\ Begun \in SUBSET Prompt /\ Over \subseteq Begun
  BY DEF Over, Begun
<1>2. Slack \in Nat /\ Slack <= MaxTools /\ MaxTools \in Nat /\ MaxHistory \in Nat
  BY HistoryAssumption DEF Slack
<1>3. Len(hist) \in Nat /\ Len(file) \in Nat
  BY LenNat DEF TypeOK
<1> QED BY <1>1, <1>2, <1>3, CountPrompts

LEMMA SizeTypesNext ==
    ASSUME TypeOK'
    PROVE  /\ Cardinality(Over') \in Nat /\ Cardinality(Begun') \in Nat
           /\ Cardinality(Over') <= Cardinality(Begun')
           /\ Slack' \in Nat /\ Slack' <= MaxTools
           /\ Len(hist') \in Nat /\ Len(file') \in Nat
<1>1. Over' \in SUBSET Prompt /\ Begun' \in SUBSET Prompt /\ Over' \subseteq Begun'
  BY DEF Over, Begun
<1>2. Slack' \in Nat /\ Slack' <= MaxTools
  BY HistoryAssumption DEF Slack
<1>3. Len(hist') \in Nat /\ Len(file') \in Nat
  BY LenNat DEF TypeOK
<1> QED BY <1>1, <1>2, <1>3, CountPrompts

\* Only the end of a compaction takes the slack away.
LEMMA SlackKept ==
    ASSUME NEW p \in Prompt, Others(p), ~(pc[p] = "summarise" /\ ref[p] = object)
    PROVE  Slack <= Slack'
<1>1. CASE \E q \in Prompt : pc[q] = "summarise" /\ ref[q] = object
  <2>1. PICK q \in Prompt : pc[q] = "summarise" /\ ref[q] = object
    BY <1>1
  <2>2. q # p
    BY <2>1
  <2>3. pc'[q] = "summarise" /\ ref'[q] = object'
    BY <2>1, <2>2 DEF Others
  <2>4. Slack = MaxTools /\ Slack' = MaxTools
    BY <1>1, <2>3 DEF Slack
  <2> QED BY <2>4, HistoryAssumption
<1>2. CASE ~\E q \in Prompt : pc[q] = "summarise" /\ ref[q] = object
  BY <1>2, HistoryAssumption DEF Slack
<1> QED BY <1>1, <1>2

\* A prompt that is not over the limit may come over it with one message.
LEMMA OneMore ==
    ASSUME TypeOK, TypeOK', NEW p \in Prompt, Others(p), ~InOver(p), SizeOK, InOver(p)',
           Len(hist') <= Len(hist) + 1
    PROVE  Len(hist') <= MaxHistory + Cardinality(Over') + Slack'
<1>1. Over \subseteq Over' /\ p \in Over' \ Over /\ Over \in SUBSET Prompt /\ Over' \in SUBSET Prompt
  BY DEF Others, Over, InOver
<1>2. Slack <= Slack'
  BY SlackKept DEF InOver
<1>3. Cardinality(Over) + 1 <= Cardinality(Over')
  BY <1>1, CountPrompts
<1>4. Cardinality(Over) \in Nat /\ Slack \in Nat /\ MaxHistory \in Nat /\ Len(hist) \in Nat
  BY SizeTypes
<1>5. Cardinality(Over)' \in Nat /\ Slack' \in Nat /\ Len(hist)' \in Nat
  BY SizeTypesNext
<1>6. Len(hist) <= MaxHistory + Cardinality(Over) + Slack
  BY DEF SizeOK
<1> QED BY <1>2, <1>3, <1>4, <1>5, <1>6

\* A step of p that appends nothing, unless it takes p off the limit.
LEMMA NoMore ==
    ASSUME TypeOK, TypeOK', NEW p \in Prompt, Others(p), SizeOK,
           InOver(p) => InOver(p)' /\ pc[p] # "summarise",
           Len(hist') <= Len(hist)
    PROVE  Len(hist') <= MaxHistory + Cardinality(Over') + Slack'
<1>1. Over \subseteq Over' /\ Over \in SUBSET Prompt /\ Over' \in SUBSET Prompt
  <2> SUFFICES ASSUME NEW q \in Over PROVE q \in Over'
    BY DEF Over
  <2>1. q \in Prompt /\ InOver(q)
    BY DEF Over, InOver
  <2>2. CASE q = p
    BY <2>1, <2>2 DEF Over, InOver
  <2>3. CASE q # p
    BY <2>1, <2>3 DEF Over, InOver, Others
  <2> QED BY <2>2, <2>3
<1>2. Slack <= Slack'
  BY SlackKept DEF InOver
<1>3. Cardinality(Over) <= Cardinality(Over')
  BY <1>1, CountPrompts
<1>4. Cardinality(Over) \in Nat /\ Slack \in Nat /\ MaxHistory \in Nat /\ Len(hist) \in Nat
  BY SizeTypes
<1>5. Cardinality(Over') \in Nat /\ Slack' \in Nat /\ Len(hist') \in Nat
  BY SizeTypesNext
<1>6. Len(hist) <= MaxHistory + Cardinality(Over) + Slack
  BY DEF SizeOK
<1> QED BY <1>2, <1>3, <1>4, <1>5, <1>6

\* Who starts to compact has appended one message, or the results of its tools,
\* and nobody else has more to give.
LEMMA MoreToCompact ==
    ASSUME TypeOK, TypeOK', NEW p \in Prompt, Others(p), SizeOK, CompactOK, ~compacting,
           pc'[p] = "summarise", ref'[p] = object',
           \/ Len(hist') <= Len(hist) + MaxTools
           \/ /\ Len(hist') <= Len(file) + 1 /\ pc[p] = "new"
              /\ \A q \in Prompt : pc[q] \in {"new", "done"}
    PROVE  Len(hist') <= MaxHistory + Cardinality(Over') + Slack'
<1>1. \A q \in Prompt : pc[q] # "summarise"
  BY DEF CompactOK
<1>2. Over \subseteq Over' /\ Over \in SUBSET Prompt /\ Over' \in SUBSET Prompt /\ p \in Over'
  <2>1. p \in Over'
    BY DEF Over
  <2>2. ASSUME NEW q \in Over PROVE q \in Over'
    BY <2>1, <1>1 DEF Over, Others
  <2> QED BY <2>1, <2>2 DEF Over
<1>3. Slack = 0 /\ Slack' = MaxTools
  BY <1>1 DEF Slack
<1>4. Cardinality(Over) \in Nat /\ Cardinality(Begun) \in Nat /\ MaxHistory \in Nat
      /\ Len(hist) \in Nat /\ Len(file) \in Nat /\ MaxTools \in Nat /\ MaxTools >= 1
  BY SizeTypes, HistoryAssumption
<1>5. Cardinality(Over') \in Nat /\ Len(hist') \in Nat
  BY SizeTypesNext
<1>6. Cardinality(Over) <= Cardinality(Over')
  BY <1>2, CountPrompts
<1>7. Len(hist) <= MaxHistory + Cardinality(Over)
      /\ Len(file) <= MaxHistory + Cardinality(Begun) + MaxTools
  BY <1>3, <1>4 DEF SizeOK
<1>8. CASE Len(hist') <= Len(hist) + MaxTools
  BY <1>3, <1>4, <1>5, <1>6, <1>7, <1>8
<1>9. CASE /\ Len(hist') <= Len(file) + 1 /\ pc[p] = "new"
           /\ \A q \in Prompt : pc[q] \in {"new", "done"}
  <2>1. Begun \subseteq Over /\ p \notin Over /\ Begun \in SUBSET Prompt
    BY <1>9 DEF Over, Begun
  <2>2. Cardinality(Begun) <= Cardinality(Over)
    BY <1>2, <2>1, CountPrompts
  <2>3. Cardinality(Over) + 1 <= Cardinality(Over')
    BY <1>2, <2>1, CountPrompts
  <2> QED BY <1>3, <1>4, <1>5, <1>7, <1>9, <2>2, <2>3
<1> QED BY <1>8, <1>9
-----------------------------------------------------------------------------
\* Which messages there are.

\* The messages of p in h are of stage s at most, the others' not ahead of them.
Within(h, p, s) ==
    \A i \in 1..Len(h) :
        IF h[i].by = p THEN Stage(h[i]) <= s
        ELSE pc[h[i].by] = "done" \/ Stage(h[i]) <= Reached(h[i].by)

LEMMA StageType ==
    ASSUME NEW m \in Msg
    PROVE  /\ Stage(m) \in Int /\ Stage(m) >= -1
           /\ m.role # "summary" => Stage(m) >= 0
           /\ m.by \in Prompt
<1>1. m.role \in Roles /\ m.by \in Prompt /\ m.it \in Nat
  BY DEF Msg
<1> QED BY <1>1 DEF Stage, Roles

LEMMA MessageIs ==
    ASSUME NEW p \in Prompt, NEW n \in Nat, NEW role \in Roles
    PROVE  /\ Message(role, p, n) \in Msg
           /\ Message(role, p, n).role = role /\ Message(role, p, n).by = p
           /\ role = "user" => Stage(Message(role, p, n)) = 0
           /\ role = "call" => Stage(Message(role, p, n)) = 3 * n + 1
           /\ role = "tool" => Stage(Message(role, p, n)) = 3 * n + 2
           /\ role = "text" => Stage(Message(role, p, n)) = 3 * n + 3
           /\ role = "summary" => Stage(Message(role, p, n)) = -1
<1>1. PICK m : m = Message(role, p, n)
  OBVIOUS
<1>2. m \in Msg /\ m.role = role /\ m.by = p /\ m.it = n
  BY <1>1 DEF Message, Msg
<1>3. /\ role = "user" => Stage(m) = 0
      /\ role = "call" => Stage(m) = 3 * n + 1
      /\ role = "tool" => Stage(m) = 3 * n + 2
      /\ role = "text" => Stage(m) = 3 * n + 3
      /\ role = "summary" => Stage(m) = -1
  BY <1>2 DEF Stage
<1> QED BY <1>1, <1>2, <1>3

LEMMA ReachedType ==
    ASSUME TypeOK, NEW p \in Prompt
    PROVE  /\ Reached(p) \in Int
           /\ pc[p] = "new" => Reached(p) = -2
           /\ pc[p] # "new" => Reached(p) >= 0
<1>1. iter[p] \in Nat
  BY HistoryAssumption DEF TypeOK
<1> QED BY <1>1 DEF Reached, StageAt

LEMMA ReachedTypeNext ==
    ASSUME TypeOK', NEW p \in Prompt
    PROVE  Reached(p)' \in Int
<1>1. iter'[p] \in Nat
  BY HistoryAssumption DEF TypeOK
<1> QED BY <1>1 DEF Reached, StageAt

LEMMA HistWithin ==
    ASSUME TypeOK, BehindOK, NEW p \in Prompt, pc[p] # "done"
    PROVE  Within(hist, p, Reached(p)) /\ Within(file, p, Reached(p))
<1>1. \A i \in 1..Len(hist) : hist[i].by \in Prompt
  BY ElementOfSeq, StageType DEF TypeOK
<1>2. \A i \in 1..Len(file) : file[i].by \in Prompt
  BY ElementOfSeq, StageType DEF TypeOK
<1> QED BY <1>1, <1>2 DEF Within, BehindOK, Behind

LEMMA WithinMore ==
    ASSUME NEW h \in Seq(Msg), NEW p, NEW s \in Int, NEW t \in Int, s <= t, Within(h, p, s)
    PROVE  Within(h, p, t)
<1>1. \A i \in 1..Len(h) : Stage(h[i]) \in Int
  BY ElementOfSeq, StageType
<1> QED BY <1>1 DEF Within

LEMMA WithinWindow ==
    ASSUME NEW h \in Seq(Msg), NEW g, Window(g, h), NEW p, NEW s, Within(h, p, s)
    PROVE  Within(g, p, s)
BY WindowMember DEF Within

LEMMA AppendIs ==
    ASSUME NEW h \in Seq(Msg), NEW m \in Msg
    PROVE  /\ Append(h, m) \in Seq(Msg)
           /\ Append(h, m) # <<>>
           /\ Len(Append(h, m)) = Len(h) + 1
           /\ Append(h, m)[Len(h) + 1] = m
           /\ \A i \in 1..Len(h) : Append(h, m)[i] = h[i]
           /\ \A i \in 1..(Len(h) + 1) : i = Len(h) + 1 \/ i \in 1..Len(h)
<1>1. Len(h) \in Nat
  BY LenNat
<1> QED BY <1>1, AppendProperties

\* One more message of p at the end.
LEMMA AppendOne ==
    ASSUME NEW h \in Seq(Msg), NEW p \in Prompt, NEW m \in Msg, m.by = p, m.role # "summary",
           NEW s \in Int, s <= Stage(m), Ordered(h), Within(h, p, s)
    PROVE  Ordered(Append(h, m)) /\ Within(Append(h, m), p, Stage(m))
<1>0. Len(h) \in Nat
  BY LenNat
<1>1. PICK g \in Seq(Msg) : g = Append(h, m)
  BY AppendIs
<1>2. /\ Len(g) = Len(h) + 1 /\ g[Len(h) + 1] = m
      /\ \A i \in 1..Len(h) : g[i] = h[i]
      /\ \A i \in 1..(Len(h) + 1) : i = Len(h) + 1 \/ i \in 1..Len(h)
  BY <1>1, AppendIs
<1>3. Stage(m) \in Int
  BY StageType
<1>4. Within(h, p, Stage(m))
  BY <1>3, WithinMore
<1>5. Within(g, p, Stage(m))
  BY <1>2, <1>3, <1>4 DEF Within
<1>6. ASSUME NEW i \in 1..Len(g), NEW j \in 1..Len(g), i < j
      PROVE  /\ g[j].role # "summary"
             /\ g[i].by = g[j].by => Stage(g[i]) <= Stage(g[j])
  <2>1. i \in 1..Len(h) /\ g[i] = h[i]
    BY <1>0, <1>2, <1>6
  <2>2. CASE j \in 1..Len(h)
    BY <1>2, <1>6, <2>1, <2>2 DEF Ordered
  <2>3. CASE j = Len(h) + 1
    BY <1>2, <1>4, <2>1, <2>3 DEF Within
  <2> QED BY <1>2, <2>2, <2>3
<1>7. Ordered(g)
  BY <1>6 DEF Ordered
<1> QED BY <1>1, <1>5, <1>7

LEMMA ConcatIs ==
    ASSUME NEW h \in Seq(Msg), NEW r \in Seq(Msg)
    PROVE  /\ h \o r \in Seq(Msg)
           /\ Len(h \o r) = Len(h) + Len(r)
           /\ \A i \in 1..Len(h) : (h \o r)[i] = h[i]
           /\ \A i \in 1..Len(r) : (h \o r)[Len(h) + i] = r[i]
           /\ \A i \in 1..Len(h \o r) : i \in 1..Len(h) \/ \E k \in 1..Len(r) : i = Len(h) + k
<1>1. Len(h) \in Nat /\ Len(r) \in Nat
  BY LenNat
<1>2. /\ h \o r \in Seq(Msg) /\ Len(h \o r) = Len(h) + Len(r)
      /\ \A i \in 1..(Len(h) + Len(r)) : (h \o r)[i] = IF i <= Len(h) THEN h[i] ELSE r[i - Len(h)]
  BY ConcatProperties
<1>3. \A i \in 1..Len(h) : (h \o r)[i] = h[i]
  BY <1>1, <1>2
<1>4. ASSUME NEW i \in 1..Len(r) PROVE (h \o r)[Len(h) + i] = r[i]
  <2>1. Len(h) + i \in 1..(Len(h) + Len(r)) /\ ~(Len(h) + i <= Len(h)) /\ (Len(h) + i) - Len(h) = i
    BY <1>1
  <2> QED BY <1>2, <2>1
<1>5. ASSUME NEW i \in 1..(Len(h) + Len(r)), ~(i \in 1..Len(h))
      PROVE  \E k \in 1..Len(r) : i = Len(h) + k
  <2>1. i - Len(h) \in 1..Len(r) /\ i = Len(h) + (i - Len(h))
    BY <1>1, <1>5
  <2> QED BY <2>1
<1> QED BY <1>2, <1>3, <1>4, <1>5

\* The results of a call of p, all alike.
Results(r, p, i) ==
    r \in Seq(Msg) /\ \A k \in 1..Len(r) : r[k] = Message("tool", p, i)

LEMMA ResultsOf ==
    ASSUME TypeOK, NEW p \in Prompt
    PROVE  LET r == [i \in 1..asked[p] |-> Message("tool", p, iter[p])]
           IN  Results(r, p, iter[p]) /\ Len(r) = asked[p] /\ asked[p] \in 0..MaxTools
<1> DEFINE r == [i \in 1..asked[p] |-> Message("tool", p, iter[p])]
<1>1. iter[p] \in Nat /\ asked[p] \in Nat /\ asked[p] \in 0..MaxTools
  BY HistoryAssumption DEF TypeOK
<1>2. Message("tool", p, iter[p]) \in Msg
  BY <1>1 DEF Message, Msg, Roles
<1>3. r \in Seq(Msg) /\ Len(r) = asked[p]
  BY <1>1, <1>2
<1>4. \A k \in 1..Len(r) : r[k] = Message("tool", p, iter[p])
  BY <1>3
<1> QED BY <1>1, <1>3, <1>4 DEF Results

LEMMA AppendResults ==
    ASSUME NEW h \in Seq(Msg), NEW p \in Prompt, NEW n \in Nat, NEW r, Results(r, p, n),
           Ordered(h), Within(h, p, 3 * n + 2)
    PROVE  h \o r \in Seq(Msg) /\ Ordered(h \o r) /\ Within(h \o r, p, 3 * n + 2)
<1>0. Len(h) \in Nat /\ Len(r) \in Nat /\ r \in Seq(Msg)
  BY LenNat DEF Results
<1>1. PICK g \in Seq(Msg) : g = h \o r
  BY <1>0, ConcatIs
<1>2. /\ Len(g) = Len(h) + Len(r)
      /\ \A i \in 1..Len(h) : g[i] = h[i]
      /\ \A i \in 1..Len(r) : g[Len(h) + i] = r[i]
      /\ \A i \in 1..Len(g) : i \in 1..Len(h) \/ \E k \in 1..Len(r) : i = Len(h) + k
  BY <1>0, <1>1, ConcatIs
<1>3. ASSUME NEW i \in 1..Len(r)
      PROVE  /\ g[Len(h) + i].role = "tool" /\ g[Len(h) + i].by = p
             /\ Stage(g[Len(h) + i]) = 3 * n + 2
  <2>1. g[Len(h) + i] = Message("tool", p, n) /\ "tool" \in Roles
    BY <1>2 DEF Results, Roles
  <2> QED BY <2>1, MessageIs
<1>4. Within(g, p, 3 * n + 2)
  <2> SUFFICES ASSUME NEW i \in 1..Len(g)
               PROVE  IF g[i].by = p THEN Stage(g[i]) <= 3 * n + 2
                      ELSE pc[g[i].by] = "done" \/ Stage(g[i]) <= Reached(g[i].by)
    BY DEF Within
  <2>1. CASE i \in 1..Len(h)
    BY <1>2, <2>1 DEF Within
  <2>2. CASE \E k \in 1..Len(r) : i = Len(h) + k
    <3>1. PICK k \in 1..Len(r) : i = Len(h) + k
      BY <2>2
    <3>2. g[i].by = p /\ Stage(g[i]) = 3 * n + 2
      BY <1>3, <3>1
    <3> QED BY <3>2
  <2> QED BY <1>2, <2>1, <2>2
<1>5. ASSUME NEW i \in 1..Len(g), NEW j \in 1..Len(g), i < j
      PROVE  /\ g[j].role # "summary"
             /\ g[i].by = g[j].by => Stage(g[i]) <= Stage(g[j])
  <2>1. CASE j \in 1..Len(h)
    <3>1. i \in 1..Len(h) /\ g[i] = h[i] /\ g[j] = h[j]
      BY <1>0, <1>2, <1>5, <2>1
    <3> QED BY <1>5, <2>1, <3>1 DEF Ordered
  <2>2. CASE ~(j \in 1..Len(h))
    <3>1. PICK k \in 1..Len(r) : j = Len(h) + k
      BY <1>2, <2>2
    <3>2. g[j].role = "tool" /\ g[j].by = p /\ Stage(g[j]) = 3 * n + 2
      BY <1>3, <3>1
    <3> QED BY <1>4, <3>2 DEF Within
  <2> QED BY <2>1, <2>2
<1>6. Ordered(g)
  BY <1>5 DEF Ordered
<1> QED BY <1>1, <1>4, <1>6

\* A summary in place of the first n messages.
LEMMA SummaryFirst ==
    ASSUME NEW h \in Seq(Msg), NEW p \in Prompt, NEW n \in Nat, 1 <= n, n <= Len(h),
           NEW s \in Nat, Ordered(h), Within(h, p, s)
    PROVE  LET g == <<Message("summary", p, 0)>> \o SubSeq(h, n + 1, Len(h))
           IN  g \in Seq(Msg) /\ Ordered(g) /\ Within(g, p, s) /\ Len(g) = Len(h) - n + 1
<1>0. Len(h) \in Nat
  BY LenNat
<1>1. PICK m : m = Message("summary", p, 0)
  OBVIOUS
<1>2. m \in Msg /\ m.role = "summary" /\ m.by = p /\ Stage(m) = -1
  BY <1>1 DEF Message, Msg, Roles, Stage
<1>3. PICK t : t = SubSeq(h, n + 1, Len(h))
  OBVIOUS
<1>4. t \in Seq(Msg) /\ Len(t) = Len(h) - n /\ \A i \in 1..Len(t) : t[i] = h[n + i]
  <2>1. Window(t, h) /\ Len(t) = Len(h) - (n + 1) + 1
    BY <1>0, <1>3, SubSeqWindow
  <2>2. t \in Seq(Msg) /\ Len(t) = Len(h) - n
    BY <1>0, <2>1 DEF Window
  <2>3. ASSUME NEW i \in 1..Len(t) PROVE t[i] = h[n + i]
    <3>1. \A k \in (n + 1)..Len(h) : h[k] \in Msg
      BY <1>0, ElementOfSeq
    <3>2. i \in 1..(Len(h) - (n + 1) + 1) /\ (n + 1) + i - 1 = n + i
      BY <1>0, <2>2
    <3> QED BY <1>0, <1>3, <3>1, <3>2, SubSeqProperties
  <2> QED BY <2>2, <2>3
<1>5. <<m>> \in Seq(Msg) /\ Len(<<m>>) = 1 /\ <<m>>[1] = m
  BY <1>2
<1>6. PICK g \in Seq(Msg) : g = <<m>> \o t
  BY <1>4, <1>5, ConcatIs
<1>7. Len(g) = Len(h) - n + 1 /\ g[1] = m
  <2>1. Len(<<m>> \o t) = Len(<<m>>) + Len(t)
    BY <1>4, <1>5, ConcatIs
  <2>2. \A i \in 1..Len(<<m>>) : (<<m>> \o t)[i] = <<m>>[i]
    BY <1>4, <1>5, ConcatIs
  <2>3. 1 \in 1..Len(<<m>>)
    BY <1>5
  <2>4. g[1] = m
    BY <1>5, <1>6, <2>2, <2>3
  <2> QED BY <1>0, <1>4, <1>5, <1>6, <2>1, <2>4
<1>8. ASSUME NEW i \in 1..Len(g), i # 1
      PROVE  /\ (i - 1) + n \in 1..Len(h) /\ 1 < (i - 1) + n
             /\ g[i] = h[(i - 1) + n]
  <2>1. i - 1 \in 1..Len(t) /\ i = 1 + (i - 1)
    BY <1>0, <1>4, <1>7, <1>8
  <2>2. g[1 + (i - 1)] = t[i - 1]
    <3>1. \A k \in 1..Len(t) : (<<m>> \o t)[Len(<<m>>) + k] = t[k]
      BY <1>4, <1>5, ConcatIs
    <3> QED BY <1>5, <1>6, <2>1, <3>1
  <2>3. t[i - 1] = h[n + (i - 1)] /\ n + (i - 1) = (i - 1) + n
    BY <1>4, <2>1
  <2> QED BY <1>0, <1>4, <2>1, <2>2, <2>3
<1>9. Within(g, p, s)
  <2> SUFFICES ASSUME NEW i \in 1..Len(g)
               PROVE  IF g[i].by = p THEN Stage(g[i]) <= s
                      ELSE pc[g[i].by] = "done" \/ Stage(g[i]) <= Reached(g[i].by)
    BY DEF Within
  <2>1. CASE i = 1
    BY <1>2, <1>7, <2>1
  <2>2. CASE i # 1
    <3>1. PICK k \in 1..Len(h) : g[i] = h[k]
      BY <1>8, <2>2
    <3> QED BY <3>1 DEF Within
  <2> QED BY <2>1, <2>2
<1>10. ASSUME NEW i \in 1..Len(g), NEW j \in 1..Len(g), i < j
       PROVE  /\ g[j].role # "summary"
              /\ g[i].by = g[j].by => Stage(g[i]) <= Stage(g[j])
  <2>0. j # 1 /\ Len(g) \in Nat /\ 1 \in 1..Len(h)
    BY <1>0, <1>7, <1>10
  <2>1. PICK k \in 1..Len(h) : 1 < k /\ g[j] = h[k] /\ k = (j - 1) + n
    BY <1>8, <2>0
  <2>2. h[k].role # "summary"
    BY <2>0, <2>1 DEF Ordered
  <2>3. CASE i = 1
    <3>1. h[k] \in Msg
      BY ElementOfSeq
    <3>2. Stage(g[j]) \in Int /\ Stage(g[j]) >= 0
      BY <2>1, <2>2, <3>1, StageType
    <3>3. Stage(g[i]) = -1
      BY <1>2, <1>7, <2>3
    <3> QED BY <2>1, <2>2, <3>2, <3>3
  <2>4. CASE i # 1
    <3>1. PICK c \in 1..Len(h) : g[i] = h[c] /\ c = (i - 1) + n
      BY <1>8, <2>4
    <3>2. c < k
      BY <1>10, <2>1, <3>1
    <3>3. h[c].by = h[k].by => Stage(h[c]) <= Stage(h[k])
      BY <3>2 DEF Ordered
    <3> QED BY <2>1, <2>2, <3>1, <3>3
  <2> QED BY <2>3, <2>4
<1>11. Ordered(g)
  BY <1>10 DEF Ordered
<1> QED BY <1>1, <1>3, <1>6, <1>7, <1>9, <1>11

\* Lists that go to the model.
LEMMA ClosedAppend ==
    ASSUME NEW l \in Seq(Msg), Closed(l), NEW m \in Msg, m.role # "tool"
    PROVE  Closed(Append(l, m))
<1>0. Len(l) \in Nat
  BY LenNat
<1>1. PICK g \in Seq(Msg) : g = Append(l, m)
  BY AppendIs
<1>2. /\ Len(g) = Len(l) + 1 /\ g[Len(l) + 1] = m
      /\ \A i \in 1..Len(l) : g[i] = l[i]
      /\ \A i \in 1..(Len(l) + 1) : i = Len(l) + 1 \/ i \in 1..Len(l)
  BY <1>1, AppendIs
<1>3. ASSUME NEW j \in 1..Len(g), g[j].role = "tool"
      PROVE  \E i \in 1..(j - 1) : Answers(g[j], g[i])
  <2>1. j \in 1..Len(l) /\ g[j] = l[j]
    BY <1>2, <1>3
  <2>2. PICK i \in 1..(j - 1) : Answers(l[j], l[i])
    BY <1>3, <2>1 DEF Closed
  <2>3. g[i] = l[i]
    BY <1>0, <1>2, <2>1
  <2> QED BY <2>1, <2>2, <2>3
<1> QED BY <1>1, <1>3 DEF Closed

LEMMA ClosedResults ==
    ASSUME NEW l \in Seq(Msg), Closed(l), NEW p \in Prompt, NEW n, NEW r, Results(r, p, n),
           NEW c \in 1..Len(l), l[c] = Message("call", p, n)
    PROVE  l \o r \in Seq(Msg) /\ Closed(l \o r)
<1>0. Len(l) \in Nat /\ Len(r) \in Nat /\ r \in Seq(Msg)
  BY LenNat DEF Results
<1>1. PICK g \in Seq(Msg) : g = l \o r
  BY <1>0, ConcatIs
<1>2. /\ Len(g) = Len(l) + Len(r)
      /\ \A i \in 1..Len(l) : g[i] = l[i]
      /\ \A i \in 1..Len(r) : g[Len(l) + i] = r[i]
      /\ \A i \in 1..Len(g) : i \in 1..Len(l) \/ \E k \in 1..Len(r) : i = Len(l) + k
  BY <1>0, <1>1, ConcatIs
<1>3. ASSUME NEW j \in 1..Len(g), g[j].role = "tool"
      PROVE  \E i \in 1..(j - 1) : Answers(g[j], g[i])
  <2>1. CASE j \in 1..Len(l)
    <3>1. PICK i \in 1..(j - 1) : Answers(l[j], l[i])
      BY <1>2, <1>3, <2>1 DEF Closed
    <3>2. g[i] = l[i] /\ g[j] = l[j]
      BY <1>0, <1>2, <2>1
    <3> QED BY <3>1, <3>2
  <2>2. CASE ~(j \in 1..Len(l))
    <3>1. PICK k \in 1..Len(r) : j = Len(l) + k
      BY <1>2, <2>2
    <3>2. g[j] = Message("tool", p, n) /\ g[c] = Message("call", p, n)
      BY <1>2, <3>1 DEF Results
    <3>3. Answers(g[j], g[c])
      BY <3>2 DEF Answers, Message
    <3>4. c \in 1..(j - 1)
      BY <1>0, <3>1
    <3> QED BY <3>3, <3>4
  <2> QED BY <2>1, <2>2
<1> QED BY <1>1, <1>3 DEF Closed
-----------------------------------------------------------------------------
\* The steps.

OwnOK(p) ==
    /\ Busy(p) => /\ iter[p] < MaxIter
                  /\ \E i \in 1..Len(local[p]) : local[p][i] = Message("call", p, iter[p])
    /\ pc[p] = "ask" \/ Busy(p) => Closed(local[p])

LEMMA OwnIs == IterOK /\ LocalOK <=> \A p \in Prompt : OwnOK(p)
BY DEF IterOK, LocalOK, OwnOK

\* p neither begins nor ends a compaction, ends it, or begins it.
CompactStep(p) ==
    \/ compacting' = compacting /\ pc[p] # "summarise" /\ pc'[p] # "summarise"
    \/ pc[p] = "summarise" /\ pc'[p] # "summarise"
    \/ ~compacting /\ compacting' /\ pc'[p] = "summarise" /\ batch'[p] # <<>>

\* What a step of p has to show for the invariant.
LEMMA StepKeeps ==
    ASSUME HInv, TypeOK', NEW p \in Prompt, Others(p), pc[p] # "done", pc'[p] # "new",
           NEW s \in Int, Ordered(hist'), Within(hist', p, s),
           Reached(p) <= s, pc'[p] = "done" \/ s <= Reached(p)',
           Len(hist') <= MaxHistory + Cardinality(Over') + Slack',
           file' = file \/ (present' /\ Window(file', hist')),
           present' \/ (hist' = <<>> /\ ~present /\ file' = file /\ pc[p] \notin {"new", "done"}),
           CompactStep(p), OwnOK(p)', closing' = closing
    PROVE  HInv'
<1>0. TypeOK /\ hist' \in Seq(Msg)
  BY DEF HInv, TypeOK
<1>1. IterOK' /\ LocalOK'
  <2>1. \A q \in Prompt : OwnOK(q)
    BY OwnIs DEF HInv
  <2>2. ASSUME NEW q \in Prompt PROVE OwnOK(q)'
    <3>1. CASE q = p
      BY <3>1
    <3>2. CASE q # p
      <4>1. /\ pc'[q] = pc[q] /\ iter'[q] = iter[q] /\ local'[q] = local[q]
            /\ ret'[q] = ret[q]
        BY <3>2 DEF Others
      <4>2. OwnOK(q)
        BY <2>1
      <4> QED BY <4>1, <4>2 DEF OwnOK, Busy
    <3> QED BY <3>1, <3>2
  <2> QED BY <2>2 DEF IterOK, LocalOK, OwnOK
<1>2. CompactOK'
  <2> SUFFICES ASSUME NEW q \in Prompt, pc'[q] = "summarise"
               PROVE  /\ compacting' /\ batch'[q] # <<>>
                      /\ \A o \in Prompt : pc'[o] = "summarise" => o = q
    BY DEF CompactOK
  <2>1. \A o \in Prompt : o # p => pc'[o] = pc[o] /\ batch'[o] = batch[o]
    BY DEF Others
  <2>2. CompactOK
    BY DEF HInv
  <2>3. CASE compacting' = compacting /\ pc[p] # "summarise" /\ pc'[p] # "summarise"
    BY <2>1, <2>2, <2>3 DEF CompactOK
  <2>4. CASE pc[p] = "summarise" /\ pc'[p] # "summarise"
    BY <2>1, <2>2, <2>4 DEF CompactOK
  <2>5. CASE ~compacting /\ compacting' /\ pc'[p] = "summarise" /\ batch'[p] # <<>>
    BY <2>1, <2>2, <2>5 DEF CompactOK
  <2> QED BY <2>3, <2>4, <2>5 DEF CompactStep
<1>3. Absent'
  <2>1. CASE present'
    BY <2>1 DEF Absent
  <2>2. CASE hist' = <<>> /\ ~present /\ file' = file /\ pc[p] \notin {"new", "done"}
    BY <2>2 DEF HInv, Absent
  <2> QED BY <2>1, <2>2
<1>4. SizeOK'
  <2>1. /\ Cardinality(Begun) \in Nat /\ Cardinality(Begun') \in Nat
        /\ Cardinality(Begun) <= Cardinality(Begun')
    <3>1. Begun \in SUBSET Prompt /\ Begun' \in SUBSET Prompt
      BY DEF Begun
    <3>2. Begun \subseteq Begun'
      BY DEF Begun, Others
    <3> QED BY <3>1, <3>2, CountPrompts
  <2>2. /\ Cardinality(Over') \in Nat /\ Slack' \in Nat /\ Slack' <= MaxTools
        /\ Cardinality(Over') <= Cardinality(Begun') /\ Len(hist') \in Nat /\ Len(file') \in Nat
    BY SizeTypesNext
  <2>3. MaxHistory \in Nat /\ MaxTools \in Nat /\ Len(file) \in Nat
    BY <1>0, SizeTypes
  <2>4. Len(file') <= MaxHistory + Cardinality(Begun') + MaxTools
    <3>1. CASE file' = file
      <4>1. Len(file) <= MaxHistory + Cardinality(Begun) + MaxTools
        BY DEF HInv, SizeOK
      <4>2. Len(file') = Len(file)
        BY <3>1
      <4> QED BY <4>1, <4>2, <2>1, <2>3
    <3>2. CASE Window(file', hist')
      <4>1. Len(file') <= Len(hist')
        BY <3>2 DEF Window
      <4> QED BY <4>1, <2>1, <2>2, <2>3
    <3> QED BY <3>1, <3>2
  <2> QED BY <2>4 DEF SizeOK
<1>5. HistoryOrdered'
  <2>1. CASE file' = file
    BY <2>1 DEF HInv, HistoryOrdered
  <2>2. CASE Window(file', hist')
    <3>1. Ordered(file')
      BY <1>0, <2>2, WindowOrdered
    <3> QED BY <3>1 DEF HistoryOrdered
  <2> QED BY <2>1, <2>2
<1>6. BehindOK'
  <2>0. Reached(p) \in Int /\ Reached(p)' \in Int
    BY <1>0, ReachedType, ReachedTypeNext
  <2>1. ASSUME NEW q \in Prompt, pc'[q] # "done", q # p
        PROVE  pc[q] # "done" /\ Reached(q)' = Reached(q)
    <3>1. pc'[q] = pc[q] /\ iter'[q] = iter[q] /\ ret'[q] = ret[q]
      BY <2>1 DEF Others
    <3> QED BY <2>1, <3>1 DEF Reached
  <2>2. ASSUME NEW q \in Prompt, pc'[q] # "done", NEW i \in 1..Len(hist'), hist'[i].by = q
        PROVE  Stage(hist'[i]) <= Reached(q)'
    <3>1. Stage(hist'[i]) \in Int
      BY <1>0, ElementOfSeq, StageType
    <3>2. CASE q = p
      <4>1. Stage(hist'[i]) <= s
        BY <2>2, <3>2 DEF Within
      <4> QED BY <2>0, <2>2, <3>1, <3>2, <4>1
    <3>3. CASE q # p
      <4>1. Stage(hist'[i]) <= Reached(q)
        BY <2>1, <2>2, <3>3 DEF Within
      <4> QED BY <2>1, <2>2, <3>3, <4>1
    <3> QED BY <3>2, <3>3
  <2>3. ASSUME NEW q \in Prompt, pc'[q] # "done", NEW i \in 1..Len(file'), file'[i].by = q
        PROVE  Stage(file'[i]) <= Reached(q)'
    <3>1. CASE file' = file
      <4>1. Stage(file[i]) \in Int
        BY <1>0, <3>1, ElementOfSeq, StageType DEF TypeOK
      <4>2. pc[q] # "done" => Stage(file[i]) <= Reached(q)
        BY <2>3, <3>1 DEF HInv, BehindOK, Behind
      <4>3. CASE q # p
        BY <2>1, <2>3, <3>1, <4>2, <4>3
      <4>4. CASE q = p
        BY <2>0, <2>3, <3>1, <4>1, <4>2, <4>4
      <4> QED BY <4>3, <4>4
    <3>2. CASE Window(file', hist')
      <4>1. PICK k \in 1..Len(hist') : file'[i] = hist'[k]
        BY <1>0, <3>2, WindowMember
      <4> QED BY <2>2, <2>3, <4>1
    <3> QED BY <3>1, <3>2
  <2> QED BY <2>2, <2>3 DEF BehindOK, Behind
<1> QED BY <1>1, <1>2, <1>3, <1>4, <1>5, <1>6 DEF HInv

\* The history that a trim leaves, and what its caller does with it.
LEMMA AfterTrimKeeps ==
    ASSUME HInv, NEW p \in Prompt, NEW then \in {"ask", "check", "end"},
           NEW g \in Seq(Msg), AfterTrim(p, then, g),
           iter' = iter, asked' = asked, object' = object, lives' = lives, closing' = closing,
           ret' = ret, ref' = ref,
           batch' \in [Prompt -> Seq(Msg)], \A q \in Prompt : q # p => batch'[q] = batch[q],
           compacting' \in BOOLEAN, compacting' = compacting \/ pc[p] = "summarise",
           pc[p] # "done", then # "ask" => pc[p] # "new", then = "check" => Busy(p),
           Ordered(g), Within(g, p, StageAt(then, iter[p])),
           Reached(p) <= StageAt(then, iter[p]),
           Len(g) <= MaxHistory \/ (Len(g) <= Len(hist) /\ ~InOver(p))
    PROVE  HInv'
<1>0. TypeOK /\ OwnOK(p) /\ SizeOK
  BY OwnIs DEF HInv
<1>1. hist' = g /\ present' = (then \in {"ask", "end"} \/ present \/ g # <<>>)
  BY DEF AfterTrim
<1>2. /\ pc' = [pc EXCEPT ![p] = IF then = "end" THEN "done" ELSE then]
      /\ local' = [local EXCEPT ![p] = CASE then = "end" -> <<>>
                                         [] then = "ask" -> SanitizeHistory(g)
                                         [] OTHER -> local[p]]
  BY DEF AfterTrim, Return
<1>3. file' = file \/ (then = "end" /\ Window(file', g))
  <2>1. CASE then = "end"
    BY <2>1, SavedWindow DEF AfterTrim, SaveSession
  <2>2. CASE then # "end"
    BY <2>2 DEF AfterTrim
  <2> QED BY <2>1, <2>2
<1>4. SanitizeHistory(g) \in Seq(Msg) /\ Closed(SanitizeHistory(g))
  BY SanitizeClosed
<1>5. TypeOK'
  <2>1. pc' \in [Prompt -> {"new", "summarise", "ask", "run", "check", "done"}]
    BY <1>0, <1>2 DEF TypeOK
  <2>2. <<>> \in Seq(Msg)
    OBVIOUS
  <2>3. local' \in [Prompt -> Seq(Msg)]
    BY <1>0, <1>2, <1>4, <2>2 DEF TypeOK
  <2>4. file' \in Seq(Msg)
    BY <1>0, <1>3 DEF TypeOK, Window
  <2> QED BY <1>0, <1>1, <2>1, <2>3, <2>4 DEF TypeOK
<1>6. pc'[p] = (IF then = "end" THEN "done" ELSE then)
  BY <1>0, <1>2 DEF TypeOK
<1>7. Others(p)
  BY <1>0, <1>2 DEF TypeOK, Others
<1>8. OwnOK(p)'
  <2>1. CASE then = "end"
    BY <1>6, <2>1 DEF OwnOK, Busy
  <2>2. CASE then = "ask"
    <3>1. local'[p] = SanitizeHistory(g)
      BY <1>0, <1>2, <2>2 DEF TypeOK
    <3> QED BY <1>4, <1>6, <2>2, <3>1 DEF OwnOK, Busy
  <2>3. CASE then = "check"
    <3>1. local'[p] = local[p]
      BY <1>0, <1>2, <2>3 DEF TypeOK
    <3> QED BY <1>0, <2>3, <3>1 DEF OwnOK, Busy
  <2> QED BY <2>1, <2>2, <2>3
<1>9. iter[p] \in Nat
  BY <1>0, HistoryAssumption DEF TypeOK
<1>10. StageAt(then, iter[p]) \in Int
  BY <1>9 DEF StageAt
<1>11. pc'[p] = "done" \/ StageAt(then, iter[p]) <= Reached(p)'
  <2>1. CASE then = "end"
    BY <1>6, <2>1
  <2>2. CASE then # "end"
    <3>1. Reached(p)' = StageAt(then, iter[p])
      BY <1>6, <2>2 DEF Reached
    <3> QED BY <1>10, <3>1
  <2> QED BY <2>1, <2>2
<1>12. Len(hist') <= MaxHistory + Cardinality(Over') + Slack'
  <2>1. CASE Len(g) <= MaxHistory
    <3>1. Cardinality(Over') \in Nat /\ Slack' \in Nat /\ MaxHistory \in Nat /\ Len(hist') \in Nat
      BY <1>0, <1>5, SizeTypes, SizeTypesNext
    <3> QED BY <1>1, <2>1, <3>1
  <2>2. CASE Len(g) <= Len(hist) /\ ~InOver(p)
    BY <1>0, <1>1, <1>5, <1>7, <2>2, NoMore
  <2> QED BY <2>1, <2>2
<1>13. CompactStep(p)
  BY <1>6 DEF CompactStep
<1>14. file' = file \/ (present' /\ Window(file', hist'))
  BY <1>1, <1>3
<1>15. present' \/ (hist' = <<>> /\ ~present /\ file' = file /\ pc[p] \notin {"new", "done"})
  BY <1>1, <1>3
<1>16. pc'[p] # "new" /\ Ordered(hist') /\ Within(hist', p, StageAt(then, iter[p]))
  BY <1>1, <1>6
<1> QED BY <1>5, <1>7, <1>8, <1>10, <1>11, <1>12, <1>13, <1>14, <1>15, <1>16, StepKeeps

\* A trim after p has appended to the history.
LEMMA TrimKeeps ==
    ASSUME HInv, NEW p \in Prompt, NEW then \in {"ask", "check", "end"},
           NEW h \in Seq(Msg), TrimHistory(p, then, h),
           iter' = iter, asked' = asked, object' = object, lives' = lives, closing' = closing,
           pc[p] \notin {"done", "summarise"}, then # "ask" => pc[p] # "new",
           then = "check" => Busy(p),
           Ordered(h), Within(h, p, StageAt(then, iter[p])),
           Reached(p) <= StageAt(then, iter[p]),
           \/ Len(h) <= Len(hist) + MaxTools
           \/ /\ Len(h) <= Len(file) + 1 /\ pc[p] = "new"
              /\ ~closing => \A q \in Prompt : pc[q] \in {"new", "done"}
    PROVE  HInv'
<1>0. TypeOK /\ OwnOK(p) /\ SizeOK /\ CompactOK
  BY OwnIs DEF HInv
<1>1. CASE MayCompact(h)
  <2>1. /\ compacting' = TRUE /\ hist' = h /\ present' = TRUE
        /\ batch' = [batch EXCEPT ![p] = SubSeq(h, 1, BatchSize(h))]
        /\ ret' = [ret EXCEPT ![p] = then]
        /\ ref' = [ref EXCEPT ![p] = object]
        /\ pc' = [pc EXCEPT ![p] = "summarise"]
        /\ file' = file /\ local' = local
    BY <1>1 DEF TrimHistory
  <2>2. Len(h) > Threshold /\ ~closing /\ ~compacting /\ Len(h) \in Nat
    BY <1>1, LenNat DEF MayCompact
  <2>3. SubSeq(h, 1, BatchSize(h)) \in Seq(Msg) /\ SubSeq(h, 1, BatchSize(h)) # <<>>
    <3>1. PICK n \in Nat : n = BatchSize(h) /\ n >= 2 /\ n <= Len(h)
      BY <2>2, BatchInside
    <3>2. Window(SubSeq(h, 1, n), h) /\ Len(SubSeq(h, 1, n)) = n - 1 + 1
      BY <2>2, <3>1, SubSeqWindow
    <3>3. SubSeq(h, 1, n) # <<>>
      <4>1. Len(<<>>) = 0
        OBVIOUS
      <4> QED BY <3>1, <3>2, <4>1
    <3> QED BY <3>1, <3>2, <3>3 DEF Window
  <2>4. TypeOK'
    BY <1>0, <2>1, <2>3 DEF TypeOK
  <2>5. /\ pc'[p] = "summarise" /\ ret'[p] = then /\ ref'[p] = object'
        /\ batch'[p] = SubSeq(h, 1, BatchSize(h))
    BY <1>0, <2>1 DEF TypeOK
  <2>6. Others(p)
    BY <1>0, <2>1 DEF TypeOK, Others
  <2>7. OwnOK(p)'
    BY <1>0, <2>1, <2>5 DEF OwnOK, Busy
  <2>8. iter[p] \in Nat
    BY <1>0, HistoryAssumption DEF TypeOK
  <2>9. StageAt(then, iter[p]) \in Int /\ Reached(p)' = StageAt(then, iter[p])
    BY <2>5, <2>8 DEF StageAt, Reached
  <2>10. Len(hist') <= MaxHistory + Cardinality(Over') + Slack'
    BY <1>0, <2>1, <2>2, <2>4, <2>5, <2>6, MoreToCompact
  <2>11. CompactStep(p)
    BY <2>1, <2>2, <2>3, <2>5 DEF CompactStep
  <2>12. pc'[p] # "new" /\ Ordered(hist') /\ Within(hist', p, StageAt(then, iter[p]))
    BY <2>1, <2>5
  <2>13. StageAt(then, iter[p]) <= Reached(p)'
    BY <2>9
  <2> QED BY <2>1, <2>4, <2>6, <2>7, <2>9, <2>10, <2>11, <2>12, <2>13, StepKeeps
<1>2. CASE ~MayCompact(h)
  <2>1. AfterTrim(p, then, HardTrim(h)) /\ UNCHANGED <<compacting, batch, ret, ref>>
    BY <1>2 DEF TrimHistory
  <2>2. PICK g \in Seq(Msg) : g = HardTrim(h) /\ Window(g, h) /\ Len(g) <= MaxHistory
    BY HardTrimWindow DEF Window
  <2>3. Ordered(g) /\ Within(g, p, StageAt(then, iter[p]))
    BY <2>2, WindowOrdered, WithinWindow
  <2>4. batch \in [Prompt -> Seq(Msg)] /\ compacting \in BOOLEAN
    BY <1>0 DEF TypeOK
  <2>5. AfterTrim(p, then, g)
    BY <2>1, <2>2
  <2> QED BY <2>1, <2>2, <2>3, <2>4, <2>5, AfterTrimKeeps
<1> QED BY <1>1, <1>2

LEMMA BeginKeeps ==
    ASSUME HInv, NEW p \in Prompt, Begin(p)
    PROVE  HInv'
<1>0. TypeOK /\ Absent /\ HistoryOrdered /\ BehindOK /\ pc[p] = "new"
  BY DEF HInv, Begin
<1>1. PICK h \in Seq(Msg) : h = (IF present THEN hist ELSE file)
  BY <1>0 DEF TypeOK
<1>2. PICK m \in Msg : m = Message("user", p, 0)
  BY MessageIs DEF Roles
<1>3. m.by = p /\ m.role # "summary" /\ Stage(m) = 0
  <2>1. "user" \in Roles /\ 0 \in Nat
    BY DEF Roles
  <2>2. /\ Message("user", p, 0).role = "user" /\ Message("user", p, 0).by = p
        /\ Stage(Message("user", p, 0)) = 0
    BY <2>1, MessageIs
  <2> QED BY <1>2, <2>2
<1>4. Ordered(h) /\ Within(h, p, -2)
  <2>1. Within(hist, p, Reached(p)) /\ Within(file, p, Reached(p)) /\ Reached(p) = -2
    BY <1>0, HistWithin, ReachedType
  <2> QED BY <1>0, <1>1, <2>1 DEF HistoryOrdered
<1>5. Ordered(Append(h, m)) /\ Within(Append(h, m), p, 0)
  <2>1. -2 \in Int /\ -2 <= Stage(m)
    BY <1>3
  <2> QED BY <1>3, <1>4, <2>1, AppendOne
<1>6. PICK g \in Seq(Msg) : g = Append(h, m) /\ Len(g) = Len(h) + 1
  BY AppendIs
<1>7. PICK t \in Int : t = StageAt("ask", iter[p]) /\ 0 <= t
  <2>1. iter[p] \in Nat
    BY <1>0, HistoryAssumption DEF TypeOK
  <2>2. StageAt("ask", iter[p]) = 3 * iter[p]
    BY DEF StageAt
  <2> QED BY <2>1, <2>2
<1>8. Ordered(g) /\ Within(g, p, StageAt("ask", iter[p]))
  <2>1. Ordered(g) /\ Within(g, p, 0)
    BY <1>5, <1>6
  <2>2. Within(g, p, t)
    BY <1>7, <2>1, WithinMore
  <2> QED BY <1>7, <2>1, <2>2
<1>9. TrimHistory(p, "ask", g) /\ UNCHANGED <<iter, asked, object, lives, closing>>
  BY <1>1, <1>2, <1>6 DEF Begin
<1>10. \/ Len(g) <= Len(hist) + MaxTools
       \/ /\ Len(g) <= Len(file) + 1 /\ pc[p] = "new"
          /\ ~closing => \A q \in Prompt : pc[q] \in {"new", "done"}
  <2>0. Len(hist) \in Nat /\ Len(file) \in Nat /\ MaxTools \in Nat /\ MaxTools >= 1
    BY <1>0, SizeTypes, HistoryAssumption
  <2>1. CASE present
    BY <1>1, <1>6, <2>0, <2>1
  <2>2. CASE ~present /\ file # <<>>
    BY <1>0, <1>1, <1>6, <2>0, <2>2 DEF Absent
  <2>3. CASE ~present /\ file = <<>>
    <3>1. hist = <<>> /\ h = <<>>
      BY <1>0, <1>1, <2>3 DEF Absent
    <3> QED BY <1>6, <2>0, <3>1
  <2> QED BY <2>1, <2>2, <2>3
<1>11. Reached(p) <= StageAt("ask", iter[p])
  <2>1. Reached(p) = -2
    BY <1>0, ReachedType
  <2> QED BY <1>7, <2>1
<1> QED BY <1>0, <1>8, <1>9, <1>10, <1>11, TrimKeeps

\* A message of p with stage s appended to the history.
LEMMA HistAppend ==
    ASSUME HInv, NEW p \in Prompt, pc[p] # "done", NEW role \in {"call", "text"},
           Reached(p) <= Stage(Message(role, p, iter[p]))
    PROVE  LET m == Message(role, p, iter[p])
           IN  /\ m \in Msg /\ Append(hist, m) \in Seq(Msg) /\ Stage(m) \in Int
               /\ Len(Append(hist, m)) = Len(hist) + 1
               /\ Ordered(Append(hist, m)) /\ Within(Append(hist, m), p, Stage(m))
<1>0. TypeOK /\ HistoryOrdered /\ BehindOK /\ hist \in Seq(Msg)
  BY DEF HInv, TypeOK
<1>1. iter[p] \in Nat /\ role \in Roles /\ role # "summary"
  BY <1>0, HistoryAssumption DEF TypeOK, Roles
<1>2. PICK m \in Msg : m = Message(role, p, iter[p]) /\ m.by = p /\ m.role # "summary"
  BY <1>1, MessageIs
<1>3. Reached(p) \in Int /\ Stage(m) \in Int
  BY <1>0, ReachedType, StageType
<1>4. Within(hist, p, Reached(p)) /\ Ordered(hist)
  BY <1>0, HistWithin DEF HistoryOrdered
<1>5. Ordered(Append(hist, m)) /\ Within(Append(hist, m), p, Stage(m))
  BY <1>0, <1>2, <1>3, <1>4, AppendOne
<1>6. Append(hist, m) \in Seq(Msg) /\ Len(Append(hist, m)) = Len(hist) + 1
  BY <1>0, AppendIs
<1> QED BY <1>2, <1>3, <1>5, <1>6

LEMMA AnswerKeeps ==
    ASSUME HInv, NEW p \in Prompt, Answer(p)
    PROVE  HInv'
<1>0. TypeOK /\ pc[p] = "ask"
  BY DEF HInv, Answer
<1>1. iter[p] \in Nat /\ "text" \in Roles
  BY <1>0, HistoryAssumption DEF TypeOK, Roles
<1>2. PICK m : m = Message("text", p, iter[p])
  OBVIOUS
<1>3. Stage(m) = 3 * iter[p] + 3 /\ Reached(p) = 3 * iter[p]
  BY <1>0, <1>1, <1>2, MessageIs DEF Reached, StageAt
<1>4. Reached(p) <= Stage(m) /\ Stage(m) = StageAt("end", iter[p])
  BY <1>1, <1>3 DEF StageAt
<1>5. PICK g \in Seq(Msg) : /\ g = Append(hist, m) /\ Len(g) = Len(hist) + 1
                            /\ Ordered(g) /\ Within(g, p, Stage(m))
  BY <1>0, <1>2, <1>4, HistAppend
<1>6. Len(g) <= Len(hist) + MaxTools
  BY <1>0, <1>5, SizeTypes, HistoryAssumption
<1>7. TrimHistory(p, "end", g) /\ UNCHANGED <<iter, asked, object, lives, closing>>
  BY <1>2, <1>5 DEF Answer
<1> QED BY <1>0, <1>4, <1>5, <1>6, <1>7, TrimKeeps

LEMMA ToolsDoneKeeps ==
    ASSUME HInv, NEW p \in Prompt, ToolsDone(p)
    PROVE  HInv'
<1>0. TypeOK /\ HistoryOrdered /\ BehindOK /\ pc[p] = "run" /\ hist \in Seq(Msg)
  BY DEF HInv, ToolsDone, TypeOK
<1>1. PICK n \in Nat : n = iter[p]
  BY <1>0, HistoryAssumption DEF TypeOK
<1>2. PICK r : r = [i \in 1..asked[p] |-> Message("tool", p, iter[p])]
  OBVIOUS
<1>3. Results(r, p, n) /\ Len(r) = asked[p] /\ asked[p] \in 0..MaxTools /\ r \in Seq(Msg)
  BY <1>0, <1>1, <1>2, ResultsOf DEF Results
<1>4. Ordered(hist) /\ Within(hist, p, 3 * n + 2)
  <2>1. Within(hist, p, Reached(p)) /\ Reached(p) = 3 * n + 1
    BY <1>0, <1>1, HistWithin DEF Reached
  <2> QED BY <1>0, <2>1, WithinMore DEF HistoryOrdered
<1>5. PICK g \in Seq(Msg) : g = hist \o r /\ Ordered(g) /\ Within(g, p, 3 * n + 2)
  BY <1>0, <1>3, <1>4, AppendResults
<1>6. Within(g, p, StageAt("check", iter[p]))
  BY <1>1, <1>5 DEF StageAt
<1>7. Len(g) <= Len(hist) + MaxTools
  <2>1. Len(g) = Len(hist) + Len(r)
    BY <1>0, <1>3, <1>5, ConcatIs
  <2> QED BY <1>0, <1>3, <2>1, SizeTypes
<1>8. TrimHistory(p, "check", g) /\ UNCHANGED <<iter, asked, object, lives, closing>>
  BY <1>2, <1>5 DEF ToolsDone
<1>9. Busy(p) /\ Reached(p) <= StageAt("check", iter[p])
  BY <1>0, <1>1 DEF Busy, Reached, StageAt
<1> QED BY <1>0, <1>5, <1>6, <1>7, <1>8, <1>9, TrimKeeps

\* Whatever the summary was, the history is a window or begins with the summary.
LEMMA CompactedIs ==
    ASSUME HInv, NEW p \in Prompt, pc[p] = "summarise", NEW o \in {"ok", "fail", "throw"}
    PROVE  /\ Compacted(p, o) \in Seq(Msg) /\ Len(Compacted(p, o)) <= Len(hist)
           /\ Ordered(Compacted(p, o)) /\ Within(Compacted(p, o), p, Reached(p))
<1>0. TypeOK /\ HistoryOrdered /\ BehindOK /\ CompactOK /\ hist \in Seq(Msg) /\ batch[p] \in Seq(Msg)
  BY DEF HInv, TypeOK
<1>1. Ordered(hist) /\ Within(hist, p, Reached(p)) /\ Len(hist) \in Nat /\ Reached(p) \in Nat
  BY <1>0, HistWithin, ReachedType, LenNat DEF HistoryOrdered
<1>2. PICK n \in Nat : n = Len(batch[p]) /\ 1 <= n
  <2>1. batch[p] # <<>>
    BY <1>0 DEF CompactOK
  <2> QED BY <1>0, <2>1, LenNat, EmptySeq
<1>3. CASE ~present \/ o = "throw" \/ (o = "ok" /\ Len(hist) < n)
  <2>1. Compacted(p, o) = hist
    BY <1>2, <1>3 DEF Compacted
  <2> QED BY <1>0, <1>1, <2>1
<1>4. CASE present /\ o = "fail"
  <2>1. Compacted(p, o) = Newest(hist, Threshold) /\ Threshold \in Nat
    BY <1>4, HistoryAssumption DEF Compacted
  <2>2. PICK g : g = Newest(hist, Threshold) /\ Window(g, hist) /\ Len(g) <= Len(hist)
    BY <1>0, <2>1, NewestWindow
  <2>3. g \in Seq(Msg) /\ Ordered(g) /\ Within(g, p, Reached(p))
    BY <1>0, <1>1, <2>2, WindowOrdered, WithinWindow DEF Window
  <2> QED BY <2>1, <2>2, <2>3
<1>5. CASE present /\ o = "ok" /\ ~(Len(hist) < n)
  <2>1. Compacted(p, o) = <<Message("summary", p, 0)>> \o SubSeq(hist, n + 1, Len(hist))
    BY <1>2, <1>5 DEF Compacted
  <2>2. n <= Len(hist)
    BY <1>1, <1>5
  <2>3. PICK g \in Seq(Msg) : /\ g = <<Message("summary", p, 0)>> \o SubSeq(hist, n + 1, Len(hist))
                              /\ Ordered(g) /\ Within(g, p, Reached(p))
                              /\ Len(g) = Len(hist) - n + 1
    BY <1>0, <1>1, <1>2, <2>2, SummaryFirst
  <2>4. Len(g) <= Len(hist)
    <3>1. PICK a \in Nat : a = Len(hist)
      BY <1>1
    <3>2. a - n + 1 <= a
      BY <1>2
    <3> QED BY <2>3, <3>1, <3>2
  <2> QED BY <2>1, <2>3, <2>4
<1> QED BY <1>3, <1>4, <1>5

LEMMA SummarisedKeeps ==
    ASSUME HInv, NEW p \in Prompt, NEW o \in {"ok", "fail", "throw"}, Summarised(p, o)
    PROVE  HInv'
<1>0. TypeOK /\ pc[p] = "summarise" /\ ret[p] \in {"ask", "check", "end"}
  BY DEF HInv, Summarised, TypeOK
<1>1. PICK h \in Seq(Msg) : /\ h = Compacted(p, o) /\ Len(h) <= Len(hist)
                            /\ Ordered(h) /\ Within(h, p, Reached(p))
  BY <1>0, CompactedIs
<1>2. Reached(p) = StageAt(ret[p], iter[p])
  BY <1>0 DEF Reached
<1>3. PICK g \in Seq(Msg) : /\ g = (IF ref[p] = object THEN HardTrim(h) ELSE h)
                            /\ Window(g, h)
                            /\ Len(g) <= MaxHistory \/ (Len(g) <= Len(hist) /\ ref[p] # object)
  <2>1. CASE ref[p] = object
    BY <2>1, HardTrimWindow DEF Window
  <2>2. CASE ref[p] # object
    BY <1>1, <2>2, SameWindow
  <2> QED BY <2>1, <2>2
<1>4. Ordered(g) /\ Within(g, p, StageAt(ret[p], iter[p]))
  BY <1>1, <1>2, <1>3, WindowOrdered, WithinWindow
<1>5. /\ AfterTrim(p, ret[p], g)
      /\ compacting' = (o = "throw")
      /\ batch' = [batch EXCEPT ![p] = <<>>]
      /\ iter' = iter /\ asked' = asked /\ ret' = ret /\ ref' = ref /\ object' = object
      /\ lives' = lives /\ closing' = closing
  BY <1>1, <1>3 DEF Summarised
<1>6. <<>> \in Seq(Msg)
  OBVIOUS
<1>7. /\ batch' \in [Prompt -> Seq(Msg)]
      /\ \A q \in Prompt : q # p => batch'[q] = batch[q]
  BY <1>0, <1>5, <1>6 DEF TypeOK
<1>8. Len(g) <= MaxHistory \/ (Len(g) <= Len(hist) /\ ~InOver(p))
  BY <1>0, <1>3 DEF InOver
<1>9. ret[p] = "check" => Busy(p)
  BY <1>0 DEF Busy
<1>10. compacting' \in BOOLEAN
  BY <1>5
<1>11. Reached(p) <= StageAt(ret[p], iter[p])
  <2>1. Reached(p) \in Int
    BY <1>0, ReachedType
  <2> QED BY <1>2, <2>1
<1> QED BY <1>0, <1>4, <1>5, <1>7, <1>8, <1>9, <1>10, <1>11, AfterTrimKeeps

\* ProcessPrompt returns: nothing more is asked of p.
LEMMA ReturnIs ==
    ASSUME TypeOK, NEW p \in Prompt, Return(p), iter' = iter, batch' = batch, ret' = ret,
           ref' = ref, object' = object
    PROVE  /\ pc' \in [Prompt -> {"new", "summarise", "ask", "run", "check", "done"}]
           /\ local' \in [Prompt -> Seq(Msg)]
           /\ pc'[p] = "done" /\ Others(p) /\ OwnOK(p)' /\ InOver(p)'
<1>1. <<>> \in Seq(Msg)
  OBVIOUS
<1>2. /\ pc' \in [Prompt -> {"new", "summarise", "ask", "run", "check", "done"}]
      /\ local' \in [Prompt -> Seq(Msg)]
      /\ pc'[p] = "done"
  BY <1>1 DEF Return, TypeOK
<1>3. Others(p)
  BY DEF Return, TypeOK, Others
<1>4. OwnOK(p)' /\ InOver(p)'
  BY <1>2 DEF OwnOK, InOver, Busy
<1> QED BY <1>2, <1>3, <1>4

LEMMA CallKeeps ==
    ASSUME HInv, NEW p \in Prompt, NEW n \in 1..MaxTools, Call(p, n)
    PROVE  HInv'
<1>0. TypeOK /\ SizeOK /\ OwnOK(p) /\ pc[p] = "ask" /\ iter[p] < MaxIter /\ local[p] \in Seq(Msg)
  BY OwnIs DEF HInv, Call, TypeOK
<1>1. iter[p] \in Nat /\ "call" \in Roles
  BY <1>0, HistoryAssumption DEF TypeOK, Roles
<1>2. PICK m : m = Message("call", p, iter[p])
  OBVIOUS
<1>3. Stage(m) = 3 * iter[p] + 1 /\ Reached(p) = 3 * iter[p] /\ m \in Msg /\ m.role = "call"
  BY <1>0, <1>1, <1>2, MessageIs DEF Reached, StageAt
<1>4. Reached(p) <= Stage(m)
  BY <1>1, <1>3
<1>5. /\ Append(hist, m) \in Seq(Msg) /\ Stage(m) \in Int
      /\ Len(Append(hist, m)) = Len(hist) + 1
      /\ Ordered(Append(hist, m)) /\ Within(Append(hist, m), p, Stage(m))
  BY <1>0, <1>2, <1>4, HistAppend
<1>6. PICK l \in Seq(Msg) : /\ l = Append(local[p], m) /\ Closed(l)
                            /\ Len(local[p]) + 1 \in 1..Len(l) /\ l[Len(local[p]) + 1] = m
  <2>1. Closed(local[p])
    BY <1>0 DEF OwnOK
  <2>2. Closed(Append(local[p], m))
    BY <1>0, <1>3, <2>1, ClosedAppend
  <2>3. /\ Append(local[p], m) \in Seq(Msg) /\ Len(Append(local[p], m)) = Len(local[p]) + 1
        /\ Append(local[p], m)[Len(local[p]) + 1] = m /\ Len(local[p]) \in Nat
    BY <1>0, <1>3, AppendIs, LenNat
  <2>4. PICK l \in Seq(Msg) : l = Append(local[p], m)
    BY <2>3
  <2>5. Len(l) = Len(local[p]) + 1 /\ l[Len(local[p]) + 1] = m /\ Closed(l)
    BY <2>2, <2>3, <2>4
  <2>6. Len(local[p]) + 1 \in 1..Len(l)
    BY <2>3, <2>5
  <2> QED BY <2>4, <2>5, <2>6
<1>7. /\ hist' = Append(hist, m) /\ present' = TRUE
      /\ local' = [local EXCEPT ![p] = l]
      /\ asked' = [asked EXCEPT ![p] = n]
      /\ pc' = [pc EXCEPT ![p] = "run"]
      /\ UNCHANGED <<file, compacting, iter, batch, ret, ref, object, lives, closing>>
  BY <1>2, <1>6 DEF Call
<1>8. TypeOK'
  <2>1. n \in 0..MaxTools
    BY HistoryAssumption
  <2> QED BY <1>0, <1>5, <1>7, <2>1 DEF TypeOK
<1>9. pc'[p] = "run" /\ local'[p] = l /\ iter'[p] = iter[p]
  BY <1>0, <1>7 DEF TypeOK
<1>10. Others(p)
  BY <1>0, <1>7 DEF TypeOK, Others
<1>11. OwnOK(p)'
  BY <1>0, <1>2, <1>6, <1>9 DEF OwnOK
<1>12. ~InOver(p) /\ InOver(p)' /\ CompactStep(p)
  BY <1>0, <1>7, <1>9 DEF InOver, CompactStep
<1>13. Len(hist') <= Len(hist) + 1
  BY <1>0, <1>5, <1>7, SizeTypes
<1>14. Len(hist') <= MaxHistory + Cardinality(Over') + Slack'
  BY <1>0, <1>8, <1>10, <1>12, <1>13, OneMore
<1>15. Stage(m) <= Reached(p)'
  <2>1. Reached(p)' = 3 * iter[p] + 1
    BY <1>9 DEF Reached
  <2> QED BY <1>1, <1>3, <2>1
<1>16. /\ Ordered(hist') /\ Within(hist', p, Stage(m)) /\ pc'[p] # "new"
       /\ file' = file /\ present' /\ closing' = closing
  BY <1>5, <1>7, <1>9
<1> QED BY <1>0, <1>4, <1>5, <1>8, <1>10, <1>11, <1>12, <1>14, <1>15, <1>16, StepKeeps

\* A last text, saved (StopIdle) or not (Offline).
LEMMA TextKeeps ==
    ASSUME HInv, NEW p \in Prompt, Offline(p) \/ StopIdle(p)
    PROVE  HInv'
<1>0. TypeOK /\ SizeOK /\ pc[p] \in {"ask", "check"}
  BY DEF HInv, Offline, StopIdle
<1>1. iter[p] \in Nat /\ "text" \in Roles
  BY <1>0, HistoryAssumption DEF TypeOK, Roles
<1>2. PICK m : m = Message("text", p, iter[p])
  OBVIOUS
<1>3. Stage(m) = 3 * iter[p] + 3 /\ Reached(p) = StageAt(pc[p], iter[p])
  BY <1>0, <1>1, <1>2, MessageIs DEF Reached
<1>4. Reached(p) <= Stage(m)
  BY <1>0, <1>1, <1>3 DEF StageAt
<1>5. PICK h \in Seq(Msg) : /\ h = Append(hist, m) /\ Stage(m) \in Int
                            /\ Len(h) = Len(hist) + 1
                            /\ Ordered(h) /\ Within(h, p, Stage(m))
  BY <1>0, <1>2, <1>4, HistAppend
<1>6. /\ hist' = h /\ present' = TRUE /\ Return(p)
      /\ UNCHANGED <<compacting, iter, batch, asked, ret, ref, object, lives, closing>>
  BY <1>2, <1>5 DEF Offline, StopIdle
<1>7. file' = file \/ (present' /\ Window(file', hist'))
  <2>1. CASE Offline(p)
    BY <2>1 DEF Offline
  <2>2. CASE StopIdle(p)
    <3>1. SaveSession(h)
      BY <1>2, <1>5, <2>2 DEF StopIdle
    <3> QED BY <1>6, <3>1, SavedWindow DEF SaveSession
  <2> QED BY <2>1, <2>2
<1>8. /\ pc' \in [Prompt -> {"new", "summarise", "ask", "run", "check", "done"}]
      /\ local' \in [Prompt -> Seq(Msg)]
      /\ pc'[p] = "done" /\ Others(p) /\ OwnOK(p)' /\ InOver(p)'
  BY <1>0, <1>6, ReturnIs
<1>9. TypeOK'
  <2>1. file' \in Seq(Msg)
    BY <1>0, <1>7 DEF TypeOK, Window
  <2> QED BY <1>0, <1>6, <1>8, <2>1 DEF TypeOK
<1>10. ~InOver(p) /\ CompactStep(p)
  BY <1>0, <1>6, <1>8 DEF InOver, CompactStep
<1>11. Len(hist') <= Len(hist) + 1
  BY <1>0, <1>5, <1>6, SizeTypes
<1>12. Len(hist') <= MaxHistory + Cardinality(Over') + Slack'
  BY <1>0, <1>8, <1>9, <1>10, <1>11, OneMore
<1>13. /\ Ordered(hist') /\ Within(hist', p, Stage(m)) /\ pc'[p] # "new"
       /\ present' /\ closing' = closing
  BY <1>5, <1>6, <1>8
<1> QED BY <1>0, <1>4, <1>5, <1>7, <1>8, <1>9, <1>10, <1>12, <1>13, StepKeeps

\* p returns with a window of the history: Rollback, Throw, LimitReached.
LEMMA ReturnKeeps ==
    ASSUME HInv, NEW p \in Prompt, Rollback(p) \/ Throw(p) \/ LimitReached(p)
    PROVE  HInv'
<1>0. TypeOK /\ SizeOK /\ HistoryOrdered /\ BehindOK /\ hist \in Seq(Msg)
      /\ pc[p] \in {"ask", "run", "check"}
  BY DEF HInv, Rollback, Throw, LimitReached, TypeOK
<1>1. /\ Return(p)
      /\ UNCHANGED <<compacting, iter, batch, asked, ret, ref, object, lives, closing>>
  BY DEF Rollback, Throw, LimitReached
<1>2. Window(hist', hist)
  <2>1. CASE hist' = hist
    BY <1>0, <2>1, SameWindow
  <2>2. CASE hist # <<>> /\ hist' = SubSeq(hist, 1, Len(hist) - 1)
    <3>1. Len(hist) \in Nat /\ Len(hist) # 0
      BY <1>0, <2>2, LenNat, EmptySeq
    <3>2. Len(hist) - 1 \in Nat /\ 1 <= (Len(hist) - 1) + 1 /\ Len(hist) - 1 <= Len(hist)
      BY <3>1
    <3> QED BY <1>0, <2>2, <3>2, SubSeqWindow
  <2> QED BY <2>1, <2>2 DEF Rollback, Throw, LimitReached
<1>3. hist' \in Seq(Msg) /\ Len(hist') <= Len(hist)
  BY <1>2 DEF Window
<1>4. Ordered(hist') /\ Within(hist', p, Reached(p)) /\ Reached(p) \in Int
  BY <1>0, <1>2, WindowOrdered, WithinWindow, HistWithin, ReachedType DEF HistoryOrdered
<1>5. file' = file \/ (present' /\ Window(file', hist'))
  <2>1. CASE Rollback(p) \/ Throw(p)
    BY <2>1 DEF Rollback, Throw
  <2>2. CASE LimitReached(p)
    BY <1>0, <2>2, SavedWindow DEF LimitReached, SaveSession
  <2> QED BY <2>1, <2>2
<1>6. present' \in BOOLEAN
      /\ (present' \/ (hist' = <<>> /\ ~present /\ file' = file /\ pc[p] \notin {"new", "done"}))
  <2>1. CASE Rollback(p) \/ LimitReached(p)
    BY <2>1 DEF Rollback, LimitReached
  <2>2. CASE Throw(p)
    BY <1>0, <2>2 DEF Throw, HInv, Absent, TypeOK
  <2> QED BY <2>1, <2>2
<1>7. /\ pc' \in [Prompt -> {"new", "summarise", "ask", "run", "check", "done"}]
      /\ local' \in [Prompt -> Seq(Msg)]
      /\ pc'[p] = "done" /\ Others(p) /\ OwnOK(p)' /\ InOver(p)'
  BY <1>0, <1>1, ReturnIs
<1>8. TypeOK'
  <2>1. file' \in Seq(Msg)
    BY <1>0, <1>5 DEF TypeOK, Window
  <2> QED BY <1>0, <1>1, <1>3, <1>6, <1>7, <2>1 DEF TypeOK
<1>9. CompactStep(p) /\ pc[p] # "summarise"
  BY <1>0, <1>1, <1>7 DEF CompactStep
<1>10. Len(hist') <= MaxHistory + Cardinality(Over') + Slack'
  BY <1>0, <1>3, <1>7, <1>8, <1>9, NoMore
<1>11. pc'[p] # "new" /\ closing' = closing /\ Reached(p) <= Reached(p)
  BY <1>1, <1>4, <1>7
<1> QED BY <1>0, <1>4, <1>5, <1>6, <1>7, <1>8, <1>9, <1>10, <1>11, StepKeeps

LEMMA ContinueKeeps ==
    ASSUME HInv, NEW p \in Prompt, Continue(p)
    PROVE  HInv'
<1>0. /\ TypeOK /\ SizeOK /\ HistoryOrdered /\ BehindOK /\ OwnOK(p)
      /\ pc[p] = "check" /\ local[p] \in Seq(Msg)
  BY OwnIs DEF HInv, Continue, TypeOK
<1>1. PICK n \in Nat : n = iter[p] /\ n < MaxIter
  BY <1>0, HistoryAssumption DEF TypeOK, OwnOK, Busy
<1>2. PICK r : r = [i \in 1..asked[p] |-> Message("tool", p, iter[p])]
  OBVIOUS
<1>3. Results(r, p, n)
  BY <1>0, <1>1, <1>2, ResultsOf
<1>4. PICK l \in Seq(Msg) : l = local[p] \o r /\ Closed(l)
  <2>1. Closed(local[p])
    BY <1>0 DEF OwnOK, Busy
  <2>2. PICK c \in 1..Len(local[p]) : local[p][c] = Message("call", p, n)
    BY <1>0, <1>1 DEF OwnOK, Busy
  <2> QED BY <1>0, <1>3, <2>1, <2>2, ClosedResults
<1>5. /\ iter' = [iter EXCEPT ![p] = n + 1]
      /\ local' = [local EXCEPT ![p] = l]
      /\ asked' = [asked EXCEPT ![p] = 0]
      /\ pc' = [pc EXCEPT ![p] = "ask"]
      /\ UNCHANGED <<present, hist, file, compacting, batch, ret, ref, object, lives, closing>>
  BY <1>0, <1>1, <1>2, <1>4 DEF Continue, TypeOK
<1>6. TypeOK'
  <2>1. n + 1 \in 0..MaxIter /\ 0 \in 0..MaxTools
    BY <1>1, HistoryAssumption
  <2> QED BY <1>0, <1>5, <2>1 DEF TypeOK
<1>7. pc'[p] = "ask" /\ local'[p] = l /\ iter'[p] = n + 1
  BY <1>0, <1>5 DEF TypeOK
<1>8. Others(p)
  BY <1>0, <1>5 DEF TypeOK, Others
<1>9. OwnOK(p)'
  BY <1>4, <1>7 DEF OwnOK, Busy
<1>10. CompactStep(p) /\ ~InOver(p)
  BY <1>0, <1>5, <1>7 DEF CompactStep, InOver
<1>11. Len(hist') <= Len(hist)
  BY <1>0, <1>5, SizeTypes
<1>12. Len(hist') <= MaxHistory + Cardinality(Over') + Slack'
  BY <1>0, <1>6, <1>8, <1>10, <1>11, NoMore
<1>13. Ordered(hist') /\ Within(hist', p, Reached(p)) /\ Reached(p) \in Int
  BY <1>0, <1>5, HistWithin, ReachedType DEF HistoryOrdered
<1>14. Reached(p) <= Reached(p)'
  <2>1. Reached(p) = 3 * n + 2
    BY <1>0, <1>1 DEF Reached, StageAt
  <2>2. Reached(p)' = 3 * (n + 1)
    BY <1>7 DEF Reached, StageAt
  <2> QED BY <1>1, <2>1, <2>2
<1>15. present' \/ (hist' = <<>> /\ ~present /\ file' = file /\ pc[p] \notin {"new", "done"})
  BY <1>0, <1>5 DEF HInv, Absent
<1>16. pc'[p] # "new" /\ file' = file /\ closing' = closing /\ Reached(p) <= Reached(p)
  BY <1>5, <1>7, <1>13
<1> QED BY <1>0, <1>6, <1>8, <1>9, <1>10, <1>12, <1>13, <1>14, <1>15, <1>16, StepKeeps

LEMMA ClearKeeps ==
    ASSUME HInv, ClearSession
    PROVE  HInv'
<1>0. TypeOK /\ <<>> \in Seq(Msg) /\ Len(<<>>) = 0 /\ 1..0 = {}
  BY DEF HInv
<1>1. /\ present' = FALSE /\ hist' = <<>> /\ file' = <<>>
      /\ object' = object + 1
      /\ compacting' = compacting /\ pc' = pc /\ iter' = iter /\ local' = local
      /\ batch' = batch /\ asked' = asked /\ ret' = ret /\ ref' = ref /\ lives' = lives
      /\ closing' = closing
  BY DEF ClearSession, promptVars
<1>2. TypeOK'
  <2>1. hist' \in Seq(Msg) /\ file' \in Seq(Msg)
    BY <1>0, <1>1, Zenon
  <2>2. object' \in Nat
    BY <1>0, <1>1 DEF TypeOK
  <2> QED BY <1>0, <1>1, <2>1, <2>2 DEF TypeOK
<1>3. IterOK' /\ CompactOK' /\ LocalOK'
  BY <1>1 DEF HInv, IterOK, CompactOK, LocalOK, Busy
<1>4. Absent'
  BY <1>1 DEF Absent
<1>5. SizeOK'
  <2>1. /\ Cardinality(Over') \in Nat /\ Cardinality(Begun') \in Nat /\ Slack' \in Nat
        /\ MaxHistory \in Nat /\ MaxTools \in Nat
    BY <1>0, <1>2, SizeTypes, SizeTypesNext
  <2>2. Len(hist') = 0 /\ Len(file') = 0
    BY <1>0, <1>1
  <2> QED BY <2>1, <2>2 DEF SizeOK
<1>6. HistoryOrdered' /\ BehindOK'
  BY <1>0, <1>1 DEF HistoryOrdered, Ordered, BehindOK, Behind
<1> QED BY <1>2, <1>3, <1>4, <1>5, <1>6 DEF HInv

\* When the session is taken out of sessions_, the file is as long as before or
\* as the history was.
LEMMA EndedSize ==
    ASSUME HInv, TypeOK', hist' = <<>>, file' = file \/ Window(file', hist), Begun' = Begun
    PROVE  SizeOK'
<1>1. /\ Cardinality(Over) \in Nat /\ Cardinality(Begun) \in Nat /\ Slack \in Nat
      /\ MaxHistory \in Nat /\ MaxTools \in Nat /\ Slack <= MaxTools
      /\ Cardinality(Over) <= Cardinality(Begun) /\ Len(hist) \in Nat /\ Len(file) \in Nat
  BY SizeTypes DEF HInv
<1>2. Cardinality(Over') \in Nat /\ Slack' \in Nat /\ Len(file') \in Nat
  BY SizeTypesNext
<1>3. Len(hist') = 0
  OBVIOUS
<1>4. Len(hist') <= MaxHistory + Cardinality(Over') + Slack'
  BY <1>1, <1>2, <1>3
<1>5. /\ Len(hist) <= MaxHistory + Cardinality(Over) + Slack
      /\ Len(file) <= MaxHistory + Cardinality(Begun) + MaxTools
  BY DEF HInv, SizeOK
<1>6. Len(file') <= MaxHistory + Cardinality(Begun) + MaxTools
  <2>1. CASE file' = file
    BY <1>5, <2>1
  <2>2. CASE Window(file', hist)
    <3>1. Len(file') <= Len(hist)
      BY <2>2 DEF Window
    <3> QED BY <1>1, <1>2, <1>5, <3>1
  <2> QED BY <2>1, <2>2
<1> QED BY <1>4, <1>6 DEF SizeOK

LEMMA SavedKeeps ==
    ASSUME HInv, Shutdown
    PROVE  HInv'
<1>0. TypeOK /\ <<>> \in Seq(Msg) /\ Len(<<>>) = 0 /\ 1..0 = {} /\ hist \in Seq(Msg)
  BY DEF HInv, TypeOK
<1>1. /\ present' = FALSE /\ hist' = <<>> /\ closing' = TRUE
      /\ object' = object + 1
      /\ compacting' = compacting /\ pc' = pc /\ iter' = iter /\ local' = local
      /\ batch' = batch /\ asked' = asked /\ ret' = ret /\ ref' = ref /\ lives' = lives
  BY DEF Shutdown, promptVars
<1>2. file' = file \/ Window(file', hist)
  BY <1>0, SavedWindow DEF Shutdown, SaveSession
<1>3. TypeOK'
  <2>1. hist' \in Seq(Msg)
    BY <1>0, <1>1, Zenon
  <2>2. file' \in Seq(Msg)
    BY <1>0, <1>2 DEF TypeOK, Window
  <2>3. object' \in Nat
    BY <1>0, <1>1 DEF TypeOK
  <2> QED BY <1>0, <1>1, <2>1, <2>2, <2>3 DEF TypeOK
<1>4. IterOK' /\ CompactOK' /\ LocalOK'
  BY <1>1 DEF HInv, IterOK, CompactOK, LocalOK, Busy
<1>5. Absent'
  BY <1>1 DEF Absent
<1>6. SizeOK'
  <2>1. Begun' = Begun
    BY <1>1 DEF Begun
  <2> QED BY <1>0, <1>1, <1>2, <1>3, <2>1, EndedSize
<1>7. HistoryOrdered'
  <2>1. Ordered(file')
    BY <1>0, <1>2, WindowOrdered DEF HInv, HistoryOrdered
  <2>2. Ordered(hist')
    BY <1>0, <1>1 DEF Ordered
  <2> QED BY <2>1, <2>2 DEF HistoryOrdered
<1>8. BehindOK'
  <2>1. ASSUME NEW p \in Prompt, pc'[p] # "done", NEW i \in 1..Len(file'), file'[i].by = p
        PROVE  Stage(file'[i]) <= Reached(p)'
    <3>1. pc[p] # "done" /\ Reached(p)' = Reached(p)
      BY <1>1, <2>1 DEF Reached
    <3>2. CASE file' = file
      BY <2>1, <3>1, <3>2 DEF HInv, BehindOK, Behind
    <3>3. CASE Window(file', hist)
      <4>1. PICK k \in 1..Len(hist) : file'[i] = hist[k]
        BY <1>0, <3>3, WindowMember
      <4> QED BY <2>1, <3>1, <4>1 DEF HInv, BehindOK, Behind
    <3> QED BY <1>2, <3>2, <3>3
  <2>2. \A p \in Prompt : Behind(hist, p)'
    BY <1>0, <1>1 DEF Behind
  <2> QED BY <2>1, <2>2 DEF BehindOK, Behind
<1> QED BY <1>3, <1>4, <1>5, <1>6, <1>7, <1>8 DEF HInv

LEMMA CrashKeeps ==
    ASSUME HInv, Crash
    PROVE  HInv'
<1>0. TypeOK /\ <<>> \in Seq(Msg) /\ Len(<<>>) = 0 /\ 1..0 = {}
  BY DEF HInv
<1>1. /\ present' = FALSE /\ hist' = <<>> /\ compacting' = FALSE /\ closing' = FALSE
      /\ pc' = [p \in Prompt |-> IF pc[p] = "new" THEN "new" ELSE "done"]
      /\ local' = [p \in Prompt |-> <<>>]
      /\ batch' = [p \in Prompt |-> <<>>]
      /\ lives' = lives + 1 /\ file' = file
      /\ iter' = iter /\ asked' = asked /\ ret' = ret /\ ref' = ref /\ object' = object
  BY DEF Crash
<1>2. TypeOK'
  <2>1. pc' \in [Prompt -> {"new", "summarise", "ask", "run", "check", "done"}]
    BY <1>1
  <2>2. local' \in [Prompt -> Seq(Msg)] /\ batch' \in [Prompt -> Seq(Msg)]
    BY <1>0, <1>1
  <2>3. hist' \in Seq(Msg)
    BY <1>0, <1>1, Zenon
  <2>4. lives' \in Nat
    <3>1. lives \in Nat /\ lives' = lives + 1
      BY <1>0, <1>1 DEF TypeOK
    <3> QED BY <3>1
  <2>5. present' \in BOOLEAN /\ compacting' \in BOOLEAN /\ closing' \in BOOLEAN
    BY <1>1
  <2> QED BY <1>0, <1>1, <2>1, <2>2, <2>3, <2>4, <2>5 DEF TypeOK
<1>3. \A p \in Prompt : pc'[p] \in {"new", "done"} /\ (pc'[p] = "new" <=> pc[p] = "new")
  BY <1>1
<1>4. IterOK' /\ CompactOK' /\ LocalOK'
  BY <1>3 DEF IterOK, CompactOK, LocalOK, Busy
<1>5. Absent'
  BY <1>1, <1>3 DEF Absent
<1>6. SizeOK'
  <2>1. Begun' = Begun
    BY <1>3 DEF Begun
  <2> QED BY <1>0, <1>1, <1>2, <2>1, EndedSize
<1>7. HistoryOrdered'
  BY <1>0, <1>1 DEF HInv, HistoryOrdered, Ordered
<1>8. BehindOK'
  <2>1. ASSUME NEW p \in Prompt, pc'[p] # "done", NEW i \in 1..Len(file'), file'[i].by = p
        PROVE  Stage(file'[i]) <= Reached(p)'
    <3>1. pc[p] = "new" /\ Reached(p)' = -2
      BY <1>3, <2>1 DEF Reached
    <3>2. Stage(file[i]) <= Reached(p) /\ Reached(p) = -2
      BY <1>0, <1>1, <2>1, <3>1, ReachedType DEF HInv, BehindOK, Behind
    <3> QED BY <1>1, <3>1, <3>2
  <2>2. \A p \in Prompt : Behind(hist, p)'
    BY <1>0, <1>1 DEF Behind
  <2> QED BY <2>1, <2>2 DEF BehindOK, Behind
<1> QED BY <1>2, <1>4, <1>5, <1>6, <1>7, <1>8 DEF HInv

LEMMA HInvInit ==
    ASSUME Init
    PROVE  HInv
<1>0. <<>> \in Seq(Msg) /\ Len(<<>>) = 0 /\ 1..0 = {}
  OBVIOUS
<1>1. TypeOK
  <2>1. hist \in Seq(Msg) /\ file \in Seq(Msg)
    BY <1>0, Zenon DEF Init
  <2>2. local \in [Prompt -> Seq(Msg)] /\ batch \in [Prompt -> Seq(Msg)]
    BY <1>0 DEF Init
  <2>3. iter \in [Prompt -> 0..MaxIter] /\ asked \in [Prompt -> 0..MaxTools]
    BY HistoryAssumption DEF Init
  <2>4. /\ pc \in [Prompt -> {"new", "summarise", "ask", "run", "check", "done"}]
        /\ ret \in [Prompt -> {"ask", "check", "end"}]
        /\ ref \in [Prompt -> Nat]
        /\ present \in BOOLEAN /\ compacting \in BOOLEAN /\ object \in Nat /\ lives \in Nat
        /\ closing \in BOOLEAN
    BY DEF Init
  <2> QED BY <2>1, <2>2, <2>3, <2>4 DEF TypeOK
<1>2. \A p \in Prompt : pc[p] = "new"
  BY DEF Init
<1>3. IterOK /\ CompactOK /\ LocalOK
  BY <1>2 DEF IterOK, CompactOK, LocalOK, Busy
<1>4. Absent
  BY DEF Init, Absent
<1>5. SizeOK
  BY <1>0, <1>1, SizeTypes DEF SizeOK, Init
<1>6. HistoryOrdered /\ BehindOK
  BY <1>0 DEF Init, HistoryOrdered, Ordered, BehindOK, Behind
<1> QED BY <1>1, <1>3, <1>4, <1>5, <1>6 DEF HInv

LEMMA HInvNext ==
    ASSUME HInv, [Next]_vars
    PROVE  HInv'
<1>1. ASSUME NEW p \in Prompt, Step(p)
      PROVE  HInv'
  BY <1>1, BeginKeeps, AnswerKeeps, TextKeeps, ReturnKeeps, ToolsDoneKeeps, ContinueKeeps,
     CallKeeps, SummarisedKeeps DEF Step
<1>2. CASE ClearSession
  BY <1>2, ClearKeeps
<1>3. CASE Shutdown \/ Crash
  BY <1>3, SavedKeeps, CrashKeeps
<1>4. CASE UNCHANGED vars
  BY <1>4 DEF vars, promptVars, HInv, TypeOK, IterOK, CompactOK, Absent, SizeOK, HistoryOrdered,
              BehindOK, Behind, LocalOK, Busy, Over, Begun, Slack, Reached
<1> QED BY <1>1, <1>2, <1>3, <1>4 DEF Next

LEMMA HInvAlways == Spec => []HInv
BY HInvInit, HInvNext, PTL DEF Spec
-----------------------------------------------------------------------------
\* The variables of AgentCore and of every prompt keep their types.
THEOREM TypeCorrect == Spec => []TypeOK
<1>1. HInv => TypeOK
  BY DEF HInv
<1> QED BY <1>1, HInvAlways, PTL

\* However many prompts append without a trim, and however compactions,
\* clears and restarts fall between them, the history exceeds the hard limit by
\* one message for each prompt and the results of one response at most.
THEOREM HistoryBoundedAlways == Spec => []HistoryBounded
<1>1. ASSUME HInv PROVE HistoryBounded
  <2>0. TypeOK
    BY <1>1 DEF HInv
  <2>1. Over \in SUBSET Prompt /\ Prompt \in SUBSET Prompt /\ Over \subseteq Prompt
    BY DEF Over
  <2>2. Cardinality(Over) <= Cardinality(Prompt) /\ Cardinality(Prompt) \in Nat
    BY <2>1, CountPrompts
  <2>3. /\ Cardinality(Over) \in Nat /\ Slack \in Nat /\ Slack <= MaxTools /\ MaxTools \in Nat
        /\ MaxHistory \in Nat /\ Len(hist) \in Nat
    BY <2>0, SizeTypes
  <2>4. Len(hist) <= MaxHistory + Cardinality(Over) + Slack
    BY <1>1 DEF HInv, SizeOK
  <2> QED BY <2>2, <2>3, <2>4 DEF HistoryBounded
<1> QED BY <1>1, HInvAlways, PTL

\* In memory and in the file, whatever a trim, a compaction, a rollback, a
\* clear or a restart removed, what is left of a prompt is in the order in which
\* ProcessPrompt produced it and nothing stands before a summary.
THEOREM HistoryOrderedAlways == Spec => []HistoryOrdered
<1>1. HInv => HistoryOrdered
  BY DEF HInv
<1> QED BY <1>1, HInvAlways, PTL

\* The list that ProcessPrompt sends to the model never has a tool result
\* without its call before it: SanitizeHistory on an ordered history, and what
\* the tool loop adds to the copy, see to that.
THEOREM NoOrphanSentAlways == Spec => []NoOrphanSent
<1>1. ASSUME HInv PROVE NoOrphanSent
  <2> SUFFICES ASSUME NEW p \in Prompt, pc[p] = "ask", NEW j \in 1..Len(local[p]),
                      local[p][j].role = "tool"
               PROVE  \E i \in 1..(j - 1) : /\ local[p][i].role = "call"
                                            /\ local[p][i].by = local[p][j].by
                                            /\ local[p][i].it = local[p][j].it
    BY DEF NoOrphanSent
  <2>1. Closed(local[p])
    BY <1>1 DEF HInv, LocalOK
  <2> QED BY <2>1 DEF Closed, Answers
<1> QED BY <1>1, HInvAlways, PTL
=============================================================================
