------------------------- MODULE StepEnginesProofs -------------------------
(***************************************************************************)
(* PipelineExecutor and WorkflowEngine for any ids, lists, runs and number *)
(* of restarts.                                                            *)
(*                                                                         *)
(* The stores: what is deleted stays deleted and what is saved survives.   *)
(* Both follow from one inductive invariant, StoreInv; its last part       *)
(* relates the map to the copy that a creator is about to write, which the *)
(* mutex does not cover.                                                   *)
(*                                                                         *)
(* The runs: prompts are justified and the status tells what happened,     *)
(* from RunInv, which relates a run's position, its counter of retries and *)
(* all_success to the log of its prompts.                                  *)
(***************************************************************************)
EXTENDS StepEngines, TLAPS, FiniteSetTheorems, WellFoundedInduction, SequenceTheorems

Store == [Id -> Definitions \cup {None}]

StoreTyped ==
    /\ mem \in Store /\ disk \in Store /\ saving \in Store
    /\ used \subseteq Id /\ gone \subseteq used /\ saved \subseteq used

FreshAbsent == \A id \in Id \ used : mem[id] = None /\ disk[id] = None /\ saving[id] = None
GoneAbsent == \A id \in gone : mem[id] = None /\ disk[id] = None /\ saving[id] = None
SavedPresent == \A id \in saved : mem[id] # None /\ disk[id] = mem[id] /\ saving[id] = None
SavingCurrent == \A id \in Id : saving[id] # None /\ mem[id] # None => mem[id] = saving[id]

StoreInv == StoreTyped /\ FreshAbsent /\ GoneAbsent /\ SavedPresent /\ SavingCurrent

\* The empty stores satisfy the invariant.
LEMMA StoreInvInit == Init => StoreInv
  BY DEF Init, StoreInv, StoreTyped, Store, FreshAbsent, GoneAbsent, SavedPresent, SavingCurrent

\* Steps of a run leave the stores alone.
LEMMA StoreInvStutter == StoreInv /\ UNCHANGED storeVars => StoreInv'
  BY DEF StoreInv, StoreTyped, Store, FreshAbsent, GoneAbsent, SavedPresent, SavingCurrent, storeVars

\* CreatePipeline and CreateWorkflow: a fresh id gets its entry.
LEMMA StoreInvInsert ==
    ASSUME NEW id \in Id, NEW d \in Definitions, StoreInv, Insert(id, d)
    PROVE  StoreInv'
  <1> USE DEF StoreInv, StoreTyped, Store, Insert
  <1>1. StoreTyped'
    OBVIOUS
  <1>2. FreshAbsent'
    BY DEF FreshAbsent
  <1>3. GoneAbsent' /\ SavedPresent'
    BY DEF GoneAbsent, SavedPresent
  <1>4. SavingCurrent'
    BY DEF SavingCurrent
  <1> QED
    BY <1>1, <1>2, <1>3, <1>4

\* SavePipeline and SaveWorkflow: the file gets the creator's copy, or nothing.
LEMMA StoreInvSave ==
    ASSUME NEW id \in Id, StoreInv, Save(id)
    PROVE  StoreInv'
  <1> USE DEF StoreInv, StoreTyped, Store
  <1>1. id \in used /\ id \notin gone /\ id \notin saved
    BY DEF FreshAbsent, GoneAbsent, SavedPresent, Save
  <1>2. StoreTyped'
    BY <1>1 DEF Save
  <1>3. FreshAbsent' /\ GoneAbsent'
    BY <1>1 DEF FreshAbsent, GoneAbsent, Save
  <1>4. SavedPresent'
    BY <1>1 DEF SavedPresent, SavingCurrent, Save
  <1>5. SavingCurrent'
    BY DEF SavingCurrent, Save
  <1> QED
    BY <1>2, <1>3, <1>4, <1>5

\* DeletePipeline and DeleteWorkflow: entry and file disappear together.
LEMMA StoreInvForget ==
    ASSUME NEW id \in Id, StoreInv, Forget(id)
    PROVE  StoreInv'
  <1> USE DEF StoreInv, StoreTyped, Store
  <1>1. id \in used
    BY DEF FreshAbsent, Forget
  <1>2. StoreTyped'
    BY <1>1 DEF Forget
  <1>3. FreshAbsent' /\ GoneAbsent'
    BY <1>1 DEF FreshAbsent, GoneAbsent, Forget
  <1>4. SavedPresent' /\ SavingCurrent'
    BY DEF SavedPresent, SavingCurrent, Forget
  <1> QED
    BY <1>2, <1>3, <1>4

\* A restart: the maps are what the files say, and no creator is left.
LEMMA StoreInvRestart == StoreInv /\ Restart => StoreInv'
  <1> SUFFICES ASSUME StoreInv, Restart PROVE StoreInv'
    OBVIOUS
  <1>1. \A id \in Id : mem'[id] = disk[id]
    BY DEF Restart, LoadPipelines, LoadWorkflows, Id
  <1>2. StoreTyped'
    BY DEF StoreInv, StoreTyped, Store, Restart
  <1>3. FreshAbsent' /\ GoneAbsent' /\ SavedPresent' /\ SavingCurrent'
    BY <1>1 DEF StoreInv, StoreTyped, Restart, FreshAbsent, GoneAbsent, SavedPresent, SavingCurrent
  <1> QED
    BY <1>2, <1>3 DEF StoreInv

\* Every step of the engines keeps the invariant.
LEMMA StoreInvNext == StoreInv /\ [Next]_vars => StoreInv'
  <1> SUFFICES ASSUME StoreInv, [Next]_vars PROVE StoreInv'
    OBVIOUS
  <1>1. ASSUME NEW id \in PipelineId, CreatePipeline(id) \/ SavePipeline(id) \/ DeletePipeline(id)
        PROVE  StoreInv'
    BY <1>1, StoreInvInsert, StoreInvSave, StoreInvForget
       DEF CreatePipeline, SavePipeline, DeletePipeline, Id, Definitions
  <1>2. ASSUME NEW id \in WorkflowId, CreateWorkflow(id) \/ SaveWorkflow(id) \/ DeleteWorkflow(id)
        PROVE  StoreInv'
    BY <1>2, StoreInvInsert, StoreInvSave, StoreInvForget
       DEF CreateWorkflow, SaveWorkflow, DeleteWorkflow, Id, Definitions
  <1>3. ASSUME NEW r \in Run, NEW id \in Id, RunPipeline(r, id) \/ RunWorkflow(r, id)
        PROVE  StoreInv'
    BY <1>3, StoreInvStutter DEF RunPipeline, RunWorkflow, Begin
  <1>4. ASSUME NEW r \in Run, RunStep(r) PROVE StoreInv'
    BY <1>4, StoreInvStutter DEF RunStep, Condition, ExecuteStep, Finish
  <1>5. CASE Restart
    BY <1>5, StoreInvRestart
  <1>6. CASE UNCHANGED vars
    BY <1>6, StoreInvStutter DEF vars
  <1> QED
    BY <1>1, <1>2, <1>3, <1>4, <1>5, <1>6 DEF Next, Id

\* A list that was deleted after its creation had ended (DeletePipeline,
\* DeleteWorkflow) is never loaded or saved again.
THEOREM DeletedStaysDeletedAlways == Spec => []DeletedStaysDeleted
  <1>1. StoreInv => DeletedStaysDeleted
    BY DEF StoreInv, GoneAbsent, DeletedStaysDeleted
  <1> QED
    BY <1>1, StoreInvInit, StoreInvNext, PTL DEF Spec

\* A list whose save succeeded is in the map and on disk, unchanged, until
\* DeletePipeline or DeleteWorkflow removes it.
THEOREM SavedSurvivesAlways == Spec => []SavedSurvives
  <1>1. StoreInv => SavedSurvives
    BY DEF StoreInv, SavedPresent, SavedSurvives
  <1> QED
    BY <1>1, StoreInvInit, StoreInvNext, PTL DEF Spec
-----------------------------------------------------------------------------
(* The runs.  RunOK relates a run x to the log l of its prompts.           *)

Fields == DOMAIN Idle
Entry == Nat \X BOOLEAN

\* The exceptions of step i, and what the log says of a step the run has passed.
Count(l, i) == Cardinality({k \in 1..Len(l) : l[k] = <<i, TRUE>>})
Sent(l, i) == \E k \in 1..Len(l) : l[k][1] = i
Answered(l, i) == \E k \in 1..Len(l) : l[k] = <<i, FALSE>>
Kept(x, l, i) == Count(l, i) <= Allowed(x.steps[i])
Dropped(x, l, i) == Count(l, i) = Allowed(x.steps[i]) + 1

Base(x, l) ==
    /\ DOMAIN x = Fields
    /\ x.pc \in {"idle", "step", "end", "done"}
    /\ x.steps \in Definitions \cup {None}
    /\ x.at \in Nat \ {0} /\ x.retries \in Nat /\ x.all_success \in BOOLEAN
    /\ x.pc = "step" => x.at <= Len(x.steps)
    /\ x.pc \in {"step", "end"} => x.steps # None
    /\ x.pc = "idle" => x.steps = None
    /\ x.pc = "done" => x.status = IF x.steps = None THEN "failed" ELSE Status(x)
    /\ l \in Seq(Entry)

\* Steps are sent in the order of the list, and again only after an exception.
LogOrder(l) ==
    \A j, k \in 1..Len(l) : j < k => /\ l[j][1] <= l[k][1]
                                     /\ l[j][1] = l[k][1] => l[j][2]

\* No step ahead of the run is in the log, and the current one has not been
\* answered; its exceptions are the retries counted.
UpToNow(x, l) ==
    /\ \A k \in 1..Len(l) :
          /\ l[k][1] \in 1..Len(x.steps) /\ l[k][1] <= x.at
          /\ x.steps[l[k][1]].type # "condition"
          /\ x.pc = "step" /\ l[k][1] = x.at => l[k][2]
    /\ x.pc = "step" => Count(l, x.at) = x.retries /\ Kept(x, l, x.at)

\* A step behind the run was not sent, was answered, or was given up and may be
\* skipped; all_success tells whether one was given up.
Behind(x, l) ==
    \A i \in 1..Len(x.steps) : i < x.at =>
        \/ Kept(x, l, i) /\ (Sent(l, i) => Answered(l, i))
        \/ Dropped(x, l, i) /\ x.steps[i].skip_on_failure

Success(x, l) ==
    x.pc = "step" \/ x.at > Len(x.steps) =>
        (x.all_success <=> \A i \in 1..Len(x.steps) : i < x.at => Kept(x, l, i))

\* A run that ended inside the list ended at a step that may not be skipped.
EndedAt(x, l) ==
    x.pc \in {"end", "done"} /\ x.at <= Len(x.steps) =>
        Dropped(x, l, x.at) /\ ~x.steps[x.at].skip_on_failure

LogOK(x, l) == LogOrder(l) /\ UpToNow(x, l) /\ Behind(x, l) /\ Success(x, l) /\ EndedAt(x, l)

RunOK(x, l) == Base(x, l) /\ (Forward(x.steps) => LogOK(x, l))

RunInv == /\ run = [r \in Run |-> run[r]] /\ sent = [r \in Run |-> sent[r]]
          /\ \A r \in Run : RunOK(run[r], sent[r])

\* A non-empty set of natural numbers has a least element.
LEMMA LeastNat ==
    ASSUME NEW T \in SUBSET Nat, T # {}
    PROVE  \E k \in T : \A l \in T : k <= l
<1>1. IsWellFoundedOn(OpToRel(<, Nat), Nat)
  BY NatLessThanWellFounded
<1>2. PICK k \in T : \A l \in T : ~(<<l, k>> \in OpToRel(<, Nat))
  BY <1>1, WFMin, Zenon
<1>3. ASSUME NEW l \in T PROVE k <= l
  <2>1. l \in Nat /\ k \in Nat
    OBVIOUS
  <2>2. ~(l < k)
    BY <1>2, <2>1 DEF OpToRel
  <2> QED BY <2>1, <2>2
<1> QED BY <1>3

LEMMA ListFacts ==
    ASSUME NEW d \in Definitions \cup {None}
    PROVE  /\ Len(d) \in Nat /\ (d # None => Len(d) > 0)
           /\ \A i \in 1..Len(d) :
                 /\ d[i].max_retries \in Int /\ d[i].skip_on_failure \in BOOLEAN
                 /\ Allowed(d[i]) \in Nat
<1>1. CASE d \in Definitions
  <2>1. /\ Len(d) \in Nat \ {0}
        /\ \A i \in 1..Len(d) : d[i].max_retries \in Int /\ d[i].skip_on_failure \in BOOLEAN
    BY <1>1, EngineAssumption
  <2> QED BY <2>1 DEF Allowed
<1>2. CASE d = None
  BY <1>2 DEF None
<1> QED BY <1>1, <1>2

\* The position of a name in a list.
LEMMA IndexInside ==
    ASSUME NEW d \in Definitions \cup {None}, NEW name
    PROVE  IndexOf(d, name) \in 0..Len(d)
<1> DEFINE Named == {i \in 1..Len(d) : name # "" /\ d[i].id = name}
<1>0. Len(d) \in Nat
  BY ListFacts
<1>1. CASE Named = {}
  <2>1. IndexOf(d, name) = 0
    BY <1>1, Zenon DEF IndexOf
  <2> QED BY <1>0, <2>1
<1>2. CASE Named # {}
  <2>1. \A i \in Named : i \in Nat /\ i \in 0..Len(d)
    <3>1. \A i \in 1..Len(d) : i \in Nat /\ i \in 0..Len(d)
      BY <1>0
    <3> QED BY <3>1, Zenon
  <2>2. IndexOf(d, name) = CHOOSE i \in Named : \A j \in Named : i <= j
    BY <1>2, Zenon DEF IndexOf
  <2> HIDE DEF Named
  <2>3. \E k \in Named : \A j \in Named : k <= j
    BY <1>2, <2>1, LeastNat
  <2> QED BY <2>1, <2>2, <2>3
<1> QED BY <1>1, <1>2
-----------------------------------------------------------------------------
(* Counting exceptions.                                                    *)

LEMMA CountNat ==
    ASSUME NEW l \in Seq(Entry), NEW i
    PROVE  Count(l, i) \in Nat /\ (~Sent(l, i) => Count(l, i) = 0)
<1>0. Len(l) \in Nat
  BY LenProperties
<1>1. IsFiniteSet(1..Len(l))
  BY <1>0, FS_Interval
<1>2. {k \in 1..Len(l) : l[k] = <<i, TRUE>>} \subseteq 1..Len(l)
  OBVIOUS
<1>3. Count(l, i) \in Nat
  BY <1>1, <1>2, FS_Subset, FS_CardinalityType DEF Count
<1>4. ASSUME ~Sent(l, i) PROVE Count(l, i) = 0
  <2>1. ASSUME NEW k \in 1..Len(l), l[k] = <<i, TRUE>> PROVE FALSE
    <3>1. l[k][1] = i
      BY <2>1
    <3> QED BY <1>4, <3>1 DEF Sent
  <2>2. {k \in 1..Len(l) : l[k] = <<i, TRUE>>} = {}
    BY <2>1, Zenon
  <2> QED BY <2>2, FS_EmptySet DEF Count
<1> QED BY <1>3, <1>4

LEMMA EntryIs ==
    ASSUME NEW a \in Nat, NEW b \in BOOLEAN
    PROVE  <<a, b>> \in Entry /\ <<a, b>>[1] = a /\ <<a, b>>[2] = b
BY DEF Entry

LEMMA AppendEntry ==
    ASSUME NEW l \in Seq(Entry), NEW e \in Entry
    PROVE  /\ Append(l, e) \in Seq(Entry) /\ Len(Append(l, e)) = Len(l) + 1 /\ Len(l) \in Nat
           /\ Append(l, e)[Len(l) + 1] = e
           /\ \A k \in 1..Len(l) : Append(l, e)[k] = l[k]
           /\ \A k \in 1..(Len(l) + 1) : k \in 1..Len(l) \/ k = Len(l) + 1
<1>1. Len(l) \in Nat
  BY LenProperties
<1> QED BY <1>1, AppendProperties

LEMMA CountAppend ==
    ASSUME NEW l \in Seq(Entry), NEW a \in Nat, NEW b \in BOOLEAN, NEW i
    PROVE  Count(Append(l, <<a, b>>), i) = IF b /\ i = a THEN Count(l, i) + 1 ELSE Count(l, i)
<1>0. <<a, b>> \in Entry
  BY DEF Entry
<1>1. PICK g \in Seq(Entry) : g = Append(l, <<a, b>>)
  BY <1>0, AppendEntry
<1>2. /\ Len(g) = Len(l) + 1 /\ Len(l) \in Nat /\ g[Len(l) + 1] = <<a, b>>
      /\ \A k \in 1..Len(l) : g[k] = l[k]
      /\ \A k \in 1..(Len(l) + 1) : k \in 1..Len(l) \/ k = Len(l) + 1
  BY <1>0, <1>1, AppendEntry
<1> DEFINE S == {k \in 1..Len(l) : l[k] = <<i, TRUE>>}
           T == {k \in 1..Len(g) : g[k] = <<i, TRUE>>}
<1>3. IsFiniteSet(S) /\ Len(l) + 1 \notin S
  <2>1. IsFiniteSet(1..Len(l)) /\ Len(l) + 1 \notin 1..Len(l)
    BY <1>2, FS_Interval
  <2>2. S \subseteq 1..Len(l)
    BY Zenon
  <2> HIDE DEF S
  <2> QED BY <2>1, <2>2, FS_Subset
<1>4. \A k \in 1..Len(l) : k \in T <=> k \in S
  <2> TAKE k \in 1..Len(l)
  <2>1. k \in 1..Len(g) /\ g[k] = l[k]
    BY <1>2
  <2> QED BY <2>1, Zenon
<1>5. \A k \in T : k \in 1..Len(l) \/ k = Len(l) + 1
  <2> TAKE k \in T
  <2>1. k \in 1..Len(g)
    BY Zenon
  <2> QED BY <1>2, <2>1
<1>6. Len(l) + 1 \in T <=> b /\ i = a
  <2>1. Len(l) + 1 \in 1..Len(g)
    BY <1>2
  <2>2. Len(l) + 1 \in T <=> g[Len(l) + 1] = <<i, TRUE>>
    BY <2>1, Zenon
  <2>3. <<a, b>> = <<i, TRUE>> <=> b /\ i = a
    OBVIOUS
  <2> QED BY <1>2, <2>2, <2>3
<1>7. Count(g, i) = Cardinality(T) /\ Count(l, i) = Cardinality(S)
  BY Zenon DEF Count
<1>8. \A k \in S : k \in 1..Len(l)
  BY Zenon
<1> HIDE DEF S, T
<1>9. CASE b /\ i = a
  <2>1. T = S \cup {Len(l) + 1}
    BY <1>4, <1>5, <1>6, <1>8, <1>9
  <2>2. Cardinality(S \cup {Len(l) + 1}) = Cardinality(S) + 1
    BY <1>3, FS_AddElement
  <2> QED BY <1>1, <1>7, <1>9, <2>1, <2>2
<1>10. CASE ~(b /\ i = a)
  <2>1. T = S
    BY <1>4, <1>5, <1>6, <1>8, <1>10
  <2> QED BY <1>1, <1>7, <1>10, <2>1
<1> QED BY <1>9, <1>10
-----------------------------------------------------------------------------
(* The steps of a run.                                                     *)

LEMMA RecordIs ==
    Fields = {"pc", "id", "steps", "at", "retries", "vars", "all_success", "results", "status"}
BY DEF Fields, Idle

\* The run goes on with step i, or is over.
LEMMA MovedIs ==
    ASSUME NEW x, DOMAIN x = Fields, NEW i
    PROVE  /\ DOMAIN Moved(x, i) = Fields
           /\ Moved(x, i).at = i /\ Moved(x, i).retries = 0
           /\ Moved(x, i).pc = (IF i > Len(x.steps) THEN "end" ELSE "step")
           /\ Moved(x, i).steps = x.steps /\ Moved(x, i).all_success = x.all_success
BY RecordIs DEF Moved

\* What is asked of a log when the run, with the steps of x, has come to the step
\* n: the exceptions of the steps behind are settled.
LEMMA MoveOK ==
    ASSUME NEW x, DOMAIN x = Fields, x.steps \in Definitions, x.all_success \in BOOLEAN,
           NEW n \in Nat \ {0}, NEW l \in Seq(Entry),
           Forward(x.steps) =>
             /\ LogOrder(l)
             /\ \A k \in 1..Len(l) : /\ l[k][1] \in 1..Len(x.steps) /\ l[k][1] < n
                                     /\ x.steps[l[k][1]].type # "condition"
             /\ \A i \in 1..Len(x.steps) : i < n =>
                  \/ Kept(x, l, i) /\ (Sent(l, i) => Answered(l, i))
                  \/ Dropped(x, l, i) /\ x.steps[i].skip_on_failure
             /\ x.all_success <=> \A i \in 1..Len(x.steps) : i < n => Kept(x, l, i)
    PROVE  RunOK(Moved(x, n), l)
<1>0. PICK y : y = Moved(x, n)
  OBVIOUS
<1>1. /\ DOMAIN y = Fields /\ y.at = n /\ y.retries = 0
      /\ y.pc = (IF n > Len(x.steps) THEN "end" ELSE "step")
      /\ y.steps = x.steps /\ y.all_success = x.all_success
  BY <1>0, MovedIs
<1>2. Len(x.steps) \in Nat /\ x.steps # None
      /\ \A i \in 1..Len(x.steps) : Allowed(x.steps[i]) \in Nat
  BY ListFacts, EngineAssumption
<1>3. Base(y, l)
  BY <1>1, <1>2 DEF Base
<1>4. ASSUME Forward(x.steps) PROVE LogOK(y, l)
  <2>1. LogOrder(l)
    BY <1>4
  <2>2. \A k \in 1..Len(l) : /\ l[k][1] \in 1..Len(x.steps) /\ l[k][1] < n
                             /\ x.steps[l[k][1]].type # "condition"
    BY <1>4
  <2>3. UpToNow(y, l)
    <3>1. \A k \in 1..Len(l) :
             /\ l[k][1] \in 1..Len(y.steps) /\ l[k][1] <= y.at
             /\ y.steps[l[k][1]].type # "condition"
             /\ y.pc = "step" /\ l[k][1] = y.at => l[k][2]
      <4> TAKE k \in 1..Len(l)
      <4>1. PICK a \in 1..Len(x.steps) : a = l[k][1] /\ a < n /\ x.steps[a].type # "condition"
        BY <2>2
      <4>2. a \in 1..Len(y.steps) /\ a <= y.at /\ y.steps[a].type # "condition" /\ a # y.at
        BY <1>1, <1>2, <4>1
      <4> QED BY <4>1, <4>2
    <3>2. ~Sent(l, n)
      BY <2>2 DEF Sent
    <3>3. Count(l, n) = 0
      BY <3>2, CountNat
    <3>4. y.pc = "step" => Count(l, y.at) = y.retries /\ Kept(y, l, y.at)
      <4>1. SUFFICES ASSUME y.pc = "step" PROVE Count(l, y.at) = y.retries /\ Kept(y, l, y.at)
        OBVIOUS
      <4>2. n \in 1..Len(x.steps)
        BY <1>1, <1>2, <4>1
      <4>3. 0 <= Allowed(x.steps[n])
        BY <1>2, <4>2
      <4> QED BY <1>1, <3>3, <4>3 DEF Kept
    <3> QED BY <3>1, <3>4 DEF UpToNow
  <2>4. Behind(y, l)
    BY <1>1, <1>4 DEF Behind, Kept, Dropped
  <2>5. Success(y, l)
    BY <1>1, <1>4 DEF Success, Kept
  <2>6. EndedAt(y, l)
    BY <1>1, <1>2 DEF EndedAt
  <2> QED BY <2>1, <2>3, <2>4, <2>5, <2>6 DEF LogOK
<1>5. Forward(y.steps) <=> Forward(x.steps)
  BY <1>1
<1>6. RunOK(y, l)
  BY <1>3, <1>4, <1>5 DEF RunOK
<1> QED BY <1>0, <1>6

\* A run begins: with an empty log, or at once with its failure.
LEMMA BeginOK ==
    ASSUME NEW id, NEW input, NEW d \in Definitions \cup {None}
    PROVE  RunOK(IF d = None THEN [Idle EXCEPT !.pc = "done", !.id = id, !.status = "failed"]
                 ELSE Moved([Idle EXCEPT !.id = id, !.steps = d, !.vars = input], 1), <<>>)
<1>0. <<>> \in Seq(Entry) /\ Len(<<>>) = 0 /\ 1..0 = {} /\ 1 \in Nat \ {0}
  OBVIOUS
<1>1. CASE d = None
  <2>1. PICK x : x = [Idle EXCEPT !.pc = "done", !.id = id, !.status = "failed"]
    OBVIOUS
  <2>2. /\ DOMAIN x = Fields /\ x.pc = "done" /\ x.steps = None /\ x.at = 1 /\ x.retries = 0
        /\ x.all_success = TRUE /\ x.status = "failed"
    BY <2>1 DEF Idle, Fields
  <2>3. Base(x, <<>>)
    <3>1. PICK e \in Seq(Entry) : e = <<>>
      BY <1>0, Zenon
    <3>2. x.all_success \in BOOLEAN /\ x.steps \in Definitions \cup {None}
      BY <2>2, Zenon
    <3>3. x.at \in Nat \ {0} /\ x.retries \in Nat
      BY <2>2
    <3>4. /\ x.pc \in {"idle", "step", "end", "done"} /\ x.pc # "step"
          /\ x.pc \notin {"step", "end"} /\ x.pc # "idle"
          /\ x.status = IF x.steps = None THEN "failed" ELSE Status(x)
      BY <2>2
    <3>5. Base(x, e)
      BY <2>2, <3>2, <3>3, <3>4, Zenon DEF Base
    <3> QED BY <3>1, <3>5
  <2>4. LogOK(x, <<>>)
    <3>1. Len(x.steps) = 0
      BY <2>2 DEF None
    <3>2. LogOrder(<<>>) /\ UpToNow(x, <<>>) /\ EndedAt(x, <<>>)
      BY <1>0, <2>2, <3>1 DEF LogOrder, UpToNow, EndedAt
    <3>3. Behind(x, <<>>) /\ Success(x, <<>>)
      BY <1>0, <2>2, <3>1 DEF Behind, Success
    <3> QED BY <3>2, <3>3 DEF LogOK
  <2>5. RunOK(x, <<>>)
    BY <2>3, <2>4 DEF RunOK
  <2> QED BY <1>1, <2>1, <2>5
<1>2. CASE d # None
  <2>1. PICK x : x = [Idle EXCEPT !.id = id, !.steps = d, !.vars = input]
    OBVIOUS
  <2>2. DOMAIN x = Fields /\ x.steps = d /\ x.all_success = TRUE
    BY <2>1 DEF Idle, Fields
  <2>3. x.steps \in Definitions
    BY <1>2, <2>2
  <2>4. LogOrder(<<>>)
    BY <1>0 DEF LogOrder
  <2>5. \A i \in 1..Len(x.steps) : ~(i < 1)
    BY <2>3, ListFacts
  <2>6. RunOK(Moved(x, 1), <<>>)
    BY <1>0, <2>2, <2>3, <2>4, <2>5, MoveOK
  <2> QED BY <1>2, <2>1, <2>6
<1> QED BY <1>1, <1>2

\* What a run in a step knows.
LEMMA InStep ==
    ASSUME NEW x, NEW l, RunOK(x, l), x.pc = "step"
    PROVE  /\ DOMAIN x = Fields /\ x.steps \in Definitions /\ l \in Seq(Entry)
           /\ x.at \in Nat \ {0} /\ x.at \in 1..Len(x.steps) /\ Len(x.steps) \in Nat
           /\ x.retries \in Nat /\ x.all_success \in BOOLEAN
           /\ \A i \in 1..Len(x.steps) :
                 /\ x.steps[i].max_retries \in Int /\ x.steps[i].skip_on_failure \in BOOLEAN
                 /\ Allowed(x.steps[i]) \in Nat
<1>1. Base(x, l)
  BY DEF RunOK
<1>2. x.steps \in Definitions /\ x.at \in Nat \ {0} /\ x.at <= Len(x.steps)
  BY <1>1 DEF Base
<1>3. /\ Len(x.steps) \in Nat
      /\ \A i \in 1..Len(x.steps) :
            /\ x.steps[i].max_retries \in Int /\ x.steps[i].skip_on_failure \in BOOLEAN
            /\ Allowed(x.steps[i]) \in Nat
  BY <1>2, ListFacts
<1>4. x.at \in 1..Len(x.steps)
  BY <1>2, <1>3
<1> QED BY <1>1, <1>2, <1>3, <1>4 DEF Base

\* A condition: nothing is sent, and the run goes on behind it.
LEMMA ConditionOK ==
    ASSUME NEW x, NEW l, RunOK(x, l), x.pc = "step", x.steps[x.at].type = "condition",
           NEW holds \in BOOLEAN, NEW v
    PROVE  RunOK(Moved([x EXCEPT !.vars = v], Target(x, holds)), l)
<1>0. /\ DOMAIN x = Fields /\ x.steps \in Definitions /\ l \in Seq(Entry)
      /\ x.at \in Nat \ {0} /\ x.at \in 1..Len(x.steps) /\ Len(x.steps) \in Nat
      /\ x.all_success \in BOOLEAN
      /\ \A i \in 1..Len(x.steps) : Allowed(x.steps[i]) \in Nat
  BY InStep
<1>1. PICK y : y = [x EXCEPT !.vars = v]
  OBVIOUS
<1>2. DOMAIN y = Fields /\ y.steps = x.steps /\ y.all_success = x.all_success
  BY <1>0, <1>1, RecordIs
<1>3. PICK name : /\ name \in {x.steps[x.at].then_step, x.steps[x.at].else_step}
                  /\ Target(x, holds) = IF IndexOf(x.steps, name) = 0 THEN x.at + 1
                                        ELSE IndexOf(x.steps, name)
  <2>1. CASE holds
    BY <2>1 DEF Target
  <2>2. CASE ~holds
    BY <2>2 DEF Target
  <2> QED BY <2>1, <2>2
<1>4. PICK n \in Nat \ {0} : n = Target(x, holds)
  <2>1. IndexOf(x.steps, name) \in 0..Len(x.steps)
    BY <1>0, IndexInside
  <2> QED BY <1>0, <1>3, <2>1
<1>5. ASSUME Forward(x.steps)
      PROVE  /\ LogOrder(l)
             /\ \A k \in 1..Len(l) : /\ l[k][1] \in 1..Len(y.steps) /\ l[k][1] < n
                                     /\ y.steps[l[k][1]].type # "condition"
             /\ \A i \in 1..Len(y.steps) : i < n =>
                  \/ Kept(y, l, i) /\ (Sent(l, i) => Answered(l, i))
                  \/ Dropped(y, l, i) /\ y.steps[i].skip_on_failure
             /\ y.all_success <=> \A i \in 1..Len(y.steps) : i < n => Kept(y, l, i)
  <2>0. LogOK(x, l)
    BY <1>5 DEF RunOK
  <2>1. x.at < n
    <3>1. IndexOf(x.steps, name) \notin 1..x.at
      BY <1>0, <1>3, <1>5 DEF Forward
    <3>2. IndexOf(x.steps, name) \in 0..Len(x.steps)
      BY <1>0, IndexInside
    <3>3. PICK t \in 0..Len(x.steps) : t = IndexOf(x.steps, name)
      BY <3>2
    <3> QED BY <1>0, <1>3, <1>4, <3>1, <3>3
  <2>2. \A k \in 1..Len(l) : /\ l[k][1] \in 1..Len(x.steps) /\ l[k][1] < x.at
                             /\ x.steps[l[k][1]].type # "condition"
    <3> TAKE k \in 1..Len(l)
    <3>1. /\ l[k][1] \in 1..Len(x.steps) /\ l[k][1] <= x.at
          /\ x.steps[l[k][1]].type # "condition"
      BY <2>0 DEF LogOK, UpToNow
    <3>2. l[k][1] # x.at
      BY <3>1
    <3> QED BY <1>0, <3>1, <3>2
  <2>3. \A k \in 1..Len(l) : l[k][1] < n
    BY <1>0, <2>1, <2>2
  <2>4. ASSUME NEW i \in 1..Len(x.steps), ~(i < x.at)
        PROVE  ~Sent(l, i) /\ Kept(x, l, i)
    <3>1. ~Sent(l, i)
      BY <1>0, <2>2, <2>4 DEF Sent
    <3>2. Count(l, i) = 0
      BY <1>0, <3>1, CountNat
    <3> QED BY <1>0, <3>1, <3>2 DEF Kept
  <2>5. \A i \in 1..Len(x.steps) : i < n =>
           \/ Kept(x, l, i) /\ (Sent(l, i) => Answered(l, i))
           \/ Dropped(x, l, i) /\ x.steps[i].skip_on_failure
    BY <2>0, <2>4 DEF LogOK, Behind
  <2>6. x.all_success <=> \A i \in 1..Len(x.steps) : i < n => Kept(x, l, i)
    <3>1. x.all_success <=> \A i \in 1..Len(x.steps) : i < x.at => Kept(x, l, i)
      BY <2>0 DEF LogOK, Success
    <3>2. \A i \in 1..Len(x.steps) : i < x.at => i < n
      BY <1>0, <2>1
    <3> QED BY <2>4, <3>1, <3>2
  <2>7. LogOrder(l)
    BY <2>0 DEF LogOK
  <2> QED BY <1>2, <2>2, <2>3, <2>5, <2>6, <2>7 DEF Kept, Dropped
<1>6. y.steps \in Definitions /\ y.all_success \in BOOLEAN
  BY <1>0, <1>2
<1>7. RunOK(Moved(y, n), l)
  BY <1>0, <1>2, <1>4, <1>5, <1>6, MoveOK
<1> QED BY <1>1, <1>4, <1>7

\* What the log g says of the run x after a prompt of its step was added to the
\* log l: b tells whether the prompt threw.
Extended(x, l, g, b) ==
    /\ g \in Seq(Entry) /\ LogOrder(g)
    /\ \A k \in 1..Len(g) : /\ g[k][1] \in 1..Len(x.steps) /\ g[k][1] <= x.at
                            /\ x.steps[g[k][1]].type # "condition"
                            /\ b = TRUE /\ g[k][1] = x.at => g[k][2]
    /\ \A i : Count(g, i) = IF b = TRUE /\ i = x.at THEN x.retries + 1
                            ELSE IF i = x.at THEN x.retries ELSE Count(l, i)
    /\ \A i : i # x.at => (Sent(g, i) <=> Sent(l, i)) /\ (Answered(l, i) => Answered(g, i))
    /\ b = FALSE => Answered(g, x.at)

\* The log with one more prompt of the current step.
LEMMA LogAppend ==
    ASSUME NEW x, NEW l, RunOK(x, l), x.pc = "step", x.steps[x.at].type # "condition",
           NEW b \in BOOLEAN, Forward(x.steps), NEW g, g = Append(l, <<x.at, b>>)
    PROVE  Extended(x, l, g, b)
<1>0. /\ l \in Seq(Entry) /\ x.at \in Nat /\ x.at \in 1..Len(x.steps) /\ Len(x.steps) \in Nat
  BY InStep
<1>1. LogOK(x, l)
  BY DEF RunOK
<1>2. PICK e \in Entry : e = <<x.at, b>> /\ e[1] = x.at /\ e[2] = b
  BY <1>0, EntryIs
<1>3. /\ g \in Seq(Entry) /\ Len(g) = Len(l) + 1 /\ Len(l) \in Nat
      /\ g[Len(l) + 1] = e
      /\ \A k \in 1..Len(l) : g[k] = l[k]
      /\ \A k \in 1..(Len(l) + 1) : k \in 1..Len(l) \/ k = Len(l) + 1
  BY <1>0, <1>2, AppendEntry
<1>4. \A k \in 1..Len(l) : /\ l[k][1] \in 1..Len(x.steps) /\ l[k][1] <= x.at
                           /\ x.steps[l[k][1]].type # "condition"
                           /\ l[k][1] = x.at => l[k][2]
  BY <1>1 DEF LogOK, UpToNow
<1>5. LogOrder(g)
  <2> SUFFICES ASSUME NEW j \in 1..Len(g), NEW k \in 1..Len(g), j < k
               PROVE  g[j][1] <= g[k][1] /\ (g[j][1] = g[k][1] => g[j][2])
    BY DEF LogOrder
  <2>1. j \in 1..Len(l) /\ g[j] = l[j]
    BY <1>3
  <2>2. CASE k \in 1..Len(l)
    BY <1>1, <1>3, <2>1, <2>2 DEF LogOK, LogOrder
  <2>3. CASE k = Len(l) + 1
    BY <1>2, <1>3, <1>4, <2>1, <2>3
  <2> QED BY <1>3, <2>2, <2>3
<1>6. ASSUME NEW k \in 1..Len(g)
      PROVE  /\ g[k][1] \in 1..Len(x.steps) /\ g[k][1] <= x.at
             /\ x.steps[g[k][1]].type # "condition"
             /\ b = TRUE /\ g[k][1] = x.at => g[k][2]
  <2>1. CASE k \in 1..Len(l)
    BY <1>3, <1>4, <2>1
  <2>2. CASE k = Len(l) + 1
    BY <1>0, <1>2, <1>3, <2>2
  <2> QED BY <1>3, <2>1, <2>2
<1>7. ASSUME NEW i
      PROVE  Count(g, i) = IF b = TRUE /\ i = x.at THEN x.retries + 1
                           ELSE IF i = x.at THEN x.retries ELSE Count(l, i)
  <2>1. Count(l, x.at) = x.retries
    BY <1>1 DEF LogOK, UpToNow
  <2>2. Count(g, i) = IF b /\ i = x.at THEN Count(l, i) + 1 ELSE Count(l, i)
    BY <1>0, CountAppend
  <2> QED BY <2>1, <2>2
<1>8. ASSUME NEW i, i # x.at
      PROVE  (Sent(g, i) <=> Sent(l, i)) /\ (Answered(l, i) => Answered(g, i))
  <2>1. 1..Len(l) \subseteq 1..Len(g)
    BY <1>3
  <2> QED BY <1>2, <1>3, <1>8, <2>1 DEF Sent, Answered
<1>9. ASSUME b = FALSE PROVE Answered(g, x.at)
  <2>2. g[Len(l) + 1] = <<x.at, FALSE>>
    BY <1>2, <1>3, <1>9, Zenon
  <2>3. Len(l) + 1 \in 1..Len(g)
    BY <1>3
  <2> QED BY <2>2, <2>3 DEF Answered
<1> QED BY <1>3, <1>5, <1>6, <1>7, <1>8, <1>9 DEF Extended

\* The current step was answered.
LEMMA AnswerOK ==
    ASSUME NEW x, NEW l, RunOK(x, l), x.pc = "step", x.steps[x.at].type # "condition", NEW text
    PROVE  RunOK(Stored(x, text, TRUE), Append(l, <<x.at, FALSE>>))
<1>0. /\ DOMAIN x = Fields /\ x.steps \in Definitions /\ l \in Seq(Entry)
      /\ x.at \in Nat \ {0} /\ x.at \in 1..Len(x.steps) /\ Len(x.steps) \in Nat
      /\ x.retries \in Nat /\ x.all_success \in BOOLEAN
      /\ \A i \in 1..Len(x.steps) : Allowed(x.steps[i]) \in Nat
  BY InStep
<1>1. PICK y : y = [x EXCEPT !.vars = Set(@, x.steps[x.at].output_var, Parsed[text]),
                             !.results = Append(@, <<x.steps[x.at].id, text>>),
                             !.all_success = @ /\ TRUE]
  OBVIOUS
<1>2. DOMAIN y = Fields /\ y.steps = x.steps /\ y.all_success = x.all_success
  <2>1. DOMAIN y = Fields /\ y.steps = x.steps /\ y.all_success = (x.all_success /\ TRUE)
    BY <1>0, <1>1, RecordIs
  <2>2. (x.all_success /\ TRUE) = x.all_success
    BY <1>0, Zenon
  <2> QED BY <2>1, <2>2
<1>3. Stored(x, text, TRUE) = Moved(y, x.at + 1)
  BY <1>1 DEF Stored
<1>4. PICK n \in Nat \ {0} : n = x.at + 1
  BY <1>0
<1>5. PICK g \in Seq(Entry) : g = Append(l, <<x.at, FALSE>>)
  <2>1. <<x.at, FALSE>> \in Entry
    BY <1>0, EntryIs
  <2> QED BY <1>0, <2>1, AppendEntry
<1>6. ASSUME Forward(x.steps)
      PROVE  /\ LogOrder(g)
             /\ \A k \in 1..Len(g) : /\ g[k][1] \in 1..Len(y.steps) /\ g[k][1] < n
                                     /\ y.steps[g[k][1]].type # "condition"
             /\ \A i \in 1..Len(y.steps) : i < n =>
                  \/ Kept(y, g, i) /\ (Sent(g, i) => Answered(g, i))
                  \/ Dropped(y, g, i) /\ y.steps[i].skip_on_failure
             /\ y.all_success <=> \A i \in 1..Len(y.steps) : i < n => Kept(y, g, i)
  <2>0. LogOK(x, l)
    BY <1>6 DEF RunOK
  <2>1. /\ LogOrder(g)
        /\ \A k \in 1..Len(g) : /\ g[k][1] \in 1..Len(x.steps) /\ g[k][1] <= x.at
                                /\ x.steps[g[k][1]].type # "condition"
        /\ \A i : Count(g, i) = IF i = x.at THEN x.retries ELSE Count(l, i)
        /\ \A i : i # x.at => (Sent(g, i) <=> Sent(l, i)) /\ (Answered(l, i) => Answered(g, i))
        /\ Answered(g, x.at)
    <3>1. Extended(x, l, g, FALSE)
      BY <1>5, <1>6, LogAppend, Zenon
    <3> QED BY <3>1 DEF Extended
  <2>2. \A k \in 1..Len(g) : g[k][1] < n
    BY <1>0, <1>4, <2>1
  <2>3. Count(l, x.at) = x.retries /\ Kept(x, l, x.at)
    BY <2>0 DEF LogOK, UpToNow
  <2>4. \A i \in 1..Len(x.steps) : Kept(x, g, i) <=> Kept(x, l, i)
    BY <2>1, <2>3 DEF Kept
  <2>5. \A i \in 1..Len(x.steps) : i < n <=> i < x.at \/ i = x.at
    BY <1>0, <1>4
  <2>6. ASSUME NEW i \in 1..Len(x.steps), i < n
        PROVE  \/ Kept(x, g, i) /\ (Sent(g, i) => Answered(g, i))
               \/ Dropped(x, g, i) /\ x.steps[i].skip_on_failure
    <3>1. CASE i = x.at
      BY <2>1, <2>3, <2>4, <3>1
    <3>2. CASE i # x.at
      <4>1. i < x.at
        BY <2>5, <2>6, <3>2
      <4>2. \/ Kept(x, l, i) /\ (Sent(l, i) => Answered(l, i))
            \/ Dropped(x, l, i) /\ x.steps[i].skip_on_failure
        BY <2>0, <4>1 DEF LogOK, Behind
      <4>3. Count(g, i) = Count(l, i)
        BY <2>1, <3>2
      <4> QED BY <2>1, <2>4, <3>2, <4>2, <4>3 DEF Dropped
    <3> QED BY <3>1, <3>2
  <2>7. x.all_success <=> \A i \in 1..Len(x.steps) : i < n => Kept(x, g, i)
    <3>1. x.all_success <=> \A i \in 1..Len(x.steps) : i < x.at => Kept(x, l, i)
      BY <2>0 DEF LogOK, Success
    <3> QED BY <2>3, <2>4, <2>5, <3>1
  <2> QED BY <1>2, <2>1, <2>2, <2>6, <2>7 DEF Kept, Dropped
<1>7. y.steps \in Definitions /\ y.all_success \in BOOLEAN
  BY <1>0, <1>2
<1>8. RunOK(Moved(y, n), g)
  BY <1>2, <1>6, <1>7, MoveOK
<1> QED BY <1>3, <1>4, <1>5, <1>8

\* The current step threw and is tried again.
LEMMA RetryOK ==
    ASSUME NEW x, NEW l, RunOK(x, l), x.pc = "step", x.steps[x.at].type # "condition", MayRetry(x)
    PROVE  RunOK([x EXCEPT !.retries = @ + 1], Append(l, <<x.at, TRUE>>))
<1>0. /\ DOMAIN x = Fields /\ x.steps \in Definitions /\ l \in Seq(Entry)
      /\ x.at \in Nat \ {0} /\ x.at \in 1..Len(x.steps) /\ Len(x.steps) \in Nat
      /\ x.retries \in Nat /\ x.all_success \in BOOLEAN
      /\ x.steps[x.at].max_retries \in Int
  BY InStep
<1>1. PICK y : y = [x EXCEPT !.retries = @ + 1]
  OBVIOUS
<1>2. /\ DOMAIN y = Fields /\ y.steps = x.steps /\ y.all_success = x.all_success
      /\ y.pc = "step" /\ y.at = x.at /\ y.retries = x.retries + 1
  BY <1>0, <1>1, RecordIs
<1>3. PICK g \in Seq(Entry) : g = Append(l, <<x.at, TRUE>>)
  <2>1. <<x.at, TRUE>> \in Entry
    BY <1>0, EntryIs
  <2> QED BY <1>0, <2>1, AppendEntry
<1>4. Base(y, g)
  <2>1. x.steps # None
    BY <1>0, EngineAssumption
  <2> QED BY <1>0, <1>2, <2>1 DEF Base
<1>5. x.retries + 1 <= Allowed(x.steps[x.at])
  BY <1>0 DEF MayRetry, Allowed
<1>6. ASSUME Forward(x.steps) PROVE LogOK(y, g)
  <2>0. LogOK(x, l)
    BY <1>6 DEF RunOK
  <2>1. /\ LogOrder(g)
        /\ \A k \in 1..Len(g) : /\ g[k][1] \in 1..Len(x.steps) /\ g[k][1] <= x.at
                                /\ x.steps[g[k][1]].type # "condition"
                                /\ g[k][1] = x.at => g[k][2]
        /\ \A i : Count(g, i) = IF i = x.at THEN x.retries + 1 ELSE Count(l, i)
        /\ \A i : i # x.at => (Sent(g, i) <=> Sent(l, i)) /\ (Answered(l, i) => Answered(g, i))
    <3>1. Extended(x, l, g, TRUE)
      BY <1>3, <1>6, LogAppend, Zenon
    <3> QED BY <3>1 DEF Extended
  <2>2. UpToNow(y, g)
    BY <1>2, <1>5, <2>1 DEF UpToNow, Kept
  <2>3. \A i \in 1..Len(x.steps) : i < x.at => Count(g, i) = Count(l, i) /\ i # x.at
    BY <1>0, <2>1
  <2>4. Behind(y, g)
    BY <1>2, <2>0, <2>1, <2>3 DEF LogOK, Behind, Kept, Dropped
  <2>5. Success(y, g)
    BY <1>2, <2>0, <2>3 DEF LogOK, Success, Kept
  <2>6. EndedAt(y, g)
    BY <1>2 DEF EndedAt
  <2> QED BY <2>1, <2>2, <2>4, <2>5, <2>6 DEF LogOK
<1>7. RunOK(y, g)
  BY <1>2, <1>4, <1>6 DEF RunOK
<1> QED BY <1>1, <1>3, <1>7

\* The current step threw and its retries are used up.
LEMMA GiveUpOK ==
    ASSUME NEW x, NEW l, RunOK(x, l), x.pc = "step", x.steps[x.at].type # "condition", ~MayRetry(x)
    PROVE  RunOK(Stored(x, "Error", FALSE), Append(l, <<x.at, TRUE>>))
<1>0. /\ DOMAIN x = Fields /\ x.steps \in Definitions /\ l \in Seq(Entry)
      /\ x.at \in Nat \ {0} /\ x.at \in 1..Len(x.steps) /\ Len(x.steps) \in Nat
      /\ x.retries \in Nat /\ x.all_success \in BOOLEAN
      /\ x.steps[x.at].max_retries \in Int /\ x.steps[x.at].skip_on_failure \in BOOLEAN
  BY InStep
<1>1. PICK y : y = [x EXCEPT !.vars = Set(@, x.steps[x.at].output_var, Parsed["Error"]),
                             !.results = Append(@, <<x.steps[x.at].id, "Error">>),
                             !.all_success = @ /\ FALSE]
  OBVIOUS
<1>2. /\ DOMAIN y = Fields /\ y.steps = x.steps /\ y.all_success = FALSE
      /\ y.at = x.at /\ y.retries = x.retries
  <2>1. /\ DOMAIN y = Fields /\ y.steps = x.steps /\ y.all_success = (x.all_success /\ FALSE)
        /\ y.at = x.at /\ y.retries = x.retries
    BY <1>0, <1>1, RecordIs
  <2> QED BY <2>1
<1>3. PICK g \in Seq(Entry) : g = Append(l, <<x.at, TRUE>>)
  <2>1. <<x.at, TRUE>> \in Entry
    BY <1>0, EntryIs
  <2> QED BY <1>0, <2>1, AppendEntry
<1>4. PICK n \in Nat \ {0} : n = x.at + 1
  BY <1>0
<1>5. ASSUME Forward(x.steps)
      PROVE  /\ LogOrder(g)
             /\ \A k \in 1..Len(g) : /\ g[k][1] \in 1..Len(x.steps) /\ g[k][1] <= x.at
                                     /\ x.steps[g[k][1]].type # "condition"
             /\ Dropped(x, g, x.at) /\ ~Kept(x, g, x.at)
             /\ \A i \in 1..Len(x.steps) : i < x.at =>
                  \/ Kept(x, g, i) /\ (Sent(g, i) => Answered(g, i))
                  \/ Dropped(x, g, i) /\ x.steps[i].skip_on_failure
  <2>0. LogOK(x, l)
    BY <1>5 DEF RunOK
  <2>1. /\ LogOrder(g)
        /\ \A k \in 1..Len(g) : /\ g[k][1] \in 1..Len(x.steps) /\ g[k][1] <= x.at
                                /\ x.steps[g[k][1]].type # "condition"
        /\ \A i : Count(g, i) = IF i = x.at THEN x.retries + 1 ELSE Count(l, i)
        /\ \A i : i # x.at => (Sent(g, i) <=> Sent(l, i)) /\ (Answered(l, i) => Answered(g, i))
    <3>1. Extended(x, l, g, TRUE)
      BY <1>3, <1>5, LogAppend, Zenon
    <3> QED BY <3>1 DEF Extended
  <2>2. x.retries = Allowed(x.steps[x.at])
    <3>1. Count(l, x.at) = x.retries /\ Kept(x, l, x.at)
      BY <2>0 DEF LogOK, UpToNow
    <3>2. x.retries <= Allowed(x.steps[x.at])
      BY <3>1 DEF Kept
    <3> QED BY <1>0, <3>2 DEF MayRetry, Allowed
  <2>3. Dropped(x, g, x.at) /\ ~Kept(x, g, x.at)
    BY <1>0, <2>1, <2>2 DEF Dropped, Kept
  <2>4. \A i \in 1..Len(x.steps) : i < x.at => Count(g, i) = Count(l, i) /\ i # x.at
    BY <1>0, <2>1
  <2>5. \A i \in 1..Len(x.steps) : i < x.at =>
           \/ Kept(x, g, i) /\ (Sent(g, i) => Answered(g, i))
           \/ Dropped(x, g, i) /\ x.steps[i].skip_on_failure
    BY <2>0, <2>1, <2>4 DEF LogOK, Behind, Kept, Dropped
  <2> QED BY <2>1, <2>3, <2>5
<1>6. CASE x.steps[x.at].skip_on_failure
  <2>1. Stored(x, "Error", FALSE) = Moved(y, n)
    BY <1>1, <1>4, <1>6 DEF Stored
  <2>2. ASSUME Forward(x.steps)
        PROVE  /\ LogOrder(g)
               /\ \A k \in 1..Len(g) : /\ g[k][1] \in 1..Len(y.steps) /\ g[k][1] < n
                                       /\ y.steps[g[k][1]].type # "condition"
               /\ \A i \in 1..Len(y.steps) : i < n =>
                    \/ Kept(y, g, i) /\ (Sent(g, i) => Answered(g, i))
                    \/ Dropped(y, g, i) /\ y.steps[i].skip_on_failure
               /\ y.all_success <=> \A i \in 1..Len(y.steps) : i < n => Kept(y, g, i)
    <3>1. \A k \in 1..Len(g) : g[k][1] < n
      BY <1>0, <1>4, <1>5, <2>2
    <3>2. (\A i \in 1..Len(x.steps) : i < n => i < x.at \/ i = x.at) /\ x.at < n
      BY <1>0, <1>4
    <3>3. ~\A i \in 1..Len(x.steps) : i < n => Kept(x, g, i)
      BY <1>0, <1>5, <2>2, <3>2
    <3>4. ASSUME NEW i \in 1..Len(x.steps), i < n
          PROVE  \/ Kept(x, g, i) /\ (Sent(g, i) => Answered(g, i))
                 \/ Dropped(x, g, i) /\ x.steps[i].skip_on_failure
      BY <1>5, <1>6, <2>2, <3>2, <3>4
    <3> QED BY <1>2, <1>5, <2>2, <3>1, <3>3, <3>4 DEF Kept, Dropped
  <2>3. y.steps \in Definitions /\ y.all_success \in BOOLEAN
    BY <1>0, <1>2
  <2>4. RunOK(Moved(y, n), g)
    BY <1>2, <2>2, <2>3, MoveOK
  <2> QED BY <1>3, <2>1, <2>4
<1>7. CASE ~x.steps[x.at].skip_on_failure
  <2>1. PICK z : z = [y EXCEPT !.pc = "end"]
    OBVIOUS
  <2>2. Stored(x, "Error", FALSE) = z
    BY <1>1, <1>7, <2>1 DEF Stored
  <2>3. /\ DOMAIN z = Fields /\ z.steps = x.steps /\ z.all_success = FALSE
        /\ z.at = x.at /\ z.retries = x.retries /\ z.pc = "end"
    BY <1>2, <2>1, RecordIs
  <2>4. Base(z, g)
    <3>1. x.steps # None
      BY <1>0, EngineAssumption
    <3> QED BY <1>0, <2>3, <3>1 DEF Base
  <2>5. ASSUME Forward(x.steps) PROVE LogOK(z, g)
    <3>1. UpToNow(z, g)
      BY <1>5, <2>3, <2>5 DEF UpToNow
    <3>2. Behind(z, g)
      BY <1>5, <2>3, <2>5 DEF Behind, Kept, Dropped
    <3>3. Success(z, g)
      BY <1>0, <2>3 DEF Success
    <3>4. EndedAt(z, g)
      BY <1>5, <1>7, <2>3, <2>5 DEF EndedAt, Dropped
    <3> QED BY <1>5, <2>5, <3>1, <3>2, <3>3, <3>4 DEF LogOK
  <2>6. RunOK(z, g)
    BY <2>3, <2>4, <2>5 DEF RunOK
  <2> QED BY <1>3, <2>2, <2>6
<1> QED BY <1>6, <1>7

\* The run is over and returns its status.
LEMMA FinishOK ==
    ASSUME NEW x, NEW l, RunOK(x, l), x.pc = "end"
    PROVE  RunOK([x EXCEPT !.pc = "done", !.status = Status(x)], l)
<1>0. Base(x, l)
  BY DEF RunOK
<1>1. PICK y : y = [x EXCEPT !.pc = "done", !.status = Status(x)]
  OBVIOUS
<1>2. /\ DOMAIN y = Fields /\ y.pc = "done" /\ y.status = Status(x) /\ y.steps = x.steps
      /\ y.at = x.at /\ y.retries = x.retries /\ y.all_success = x.all_success
  BY <1>0, <1>1, RecordIs DEF Base
<1>3. Status(y) = Status(x)
  BY <1>2 DEF Status
<1>4. Base(y, l)
  BY <1>0, <1>2, <1>3 DEF Base
<1>5. ASSUME Forward(x.steps) PROVE LogOK(y, l)
  <2>0. LogOK(x, l)
    BY <1>5 DEF RunOK
  <2>1. UpToNow(y, l)
    BY <1>2, <2>0 DEF LogOK, UpToNow
  <2>2. Behind(y, l) /\ Success(y, l) /\ EndedAt(y, l)
    BY <1>2, <2>0 DEF LogOK, Behind, Success, EndedAt, Kept, Dropped
  <2> QED BY <2>0, <2>1, <2>2 DEF LogOK
<1>6. RunOK(y, l)
  BY <1>2, <1>4, <1>5 DEF RunOK
<1> QED BY <1>1, <1>6

\* A thread that runs nothing.
LEMMA IdleOK == RunOK(Idle, <<>>)
<1>0. <<>> \in Seq(Entry) /\ Len(<<>>) = 0 /\ 1..0 = {}
  OBVIOUS
<1>1. PICK e \in Seq(Entry) : e = <<>>
  BY <1>0, Zenon
<1>2. /\ DOMAIN Idle = Fields /\ Idle.pc = "idle" /\ Idle.steps = None /\ Idle.at = 1
      /\ Idle.retries = 0 /\ Idle.all_success = TRUE
  BY DEF Idle, Fields
<1>3. Base(Idle, e)
  <2>1. Idle.all_success \in BOOLEAN /\ Idle.steps \in Definitions \cup {None}
    BY <1>2, Zenon
  <2>2. Idle.at \in Nat \ {0} /\ Idle.retries \in Nat
    BY <1>2
  <2>3. /\ Idle.pc \in {"idle", "step", "end", "done"} /\ Idle.pc # "step"
        /\ Idle.pc \notin {"step", "end"} /\ Idle.pc # "done"
    BY <1>2
  <2> QED BY <1>2, <2>1, <2>2, <2>3, Zenon DEF Base
<1>4. LogOK(Idle, e)
  <2>1. Len(Idle.steps) = 0 /\ Len(e) = 0
    BY <1>1, <1>2 DEF None
  <2>2. LogOrder(e) /\ UpToNow(Idle, e) /\ EndedAt(Idle, e)
    BY <1>0, <1>2, <2>1 DEF LogOrder, UpToNow, EndedAt
  <2>3. Behind(Idle, e) /\ Success(Idle, e)
    BY <1>0, <1>2, <2>1 DEF Behind, Success
  <2> QED BY <2>2, <2>3 DEF LogOK
<1> QED BY <1>1, <1>3, <1>4 DEF RunOK

\* One run and its log change, the others stay.
LEMMA RunChanges ==
    ASSUME RunInv, NEW r \in Run, NEW y, NEW g, RunOK(y, g),
           run' = [run EXCEPT ![r] = y], sent' = [sent EXCEPT ![r] = g]
    PROVE  RunInv'
<1>1. run' = [q \in Run |-> run'[q]] /\ sent' = [q \in Run |-> sent'[q]]
  BY DEF RunInv
<1>2. ASSUME NEW q \in Run PROVE RunOK(run'[q], sent'[q])
  <2>1. CASE q = r
    <3>1. run'[q] = y /\ sent'[q] = g
      BY <2>1 DEF RunInv
    <3> QED BY <3>1
  <2>2. CASE q # r
    <3>1. run'[q] = run[q] /\ sent'[q] = sent[q]
      BY <2>2 DEF RunInv
    <3> QED BY <3>1 DEF RunInv
  <2> QED BY <2>1, <2>2
<1> QED BY <1>1, <1>2 DEF RunInv

LEMMA RunInvInit == Init => RunInv
<1> SUFFICES ASSUME Init PROVE RunInv
  OBVIOUS
<1>1. \A r \in Run : run[r] = Idle /\ sent[r] = <<>>
  BY DEF Init
<1>2. run = [r \in Run |-> run[r]] /\ sent = [r \in Run |-> sent[r]]
  BY DEF Init
<1> QED BY <1>1, <1>2, IdleOK DEF RunInv

LEMMA RunInvStutter == RunInv /\ run' = run /\ sent' = sent => RunInv'
BY DEF RunInv

LEMMA RunInvBegin ==
    ASSUME RunInv, StoreInv, NEW r \in Run, NEW id \in Id, NEW input, Begin(r, id, input)
    PROVE  RunInv'
<1>1. PICK d \in Definitions \cup {None} : d = mem[id]
  BY DEF StoreInv, StoreTyped, Store
<1>2. PICK y : y = IF d = None THEN [Idle EXCEPT !.pc = "done", !.id = id, !.status = "failed"]
                   ELSE Moved([Idle EXCEPT !.id = id, !.steps = d, !.vars = input], 1)
  OBVIOUS
<1>3. RunOK(y, <<>>)
  BY <1>2, BeginOK
<1>4. run' = [run EXCEPT ![r] = y] /\ sent' = [sent EXCEPT ![r] = <<>>]
  BY <1>1, <1>2 DEF Begin
<1> QED BY <1>3, <1>4, RunChanges

LEMMA RunInvCondition ==
    ASSUME RunInv, NEW r \in Run, Condition(r)
    PROVE  RunInv'
<1>1. PICK x, l : x = run[r] /\ l = sent[r]
  OBVIOUS
<1>2. RunOK(x, l) /\ x.pc = "step" /\ x.steps[x.at].type = "condition"
  BY <1>1 DEF RunInv, Condition, AtStep, Step
<1>3. PICK holds \in BOOLEAN : holds = EvalCondition(x.steps[x.at].condition, x.vars)
  BY Zenon DEF EvalCondition
<1>4. PICK v : v = Set(x.vars, x.steps[x.at].output_var, IF holds THEN "true" ELSE "false")
  OBVIOUS
<1>5. PICK y : y = Moved([x EXCEPT !.vars = v], Target(x, holds))
  OBVIOUS
<1>6. RunOK(y, l)
  BY <1>2, <1>5, ConditionOK
<1>7. run' = [run EXCEPT ![r] = y]
  BY <1>1, <1>3, <1>4, <1>5 DEF Condition, Step
<1>8. sent' = [sent EXCEPT ![r] = l]
  BY <1>1 DEF Condition, RunInv
<1> QED BY <1>6, <1>7, <1>8, RunChanges

LEMMA RunInvExecute ==
    ASSUME RunInv, NEW r \in Run, ExecuteStep(r)
    PROVE  RunInv'
<1>1. PICK x, l : x = run[r] /\ l = sent[r]
  OBVIOUS
<1>2. RunOK(x, l) /\ x.pc = "step" /\ x.steps[x.at].type # "condition"
  BY <1>1 DEF RunInv, ExecuteStep, AtStep, Step
<1>3. CASE /\ \E text \in Text : run' = [run EXCEPT ![r] = Stored(x, text, TRUE)]
           /\ sent' = [sent EXCEPT ![r] = Append(@, <<x.at, FALSE>>)]
  <2>1. PICK text \in Text : run' = [run EXCEPT ![r] = Stored(x, text, TRUE)]
    BY <1>3
  <2>2. PICK y, g : y = Stored(x, text, TRUE) /\ g = Append(l, <<x.at, FALSE>>)
    OBVIOUS
  <2>3. RunOK(y, g)
    BY <1>2, <2>2, AnswerOK
  <2>4. run' = [run EXCEPT ![r] = y] /\ sent' = [sent EXCEPT ![r] = g]
    BY <1>1, <1>3, <2>1, <2>2
  <2> QED BY <2>3, <2>4, RunChanges
<1>4. CASE /\ run' = [run EXCEPT ![r] = IF MayRetry(x) THEN [x EXCEPT !.retries = @ + 1]
                                        ELSE Stored(x, "Error", FALSE)]
           /\ sent' = [sent EXCEPT ![r] = Append(@, <<x.at, TRUE>>)]
  <2>1. PICK y, g : /\ y = IF MayRetry(x) THEN [x EXCEPT !.retries = @ + 1]
                           ELSE Stored(x, "Error", FALSE)
                    /\ g = Append(l, <<x.at, TRUE>>)
    OBVIOUS
  <2>2. RunOK(y, g)
    <3>1. CASE MayRetry(x)
      BY <1>2, <2>1, <3>1, RetryOK
    <3>2. CASE ~MayRetry(x)
      BY <1>2, <2>1, <3>2, GiveUpOK
    <3> QED BY <3>1, <3>2
  <2>3. run' = [run EXCEPT ![r] = y] /\ sent' = [sent EXCEPT ![r] = g]
    BY <1>1, <1>4, <2>1
  <2> QED BY <2>2, <2>3, RunChanges
<1> QED BY <1>1, <1>3, <1>4 DEF ExecuteStep

LEMMA RunInvFinish ==
    ASSUME RunInv, NEW r \in Run, Finish(r)
    PROVE  RunInv'
<1>1. PICK x, l : x = run[r] /\ l = sent[r]
  OBVIOUS
<1>2. RunOK(x, l) /\ x.pc = "end"
  BY <1>1 DEF RunInv, Finish
<1>3. PICK y : y = [x EXCEPT !.pc = "done", !.status = Status(x)]
  OBVIOUS
<1>4. RunOK(y, l)
  BY <1>2, <1>3, FinishOK
<1>5. run' = [run EXCEPT ![r] = y]
  BY <1>1, <1>3 DEF Finish
<1>6. sent' = [sent EXCEPT ![r] = l]
  BY <1>1 DEF Finish, RunInv
<1> QED BY <1>4, <1>5, <1>6, RunChanges

\* Every step of the engines keeps the invariant of the runs.
LEMMA RunInvNext == RunInv /\ StoreInv /\ [Next]_vars => RunInv'
<1> SUFFICES ASSUME RunInv, StoreInv, [Next]_vars PROVE RunInv'
  OBVIOUS
<1>1. ASSUME NEW id \in PipelineId, CreatePipeline(id) \/ SavePipeline(id) \/ DeletePipeline(id)
      PROVE  RunInv'
  BY <1>1, RunInvStutter
     DEF CreatePipeline, SavePipeline, DeletePipeline, Insert, Save, Forget, runVars
<1>2. ASSUME NEW id \in WorkflowId, CreateWorkflow(id) \/ SaveWorkflow(id) \/ DeleteWorkflow(id)
      PROVE  RunInv'
  BY <1>2, RunInvStutter
     DEF CreateWorkflow, SaveWorkflow, DeleteWorkflow, Insert, Save, Forget, runVars
<1>3. ASSUME NEW r \in Run, NEW id \in Id, RunPipeline(r, id) \/ RunWorkflow(r, id)
      PROVE  RunInv'
  BY <1>3, RunInvBegin DEF RunPipeline, RunWorkflow
<1>4. ASSUME NEW r \in Run, RunStep(r) PROVE RunInv'
  BY <1>4, RunInvCondition, RunInvExecute, RunInvFinish DEF RunStep
<1>5. CASE Restart
  <2>1. \A r \in Run : run'[r] = Idle /\ sent'[r] = <<>>
    BY <1>5 DEF Restart
  <2>2. run' = [r \in Run |-> run'[r]] /\ sent' = [r \in Run |-> sent'[r]]
    BY <1>5 DEF Restart
  <2> QED BY <2>1, <2>2, IdleOK DEF RunInv
<1>6. CASE UNCHANGED vars
  BY <1>6, RunInvStutter DEF vars, runVars
<1> QED
  BY <1>1, <1>2, <1>3, <1>4, <1>5, <1>6 DEF Next, Id
-----------------------------------------------------------------------------
(* What a run's log and its status tell.                                   *)

\* No step throws more often than it may.
LEMMA ThrowsBounded ==
    ASSUME NEW x, NEW l, RunOK(x, l), Forward(x.steps), NEW i \in 1..Len(x.steps)
    PROVE  Count(l, i) \in Nat /\ Count(l, i) <= Allowed(x.steps[i]) + 1
<1>1. Base(x, l) /\ LogOK(x, l)
  BY DEF RunOK
<1>2. l \in Seq(Entry) /\ x.steps \in Definitions \cup {None} /\ x.at \in Nat
  BY <1>1 DEF Base
<1>3. Len(x.steps) \in Nat /\ Allowed(x.steps[i]) \in Nat /\ i \in Nat
  BY <1>2, ListFacts
<1>4. Count(l, i) \in Nat /\ (~Sent(l, i) => Count(l, i) = 0)
  BY <1>2, CountNat
<1>5. CASE i < x.at
  <2>1. Kept(x, l, i) \/ Dropped(x, l, i)
    BY <1>1, <1>5 DEF LogOK, Behind
  <2> QED BY <1>3, <1>4, <2>1 DEF Kept, Dropped
<1>6. CASE i = x.at
  <2>1. CASE x.pc = "step"
    <3>1. Kept(x, l, i)
      BY <1>1, <1>6, <2>1 DEF LogOK, UpToNow
    <3> QED BY <1>3, <1>4, <3>1 DEF Kept
  <2>2. CASE x.pc \in {"end", "done"}
    <3>1. Dropped(x, l, i)
      BY <1>1, <1>3, <1>6, <2>2 DEF LogOK, EndedAt
    <3> QED BY <1>3, <1>4, <3>1 DEF Dropped
  <2>3. CASE x.pc = "idle"
    <3>1. x.steps = None
      BY <1>1, <2>3 DEF Base
    <3>2. Len(x.steps) = 0
      BY <3>1 DEF None
    <3> QED BY <3>2
  <2> QED BY <1>1, <2>1, <2>2, <2>3 DEF Base
<1>7. CASE i > x.at
  <2>1. \A k \in 1..Len(l) : l[k][1] # i
    <3> TAKE k \in 1..Len(l)
    <3>1. l[k][1] \in 1..Len(x.steps) /\ l[k][1] <= x.at
      BY <1>1 DEF LogOK, UpToNow
    <3> QED BY <1>2, <1>3, <1>7, <3>1
  <2>2. Count(l, i) = 0
    BY <1>4, <2>1 DEF Sent
  <2> QED BY <1>3, <2>2
<1> QED BY <1>2, <1>3, <1>5, <1>6, <1>7

\* An entry that another step follows is the answer, or the step was given up.
LEMMA PassedJustified ==
    ASSUME NEW x, NEW l, RunOK(x, l), Forward(x.steps),
           NEW k \in 1..(Len(l) - 1), l[k + 1][1] # l[k][1]
    PROVE  \/ ~l[k][2]
           \/ x.steps[l[k][1]].skip_on_failure /\ Dropped(x, l, l[k][1])
<1>1. Base(x, l) /\ LogOK(x, l)
  BY DEF RunOK
<1>2. /\ l \in Seq(Entry) /\ x.steps \in Definitions \cup {None} /\ x.at \in Nat
      /\ Len(l) \in Nat /\ Len(x.steps) \in Nat
  <2>1. l \in Seq(Entry) /\ x.steps \in Definitions \cup {None} /\ x.at \in Nat
    BY <1>1 DEF Base
  <2> QED BY <2>1, ListFacts, LenProperties
<1>3. k \in 1..Len(l) /\ k + 1 \in 1..Len(l) /\ k < k + 1 /\ k \in Nat
  BY <1>2
<1>4. PICK i \in 1..Len(x.steps) : i = l[k][1]
  BY <1>1, <1>3 DEF LogOK, UpToNow
<1>5. PICK n \in 1..Len(x.steps) : n = l[k + 1][1] /\ n <= x.at
  BY <1>1, <1>3 DEF LogOK, UpToNow
<1>6. i < n
  <2>1. i <= n
    BY <1>1, <1>3, <1>4, <1>5 DEF LogOK, LogOrder
  <2> QED BY <1>2, <1>4, <1>5, <2>1
<1>7. i < x.at
  BY <1>2, <1>5, <1>6
<1>8. \/ Kept(x, l, i) /\ (Sent(l, i) => Answered(l, i))
      \/ Dropped(x, l, i) /\ x.steps[i].skip_on_failure
  BY <1>1, <1>7 DEF LogOK, Behind
<1>9. Sent(l, i)
  BY <1>3, <1>4 DEF Sent
<1>10. ASSUME Answered(l, i) PROVE ~l[k][2]
  <2>1. PICK m \in 1..Len(l) : l[m] = <<i, FALSE>>
    BY <1>10 DEF Answered
  <2>2. l[m][1] = i /\ ~l[m][2]
    BY <2>1
  <2>3. CASE m < k
    BY <1>1, <1>3, <1>4, <2>2, <2>3 DEF LogOK, LogOrder
  <2>4. CASE m = k
    BY <2>2, <2>4
  <2>5. CASE m = k + 1
    BY <1>4, <2>2, <2>5
  <2>6. CASE k + 1 < m
    <3>1. n <= i
      BY <1>1, <1>3, <1>5, <2>2, <2>6 DEF LogOK, LogOrder
    <3> QED BY <1>2, <1>6, <3>1
  <2> QED BY <1>2, <1>3, <2>3, <2>4, <2>5, <2>6
<1> QED BY <1>4, <1>8, <1>9, <1>10

\* Why a prompt follows another (the do-while of RunPipeline and RunWorkflow),
\* for any lists whose conditions jump forward and any number of runs: a step
\* is sent again only after it threw, at most max_retries times, and passed
\* only when it was answered, or given up and skippable.
THEOREM PromptsJustifiedAlways == Spec => []PromptsJustified
<1>1. RunInv => PromptsJustified
  <2> SUFFICES ASSUME RunInv, NEW r \in Run, Forward(run[r].steps), NEW k \in 1..Len(sent[r]) - 1
               PROVE  IF sent[r][k + 1][1] = sent[r][k][1]
                      THEN /\ sent[r][k][2]
                           /\ Throws(r, sent[r][k][1]) <= Allowed(run[r].steps[sent[r][k][1]]) + 1
                      ELSE \/ ~sent[r][k][2]
                           \/ /\ run[r].steps[sent[r][k][1]].skip_on_failure
                              /\ Throws(r, sent[r][k][1]) = Allowed(run[r].steps[sent[r][k][1]]) + 1
    BY DEF PromptsJustified
  <2>1. PICK x, l : x = run[r] /\ l = sent[r]
    OBVIOUS
  <2>2. RunOK(x, l) /\ Forward(x.steps) /\ k \in 1..(Len(l) - 1)
    BY <2>1 DEF RunInv
  <2>3. \A i : Throws(r, i) = Count(l, i)
    BY <2>1 DEF Throws, Count
  <2>4. Base(x, l) /\ LogOK(x, l)
    BY <2>2 DEF RunOK
  <2>5. Len(l) \in Nat
    BY <2>4, LenProperties DEF Base
  <2>6. k \in 1..Len(l) /\ k + 1 \in 1..Len(l) /\ k < k + 1
    BY <2>2, <2>5
  <2>7. PICK i \in 1..Len(x.steps) : i = l[k][1]
    BY <2>4, <2>6 DEF LogOK, UpToNow
  <2>8. CASE l[k + 1][1] = i
    <3>1. l[k][2]
      BY <2>4, <2>6, <2>7, <2>8 DEF LogOK, LogOrder
    <3>2. Count(l, i) <= Allowed(x.steps[i]) + 1
      BY <2>2, ThrowsBounded
    <3> QED BY <2>1, <2>3, <2>7, <2>8, <3>1, <3>2
  <2>9. CASE l[k + 1][1] # i
    <3>1. ~l[k][2] \/ (x.steps[i].skip_on_failure /\ Dropped(x, l, i))
      BY <2>2, <2>7, <2>9, PassedJustified
    <3> QED BY <2>1, <2>3, <2>7, <2>9, <3>1 DEF Dropped
  <2> QED BY <2>8, <2>9
<1> QED BY <1>1, StoreInvInit, StoreInvNext, RunInvInit, RunInvNext, PTL DEF Spec

\* The status that RunPipeline and RunWorkflow return tells which steps were
\* given up, for any lists whose conditions jump forward.
THEOREM StatusTellsAlways == Spec => []StatusTells
<1>1. RunInv => StatusTells
  <2> SUFFICES ASSUME RunInv, NEW r \in Run, run[r].pc = "done", Forward(run[r].steps)
               PROVE  /\ run[r].status = "failed" <=>
                           run[r].steps = None \/ {i \in GivenUp(r) : ~run[r].steps[i].skip_on_failure} # {}
                      /\ run[r].status = "success" <=> run[r].steps # None /\ GivenUp(r) = {}
    BY DEF StatusTells
  <2>1. PICK x, l : x = run[r] /\ l = sent[r]
    OBVIOUS
  <2>2. RunOK(x, l) /\ Forward(x.steps) /\ x.pc = "done"
    BY <2>1 DEF RunInv
  <2>3. Base(x, l) /\ LogOK(x, l)
    BY <2>2 DEF RunOK
  <2>4. /\ l \in Seq(Entry) /\ x.steps \in Definitions \cup {None} /\ x.at \in Nat \ {0}
        /\ x.all_success \in BOOLEAN
        /\ x.status = IF x.steps = None THEN "failed" ELSE Status(x)
    BY <2>2, <2>3 DEF Base
  <2>5. /\ Len(x.steps) \in Nat
        /\ \A i \in 1..Len(x.steps) : Allowed(x.steps[i]) \in Nat
    BY <2>4, ListFacts
  <2>6. \A i : i \in GivenUp(r) <=> i \in 1..Len(x.steps) /\ Count(l, i) > Allowed(x.steps[i])
    BY <2>1 DEF GivenUp, Throws, Count
  <2>7. \A i \in 1..Len(x.steps) : i \in GivenUp(r) <=> ~Kept(x, l, i)
    <3> TAKE i \in 1..Len(x.steps)
    <3>1. Count(l, i) \in Nat /\ Allowed(x.steps[i]) \in Nat
      BY <2>4, <2>5, CountNat
    <3> QED BY <2>6, <3>1 DEF Kept
  <2>8. CASE x.steps = None
    <3>1. x.status = "failed" /\ Len(x.steps) = 0
      BY <2>4, <2>8 DEF None
    <3> QED BY <2>1, <2>8, <3>1
  <2>9. CASE x.steps # None /\ x.at <= Len(x.steps)
    <3>1. x.status = "failed"
      BY <2>4, <2>9 DEF Status
    <3>2. x.at \in 1..Len(x.steps) /\ Dropped(x, l, x.at) /\ ~x.steps[x.at].skip_on_failure
      BY <2>2, <2>3, <2>4, <2>5, <2>9 DEF LogOK, EndedAt
    <3>3. Count(l, x.at) > Allowed(x.steps[x.at])
      BY <2>5, <3>2 DEF Dropped
    <3>4. x.at \in GivenUp(r)
      BY <2>6, <3>2, <3>3
    <3>5. x.at \in {i \in GivenUp(r) : ~run[r].steps[i].skip_on_failure}
      BY <2>1, <3>2, <3>4
    <3> QED BY <2>1, <2>9, <3>1, <3>4, <3>5
  <2>10. CASE x.steps # None /\ ~(x.at <= Len(x.steps))
    <3>1. x.status = IF x.all_success THEN "success" ELSE "partial"
      BY <2>4, <2>10 DEF Status
    <3>2. \A i \in 1..Len(x.steps) : i < x.at
      BY <2>4, <2>5, <2>10
    <3>3. x.at > Len(x.steps)
      BY <2>4, <2>5, <2>10
    <3>4. x.all_success <=> \A i \in 1..Len(x.steps) : Kept(x, l, i)
      BY <2>3, <3>2, <3>3 DEF LogOK, Success
    <3>5. x.all_success <=> GivenUp(r) = {}
      BY <2>6, <2>7, <3>4
    <3>6. ASSUME NEW i \in GivenUp(r) PROVE x.steps[i].skip_on_failure
      <4>1. i \in 1..Len(x.steps) /\ ~Kept(x, l, i)
        BY <2>6, <2>7, <3>6
      <4> QED BY <2>3, <3>2, <4>1 DEF LogOK, Behind
    <3>7. {i \in GivenUp(r) : ~run[r].steps[i].skip_on_failure} = {}
      BY <2>1, <3>6
    <3>8. x.status # "failed" /\ (x.status = "success" <=> x.all_success)
      BY <3>1
    <3> QED BY <2>1, <2>10, <3>5, <3>7, <3>8
  <2> QED BY <2>8, <2>9, <2>10
<1> QED BY <1>1, StoreInvInit, StoreInvNext, RunInvInit, RunInvNext, PTL DEF Spec
=============================================================================
