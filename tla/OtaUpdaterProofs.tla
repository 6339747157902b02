-------------------------- MODULE OtaUpdaterProofs --------------------------
(***************************************************************************)
(* What holds of SkillCatalog and OtaUpdater for every set of skills,      *)
(* prompts and versions, with crashes and failures at every step.          *)
(***************************************************************************)
EXTENDS OtaUpdater, TLAPS, WellFoundedInduction, SequenceTheorems

\* The thread of the updater does nothing else while an update is under way.
UpdaterBusy == job.step # "no" => pc[Updater] = "idle"

\* The flag is set on an empty list only while a ReloadSkills is between clearing
\* the list and clearing the flag.
FlagTells == cache = Cleared => ~loaded \/ \E t \in Thread : pc[t] = "cleared"

\* Whoever is about to take the list has met the reload that is there now, and the
\* one that has emptied the list since the flag was read.
Met ==
    \A t \in Thread :
        /\ pc[t] \in Taking /\ (\E u \in Thread : pc[u] = "cleared") => t \in overlap
        /\ pc[t] = "cached" /\ cache = Cleared => t \in overlap

\* Nobody serves from the cache while the directories are scanned; what the scan
\* has read is on disk, but for what changed since.
ScanUnderWay ==
    /\ holder # Nobody => ~loaded
    /\ \A t \in Thread : pc[t] = "scan" => holder = t
ScanFaithful ==
    holder # Nobody => \A s \in All \ toRead : acc[s] = Offered(disk[s]) \/ s \in suspect

\* Somebody is going to reload the list, or to clear the flag.
Heard == \E i \in 1..Len(inotify) : ~inotify[i].made
Coming ==
    \/ toReload \/ Heard
    \/ \E t \in Thread : pc[t] \in {"reload", "cleared"}
    \/ pc[Manager] = "written"
    \/ job.step = "drop"

\* A list that is served from the cache is the one on disk, with the exceptions
\* of FreshAtRest, unless a reload is coming.
ListInv ==
    loaded => \/ Coming
              \/ cache # Cleared /\ \A s \in All : Fresh(s) \/ s \in suspect \cup silent

\* There is a whole backup of skill s with a manifest.
GoodBackup(b) == b.whole /\ b.ver > 0
BackedUp(s) == \E i \in 1..Len(backups) : backups[i].skill = s /\ GoodBackup(backups[i])

\* While an update is past its backup, and while a rollback has taken the skill
\* away, the way back is there; a rollback that is to drop the backup has put
\* the skill in place.
WayBack ==
    target \in had \ spoiled =>
        /\ job.step \in {"download", "remove", "mkdir", "install"} => BackedUp(target)
        /\ job.step = "restore" => GoodBackup(backups[job.from])
        /\ job.step = "drop" => disk[target] > 0

\* The backup a rollback has chosen stays where it is.
RollbackHas == job.step \in {"clear", "restore", "drop"} => job.from \in Fitting(target)
-----------------------------------------------------------------------------
\* A nonempty set of naturals has a least element.
LEMMA LeastNat ==
    ASSUME NEW T \in SUBSET Nat, T # {}
    PROVE  \E k \in T : \A l \in T : k <= l
<1>1. IsWellFoundedOn(OpToRel(<, Nat), Nat)
  BY NatLessThanWellFounded
<1>2. \E k \in T : \A l \in T : ~(<<l, k>> \in OpToRel(<, Nat))
  BY <1>1, WFMin, Zenon
<1>3. PICK k \in T : \A l \in T : ~(<<l, k>> \in OpToRel(<, Nat))
  BY <1>2
<1>4. ASSUME NEW l \in T PROVE k <= l
  <2>1. l \in Nat /\ k \in Nat
    OBVIOUS
  <2>2. ~(l < k)
    BY <1>3, <2>1 DEF OpToRel
  <2> QED BY <2>1, <2>2
<1> QED BY <1>4

\* A set of positions in a sequence has a last one.
LEMMA LastPosition ==
    ASSUME NEW n \in Nat, NEW S \in SUBSET (1..n), S # {}
    PROVE  \E m \in S : \A j \in S : j <= m
<1> DEFINE T == {n - i : i \in S}
<1>1. \A i \in S : i \in Int /\ n - i \in Nat
  <2> SUFFICES ASSUME NEW i \in S PROVE i \in Int /\ n - i \in Nat
    OBVIOUS
  <2>1. i \in 1..n
    OBVIOUS
  <2> QED BY <2>1
<1>2. T \in SUBSET Nat /\ T # {}
  BY <1>1
<1>3. PICK k \in T : \A l \in T : k <= l
  <2> HIDE DEF T
  <2> QED BY <1>2, LeastNat
<1>4. PICK m \in S : k = n - m
  OBVIOUS
<1>5. ASSUME NEW j \in S PROVE j <= m
  <2>1. n - m <= n - j
    BY <1>3, <1>4
  <2> QED BY <2>1, <1>1
<1> QED BY <1>5

\* The backup a rollback takes is one of the skill.
LEMMA LatestFits ==
    ASSUME TypeOK, NEW s \in Skill, Fitting(s) # {}
    PROVE  Latest(s) \in Fitting(s) /\ Latest(s) \in Nat
<1>1. Len(backups) \in Nat /\ Fitting(s) \in SUBSET (1..Len(backups))
  BY DEF TypeOK, Fitting
<1>2. \E m \in Fitting(s) : \A j \in Fitting(s) : j <= m
  BY <1>1, LastPosition
<1>3. Latest(s) \in Fitting(s)
  BY <1>2 DEF Latest
<1> QED BY <1>1, <1>3

\* One thread moves.
LEMMA GotoType ==
    ASSUME pc \in [Thread -> Places], NEW t \in Thread, NEW place \in Places, Goto(t, place)
    PROVE  /\ pc' \in [Thread -> Places]
           /\ pc'[t] = place
           /\ \A u \in Thread : u # t => pc'[u] = pc[u]
  BY DEF Goto

LEMMA CallType ==
    ASSUME pc \in [Thread -> Places], overlap \subseteq Thread, NEW t \in Thread, Call(t)
    PROVE  /\ pc' \in [Thread -> Places] /\ pc'[t] = "check"
           /\ \A u \in Thread : u # t => pc'[u] = pc[u]
           /\ overlap' \subseteq Thread
  BY GotoType DEF Call, Places

LEMMA Threads ==
    /\ Watcher \in Thread /\ Updater \in Thread /\ Manager \in Thread
    /\ Nobody \notin Thread
    /\ \A p \in Prompt : p \in Thread /\ p \notin {Watcher, Updater, Manager}
    /\ Skill \subseteq All /\ Custom \subseteq All
  BY CatalogAssumption DEF Thread, All

\* What is on disk, or nothing.
LEMMA OfferedType ==
    ASSUME NEW v \in -1..MaxVersion
    PROVE  Offered(v) \in 0..MaxVersion /\ (Offered(v) > 0 <=> v > 0)
  BY CatalogAssumption DEF Offered

LEMMA NoJobType == NoJob \in [step : {"no"}, skill : Skill, ver : 0..MaxVersion, from : Nat]
  BY CatalogAssumption DEF NoJob, At

\* Events are appended and read in order.
Events == Seq([skill : Skill, made : BOOLEAN])

LEMMA EventQueue ==
    ASSUME NEW q \in Events
    PROVE  /\ \A s \in Skill, made \in BOOLEAN : Append(q, Event(s, made)) \in Events
           /\ q # <<>> => Head(q) \in [skill : Skill, made : BOOLEAN] /\ Tail(q) \in Events
<1> DEFINE E == [skill : Skill, made : BOOLEAN]
<1>1. \A s \in Skill, made \in BOOLEAN : Event(s, made) \in E
  BY DEF Event
<1>2. q \in Seq(E)
  BY DEF Events
<1> HIDE DEF E
<1>3. \A e \in E : Append(q, e) \in Seq(E)
  BY <1>2
<1>4. q # <<>> => Head(q) \in E /\ Tail(q) \in Seq(E)
  BY <1>2
<1>5. Seq(E) = Events
  BY DEF E, Events
<1> QED BY <1>1, <1>3, <1>4, <1>5 DEF E

\* The steps of the catalog keep the types; they leave the updater alone.
LEMMA CatalogTypeStep ==
    ASSUME CatalogTypeOK, CatalogStep
    PROVE  CatalogTypeOK'
<1> USE DEF CatalogTypeOK
<1>1. ASSUME NEW p \in Prompt, Ask(p) PROVE CatalogTypeOK'
  <2>1. pc' \in [Thread -> Places] /\ overlap' \subseteq Thread
    BY <1>1, CallType, Threads DEF Ask
  <2> QED BY <1>1, <2>1, CatalogAssumption DEF Ask, Spend, fileVars, scanVars
<1>2. ASSUME NEW t \in Thread, Clear(t) PROVE CatalogTypeOK'
  <2>1. pc' \in [Thread -> Places] /\ overlap' \subseteq Thread
    BY <1>2, GotoType DEF Clear, Places
  <2> QED BY <1>2, <2>1 DEF Clear, fileVars, scanVars
<1>3. ASSUME NEW t \in Thread, Invalidate(t) PROVE CatalogTypeOK'
  <2>1. pc' \in [Thread -> Places] /\ overlap' \subseteq Thread
    BY <1>3, CallType DEF Invalidate
  <2> QED BY <1>3, <2>1 DEF Invalidate, fileVars, scanVars
<1>4. ASSUME NEW t \in Thread, Check(t) PROVE CatalogTypeOK'
  <2>1. pc' \in [Thread -> Places] /\ overlap' \subseteq Thread
    BY <1>4, GotoType DEF Check, Places
  <2> QED BY <1>4, <2>1 DEF Check, fileVars, scanVars
<1>5. ASSUME NEW t \in Thread, ReturnCached(t) PROVE CatalogTypeOK'
  <2>1. pc' \in [Thread -> Places] /\ overlap' \subseteq Thread
    BY <1>5, GotoType DEF ReturnCached, Places
  <2> QED BY <1>5, <2>1 DEF ReturnCached, fileVars, scanVars
<1>6. ASSUME NEW t \in Thread, StartScan(t) PROVE CatalogTypeOK'
  <2>1. pc' \in [Thread -> Places] /\ overlap' \subseteq Thread
    BY <1>6, GotoType DEF StartScan, Places
  <2>2. acc' \in [All -> 0..MaxVersion] /\ toRead' \subseteq All /\ holder' # Nobody
    BY <1>6, CatalogAssumption, Threads DEF StartScan
  <2> QED BY <1>6, <2>1, <2>2 DEF StartScan, fileVars
<1>7. ASSUME NEW t \in Thread, EndScan(t) PROVE CatalogTypeOK'
  <2>1. pc' \in [Thread -> Places] /\ overlap' \subseteq Thread
    BY <1>7, GotoType DEF EndScan, Places
  <2>2. acc' \in [All -> 0..MaxVersion] /\ cache' \in [All -> 0..MaxVersion]
    BY <1>7, CatalogAssumption DEF EndScan
  <2> QED BY <1>7, <2>1, <2>2 DEF EndScan, fileVars
<1>8. ASSUME NEW s \in toRead, ScanOne(s) PROVE CatalogTypeOK'
  <2>1. Offered(disk[s]) \in 0..MaxVersion
    BY OfferedType
  <2>2. acc' \in [All -> 0..MaxVersion]
    BY <1>8, <2>1 DEF ScanOne
  <2> QED BY <1>8, <2>2 DEF ScanOne, fileVars
<1>9. ASSUME NEW s \in Skill, EditDirectory(s) PROVE CatalogTypeOK'
  <2>1. disk' = [disk EXCEPT ![s] = 0] /\ disk[s] = -1
    BY <1>9, Threads DEF EditDirectory, MakeDir
  <2>2. disk' \in [All -> -1..MaxVersion] /\ watched \subseteq {x \in Skill : disk'[x] >= 0}
    BY <2>1, Threads, CatalogAssumption
  <2>3. inotify' \in Events
    BY <1>9, EventQueue DEF EditDirectory, MakeDir, Events
  <2>4. suspect' \subseteq All
    BY <1>9, Threads DEF EditDirectory, MakeDir, Seen
  <2>5. /\ UNCHANGED <<watched, toReload, cache, loaded, scanVars, pc, silent, overlap>>
        /\ spent' \in 0..MaxEvents
    BY <1>9, CatalogAssumption DEF EditDirectory, Edited, Spend, MakeDir
  <2> QED BY <2>2, <2>3, <2>4, <2>5 DEF Events, scanVars
<1>10. ASSUME NEW s \in Skill, NEW v \in 1..MaxVersion, EditManifest(s, v) PROVE CatalogTypeOK'
  <2>1. disk' = [disk EXCEPT ![s] = v] /\ v \in Int /\ v >= 0
    BY <1>10 DEF EditManifest, PutManifest
  <2>2. disk' \in [All -> -1..MaxVersion] /\ watched \subseteq {x \in Skill : disk'[x] >= 0}
    BY <2>1, Threads, CatalogAssumption
  <2>3. inotify' \in Events
    BY <1>10, EventQueue DEF EditManifest, PutManifest, Events
  <2>4. suspect' \subseteq All /\ silent' \subseteq All
    BY <1>10, Threads DEF EditManifest, PutManifest, Seen
  <2>5. /\ UNCHANGED <<watched, toReload, cache, loaded, scanVars, pc, overlap>>
        /\ spent' \in 0..MaxEvents
    BY <1>10, CatalogAssumption DEF EditManifest, Edited, Spend, PutManifest
  <2> QED BY <2>2, <2>3, <2>4, <2>5 DEF Events, scanVars
<1>11. ASSUME NEW s \in Skill, NEW v \in 1..MaxVersion, EditSkillMd(s, v) PROVE CatalogTypeOK'
  <2>1. disk' = [disk EXCEPT ![s] = v] /\ v \in Int /\ v >= 0
    BY <1>11 DEF EditSkillMd
  <2>2. disk' \in [All -> -1..MaxVersion] /\ watched \subseteq {x \in Skill : disk'[x] >= 0}
    BY <2>1, Threads, CatalogAssumption
  <2>3. suspect' \subseteq All /\ silent' \subseteq All
    BY <1>11, Threads DEF EditSkillMd, Seen
  <2> QED BY <1>11, <2>2, <2>3, CatalogAssumption DEF EditSkillMd, Edited, Spend, scanVars
<1>12. ASSUME NEW s \in Custom, ManageFails(s) PROVE CatalogTypeOK'
  <2>1. PICK v \in 1..MaxVersion : disk' = [disk EXCEPT ![s] = v]
    BY <1>12 DEF ManageFails
  <2>2. disk' \in [All -> -1..MaxVersion] /\ \A x \in Skill : disk'[x] = disk[x]
    BY <2>1, Threads, CatalogAssumption
  <2>3. suspect' \subseteq All /\ silent' \subseteq All
    BY <1>12, Threads DEF ManageFails, Seen
  <2> QED BY <1>12, <2>2, <2>3, CatalogAssumption DEF ManageFails, Edited, Spend, scanVars
<1>13. ASSUME NEW s \in Custom, NEW v \in -1..MaxVersion, ManageWrite(s, v) PROVE CatalogTypeOK'
  <2>1. disk' = [disk EXCEPT ![s] = v]
    BY <1>13 DEF ManageWrite
  <2>2. disk' \in [All -> -1..MaxVersion] /\ \A x \in Skill : disk'[x] = disk[x]
    BY <2>1, Threads, CatalogAssumption
  <2>3. suspect' \subseteq All
    BY <1>13, Threads DEF ManageWrite, Seen
  <2>4. pc' \in [Thread -> Places] /\ overlap' \subseteq Thread
    BY <1>13, GotoType, Threads DEF ManageWrite, Edited, Places
  <2> QED BY <1>13, <2>2, <2>3, <2>4, CatalogAssumption DEF ManageWrite, Edited, Spend, scanVars
<1>14. CASE ManageDone
  <2>1. pc' \in [Thread -> Places] /\ overlap' \subseteq Thread
    BY <1>14, GotoType, Threads DEF ManageDone, Places
  <2> QED BY <1>14, <2>1 DEF ManageDone, fileVars, scanVars
<1>15. CASE WatchRead
  <2>1. Head(inotify) \in [skill : Skill, made : BOOLEAN] /\ inotify' \in Events
    BY <1>15, EventQueue DEF WatchRead, Events
  <2>2. watched' \subseteq {x \in Skill : disk[x] >= 0} /\ toReload' \in BOOLEAN
    BY <1>15, <2>1 DEF WatchRead
  <2> QED BY <1>15, <2>1, <2>2 DEF WatchRead, scanVars, Events
<1>16. CASE WatchFire
  <2>1. pc' \in [Thread -> Places] /\ overlap' \subseteq Thread
    BY <1>16, GotoType, Threads DEF WatchFire, Places
  <2> QED BY <1>16, <2>1 DEF WatchFire, fileVars, scanVars
<1> QED
  BY <1>1, <1>2, <1>3, <1>4, <1>5, <1>6, <1>7, <1>8, <1>9, <1>10, <1>11, <1>12, <1>13, <1>14,
     <1>15, <1>16 DEF CatalogStep, LoadStep, Edit
-----------------------------------------------------------------------------
\* The updater's changes of a directory.
FilesTyped ==
    /\ disk \in [All -> -1..MaxVersion]
    /\ watched \subseteq {s \in Skill : disk[s] >= 0}
    /\ inotify \in Events
    /\ suspect \subseteq All

LEMMA RemoveAllFiles ==
    ASSUME CatalogTypeOK, NEW s \in Skill, RemoveAll(s)
    PROVE  /\ FilesTyped' /\ silent' \subseteq All
           /\ disk' = [disk EXCEPT ![s] = -1]
<1> USE DEF CatalogTypeOK
<1>1. s \in All /\ disk' = [disk EXCEPT ![s] = -1]
  BY Threads DEF RemoveAll
<1>2. disk' \in [All -> -1..MaxVersion] /\ watched' \subseteq {x \in Skill : disk'[x] >= 0}
  BY <1>1, Threads, CatalogAssumption DEF RemoveAll
<1>3. inotify' \in Events
  BY EventQueue DEF RemoveAll, Events
<1>4. suspect' \subseteq All /\ silent' \subseteq All
  BY <1>1 DEF RemoveAll, Seen
<1> QED BY <1>1, <1>2, <1>3, <1>4 DEF FilesTyped

LEMMA MakeDirFiles ==
    ASSUME CatalogTypeOK, NEW s \in Skill, NEW v \in 0..MaxVersion, MakeDir(s, v)
    PROVE  /\ FilesTyped'
           /\ disk' = [disk EXCEPT ![s] = IF disk[s] < v THEN v ELSE disk[s]]
<1> USE DEF CatalogTypeOK
<1>1. s \in All /\ disk' = [disk EXCEPT ![s] = IF disk[s] < v THEN v ELSE disk[s]]
  BY Threads DEF MakeDir
<1>2. disk' \in [All -> -1..MaxVersion] /\ watched' \subseteq {x \in Skill : disk'[x] >= 0}
  BY <1>1, Threads, CatalogAssumption DEF MakeDir
<1>3. inotify' \in Events
  BY EventQueue DEF MakeDir, Events
<1>4. suspect' \subseteq All
  BY <1>1 DEF MakeDir, Seen
<1> QED BY <1>1, <1>2, <1>3, <1>4 DEF FilesTyped

LEMMA PutManifestFiles ==
    ASSUME CatalogTypeOK, NEW s \in Skill, NEW v \in 0..MaxVersion, PutManifest(s, v)
    PROVE  /\ FilesTyped'
           /\ disk' = [disk EXCEPT ![s] = v]
<1> USE DEF CatalogTypeOK
<1>1. s \in All /\ disk' = [disk EXCEPT ![s] = v]
  BY Threads DEF PutManifest
<1>2. disk' \in [All -> -1..MaxVersion] /\ watched' \subseteq {x \in Skill : disk'[x] >= 0}
  BY <1>1, Threads, CatalogAssumption DEF PutManifest
<1>3. inotify' \in Events
  BY EventQueue DEF PutManifest, Events
<1>4. suspect' \subseteq All
  BY <1>1 DEF PutManifest, Seen
<1> QED BY <1>1, <1>2, <1>3, <1>4 DEF FilesTyped

\* With the files well typed, the rest of the catalog's state is left alone.
LEMMA CatalogKept ==
    ASSUME CatalogTypeOK, FilesTyped', silent' \subseteq All, UNCHANGED threadVars
    PROVE  CatalogTypeOK'
  BY DEF CatalogTypeOK, FilesTyped, threadVars, scanVars, Events

Jobs == [step : {"no", "backup", "download", "remove", "mkdir", "install",
                 "clear", "restore", "drop"},
         skill : Skill, ver : 0..MaxVersion, from : Nat]
Backups == [skill : Skill, ver : 0..MaxVersion, whole : BOOLEAN]
UpdaterTypeOK ==
    job \in Jobs /\ backups \in Seq(Backups) /\ had \subseteq Skill /\ spoiled \subseteq Skill

LEMMA TypeParts == TypeOK <=> CatalogTypeOK /\ UpdaterTypeOK
  BY DEF TypeOK, UpdaterTypeOK, Jobs, Backups

\* What a copy of the skill's directory is recorded as.
LEMMA SavedType ==
    ASSUME TypeOK, NEW whole \in BOOLEAN
    PROVE  /\ Saved(whole) \in Backups
           /\ Saved(whole).skill = target /\ Saved(whole).whole = whole
           /\ whole => Saved(whole).ver = Offered(disk[target])
<1>1. target \in Skill /\ disk[target] \in -1..MaxVersion
  BY Threads DEF target, TypeOK, CatalogTypeOK
<1>2. Offered(disk[target]) \in 0..MaxVersion /\ 0 \in 0..MaxVersion
  BY <1>1, OfferedType, CatalogAssumption
<1> QED BY <1>1, <1>2 DEF Saved, Backups

\* Appending a backup leaves the earlier ones where they are.
LEMMA AppendBackup ==
    ASSUME TypeOK, NEW b \in Backups, backups' = Append(backups, b)
    PROVE  /\ backups' \in Seq(Backups)
           /\ Len(backups') = Len(backups) + 1
           /\ \A i \in 1..Len(backups) : i \in 1..Len(backups') /\ backups'[i] = backups[i]
           /\ backups'[Len(backups) + 1] = b
<1>1. backups \in Seq(Backups)
  BY TypeParts DEF UpdaterTypeOK
<1> QED BY <1>1

\* Dropping entry n of a sequence moves the later ones down by one.
LEMMA CutSeq ==
    ASSUME NEW S, NEW q \in Seq(S), NEW n \in 1..Len(q)
    PROVE  \E r \in Seq(S) :
              /\ r = SubSeq(q, 1, n - 1) \o SubSeq(q, n + 1, Len(q))
              /\ \A i \in 1..Len(q) : i # n => \E j \in 1..Len(r) : r[j] = q[i]
<1> DEFINE a == SubSeq(q, 1, n - 1)
           b == SubSeq(q, n + 1, Len(q))
           r == a \o b
<1>1. Len(q) \in Nat /\ n \in Nat /\ 1 <= n /\ n <= Len(q)
  OBVIOUS
<1>2. /\ a \in Seq(S) /\ Len(a) = n - 1
      /\ \A i \in 1..n - 1 : a[i] = q[i]
  BY <1>1
<1>3. /\ b \in Seq(S) /\ Len(b) = Len(q) - n
      /\ \A i \in 1..Len(q) - n : b[i] = q[n + i]
  BY <1>1
<1> HIDE DEF a, b
<1>4. /\ r \in Seq(S)
      /\ Len(r) = Len(a) + Len(b)
      /\ \A i \in 1..Len(a) + Len(b) : r[i] = IF i <= Len(a) THEN a[i] ELSE b[i - Len(a)]
  BY <1>2, <1>3, ConcatProperties, Zenon
<1> HIDE DEF r
<1>5. Len(r) = Len(q) - 1
  BY <1>1, <1>2, <1>3, <1>4
<1>6. ASSUME NEW i \in 1..Len(q), i # n PROVE \E j \in 1..Len(r) : r[j] = q[i]
  <2>1. CASE i < n
    <3>1. i \in 1..Len(r) /\ i \in 1..n - 1 /\ r[i] = a[i]
      BY <2>1, <1>1, <1>2, <1>3, <1>4, <1>5
    <3> QED BY <3>1, <1>2
  <2>2. CASE i > n
    <3>1. /\ i - 1 \in 1..Len(r) /\ i - n \in 1..Len(q) - n
          /\ ~(i - 1 <= n - 1) /\ (i - 1) - (n - 1) = i - n /\ n + (i - n) = i
      BY <2>2, <1>1, <1>5
    <3>2. r[i - 1] = b[i - n]
      BY <3>1, <1>2, <1>4
    <3>3. r[i - 1] = q[i]
      BY <3>1, <3>2, <1>3
    <3> QED BY <3>1, <3>3
  <2>3. i < n \/ i > n
    BY <1>1, <1>6
  <2> QED BY <2>1, <2>2, <2>3
<1> QED BY <1>4, <1>6, Zenon DEF r, a, b

\* The steps of an update change its step only, or end it.
LEMMA JobStep ==
    ASSUME TypeOK
    PROVE  /\ NoJob \in Jobs /\ NoJob.step = "no"
           /\ \A step \in {"download", "remove", "mkdir", "install", "restore", "drop"} :
                 /\ [job EXCEPT !.step = step] \in Jobs
                 /\ [job EXCEPT !.step = step].step = step
                 /\ [job EXCEPT !.step = step].skill = target
                 /\ [job EXCEPT !.step = step].from = job.from
  BY NoJobType, TypeParts DEF UpdaterTypeOK, Jobs, target

\* Every step of the updater keeps every variable in its type; a rollback keeps
\* the backup it found.
LEMMA UpdaterTypeStep ==
    ASSUME TypeOK, RollbackHas, UpdateStep
    PROVE  TypeOK' /\ RollbackHas'
<1> USE DEF target
<1>1. /\ CatalogTypeOK /\ job \in Jobs /\ backups \in Seq(Backups)
      /\ had \subseteq Skill /\ spoiled \subseteq Skill
      /\ target \in Skill /\ disk[target] \in -1..MaxVersion /\ job.ver \in 0..MaxVersion
  BY TypeParts, Threads DEF UpdaterTypeOK, Jobs, CatalogTypeOK
<1> SUFFICES CatalogTypeOK' /\ UpdaterTypeOK' /\ RollbackHas'
  BY TypeParts DEF TypeOK, UpdaterTypeOK, Jobs, Backups
<1>2. CASE BackupSkill
  <2>1. CatalogTypeOK'
    BY <1>1, <1>2 DEF BackupSkill, CatalogTypeOK, catalogVars, scanVars
  <2>2. job' \in Jobs /\ job'.step = "download"
    BY <1>2, JobStep DEF BackupSkill
  <2>3. backups' \in Seq(Backups)
    BY <1>1, <1>2, SavedType, AppendBackup DEF BackupSkill
  <2> QED BY <1>1, <1>2, <2>1, <2>2, <2>3 DEF BackupSkill, UpdaterTypeOK, RollbackHas
<1>3. CASE BackupFails
  <2>1. CatalogTypeOK'
    BY <1>1, <1>3 DEF BackupFails, CatalogTypeOK, catalogVars, scanVars
  <2>2. job' \in Jobs /\ job'.step = "no"
    BY <1>3, JobStep DEF BackupFails
  <2>3. backups' \in Seq(Backups)
    BY <1>1, <1>3, SavedType, AppendBackup DEF BackupFails
  <2> QED BY <1>1, <1>3, <2>1, <2>2, <2>3 DEF BackupFails, UpdaterTypeOK, RollbackHas, bookVars
<1>4. CASE Download \/ InstallFails
  <2>1. CatalogTypeOK'
    BY <1>1, <1>4 DEF Download, InstallFails, CatalogTypeOK, catalogVars, scanVars
  <2>2. job' \in Jobs /\ job'.step \in {"remove", "no"}
    BY <1>4, JobStep DEF Download, InstallFails
  <2> QED BY <1>1, <1>4, <2>1, <2>2
          DEF Download, InstallFails, UpdaterTypeOK, RollbackHas, bookVars
<1>5. CASE RemoveOld
  <2>1. CatalogTypeOK'
    BY <1>1, <1>5, RemoveAllFiles, CatalogKept DEF RemoveOld
  <2>2. job' \in Jobs /\ job'.step = "mkdir"
    BY <1>5, JobStep DEF RemoveOld
  <2> QED BY <1>1, <1>5, <2>1, <2>2 DEF RemoveOld, UpdaterTypeOK, RollbackHas, bookVars
<1>6. CASE CreateDirectories
  <2>1. FilesTyped' /\ silent' \subseteq All
    <3>1. FilesTyped'
      BY <1>1, <1>6, MakeDirFiles, CatalogAssumption DEF CreateDirectories
    <3> QED BY <1>1, <1>6, <3>1 DEF CreateDirectories, CatalogTypeOK
  <2>2. CatalogTypeOK'
    BY <1>1, <1>6, <2>1, CatalogKept DEF CreateDirectories
  <2>3. job' \in Jobs /\ job'.step = "install"
    BY <1>6, JobStep DEF CreateDirectories
  <2> QED BY <1>1, <1>6, <2>2, <2>3 DEF CreateDirectories, UpdaterTypeOK, RollbackHas, bookVars
<1>7. CASE Install
  <2>1. FilesTyped'
    BY <1>1, <1>7, PutManifestFiles DEF Install
  <2>2. pc' \in [Thread -> Places] /\ overlap' \subseteq Thread
    BY <1>1, <1>7, GotoType, Threads DEF Install, Places, CatalogTypeOK
  <2>3. CatalogTypeOK'
    BY <1>1, <1>7, <2>1, <2>2 DEF Install, CatalogTypeOK, FilesTyped, Events, scanVars
  <2>4. job' \in Jobs /\ job'.step = "no"
    BY <1>7, JobStep DEF Install
  <2> QED BY <1>1, <1>7, <2>3, <2>4 DEF Install, UpdaterTypeOK, RollbackHas, bookVars
<1>8. CASE RemoveCurrent
  <2>1. CatalogTypeOK'
    BY <1>1, <1>8, RemoveAllFiles, CatalogKept DEF RemoveCurrent
  <2>2. job' \in Jobs /\ job'.skill = job.skill /\ job'.from = job.from
    BY <1>8, JobStep DEF RemoveCurrent
  <2>3. RollbackHas'
    BY <1>8, <2>2 DEF RemoveCurrent, RollbackHas, Fitting
  <2> QED BY <1>1, <1>8, <2>1, <2>2, <2>3 DEF RemoveCurrent, UpdaterTypeOK
<1>9. ASSUME job.step = "restore"
      PROVE  backups[job.from].ver \in 0..MaxVersion
  <2>1. job.from \in 1..Len(backups)
    BY <1>9 DEF RollbackHas, Fitting
  <2>2. backups[job.from] \in Backups
    BY <1>1, <2>1
  <2> QED BY <2>2 DEF Backups
<1>10. CASE Restore
  <2>1. FilesTyped' /\ silent' \subseteq All
    <3>1. FilesTyped'
      BY <1>1, <1>9, <1>10, MakeDirFiles DEF Restore
    <3> QED BY <1>1, <1>10, <3>1 DEF Restore, CatalogTypeOK
  <2>2. CatalogTypeOK'
    BY <1>1, <1>10, <2>1, CatalogKept DEF Restore
  <2>3. job' \in Jobs /\ job'.skill = job.skill /\ job'.from = job.from
    BY <1>10, JobStep DEF Restore
  <2>4. RollbackHas'
    BY <1>10, <2>3 DEF Restore, RollbackHas, Fitting
  <2> QED BY <1>1, <1>10, <2>2, <2>3, <2>4 DEF Restore, UpdaterTypeOK, bookVars
<1>11. CASE RestoreFails
  <2>1. PICK v \in {0, backups[job.from].ver} :
           /\ MakeDir(target, v)
           /\ silent' = IF v > Offered(disk[target]) THEN silent \cup {target} ELSE silent
    BY <1>11 DEF RestoreFails
  <2>2. v \in 0..MaxVersion
    BY <1>9, <1>11, CatalogAssumption DEF RestoreFails
  <2>3. FilesTyped' /\ silent' \subseteq All
    BY <1>1, <2>1, <2>2, MakeDirFiles, Threads DEF CatalogTypeOK
  <2>4. CatalogTypeOK'
    BY <1>1, <1>11, <2>3, CatalogKept DEF RestoreFails
  <2>5. job' \in Jobs /\ job'.step = "no"
    BY <1>11, JobStep DEF RestoreFails
  <2> QED BY <1>1, <1>11, <2>4, <2>5 DEF RestoreFails, UpdaterTypeOK, RollbackHas, bookVars
<1>12. CASE DropBackup
  <2>1. job.from \in 1..Len(backups)
    BY <1>12 DEF DropBackup, RollbackHas, Fitting
  <2>2. backups' \in Seq(Backups)
    <3>1. PICK n \in 1..Len(backups) : n = job.from
      BY <2>1
    <3>2. backups' = SubSeq(backups, 1, n - 1) \o SubSeq(backups, n + 1, Len(backups))
      BY <1>12, <3>1 DEF DropBackup
    <3> QED BY <1>1, <3>2, CutSeq, Zenon
  <2>3. pc' \in [Thread -> Places] /\ overlap' \subseteq Thread
    BY <1>1, <1>12, GotoType, Threads DEF DropBackup, Places, CatalogTypeOK
  <2>4. CatalogTypeOK'
    BY <1>1, <1>12, <2>3 DEF DropBackup, CatalogTypeOK, scanVars
  <2>5. job' \in Jobs /\ job'.step = "no"
    BY <1>12, JobStep DEF DropBackup
  <2> QED BY <1>1, <1>12, <2>2, <2>4, <2>5 DEF DropBackup, UpdaterTypeOK, RollbackHas, bookVars
<1> QED
  BY <1>2, <1>3, <1>4, <1>5, <1>6, <1>7, <1>8, <1>10, <1>11, <1>12 DEF UpdateStep

LEMMA CrashType ==
    ASSUME TypeOK, Crash
    PROVE  TypeOK' /\ RollbackHas'
<1>1. /\ CatalogTypeOK /\ backups \in Seq(Backups) /\ had \subseteq Skill /\ spoiled \subseteq Skill
  BY TypeParts DEF UpdaterTypeOK
<1>2. backups' \in Seq(Backups)
  BY <1>1, SavedType, AppendBackup DEF Crash
<1>3. job' \in Jobs /\ job'.step = "no"
  BY JobStep DEF Crash
<1>4. /\ pc' \in [Thread -> Places] /\ acc' \in [All -> 0..MaxVersion] /\ spent' \in 0..MaxEvents
      /\ inotify' \in Seq([skill : Skill, made : BOOLEAN])
  BY <1>1, CatalogAssumption DEF Crash, Places, CatalogTypeOK, Spend
<1>5. CatalogTypeOK'
  BY <1>1, <1>4 DEF Crash, CatalogTypeOK
<1>6. UpdaterTypeOK'
  BY <1>1, <1>2, <1>3 DEF Crash, UpdaterTypeOK
<1> QED BY <1>3, <1>5, <1>6, TypeParts DEF RollbackHas, TypeOK, UpdaterTypeOK, Jobs, Backups

LEMMA TypeStep ==
    TypeOK /\ RollbackHas /\ [Next]_vars => TypeOK' /\ RollbackHas'
<1> SUFFICES ASSUME TypeOK, RollbackHas, [Next]_vars PROVE TypeOK' /\ RollbackHas'
  OBVIOUS
<1>1. CASE Catalog
  BY <1>1, CatalogTypeStep DEF Catalog, TypeOK, updaterVars, RollbackHas, Fitting, target
<1>2. ASSUME NEW s \in Skill, RollbackSkill(s) PROVE TypeOK' /\ RollbackHas'
  <2>1. /\ job' \in Jobs /\ job'.skill = s /\ job'.from \in Fitting(s)
        /\ UNCHANGED <<backups, had, spoiled>>
    <3>1. \A n \in Nat : LET j == At("clear", s, 0, n)
                        IN  j \in Jobs /\ j.skill = s /\ j.from = n
      BY CatalogAssumption DEF At, Jobs
    <3>2. Latest(s) \in Fitting(s) /\ Latest(s) \in Nat
      BY <1>2, LatestFits DEF RollbackSkill
    <3> QED BY <1>2, <3>1, <3>2 DEF RollbackSkill, bookVars
  <2>2. CatalogTypeOK'
    BY <1>2, CatalogAssumption DEF RollbackSkill, restVars, scanVars, Spend, TypeOK, CatalogTypeOK
  <2>3. RollbackHas'
    BY <1>2, <2>1 DEF RollbackSkill, RollbackHas, Fitting, target
  <2> QED BY <2>1, <2>2, <2>3 DEF TypeOK, Jobs
<1>3. ASSUME NEW s \in Skill, NEW v \in 1..MaxVersion, UpdateSkill(s, v)
      PROVE  TypeOK' /\ RollbackHas'
  <2>1. job' \in Jobs /\ job'.step = "backup" /\ UNCHANGED <<backups, had, spoiled>>
    <3>1. At("backup", s, v, 0) \in Jobs /\ At("backup", s, v, 0).step = "backup"
      BY CatalogAssumption DEF At, Jobs
    <3> QED BY <1>3, <3>1 DEF UpdateSkill, bookVars
  <2>2. CatalogTypeOK'
    BY <1>3, CatalogAssumption DEF UpdateSkill, restVars, scanVars, Spend, TypeOK, CatalogTypeOK
  <2> QED BY <2>1, <2>2 DEF TypeOK, Jobs, RollbackHas
<1>4. CASE UpdateStep
  BY <1>4, UpdaterTypeStep
<1>5. CASE Crash
  BY <1>5, CrashType
<1>6. CASE UNCHANGED vars
  BY <1>6 DEF vars, catalogVars, updaterVars, scanVars, TypeOK, CatalogTypeOK, RollbackHas,
              Fitting, target
<1> QED BY <1>1, <1>2, <1>3, <1>4, <1>5, <1>6 DEF Next

\* Every variable of the catalog and the updater keeps its type, and the backup that
\* RollbackSkill chose at its start is one of the skill until the rollback is over:
\* nothing but the rollback's own last step removes backups.
THEOREM RollbackHasBackup == Spec => [](TypeOK /\ RollbackHas)
<1>1. Init => TypeOK /\ RollbackHas
  <2> SUFFICES ASSUME Init PROVE TypeOK /\ RollbackHas
    OBVIOUS
  <2>1. /\ disk \in [All -> -1..MaxVersion] /\ acc \in [All -> 0..MaxVersion]
        /\ spent \in 0..MaxEvents
    BY CatalogAssumption DEF Init, CatalogInit
  <2>2. pc \in [Thread -> Places] /\ inotify \in Seq([skill : Skill, made : BOOLEAN])
    BY DEF Init, CatalogInit, Places
  <2>3. CatalogTypeOK
    BY <2>1, <2>2 DEF Init, CatalogInit, CatalogTypeOK
  <2>4. job \in Jobs /\ job.step = "no"
    BY NoJobType DEF Init, Jobs
  <2>5. backups \in Seq(Backups)
    BY DEF Init
  <2> QED BY <2>3, <2>4, <2>5 DEF Init, TypeOK, Jobs, Backups, RollbackHas
<1> QED BY <1>1, TypeStep, PTL DEF Spec
-----------------------------------------------------------------------------
\* The updater's thread leaves "idle" only at the end of an update.
LEMMA BusyStep == TypeOK /\ UpdaterBusy /\ [Next]_vars => UpdaterBusy'
<1> SUFFICES ASSUME TypeOK, UpdaterBusy, [Next]_vars PROVE UpdaterBusy'
  OBVIOUS
<1>1. pc \in [Thread -> Places]
  BY DEF TypeOK, CatalogTypeOK
<1> USE DEF UpdaterBusy
<1>2. CASE Catalog
  <2>1. job' = job
    BY <1>2 DEF Catalog, updaterVars
  <2>2. ASSUME pc[Updater] = "idle" PROVE pc'[Updater] = "idle"
    <3>1. ASSUME NEW p \in Prompt, Ask(p) PROVE pc'[Updater] = "idle"
      BY <1>1, <2>2, <3>1, CallType, Threads DEF TypeOK, CatalogTypeOK, Ask
    <3>2. ASSUME NEW t \in Thread, LoadStep(t) PROVE pc'[Updater] = "idle"
      <4>1. CASE t = Updater
        BY <2>2, <3>2, <4>1
        DEF LoadStep, Clear, Invalidate, Check, ReturnCached, Served, StartScan, EndScan
      <4>2. CASE t # Updater
        BY <1>1, <2>2, <3>2, <4>2, Threads
        DEF LoadStep, Clear, Invalidate, Call, Check, ReturnCached, StartScan, EndScan, ScanOne, Goto
      <4> QED BY <4>1, <4>2
    <3>3. CASE Edit
      BY <1>1, <2>2, <3>3, Threads, CatalogAssumption
      DEF Edit, EditDirectory, EditManifest, EditSkillMd, ManageFails, ManageWrite, Goto
    <3>4. CASE ManageDone \/ WatchRead \/ WatchFire
      BY <1>1, <2>2, <3>4, Threads, CatalogAssumption DEF ManageDone, WatchRead, WatchFire, Goto
    <3> QED BY <1>2, <3>1, <3>2, <3>3, <3>4 DEF Catalog, CatalogStep
  <2> QED BY <2>1, <2>2
<1>3. ASSUME NEW s \in Skill, RollbackSkill(s) \/ \E v \in 1..MaxVersion : UpdateSkill(s, v)
      PROVE  UpdaterBusy'
  BY <1>3 DEF RollbackSkill, UpdateSkill, restVars
<1>4. CASE UpdateStep
  <2>1. \/ job'.step = "no"
        \/ job.step # "no" /\ pc' = pc
    BY <1>4, JobStep
    DEF UpdateStep, BackupSkill, BackupFails, Download, RemoveOld, CreateDirectories, Install,
        InstallFails, RemoveCurrent, Restore, RestoreFails, DropBackup, catalogVars, threadVars
  <2> QED BY <2>1
<1>5. CASE Crash
  BY <1>5, JobStep DEF Crash
<1>6. CASE UNCHANGED vars
  BY <1>6 DEF vars, catalogVars, updaterVars
<1> QED BY <1>2, <1>3, <1>4, <1>5, <1>6 DEF Next

\* A list with an entry for every skill is not the empty list.
LEMMA NotCleared == ASSUME NEW f \in [All -> 0..MaxVersion] PROVE f # Cleared
<1>1. DOMAIN f = All /\ All # {}
  BY CatalogAssumption DEF All
<1>2. DOMAIN Cleared = {}
  BY DEF Cleared
<1> QED BY <1>1, <1>2

LEMMA FlagStep ==
    TypeOK /\ UpdaterBusy /\ FlagTells /\ [Next]_vars => FlagTells'
<1> SUFFICES ASSUME TypeOK, UpdaterBusy, FlagTells, [Next]_vars PROVE FlagTells'
  OBVIOUS
<1>1. pc \in [Thread -> Places] /\ acc \in [All -> 0..MaxVersion]
  BY DEF TypeOK, CatalogTypeOK
\* A step that leaves cache and flag alone and moves no thread out of "cleared".
<1>2. ASSUME cache' = cache, loaded' = loaded,
             \A t \in Thread : pc[t] = "cleared" => pc'[t] = "cleared"
      PROVE  FlagTells'
  BY <1>2 DEF FlagTells
<1>3. CASE Catalog
  <2>1. ASSUME NEW p \in Prompt, Ask(p) PROVE FlagTells'
    BY <1>1, <1>2, <2>1, CallType, Threads DEF TypeOK, CatalogTypeOK, Ask
  <2>2. ASSUME NEW t \in Thread, Clear(t) PROVE FlagTells'
    BY <1>1, <2>2, GotoType DEF Clear, Places, FlagTells
  <2>3. ASSUME NEW t \in Thread, Invalidate(t) PROVE FlagTells'
    BY <2>3 DEF Invalidate, FlagTells
  <2>4. ASSUME NEW t \in Thread, Check(t) \/ ReturnCached(t) \/ StartScan(t)
        PROVE  FlagTells'
    BY <1>1, <1>2, <2>4 DEF Check, ReturnCached, Served, StartScan, Goto
  <2>5. ASSUME NEW t \in Thread, EndScan(t) PROVE FlagTells'
    BY <1>1, <2>5, NotCleared DEF EndScan, FlagTells
  <2>6. ASSUME NEW s \in toRead, ScanOne(s) PROVE FlagTells'
    BY <1>2, <2>6 DEF ScanOne
  <2>7. CASE Edit
    BY <1>1, <1>2, <2>7
    DEF Edit, EditDirectory, EditManifest, EditSkillMd, ManageFails, ManageWrite, Goto, Edited
  <2>8. CASE ManageDone
    BY <2>8 DEF ManageDone, FlagTells
  <2>9. CASE WatchRead \/ WatchFire
    BY <1>1, <1>2, <2>9 DEF WatchRead, WatchFire, Goto
  <2> QED BY <1>3, <2>1, <2>2, <2>3, <2>4, <2>5, <2>6, <2>7, <2>8, <2>9
          DEF Catalog, CatalogStep, LoadStep
<1>4. ASSUME NEW s \in Skill, RollbackSkill(s) \/ \E v \in 1..MaxVersion : UpdateSkill(s, v)
      PROVE  FlagTells'
  BY <1>2, <1>4 DEF RollbackSkill, UpdateSkill, restVars
<1>5. CASE UpdateStep
  <2>1. cache' = cache /\ loaded' = loaded
    BY <1>5
    DEF UpdateStep, BackupSkill, BackupFails, Download, RemoveOld, CreateDirectories, Install,
        InstallFails, RemoveCurrent, Restore, RestoreFails, DropBackup, catalogVars, threadVars
  <2>2. \/ pc' = pc
        \/ job.step # "no" /\ Goto(Updater, "reload")
    BY <1>5
    DEF UpdateStep, BackupSkill, BackupFails, Download, RemoveOld, CreateDirectories, Install,
        InstallFails, RemoveCurrent, Restore, RestoreFails, DropBackup, catalogVars, threadVars
  <2> QED BY <1>1, <1>2, <2>1, <2>2 DEF UpdaterBusy, Goto
<1>6. CASE Crash
  BY <1>6 DEF Crash, FlagTells
<1>7. CASE UNCHANGED vars
  BY <1>2, <1>7 DEF vars, catalogVars
<1> QED BY <1>3, <1>4, <1>5, <1>6, <1>7 DEF Next

\* The threads in LoadSkillDeclarations, after a step in which the list is not
\* emptied, nobody gets between Clear and Invalidate, and nobody begins a call.
LEMMA MetKept ==
    ASSUME Met, overlap' = overlap, cache' = Cleared => cache = Cleared,
           \A u \in Thread :
              /\ pc'[u] = "cleared" => pc[u] = "cleared"
              /\ pc'[u] \in Taking => pc[u] \in Taking
              /\ pc'[u] = "cached" => pc[u] = "cached"
    PROVE  Met'
<1>1. ASSUME NEW t \in Thread, pc'[t] \in Taking, NEW u \in Thread, pc'[u] = "cleared"
      PROVE  t \in overlap'
  BY <1>1 DEF Met
<1>2. ASSUME NEW t \in Thread, pc'[t] = "cached", cache' = Cleared PROVE t \in overlap'
  BY <1>2 DEF Met
<1> QED BY <1>1, <1>2 DEF Met, Cleared

LEMMA MetStep ==
    TypeOK /\ UpdaterBusy /\ FlagTells /\ Met /\ [Next]_vars => Met'
<1> SUFFICES ASSUME TypeOK, UpdaterBusy, FlagTells, Met, [Next]_vars PROVE Met'
  OBVIOUS
<1>1. pc \in [Thread -> Places] /\ acc \in [All -> 0..MaxVersion] /\ overlap \subseteq Thread
  BY DEF TypeOK, CatalogTypeOK
\* A call begins.
<1>2. ASSUME NEW t \in Thread, Call(t), cache' = cache PROVE Met'
  <2>1. /\ pc'[t] = "check" /\ \A u \in Thread : u # t => pc'[u] = pc[u]
        /\ \A u \in Thread \ {t} : u \in overlap => u \in overlap'
        /\ (\E u \in Thread \ {t} : pc[u] = "cleared") => t \in overlap'
    BY <1>1, <1>2, CallType DEF Call
  <2> QED BY <1>2, <2>1 DEF Met
<1>3. CASE Catalog
  <2>1. ASSUME NEW p \in Prompt, Ask(p) PROVE Met'
    BY <1>2, <2>1, Threads DEF Ask
  <2>2. ASSUME NEW t \in Thread, Clear(t) PROVE Met'
    <3>1. /\ \A u \in Thread : pc'[u] \in Taking => pc[u] \in Taking
          /\ overlap' = {u \in Thread : pc[u] \in Taking}
      BY <1>1, <2>2, GotoType DEF Clear, Places, Taking
    <3> QED BY <3>1 DEF Met, Taking
  <2>3. ASSUME NEW t \in Thread, Invalidate(t) PROVE Met'
    BY <1>2, <2>3 DEF Invalidate
  <2>4. ASSUME NEW t \in Thread, Check(t) PROVE Met'
    <3>1. /\ pc[t] = "check" /\ UNCHANGED <<cache, overlap>>
          /\ pc'[t] = IF loaded THEN "cached" ELSE "lock"
          /\ \A u \in Thread : u # t => pc'[u] = pc[u]
      BY <1>1, <2>4, GotoType DEF Check, Places
    <3>2. loaded /\ cache = Cleared => t \in overlap
      BY <3>1 DEF FlagTells, Met, Taking
    <3> QED BY <3>1, <3>2 DEF Met, Taking
  <2>5. ASSUME NEW t \in Thread, ReturnCached(t) \/ StartScan(t) PROVE Met'
    <3>1. /\ pc'[t] \in {"idle", "scan"} /\ cache' = cache /\ overlap' = overlap \ {t}
          /\ \A u \in Thread : u # t => pc'[u] = pc[u]
      BY <1>1, <2>5, GotoType DEF ReturnCached, StartScan, Places
    <3> QED BY <3>1 DEF Met, Taking
  <2>6. ASSUME NEW t \in Thread, EndScan(t) PROVE Met'
    <3>1. cache' # Cleared /\ overlap' = overlap
      BY <1>1, <2>6, NotCleared DEF EndScan
    <3>2. pc'[t] = "idle" /\ \A u \in Thread : u # t => pc'[u] = pc[u]
      BY <1>1, <2>6, GotoType DEF EndScan, Places
    <3> QED BY <3>1, <3>2, MetKept DEF Taking
  <2>7. ASSUME NEW s \in toRead, ScanOne(s) PROVE Met'
    BY <2>7, MetKept DEF ScanOne
  <2>8. CASE Edit
    <3>1. cache' = cache /\ overlap' = overlap
      BY <2>8
      DEF Edit, EditDirectory, EditManifest, EditSkillMd, ManageFails, ManageWrite, Edited
    <3>2. pc' = pc \/ Goto(Manager, "written")
      BY <2>8 DEF Edit, EditDirectory, EditManifest, EditSkillMd, ManageFails, ManageWrite
    <3> QED BY <1>1, <3>1, <3>2, Threads, MetKept DEF Goto, Taking
  <2>9. CASE ManageDone \/ WatchRead \/ WatchFire
    BY <1>1, <2>9, Threads, MetKept DEF ManageDone, WatchRead, WatchFire, Goto, Taking
  <2> QED BY <1>3, <2>1, <2>2, <2>3, <2>4, <2>5, <2>6, <2>7, <2>8, <2>9
          DEF Catalog, CatalogStep, LoadStep
<1>4. ASSUME NEW s \in Skill, RollbackSkill(s) \/ \E v \in 1..MaxVersion : UpdateSkill(s, v)
      PROVE  Met'
  BY <1>4, MetKept DEF RollbackSkill, UpdateSkill, restVars
<1>5. CASE UpdateStep
  <2>1. cache' = cache /\ overlap' = overlap
    BY <1>5
    DEF UpdateStep, BackupSkill, BackupFails, Download, RemoveOld, CreateDirectories, Install,
        InstallFails, RemoveCurrent, Restore, RestoreFails, DropBackup, catalogVars, threadVars
  <2>2. pc' = pc \/ Goto(Updater, "reload")
    BY <1>5
    DEF UpdateStep, BackupSkill, BackupFails, Download, RemoveOld, CreateDirectories, Install,
        InstallFails, RemoveCurrent, Restore, RestoreFails, DropBackup, catalogVars, threadVars
  <2> QED BY <1>1, <2>1, <2>2, Threads, MetKept DEF Goto, Taking
<1>6. CASE Crash
  BY <1>6 DEF Crash, Met, Taking
<1>7. CASE UNCHANGED vars
  BY <1>7, MetKept DEF vars, catalogVars
<1> QED BY <1>3, <1>4, <1>5, <1>6, <1>7 DEF Next

LEMMA BusyAlways == Spec => [](TypeOK /\ RollbackHas /\ UpdaterBusy)
<1>1. Init => UpdaterBusy
  BY Threads DEF Init, CatalogInit, UpdaterBusy
<1> QED BY <1>1, BusyStep, RollbackHasBackup, PTL DEF Spec

\* Whoever is handed the empty list has met a ReloadSkills between its two steps:
\* a call that begins when the flag has been cleared is handed what a whole scan
\* has made, with the built-in tools.
THEOREM EmptyOnlyInReloadAlways == Spec => []EmptyOnlyInReload
<1>1. Init => FlagTells /\ Met
  BY DEF Init, CatalogInit, FlagTells, Met, Taking
<1>2. FlagTells /\ Met => EmptyOnlyInReload
  BY DEF FlagTells, Met, EmptyOnlyInReload, Served, Taking
<1> QED BY <1>1, <1>2, FlagStep, MetStep, BusyAlways, PTL DEF Spec
-----------------------------------------------------------------------------
\* A scan holds the mutex, and nobody serves from the cache meanwhile.
LEMMA ScanWayStep == TypeOK /\ ScanUnderWay /\ [Next]_vars => ScanUnderWay'
<1> SUFFICES ASSUME TypeOK, ScanUnderWay, [Next]_vars PROVE ScanUnderWay'
  OBVIOUS
<1>1. pc \in [Thread -> Places]
  BY DEF TypeOK, CatalogTypeOK
\* A step that leaves mutex and flag alone and starts no scan.
<1>2. ASSUME holder' = holder, loaded' = loaded \/ ~loaded',
             \A t \in Thread : pc'[t] = "scan" => pc[t] = "scan"
      PROVE  ScanUnderWay'
  BY <1>2 DEF ScanUnderWay
<1>3. CASE Catalog
  <2>1. ASSUME NEW p \in Prompt, Ask(p) PROVE ScanUnderWay'
    BY <1>1, <1>2, <2>1, CallType, Threads DEF TypeOK, CatalogTypeOK, Ask, scanVars
  <2>2. ASSUME NEW t \in Thread, Clear(t) \/ Invalidate(t) \/ Check(t) \/ ReturnCached(t)
        PROVE  ScanUnderWay'
    BY <1>1, <1>2, <2>2 DEF Clear, Invalidate, Call, Check, ReturnCached, scanVars, Goto
  <2>3. ASSUME NEW t \in Thread, StartScan(t) PROVE ScanUnderWay'
    <3>1. holder = Nobody /\ holder' = t /\ ~loaded' /\ ~loaded
      BY <2>3 DEF StartScan
    <3>2. \A u \in Thread : pc[u] # "scan"
      BY <3>1, Threads DEF ScanUnderWay
    <3>3. \A u \in Thread : u # t => pc'[u] = pc[u]
      BY <1>1, <2>3, GotoType DEF StartScan, Places
    <3> QED BY <3>1, <3>2, <3>3 DEF ScanUnderWay
  <2>4. ASSUME NEW t \in Thread, EndScan(t) PROVE ScanUnderWay'
    <3>1. holder = t /\ holder' = Nobody
      BY <2>4 DEF EndScan, ScanUnderWay
    <3>2. \A u \in Thread : pc'[u] # "scan"
      BY <1>1, <2>4, <3>1 DEF EndScan, ScanUnderWay, Goto
    <3> QED BY <3>1, <3>2 DEF ScanUnderWay
  <2>5. ASSUME NEW s \in toRead, ScanOne(s) PROVE ScanUnderWay'
    BY <1>2, <2>5 DEF ScanOne
  <2>6. CASE Edit
    BY <1>1, <1>2, <2>6
    DEF Edit, EditDirectory, EditManifest, EditSkillMd, ManageFails, ManageWrite, Goto, Edited,
        scanVars
  <2>7. CASE ManageDone \/ WatchRead \/ WatchFire
    BY <1>1, <1>2, <2>7 DEF ManageDone, WatchRead, WatchFire, Goto, scanVars
  <2> QED BY <1>3, <2>1, <2>2, <2>3, <2>4, <2>5, <2>6, <2>7
          DEF Catalog, CatalogStep, LoadStep
<1>4. ASSUME NEW s \in Skill, RollbackSkill(s) \/ \E v \in 1..MaxVersion : UpdateSkill(s, v)
      PROVE  ScanUnderWay'
  BY <1>2, <1>4 DEF RollbackSkill, UpdateSkill, restVars, scanVars
<1>5. CASE UpdateStep
  <2>1. holder' = holder /\ loaded' = loaded
    BY <1>5
    DEF UpdateStep, BackupSkill, BackupFails, Download, RemoveOld, CreateDirectories, Install,
        InstallFails, RemoveCurrent, Restore, RestoreFails, DropBackup, catalogVars, threadVars,
        scanVars
  <2>2. pc' = pc \/ Goto(Updater, "reload")
    BY <1>5
    DEF UpdateStep, BackupSkill, BackupFails, Download, RemoveOld, CreateDirectories, Install,
        InstallFails, RemoveCurrent, Restore, RestoreFails, DropBackup, catalogVars, threadVars
  <2> QED BY <1>1, <1>2, <2>1, <2>2 DEF Goto
<1>6. CASE Crash
  BY <1>6 DEF Crash, ScanUnderWay
<1>7. CASE UNCHANGED vars
  BY <1>2, <1>7 DEF vars, catalogVars, scanVars
<1> QED BY <1>3, <1>4, <1>5, <1>6, <1>7 DEF Next

\* Appending an event keeps those that are waiting.
LEMMA HeardAppend ==
    ASSUME inotify \in Events, NEW s \in Skill, NEW made \in BOOLEAN,
           inotify' = Append(inotify, Event(s, made))
    PROVE  (Heard => Heard') /\ (~made => Heard')
<1> DEFINE e == Event(s, made)
<1>1. e.made = made
  BY DEF Event
<1>2. /\ Len(inotify') = Len(inotify) + 1 /\ Len(inotify) \in Nat
      /\ inotify'[Len(inotify) + 1] = e
      /\ \A i \in 1..Len(inotify) : inotify'[i] = inotify[i]
  <2> HIDE DEF e
  <2>1. inotify' = Append(inotify, e)
    BY DEF e
  <2> QED BY <2>1 DEF Events
<1> HIDE DEF e
<1> QED BY <1>1, <1>2 DEF Heard

\* What has been promised stays promised unless the step breaks it.
LEMMA ComingKept ==
    ASSUME toReload => toReload' \/ Coming', Heard => Heard' \/ Coming',
           \A t \in Thread : pc[t] \in {"reload", "cleared"} => pc'[t] \in {"reload", "cleared"},
           pc[Manager] = "written" => pc'[Manager] = "written",
           job.step = "drop" => job'.step = "drop" \/ Coming'
    PROVE  Coming => Coming'
  BY DEF Coming

\* A change of one directory: the cached list stays right, or is excused, or a
\* reload is coming; a scan notes what it has read too early.
LEMMA DirectoryChange ==
    ASSUME TypeOK, ListInv, ScanFaithful, NEW s \in All,
           \A x \in All \ {s} : disk'[x] = disk[x],
           UNCHANGED <<cache, loaded, scanVars>>, Seen(s),
           silent \subseteq silent', Coming => Coming',
           Coming' \/ s \in silent' \/ Offered(disk'[s]) = Offered(disk[s])
    PROVE  ListInv' /\ ScanFaithful'
<1>1. suspect \subseteq suspect' /\ (holder # Nobody /\ s \notin toRead => s \in suspect')
  BY DEF Seen
<1>2. ListInv'
  BY <1>1 DEF ListInv, Fresh
<1>3. ScanFaithful'
  BY <1>1 DEF ScanFaithful, scanVars
<1> QED BY <1>2, <1>3

\* A step that changes no directory and not the list.
LEMMA CatalogQuiet ==
    ASSUME ListInv, ScanFaithful, UNCHANGED <<disk, cache, suspect, silent, scanVars>>,
           (loaded' = loaded /\ (Coming => Coming')) \/ ~loaded'
    PROVE  ListInv' /\ ScanFaithful'
  BY DEF ListInv, ScanFaithful, Fresh, scanVars

LEMMA CatalogListStep ==
    ASSUME TypeOK, ScanUnderWay, ListInv, ScanFaithful, CatalogStep, UNCHANGED updaterVars
    PROVE  ListInv' /\ ScanFaithful'
<1>1. /\ pc \in [Thread -> Places] /\ acc \in [All -> 0..MaxVersion] /\ inotify \in Events
      /\ disk \in [All -> -1..MaxVersion] /\ (holder = Nobody => toRead = {}) /\ toRead \subseteq All
      /\ job' = job
  BY DEF TypeOK, CatalogTypeOK, Events, updaterVars
<1>2. ASSUME NEW p \in Prompt, Ask(p) PROVE ListInv' /\ ScanFaithful'
  <2>1. Coming => Coming'
    BY <1>1, <1>2, CallType, Threads, ComingKept DEF TypeOK, CatalogTypeOK, Ask, fileVars, Heard
  <2> QED BY <1>2, <2>1, CatalogQuiet DEF Ask, fileVars
<1>3. ASSUME NEW t \in Thread, Clear(t) PROVE ListInv' /\ ScanFaithful'
  <2>1. Coming'
    BY <1>1, <1>3, GotoType DEF Clear, Places, Coming
  <2> QED BY <1>3, <2>1 DEF Clear, ListInv, ScanFaithful, fileVars, scanVars
<1>4. ASSUME NEW t \in Thread, Invalidate(t) PROVE ListInv' /\ ScanFaithful'
  BY <1>4, CatalogQuiet DEF Invalidate, fileVars
<1>5. ASSUME NEW t \in Thread, Check(t) \/ ReturnCached(t) PROVE ListInv' /\ ScanFaithful'
  <2>1. UNCHANGED <<toReload, inotify, job>>
    BY <1>1, <1>5 DEF Check, ReturnCached, fileVars
  <2>2. \A u \in Thread : pc[u] \in {"reload", "cleared", "written"} => pc'[u] = pc[u]
    BY <1>1, <1>5 DEF Check, ReturnCached, Served, Goto
  <2>3. Coming => Coming'
    BY <2>1, <2>2, Threads, ComingKept DEF Heard
  <2> QED BY <1>5, <2>3, CatalogQuiet DEF Check, ReturnCached, fileVars
<1>6. ASSUME NEW t \in Thread, StartScan(t) PROVE ListInv' /\ ScanFaithful'
  BY <1>6 DEF StartScan, ListInv, ScanFaithful
<1>7. ASSUME NEW t \in Thread, EndScan(t) PROVE ListInv' /\ ScanFaithful'
  <2>1. holder # Nobody /\ toRead = {} /\ holder' = Nobody /\ cache' = acc
    BY <1>7, Threads DEF EndScan, ScanUnderWay
  <2>2. \A s \in All : acc[s] = Offered(disk[s]) \/ s \in suspect
    BY <2>1 DEF ScanFaithful
  <2>3. acc # Cleared
    BY <1>1, NotCleared
  <2> QED BY <1>7, <2>1, <2>2, <2>3 DEF EndScan, ListInv, ScanFaithful, Fresh, fileVars
<1>8. ASSUME NEW s \in toRead, ScanOne(s) PROVE ListInv' /\ ScanFaithful'
  <2>1. holder # Nobody /\ ~loaded /\ loaded' = loaded /\ s \in All
    BY <1>1, <1>8 DEF ScanOne, ScanUnderWay
  <2>2. /\ acc' = [acc EXCEPT ![s] = Offered(disk[s])] /\ toRead' = toRead \ {s}
        /\ suspect' = suspect \ {s} /\ disk' = disk /\ holder' = holder
    BY <1>8 DEF ScanOne, fileVars
  <2>3. ScanFaithful'
    BY <1>1, <2>1, <2>2 DEF ScanFaithful
  <2> QED BY <2>1, <2>3 DEF ListInv
<1>9. ASSUME NEW s \in Skill, EditDirectory(s) PROVE ListInv' /\ ScanFaithful'
  <2>1. /\ disk' = [disk EXCEPT ![s] = 0] /\ disk[s] = -1
        /\ UNCHANGED <<toReload, cache, loaded, scanVars, pc, silent>> /\ Seen(s)
        /\ inotify' = Append(inotify, Event(s, TRUE))
    BY <1>9, Threads DEF EditDirectory, MakeDir, Edited
  <2>2. Coming => Coming'
    BY <1>1, <2>1, HeardAppend, ComingKept
  <2>3. Offered(disk'[s]) = Offered(disk[s]) /\ \A x \in All \ {s} : disk'[x] = disk[x]
    BY <1>1, <2>1, Threads DEF Offered
  <2> QED BY <2>1, <2>2, <2>3, DirectoryChange, Threads
<1>10. ASSUME NEW s \in Skill, NEW v \in 1..MaxVersion, EditManifest(s, v)
       PROVE  ListInv' /\ ScanFaithful'
  <2>1. /\ disk' = [disk EXCEPT ![s] = v]
        /\ UNCHANGED <<toReload, cache, loaded, scanVars, pc>> /\ Seen(s)
        /\ inotify' = IF s \in watched THEN Append(inotify, Event(s, FALSE)) ELSE inotify
        /\ silent' = IF s \in watched THEN silent ELSE silent \cup {s}
    BY <1>10 DEF EditManifest, PutManifest, Edited
  <2>2. Heard => Heard'
    BY <1>1, <2>1, HeardAppend DEF Heard
  <2>3. Heard' \/ s \in silent'
    BY <1>1, <2>1, HeardAppend
  <2>4. Coming => Coming'
    BY <1>1, <2>1, <2>2, ComingKept
  <2>5. \A x \in All \ {s} : disk'[x] = disk[x]
    BY <1>1, <2>1
  <2> QED BY <2>1, <2>3, <2>4, <2>5, DirectoryChange, Threads DEF Coming
<1>11. ASSUME NEW s \in All, UNCHANGED <<inotify, toReload, cache, loaded, scanVars, pc>>,
              Seen(s), NEW v, disk' = [disk EXCEPT ![s] = v], silent' = silent \cup {s}
       PROVE  ListInv' /\ ScanFaithful'
  <2>1. Coming => Coming'
    BY <1>1, <1>11, ComingKept DEF Heard
  <2>2. \A x \in All \ {s} : disk'[x] = disk[x]
    BY <1>1, <1>11
  <2> QED BY <1>11, <2>1, <2>2, DirectoryChange
<1>12. ASSUME NEW s \in Skill, NEW v \in 1..MaxVersion, EditSkillMd(s, v)
       PROVE  ListInv' /\ ScanFaithful'
  BY <1>11, <1>12, Threads DEF EditSkillMd, Edited
<1>13. ASSUME NEW s \in Custom, ManageFails(s) PROVE ListInv' /\ ScanFaithful'
  BY <1>11, <1>13, Threads DEF ManageFails, Edited
<1>14. ASSUME NEW s \in Custom, NEW v \in -1..MaxVersion, ManageWrite(s, v)
       PROVE  ListInv' /\ ScanFaithful'
  <2>1. pc'[Manager] = "written"
    BY <1>1, <1>14, GotoType, Threads DEF ManageWrite, Places
  <2>2. Coming'
    BY <2>1 DEF Coming
  <2>3. \A x \in All \ {s} : disk'[x] = disk[x]
    BY <1>1, <1>14 DEF ManageWrite
  <2>4. /\ UNCHANGED <<cache, loaded, scanVars>> /\ Seen(s) /\ silent' = silent
    BY <1>14 DEF ManageWrite, Edited
  <2> QED BY <2>2, <2>3, <2>4, DirectoryChange, Threads
<1>15. CASE ManageDone
  BY <1>15, CatalogQuiet DEF ManageDone, fileVars
<1>16. CASE WatchRead
  <2>1. /\ inotify # <<>> /\ inotify' = Tail(inotify)
        /\ toReload' = (toReload \/ ~Head(inotify).made)
        /\ UNCHANGED <<disk, cache, loaded, scanVars, pc, suspect, silent>>
    BY <1>16 DEF WatchRead
  <2>2. Heard => Heard' \/ toReload'
    <3> SUFFICES ASSUME NEW i \in 1..Len(inotify), ~inotify[i].made
                 PROVE  Heard' \/ toReload'
      BY DEF Heard
    <3>1. CASE i = 1
      <4>1. Head(inotify) = inotify[1]
        BY <1>1, <2>1 DEF Events
      <4>2. toReload' = TRUE
        BY <2>1, <3>1, <4>1, Zenon
      <4> QED BY <4>2
    <3>2. CASE i # 1
      <4>1. i - 1 \in 1..Len(inotify') /\ inotify'[i - 1] = inotify[i]
        BY <1>1, <2>1, <3>2 DEF Events
      <4> QED BY <4>1 DEF Heard
    <3> QED BY <3>1, <3>2
  <2>3. Coming => Coming'
    BY <1>1, <2>1, <2>2 DEF Coming
  <2> QED BY <2>1, <2>3, CatalogQuiet
<1>17. CASE WatchFire
  <2>1. pc'[Watcher] = "reload"
    BY <1>1, <1>17, GotoType, Threads DEF WatchFire, Places
  <2>2. Coming'
    BY <2>1, Threads DEF Coming
  <2> QED BY <1>17, <2>2, CatalogQuiet DEF WatchFire, fileVars
<1> QED
  BY <1>2, <1>3, <1>4, <1>5, <1>6, <1>7, <1>8, <1>9, <1>10, <1>12, <1>13, <1>14, <1>15, <1>16,
     <1>17 DEF CatalogStep, LoadStep, Edit

LEMMA UpdaterListStep ==
    ASSUME TypeOK, RollbackHas, UpdaterBusy, ListInv, ScanFaithful, UpdateStep
    PROVE  ListInv' /\ ScanFaithful'
<1> DEFINE s == target
<1>1. /\ pc \in [Thread -> Places] /\ inotify \in Events /\ disk \in [All -> -1..MaxVersion]
      /\ s \in Skill /\ s \in All /\ job.ver \in 0..MaxVersion /\ CatalogTypeOK
  BY Threads DEF TypeOK, CatalogTypeOK, Events, target
<1> HIDE DEF s
\* The old directory is taken away.
<1>2. ASSUME RemoveAll(s), job.step # "drop", UNCHANGED threadVars
      PROVE  ListInv' /\ ScanFaithful'
  <2>1. disk' = [disk EXCEPT ![s] = -1] /\ Seen(s) /\ UNCHANGED <<cache, loaded, scanVars>>
    BY <1>2 DEF RemoveAll, threadVars
  <2>2. Heard => Heard'
    BY <1>1, <1>2, HeardAppend DEF RemoveAll, Heard
  <2>3. Heard' \/ s \in silent' \/ disk[s] <= 0
    <3>1. disk[s] \in Int
      BY <1>1
    <3>2. CASE s \in watched /\ disk[s] > 0
      BY <1>1, <1>2, <3>2, HeardAppend DEF RemoveAll
    <3>3. CASE s \notin watched /\ disk[s] > 0
      BY <1>2, <3>3 DEF RemoveAll
    <3> QED BY <3>1, <3>2, <3>3
  <2>4. Coming => Coming'
    BY <1>2, <2>2, ComingKept DEF threadVars
  <2>5. disk[s] <= 0 => Offered(disk'[s]) = Offered(disk[s])
    BY <1>1, <2>1 DEF Offered
  <2>6. silent \subseteq silent'
    BY <1>2 DEF RemoveAll
  <2>7. \A x \in All \ {s} : disk'[x] = disk[x]
    BY <1>1, <2>1
  <2> QED BY <1>1, <2>1, <2>3, <2>4, <2>5, <2>6, <2>7, DirectoryChange DEF Coming
\* A directory is put in place.
<1>3. ASSUME NEW v \in 0..MaxVersion, MakeDir(s, v), job.step # "drop",
             UNCHANGED <<toReload, cache, loaded, scanVars, pc>>, silent \subseteq silent',
             Coming' \/ s \in silent' \/ v <= Offered(disk[s])
      PROVE  ListInv' /\ ScanFaithful'
  <2>1. disk' = [disk EXCEPT ![s] = IF disk[s] < v THEN v ELSE disk[s]] /\ Seen(s)
    BY <1>1, <1>3, MakeDirFiles DEF MakeDir
  <2>2. Heard => Heard'
    BY <1>1, <1>3, HeardAppend DEF MakeDir, Heard
  <2>3. Coming => Coming'
    BY <1>3, <2>2, ComingKept
  <2>4. v <= Offered(disk[s]) => Offered(disk'[s]) = Offered(disk[s])
    BY <1>1, <1>3, <2>1 DEF Offered
  <2>5. \A x \in All \ {s} : disk'[x] = disk[x]
    BY <1>1, <2>1
  <2> QED BY <1>1, <1>3, <2>1, <2>3, <2>4, <2>5, DirectoryChange
<1>4. 0 \in 0..MaxVersion /\ 0 <= Offered(disk[s])
  BY <1>1, CatalogAssumption, OfferedType
<1>5. CASE BackupSkill \/ BackupFails \/ Download \/ InstallFails
  <2>1. UNCHANGED catalogVars /\ job.step # "drop"
    BY <1>5 DEF BackupSkill, BackupFails, Download, InstallFails
  <2>2. Coming => Coming'
    BY <2>1, ComingKept DEF catalogVars, Heard
  <2> QED BY <2>1, <2>2, CatalogQuiet DEF catalogVars
<1>6. CASE RemoveOld
  BY <1>2, <1>6 DEF RemoveOld, s
<1>7. CASE CreateDirectories
  BY <1>3, <1>4, <1>7 DEF CreateDirectories, threadVars, s
<1>8. CASE Install
  <2>1. Coming'
    BY <1>1, <1>8, GotoType, Threads DEF Install, Coming, Places
  <2>2. disk' = [disk EXCEPT ![s] = job.ver] /\ Seen(s)
        /\ UNCHANGED <<cache, loaded, scanVars, silent>>
    BY <1>8 DEF Install, PutManifest, s
  <2>3. \A x \in All \ {s} : disk'[x] = disk[x]
    BY <1>1, <2>2
  <2> QED BY <1>1, <2>1, <2>2, <2>3, DirectoryChange
<1>9. CASE RemoveCurrent
  BY <1>2, <1>9 DEF RemoveCurrent, s
<1>10. ASSUME job.step = "restore"
       PROVE  backups[job.from].ver \in 0..MaxVersion
  <2>1. job.from \in 1..Len(backups)
    BY <1>10 DEF RollbackHas, Fitting
  <2>2. backups[job.from] \in Backups
    BY <2>1, TypeParts DEF UpdaterTypeOK
  <2> QED BY <2>2 DEF Backups
<1>11. CASE Restore
  <2>1. Coming'
    BY <1>11, JobStep DEF Restore, Coming
  <2> QED BY <1>3, <1>10, <1>11, <2>1 DEF Restore, threadVars, s
<1>12. CASE RestoreFails
  <2>1. PICK v \in {0, backups[job.from].ver} :
           /\ MakeDir(s, v)
           /\ silent' = IF v > Offered(disk[s]) THEN silent \cup {s} ELSE silent
    BY <1>12 DEF RestoreFails, s
  <2>2. v \in 0..MaxVersion /\ Offered(disk[s]) \in 0..MaxVersion
    BY <1>1, <1>4, <1>10, <1>12, OfferedType DEF RestoreFails
  <2>3. s \in silent' \/ v <= Offered(disk[s])
    BY <2>1, <2>2
  <2> QED BY <1>3, <1>12, <2>1, <2>2, <2>3 DEF RestoreFails, threadVars
<1>13. CASE DropBackup
  <2>1. Coming'
    BY <1>1, <1>13, GotoType, Threads DEF DropBackup, Coming, Places
  <2> QED BY <1>13, <2>1, CatalogQuiet DEF DropBackup
<1> QED
  BY <1>5, <1>6, <1>7, <1>8, <1>9, <1>11, <1>12, <1>13 DEF UpdateStep

LEMMA ListStep ==
    TypeOK /\ RollbackHas /\ UpdaterBusy /\ ScanUnderWay /\ ListInv /\ ScanFaithful /\ [Next]_vars
        => ListInv' /\ ScanFaithful'
<1> SUFFICES ASSUME TypeOK, RollbackHas, UpdaterBusy, ScanUnderWay, ListInv, ScanFaithful,
                    [Next]_vars
             PROVE  ListInv' /\ ScanFaithful'
  OBVIOUS
<1>1. CASE Catalog
  BY <1>1, CatalogListStep DEF Catalog
<1>2. ASSUME NEW s \in Skill, RollbackSkill(s) \/ \E v \in 1..MaxVersion : UpdateSkill(s, v)
      PROVE  ListInv' /\ ScanFaithful'
  <2>1. UNCHANGED restVars /\ job.step # "drop"
    BY <1>2 DEF RollbackSkill, UpdateSkill
  <2>2. Coming => Coming'
    BY <2>1, ComingKept DEF restVars, Heard
  <2> QED BY <2>1, <2>2, CatalogQuiet DEF restVars
<1>3. CASE UpdateStep
  BY <1>3, UpdaterListStep
<1>4. CASE Crash
  BY <1>4 DEF Crash, ListInv, ScanFaithful
<1>5. CASE UNCHANGED vars
  <2>1. Coming => Coming'
    BY <1>5 DEF vars, catalogVars, updaterVars, Coming, Heard
  <2> QED BY <1>5, <2>1, CatalogQuiet DEF vars, catalogVars
<1> QED BY <1>1, <1>2, <1>3, <1>4, <1>5 DEF Next

\* When nothing is under way, the list served from the cache is the one on disk,
\* but for skills changed during a scan and for changes nobody hears of.
THEOREM FreshAtRestAlways == Spec => []FreshAtRest
<1>1. Init => ScanUnderWay /\ ListInv /\ ScanFaithful
  BY DEF Init, CatalogInit, ScanUnderWay, ListInv, ScanFaithful
<1>2. TypeOK /\ ListInv => FreshAtRest
  <2> SUFFICES ASSUME TypeOK, ListInv, AtRest, loaded
               PROVE  \A s \in All : Fresh(s) \/ s \in suspect \cup silent
    BY DEF FreshAtRest
  <2>1. ~Coming
    BY Threads DEF AtRest, Coming, Heard
  <2> QED BY <2>1 DEF ListInv
<1> QED BY <1>1, <1>2, ScanWayStep, ListStep, BusyAlways, PTL DEF Spec
-----------------------------------------------------------------------------
\* The backups a skill relies on stay when one is added.
LEMMA BackedUpAppend ==
    ASSUME TypeOK, NEW b \in Backups, backups' = Append(backups, b)
    PROVE  /\ \A s \in Skill : BackedUp(s) => BackedUp(s)'
           /\ GoodBackup(b) => BackedUp(b.skill)'
<1>1. /\ Len(backups') = Len(backups) + 1 /\ Len(backups) \in Nat
      /\ \A i \in 1..Len(backups) : i \in 1..Len(backups') /\ backups'[i] = backups[i]
      /\ backups'[Len(backups) + 1] = b
  BY AppendBackup DEF TypeOK
<1> QED BY <1>1 DEF BackedUp

LostInv == NeverLost /\ WayBack

LEMMA NeverLostDef == NeverLost <=> \A s \in had \ spoiled : disk[s] > 0 \/ BackedUp(s)
  BY DEF NeverLost, BackedUp, GoodBackup

\* A step outside the updater: it takes no directory of a watched skill away.
LEMMA LostQuiet ==
    ASSUME TypeOK, LostInv, UNCHANGED updaterVars,
           \A s \in Skill : disk[s] > 0 => disk'[s] > 0
    PROVE  LostInv'
<1>1. had \ spoiled \subseteq Skill /\ target \in Skill
  BY DEF TypeOK, target
<1>2. \A s \in Skill : BackedUp(s) => BackedUp(s)'
  BY DEF BackedUp, updaterVars
<1>3. NeverLost'
  BY <1>1, <1>2 DEF LostInv, NeverLost, updaterVars
<1>4. target' = target /\ job.from' = job.from /\ UNCHANGED <<job, backups, had, spoiled>>
  BY DEF updaterVars, target
<1>5. WayBack'
  BY <1>1, <1>2, <1>4 DEF LostInv, WayBack, GoodBackup
<1> QED BY <1>3, <1>5 DEF LostInv

LEMMA CatalogKeepsSkills ==
    ASSUME TypeOK, CatalogStep
    PROVE  \A s \in Skill : disk[s] > 0 => disk'[s] > 0
<1> SUFFICES ASSUME NEW s \in Skill, disk[s] > 0 PROVE disk'[s] > 0
  OBVIOUS
<1>1. disk \in [All -> -1..MaxVersion] /\ s \in All
  BY Threads DEF TypeOK, CatalogTypeOK
<1>2. ASSUME NEW x \in Skill, EditDirectory(x) PROVE disk'[s] > 0
  BY <1>1, <1>2 DEF EditDirectory, MakeDir
<1>3. ASSUME NEW x \in Skill, NEW v \in 1..MaxVersion, EditManifest(x, v) \/ EditSkillMd(x, v)
      PROVE  disk'[s] > 0
  <2>1. disk' = [disk EXCEPT ![x] = v]
    BY <1>3 DEF EditManifest, PutManifest, EditSkillMd
  <2>2. v \in Int /\ v > 0
    BY CatalogAssumption
  <2> QED BY <1>1, <2>1, <2>2
<1>4. ASSUME NEW x \in Custom, ManageFails(x) \/ \E v \in -1..MaxVersion : ManageWrite(x, v)
      PROVE  disk'[s] > 0
  BY <1>1, <1>4, CatalogAssumption DEF ManageFails, ManageWrite
<1>5. ASSUME NEW t \in Thread, LoadStep(t) PROVE disk' = disk
  BY <1>5 DEF LoadStep, Clear, Invalidate, Check, ReturnCached, StartScan, EndScan, ScanOne,
              fileVars
<1>6. ASSUME NEW p \in Prompt, Ask(p) PROVE disk' = disk
  BY <1>6 DEF Ask, fileVars
<1>7. CASE ManageDone \/ WatchRead \/ WatchFire
  BY <1>7 DEF ManageDone, WatchRead, WatchFire, fileVars
<1> QED BY <1>2, <1>3, <1>4, <1>5, <1>6, <1>7 DEF CatalogStep, Edit

LEMMA UpdaterLostStep ==
    ASSUME TypeOK, RollbackHas, LostInv, UpdateStep
    PROVE  LostInv'
<1>0. PICK s \in Skill : s = target
  BY DEF TypeOK, target
<1>1. /\ had \subseteq Skill /\ spoiled \subseteq Skill /\ backups \in Seq(Backups)
      /\ disk \in [All -> -1..MaxVersion] /\ s \in Skill /\ s \in All
      /\ job.ver \in 0..MaxVersion /\ CatalogTypeOK
  BY <1>0, Threads, TypeParts DEF TypeOK, CatalogTypeOK, UpdaterTypeOK, Jobs
<1>2. NeverLost /\ WayBack
  BY DEF LostInv
\* Once nothing is under way, only the skills count.
<1>3. ASSUME job'.step = "no", NeverLost' PROVE LostInv'
  BY <1>3 DEF LostInv, WayBack
<1>4. CASE BackupSkill
  <2>1. /\ job'.step = "download" /\ target' = s /\ disk' = disk /\ spoiled' = spoiled
        /\ had' = IF disk[s] > 0 THEN had \cup {s} ELSE had
    BY <1>0, <1>4, JobStep DEF BackupSkill, catalogVars, target
  <2>2. \A x \in Skill : BackedUp(x) => BackedUp(x)'
    <3>1. CASE backups' = backups
      BY <3>1 DEF BackedUp
    <3>2. CASE backups' = Append(backups, Saved(TRUE))
      BY <3>2, SavedType, BackedUpAppend
    <3> QED BY <1>4, <3>1, <3>2 DEF BackupSkill
  <2>3. disk[s] > 0 => BackedUp(s)'
    <3> SUFFICES ASSUME disk[s] > 0 PROVE BackedUp(s)'
      OBVIOUS
    <3>0. disk[s] # -1 /\ Offered(disk[s]) = disk[s]
      BY <1>1 DEF Offered
    <3>1. backups' = Append(backups, Saved(TRUE))
      BY <1>0, <1>4, <3>0, Zenon DEF BackupSkill
    <3>2. Saved(TRUE) \in Backups /\ Saved(TRUE).skill = s /\ GoodBackup(Saved(TRUE))
      BY <1>0, <3>0, SavedType DEF GoodBackup
    <3> QED BY <3>1, <3>2, BackedUpAppend
  <2>4. s \in had' \ spoiled' => BackedUp(s)'
    BY <1>1, <1>2, <2>1, <2>2, <2>3, NeverLostDef
  <2>5. NeverLost'
    <3> SUFFICES ASSUME NEW x \in had' \ spoiled', ~(disk'[x] > 0) PROVE BackedUp(x)'
      BY DEF NeverLost, BackedUp, GoodBackup
    <3>1. x \in had \ spoiled /\ x \in Skill
      BY <1>1, <2>1
    <3> QED BY <1>2, <2>1, <2>2, <3>1, NeverLostDef
  <2> QED BY <2>1, <2>4, <2>5 DEF LostInv, WayBack
<1>5. CASE BackupFails
  <2>1. job'.step = "no" /\ UNCHANGED <<disk, had, spoiled>>
    BY <1>5, JobStep DEF BackupFails, catalogVars, bookVars
  <2>2. \A x \in Skill : BackedUp(x) => BackedUp(x)'
    <3>1. CASE backups' = backups
      BY <3>1 DEF BackedUp
    <3>2. CASE backups' = Append(backups, Saved(FALSE))
      BY <3>2, SavedType, BackedUpAppend
    <3> QED BY <1>5, <3>1, <3>2 DEF BackupFails
  <2>3. NeverLost'
    BY <1>1, <1>2, <2>1, <2>2, NeverLostDef DEF NeverLost, BackedUp, GoodBackup
  <2> QED BY <1>3, <2>1, <2>3
\* The other steps of an update leave the backups and the history alone.
<1>6. ASSUME job.step \in {"download", "remove", "mkdir", "install"},
             job' = NoJob \/ \E step \in {"remove", "mkdir", "install"} :
                                job' = [job EXCEPT !.step = step],
             UNCHANGED <<backups, had, spoiled>>,
             \A x \in Skill : x # s => disk'[x] = disk[x]
      PROVE  LostInv'
  <2>1. /\ job'.step \in {"no", "remove", "mkdir", "install"}
        /\ job'.step # "no" => target' = s
    <3>1. CASE job' = NoJob
      BY <3>1, JobStep
    <3>2. ASSUME NEW step \in {"remove", "mkdir", "install"}, job' = [job EXCEPT !.step = step]
          PROVE  job'.step = step /\ job'.skill = target
      BY <3>2, JobStep
    <3>3. ASSUME NEW step \in {"remove", "mkdir", "install"}, job' = [job EXCEPT !.step = step]
          PROVE  job'.step \in {"remove", "mkdir", "install"} /\ target' = s
      BY <1>0, <3>2, <3>3 DEF target
    <3> QED BY <1>6, <3>1, <3>3
  <2>2. \A x \in Skill : BackedUp(x)' <=> BackedUp(x)
    BY <1>6 DEF BackedUp
  <2>3. s \in had \ spoiled => BackedUp(s)
    BY <1>0, <1>2, <1>6 DEF WayBack
  <2>4. NeverLost'
    BY <1>1, <1>2, <1>6, <2>2, <2>3, NeverLostDef DEF NeverLost, BackedUp, GoodBackup
  <2> QED BY <1>1, <1>6, <2>1, <2>2, <2>3, <2>4 DEF LostInv, WayBack
<1>7. CASE Download \/ InstallFails
  BY <1>6, <1>7 DEF Download, InstallFails, catalogVars, bookVars
<1>8. CASE RemoveOld
  <2>1. disk' = [disk EXCEPT ![s] = -1]
    BY <1>0, <1>8 DEF RemoveOld, RemoveAll
  <2> QED BY <1>1, <1>6, <1>8, <2>1, Threads DEF RemoveOld, bookVars
<1>9. CASE CreateDirectories
  <2>1. \E v : disk' = [disk EXCEPT ![s] = v]
    BY <1>0, <1>9 DEF CreateDirectories, MakeDir
  <2> QED BY <1>1, <1>6, <1>9, <2>1, Threads DEF CreateDirectories, bookVars
<1>10. CASE Install
  <2>1. disk' = [disk EXCEPT ![s] = job.ver]
    BY <1>0, <1>10 DEF Install, PutManifest
  <2> QED BY <1>1, <1>6, <1>10, <2>1, Threads DEF Install, bookVars
<1>11. ASSUME job.step \in {"clear", "restore", "drop"}
       PROVE  /\ job.from \in 1..Len(backups) /\ backups[job.from].skill = s
              /\ backups[job.from] \in Backups
  <2>1. job.from \in 1..Len(backups) /\ backups[job.from].skill = s
    BY <1>0, <1>11 DEF RollbackHas, Fitting
  <2> QED BY <1>1, <2>1
<1>12. CASE RemoveCurrent
  <2> DEFINE b == backups[job.from]
  <2>1. /\ job.step = "clear" /\ job'.step = "restore" /\ target' = s
        /\ UNCHANGED <<backups, had>> /\ disk' = [disk EXCEPT ![s] = -1]
        /\ spoiled' = IF GoodBackup(b) THEN spoiled ELSE spoiled \cup {s}
    BY <1>0, <1>12, JobStep DEF RemoveCurrent, RemoveAll, GoodBackup, target
  <2>2. \A x \in Skill : BackedUp(x)' <=> BackedUp(x)
    BY <2>1 DEF BackedUp
  <2>3. job.from' = job.from
    BY <1>12, JobStep DEF RemoveCurrent
  <2>4. s \in had' \ spoiled' => GoodBackup(b) /\ BackedUp(s)
    BY <1>11, <2>1 DEF BackedUp
  <2>5. NeverLost'
    <3> SUFFICES ASSUME NEW x \in had' \ spoiled', ~(disk'[x] > 0) PROVE BackedUp(x)'
      BY DEF NeverLost, BackedUp, GoodBackup
    <3>1. x \in had \ spoiled /\ x \in Skill /\ x \in All
      BY <1>1, <2>1, Threads
    <3>2. CASE x = s
      BY <2>2, <2>4, <3>1, <3>2
    <3>3. CASE x # s
      BY <1>1, <1>2, <2>1, <2>2, <3>1, <3>3, NeverLostDef
    <3> QED BY <3>2, <3>3
  <2>6. WayBack'
    BY <2>1, <2>3, <2>4 DEF WayBack, GoodBackup
  <2> QED BY <2>5, <2>6 DEF LostInv
\* A directory is put in place of the one taken away.
<1>13. ASSUME job.step = "restore", NEW v \in 0..MaxVersion, MakeDir(s, v),
              UNCHANGED <<backups, had, spoiled>>
       PROVE  NeverLost' /\ disk'[s] >= v
  <2>1. disk' = [disk EXCEPT ![s] = IF disk[s] < v THEN v ELSE disk[s]]
    BY <1>1, <1>13, MakeDirFiles
  <2>2. \A x \in Skill : disk[x] > 0 => disk'[x] > 0
    BY <1>1, <2>1, Threads
  <2>3. \A x \in Skill : BackedUp(x)' <=> BackedUp(x)
    BY <1>13 DEF BackedUp
  <2>4. NeverLost'
    BY <1>1, <1>2, <1>13, <2>2, <2>3, NeverLostDef DEF NeverLost, BackedUp, GoodBackup
  <2> QED BY <1>1, <1>13, <2>1, <2>4
<1>14. CASE Restore
  <2> DEFINE b == backups[job.from]
  <2>1. /\ job.step = "restore" /\ job'.step = "drop" /\ target' = s
        /\ UNCHANGED <<backups, had, spoiled>> /\ MakeDir(s, b.ver)
    BY <1>0, <1>14, JobStep DEF Restore, target, bookVars
  <2>2. b.ver \in 0..MaxVersion
    BY <1>11, <2>1 DEF Backups
  <2>3. s \in had \ spoiled => b.ver > 0
    BY <1>0, <1>2, <2>1 DEF WayBack, GoodBackup
  <2> HIDE DEF b
  <2>4. NeverLost' /\ disk'[s] >= b.ver
    BY <1>13, <2>1, <2>2
  <2>5. disk'[s] \in Int
    BY <1>1, <2>1, <2>2, MakeDirFiles DEF FilesTyped
  <2>6. s \in had \ spoiled => disk'[s] > 0
    BY <2>2, <2>3, <2>4, <2>5
  <2> QED BY <2>1, <2>4, <2>6 DEF LostInv, WayBack
<1>15. CASE RestoreFails
  <2>1. PICK v \in {0, backups[job.from].ver} : MakeDir(s, v)
    BY <1>0, <1>15 DEF RestoreFails
  <2>2. v \in 0..MaxVersion
    BY <1>11, <1>15, CatalogAssumption DEF RestoreFails, Backups
  <2>3. NeverLost'
    BY <1>13, <1>15, <2>1, <2>2 DEF RestoreFails, bookVars
  <2> QED BY <1>3, <1>15, <2>3, JobStep DEF RestoreFails
<1>16. CASE DropBackup
  <2>1. /\ job.step = "drop" /\ UNCHANGED <<disk, had, spoiled>> /\ job'.step = "no"
    BY <1>16, JobStep DEF DropBackup, bookVars
  <2>2. \A i \in 1..Len(backups) : i # job.from =>
           \E j \in 1..Len(backups') : backups'[j] = backups[i]
    <3>1. PICK n \in 1..Len(backups) : n = job.from
      BY <1>11, <2>1
    <3>2. backups' = SubSeq(backups, 1, n - 1) \o SubSeq(backups, n + 1, Len(backups))
      BY <1>16, <3>1 DEF DropBackup
    <3>3. PICK r \in Seq(Backups) :
             /\ r = SubSeq(backups, 1, n - 1) \o SubSeq(backups, n + 1, Len(backups))
             /\ \A i \in 1..Len(backups) : i # n => \E j \in 1..Len(r) : r[j] = backups[i]
      <4>1. backups \in Seq(Backups)
        BY <1>1
      <4> QED BY <4>1, CutSeq, ZenonT(30)
    <3>4. backups' = r
      BY <3>2, <3>3, Zenon
    <3> QED BY <3>1, <3>3, <3>4
  <2>3. \A x \in Skill : x # s => (BackedUp(x) => BackedUp(x)')
    BY <1>11, <2>1, <2>2 DEF BackedUp
  <2>4. s \in had \ spoiled => disk[s] > 0
    BY <1>0, <1>2, <2>1 DEF WayBack
  <2>5. NeverLost'
    <3> SUFFICES ASSUME NEW x \in had' \ spoiled', ~(disk'[x] > 0) PROVE BackedUp(x)'
      BY DEF NeverLost, BackedUp, GoodBackup
    <3>1. x \in had \ spoiled /\ x \in Skill /\ x # s
      BY <1>1, <2>1, <2>4
    <3> QED BY <1>2, <2>1, <2>3, <3>1, NeverLostDef
  <2> QED BY <1>3, <2>1, <2>5
<1> QED
  BY <1>4, <1>5, <1>7, <1>8, <1>9, <1>10, <1>12, <1>14, <1>15, <1>16 DEF UpdateStep

LEMMA LostStep == TypeOK /\ RollbackHas /\ LostInv /\ [Next]_vars => LostInv'
<1> SUFFICES ASSUME TypeOK, RollbackHas, LostInv, [Next]_vars PROVE LostInv'
  OBVIOUS
<1>1. CASE Catalog
  BY <1>1, CatalogKeepsSkills, LostQuiet DEF Catalog
<1>2. ASSUME NEW x \in Skill, RollbackSkill(x) \/ \E v \in 1..MaxVersion : UpdateSkill(x, v)
      PROVE  LostInv'
  <2>1. job'.step \in {"clear", "backup"} /\ UNCHANGED <<disk, backups, had, spoiled>>
    BY <1>2 DEF RollbackSkill, UpdateSkill, At, restVars, bookVars
  <2> QED BY <2>1 DEF LostInv, NeverLost, WayBack
<1>3. CASE UpdateStep
  BY <1>3, UpdaterLostStep
<1>4. CASE Crash
  <2>1. job'.step = "no" /\ UNCHANGED <<disk, had, spoiled>>
    BY <1>4, JobStep DEF Crash
  <2>2. \A x \in Skill : BackedUp(x) => BackedUp(x)'
    <3>1. CASE backups' = backups
      BY <3>1 DEF BackedUp
    <3>2. CASE backups' = Append(backups, Saved(FALSE))
      BY <3>2, SavedType, BackedUpAppend
    <3> QED BY <1>4, <3>1, <3>2 DEF Crash
  <2>3. NeverLost'
    BY <2>1, <2>2, NeverLostDef DEF LostInv, NeverLost, BackedUp, GoodBackup, TypeOK
  <2> QED BY <2>1, <2>3 DEF LostInv, WayBack
<1>5. CASE UNCHANGED vars
  BY <1>5, LostQuiet DEF vars, catalogVars
<1> QED BY <1>1, <1>2, <1>3, <1>4, <1>5 DEF Next

\* A skill an update was about to replace is installed or has a whole backup,
\* whatever fails and wherever the daemon dies, unless it was rolled back to an
\* incomplete or empty backup.
THEOREM NeverLostAlways == Spec => []NeverLost
<1>1. Init => LostInv
  BY DEF Init, LostInv, NeverLost, WayBack
<1>2. LostInv => NeverLost
  BY DEF LostInv
<1> QED BY <1>1, <1>2, LostStep, RollbackHasBackup, PTL DEF Spec
=============================================================================
