---------------------------- MODULE SkillCatalog ----------------------------
(***************************************************************************)
(* The skills on disk and the agent's cached list of them.                 *)
(*                                                                         *)
(* LoadSkillDeclarations scans the directories under tools_mutex_ and      *)
(* keeps the result until cached_tools_loaded_ is cleared; the flag is     *)
(* cleared without the mutex.  SkillWatcher reloads some time after the    *)
(* last inotify event about a manifest; ReloadSkills is also called by the *)
(* updater, and the operation that manages custom skills only clears the   *)
(* flag.  Directories of custom skills are not watched.                    *)
(*                                                                         *)
(* disk[s] is -1 without a directory, 0 for a directory without manifest,  *)
(* else the version of the manifest.  The 500 ms of the debouncing are not *)
(* counted: a reload may come at any time after the event.                 *)
(***************************************************************************)
EXTENDS Integers, Sequences, FiniteSets

CONSTANTS Skill,        \* skills under the watched directory
          Custom,       \* skills under custom_skills
          MaxVersion,   \* versions of a manifest
          Prompt,       \* threads in ProcessPrompt
          Watcher,      \* the thread of SkillWatcher
          Updater,      \* the thread that runs the updater, of WebDashboard
          Manager,      \* a tool thread in the operation on custom skills
          Nobody,       \* tools_mutex_ is free
          MaxEvents     \* bound on edits, prompts, calls of the updater and crashes

ASSUME CatalogAssumption ==
    /\ MaxVersion \in Nat \ {0} /\ MaxEvents \in Nat
    /\ Skill # {} /\ Skill \cap Custom = {}
    /\ Watcher # Updater /\ Watcher # Manager /\ Updater # Manager
    /\ Prompt \cap {Watcher, Updater, Manager} = {}
    /\ Nobody \notin Prompt \cup {Watcher, Updater, Manager}

VARIABLES
    disk,       \* the directories
    watched,    \* wd_to_path_, without the top directory
    inotify,    \* external: events not yet read
    toReload,   \* pending_reload
    cache,      \* cached_tools_, without the tools that are always there
    loaded,     \* cached_tools_loaded_
    holder,     \* owner of tools_mutex_ during a scan
    toRead, acc,  \* the scan: skills it has not come to, and `tools`
    pc,         \* the place of each thread
    spent,      \* number of those so far
    suspect,    \* history variable: changed during a scan, after it was read
    silent,     \* history variable: changed without an event or an invalidation
    overlap     \* history variable: threads about to take the list whose call of
                \* LoadSkillDeclarations has met a ReloadSkills at "cleared"

scanVars == <<holder, toRead, acc>>
catalogVars == <<disk, watched, inotify, toReload, cache, loaded, scanVars, pc, spent,
                 suspect, silent, overlap>>

All == Skill \cup Custom
Thread == Prompt \cup {Watcher, Updater, Manager}
Cleared == <<>>                   \* cached_tools_.clear(): the built-in tools go too
Offered(v) == IF v < 0 THEN 0 ELSE v
Taking == {"check", "cached", "lock"}
Places == {"idle", "reload", "cleared", "check", "cached", "lock", "scan", "written"}

CatalogTypeOK ==
    /\ disk \in [All -> -1..MaxVersion]
    /\ watched \subseteq {s \in Skill : disk[s] >= 0}
    /\ inotify \in Seq([skill : Skill, made : BOOLEAN])
    /\ toReload \in BOOLEAN
    /\ cache = Cleared \/ cache \in [All -> 0..MaxVersion]
    /\ loaded \in BOOLEAN
    /\ holder \in Thread \cup {Nobody}
    /\ toRead \subseteq All /\ (holder = Nobody => toRead = {})
    /\ acc \in [All -> 0..MaxVersion]
    /\ pc \in [Thread -> Places]
    /\ spent \in 0..MaxEvents
    /\ suspect \subseteq All /\ silent \subseteq All
    /\ overlap \subseteq Thread

\* SkillWatcher::Start watches the directories that are there.
CatalogInit ==
    /\ disk \in [All -> {-1, 1}]
    /\ watched = {s \in Skill : disk[s] >= 0}
    /\ inotify = <<>> /\ toReload = FALSE
    /\ cache = Cleared /\ loaded = FALSE
    /\ holder = Nobody /\ toRead = {} /\ acc = [s \in All |-> 0]
    /\ pc = [t \in Thread |-> "idle"]
    /\ spent = 0 /\ suspect = {} /\ silent = {} /\ overlap = {}
-----------------------------------------------------------------------------
\* LoadSkillDeclarations and ReloadSkills.

Goto(t, place) == pc' = [pc EXCEPT ![t] = place]
fileVars == <<disk, watched, inotify>>

\* A thread calls LoadSkillDeclarations.
Call(t) ==
    /\ Goto(t, "check")
    /\ overlap' = IF \E u \in Thread \ {t} : pc[u] = "cleared" THEN overlap \cup {t}
                  ELSE overlap \ {t}

\* Something comes from outside.
Spend == spent < MaxEvents /\ spent' = spent + 1

Ask(p) ==
    /\ pc[p] = "idle" /\ Spend
    /\ Call(p)
    /\ UNCHANGED <<fileVars, toReload, cache, loaded, scanVars, suspect, silent>>

Clear(t) ==
    /\ pc[t] = "reload" /\ holder = Nobody
    /\ cache' = Cleared
    /\ Goto(t, "cleared")
    /\ overlap' = {u \in Thread : pc[u] \in Taking}
    /\ UNCHANGED <<fileVars, toReload, loaded, scanVars, spent, suspect, silent>>

InvalidateNot(t) ==                                 \* mutant: the flag is not cleared
    /\ pc[t] = "cleared"
    /\ Call(t)
    /\ UNCHANGED <<fileVars, toReload, cache, loaded, scanVars, spent, suspect, silent>>

Invalidate(t) ==
    /\ pc[t] = "cleared"
    /\ loaded' = FALSE
    /\ Call(t)
    /\ UNCHANGED <<fileVars, toReload, cache, scanVars, spent, suspect, silent>>

Check(t) ==
    /\ pc[t] = "check"
    /\ Goto(t, IF loaded THEN "cached" ELSE "lock")
    /\ UNCHANGED <<fileVars, toReload, cache, loaded, scanVars, spent, suspect, silent, overlap>>

\* cached_tools_ is returned: the flag was set before or after the lock was taken.
Served(t) == holder = Nobody /\ (pc[t] = "cached" \/ (pc[t] = "lock" /\ loaded))

ReturnCached(t) ==
    /\ Served(t)
    /\ Goto(t, "idle")
    /\ overlap' = overlap \ {t}
    /\ UNCHANGED <<fileVars, toReload, cache, loaded, scanVars, spent, suspect, silent>>

StartScan(t) ==
    /\ pc[t] = "lock" /\ holder = Nobody /\ ~loaded
    /\ holder' = t /\ toRead' = All /\ acc' = [s \in All |-> 0]
    /\ Goto(t, "scan")
    /\ overlap' = overlap \ {t}
    /\ UNCHANGED <<fileVars, toReload, cache, loaded, spent, suspect, silent>>

\* The custom skills come last.
ScanOne(s) ==
    /\ s \in toRead
    /\ s \in Custom => toRead \subseteq Custom
    /\ acc' = [acc EXCEPT ![s] = Offered(disk[s])]
    /\ toRead' = toRead \ {s}
    /\ suspect' = suspect \ {s} /\ silent' = silent \ {s}
    /\ UNCHANGED <<fileVars, toReload, cache, loaded, holder, pc, spent, overlap>>

\* Whatever has happened during the scan, the flag is set.
EndScan(t) ==
    /\ pc[t] = "scan" /\ toRead = {}
    /\ cache' = acc /\ loaded' = TRUE
    /\ holder' = Nobody /\ acc' = [s \in All |-> 0]
    /\ Goto(t, "idle")
    /\ UNCHANGED <<fileVars, toReload, toRead, spent, suspect, silent, overlap>>

LoadStep(t) ==
    \/ Clear(t) \/ Invalidate(t) \/ Check(t) \/ ReturnCached(t) \/ StartScan(t) \/ EndScan(t)
    \/ pc[t] = "scan" /\ \E s \in toRead : ScanOne(s)
-----------------------------------------------------------------------------
\* Changes of a skill's directory, and the events they cause.

Event(s, made) == [skill |-> s, made |-> made]
Seen(s) == suspect' = IF holder # Nobody /\ s \notin toRead THEN suspect \cup {s} ELSE suspect

\* The deletion of a watched manifest is an event; the watch goes with the directory.
RemoveAll(s) ==
    /\ disk' = [disk EXCEPT ![s] = -1]
    /\ watched' = watched \ {s}
    /\ inotify' = IF s \in watched /\ disk[s] > 0 THEN Append(inotify, Event(s, FALSE))
                  ELSE inotify
    /\ silent' = IF s \notin watched /\ disk[s] > 0 THEN silent \cup {s} ELSE silent
    /\ Seen(s)

\* A directory with or without a manifest is put in place, unless there is one.
MakeDir(s, v) ==
    /\ disk' = [disk EXCEPT ![s] = IF @ < v THEN v ELSE @]
    /\ inotify' = IF disk[s] = -1 THEN Append(inotify, Event(s, TRUE)) ELSE inotify
    /\ UNCHANGED watched
    /\ Seen(s)

PutManifest(s, v) ==
    /\ disk' = [disk EXCEPT ![s] = v]
    /\ inotify' = IF s \in watched THEN Append(inotify, Event(s, FALSE)) ELSE inotify
    /\ UNCHANGED watched
    /\ Seen(s)

Edited ==
    /\ Spend
    /\ UNCHANGED <<toReload, cache, loaded, scanVars, overlap>>

\* External: somebody makes a directory or writes a manifest in it.  The watcher
\* hears of it only if it watches the directory already and the file is
\* manifest.json; LoadSkillDeclarations reads SKILL.md as well.
EditDirectory(s) ==
    /\ disk[s] = -1
    /\ Edited
    /\ MakeDir(s, 0)
    /\ UNCHANGED <<pc, silent>>

EditManifest(s, v) ==
    /\ disk[s] >= 0 /\ disk[s] # v
    /\ Edited
    /\ PutManifest(s, v)
    /\ silent' = IF s \in watched THEN silent ELSE silent \cup {s}
    /\ UNCHANGED pc

EditSkillMd(s, v) ==
    /\ disk[s] >= 0 /\ disk[s] # v
    /\ Edited
    /\ disk' = [disk EXCEPT ![s] = v]
    /\ silent' = silent \cup {s}
    /\ Seen(s)
    /\ UNCHANGED <<watched, inotify, pc>>

\* The operation on custom skills creates, updates (v > 0) or deletes ...
ManageWrite(s, v) ==
    /\ pc[Manager] = "idle" /\ v # disk[s] /\ v # 0
    /\ Edited
    /\ disk' = [disk EXCEPT ![s] = v]
    /\ Seen(s)
    /\ Goto(Manager, "written")
    /\ UNCHANGED <<watched, inotify, silent>>

\* ... and clears the flag,
ManageDone ==
    /\ pc[Manager] = "written"
    /\ loaded' = FALSE
    /\ Goto(Manager, "idle")
    /\ UNCHANGED <<fileVars, toReload, cache, scanVars, spent, suspect, silent, overlap>>

\* ... unless a later file cannot be written.
ManageFails(s) ==
    /\ pc[Manager] = "idle"
    /\ Edited
    /\ \E v \in 1..MaxVersion : v # disk[s] /\ disk' = [disk EXCEPT ![s] = v]
    /\ Seen(s)
    /\ silent' = silent \cup {s}
    /\ UNCHANGED <<watched, inotify, pc>>
-----------------------------------------------------------------------------
\* WatchLoop.

WatchReadForgets ==                                 \* mutant: pending_reload is not set
    /\ pc[Watcher] = "idle" /\ inotify # <<>>
    /\ inotify' = Tail(inotify)
    /\ watched' = IF Head(inotify).made THEN watched \cup {Head(inotify).skill} ELSE watched
    /\ UNCHANGED <<disk, toReload, cache, loaded, scanVars, pc, spent, suspect, silent, overlap>>

WatchRead ==
    /\ pc[Watcher] = "idle" /\ inotify # <<>>
    /\ inotify' = Tail(inotify)
    /\ LET e == Head(inotify)
       IN  /\ watched' = IF e.made /\ disk[e.skill] >= 0 THEN watched \cup {e.skill}
                         ELSE watched
           /\ toReload' = (toReload \/ ~e.made)
    /\ UNCHANGED <<disk, cache, loaded, scanVars, pc, spent, suspect, silent, overlap>>

WatchFire ==
    /\ pc[Watcher] = "idle" /\ toReload
    /\ toReload' = FALSE
    /\ Goto(Watcher, "reload")
    /\ UNCHANGED <<fileVars, cache, loaded, scanVars, spent, suspect, silent, overlap>>

Edit ==
    \/ \E s \in Skill : \/ EditDirectory(s)
                        \/ \E v \in 1..MaxVersion : EditManifest(s, v) \/ EditSkillMd(s, v)
    \/ \E s \in Custom : \/ ManageFails(s)
                         \/ \E v \in -1..MaxVersion : ManageWrite(s, v)

CatalogStep ==
    \/ \E p \in Prompt : Ask(p)
    \/ \E t \in Thread : LoadStep(t)
    \/ Edit \/ ManageDone
    \/ WatchRead \/ WatchFire
-----------------------------------------------------------------------------
\* A thread that is handed the empty list, without even the built-in tools, has
\* met a ReloadSkills between clearing the list and clearing the flag: whoever
\* calls LoadSkillDeclarations after that, the reload itself among them, is handed
\* a list that a whole scan has made.
EmptyOnlyInReload ==
    \A t \in Thread : Served(t) /\ cache = Cleared => t \in overlap
=============================================================================
