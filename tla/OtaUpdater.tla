----------------------------- MODULE OtaUpdater -----------------------------
(***************************************************************************)
(* OtaUpdater::UpdateSkill and RollbackSkill, step by step, on the skills  *)
(* of SkillCatalog, with crashes of the daemon between any two steps.      *)
(* The copies of a directory are not atomic: one that fails or is          *)
(* interrupted leaves a backup that is not whole.                          *)
(***************************************************************************)
EXTENDS SkillCatalog

VARIABLES job,       \* UpdateSkill or RollbackSkill: its step, skill_name, remote_version
                     \* and the place of latest_backup
          backups,   \* backup_dir_, oldest first
          had,       \* history variable: skills an update was about to replace
          spoiled    \* history variable: rolled back to an incomplete or empty backup

updaterVars == <<job, backups, had, spoiled>>
vars == <<catalogVars, updaterVars>>

At(step, s, v, n) == [step |-> step, skill |-> s, ver |-> v, from |-> n]
NoJob == At("no", CHOOSE s \in Skill : TRUE, 0, 0)
target == job.skill

TypeOK ==
    /\ CatalogTypeOK
    /\ job \in [step : {"no", "backup", "download", "remove", "mkdir", "install",
                       "clear", "restore", "drop"},
               skill : Skill, ver : 0..MaxVersion, from : Nat]
    /\ backups \in Seq([skill : Skill, ver : 0..MaxVersion, whole : BOOLEAN])
    /\ had \subseteq Skill /\ spoiled \subseteq Skill

Init ==
    /\ CatalogInit
    /\ job = NoJob
    /\ backups = <<>>
    /\ had = {} /\ spoiled = {}
-----------------------------------------------------------------------------
threadVars == <<toReload, cache, loaded, scanVars, pc, spent, overlap>>
bookVars == <<had, spoiled>>
restVars == <<disk, watched, inotify, toReload, cache, loaded, scanVars, pc, suspect,
              silent, overlap>>

\* The remote manifest has a newer version of s.
UpdateSkill(s, v) ==
    /\ job.step = "no" /\ pc[Updater] = "idle" /\ Spend
    /\ v > Offered(disk[s])
    /\ job' = At("backup", s, v, 0)
    /\ UNCHANGED <<restVars, backups, bookVars>>

Saved(whole) ==
    [skill |-> target, ver |-> IF whole THEN Offered(disk[target]) ELSE 0, whole |-> whole]

BackupNothing ==                                    \* mutant: the copy is not made
    /\ job.step = "backup"
    /\ job' = [job EXCEPT !.step = "download"]
    /\ had' = IF disk[target] > 0 THEN had \cup {target} ELSE had
    /\ UNCHANGED <<catalogVars, backups, spoiled>>

BackupSkill ==
    /\ job.step = "backup"
    /\ backups' = IF disk[target] = -1 THEN backups ELSE Append(backups, Saved(TRUE))
    /\ job' = [job EXCEPT !.step = "download"]
    /\ had' = IF disk[target] > 0 THEN had \cup {target} ELSE had
    /\ UNCHANGED <<catalogVars, spoiled>>

BackupFails ==
    /\ job.step = "backup" /\ disk[target] # -1
    /\ backups' \in {backups, Append(backups, Saved(FALSE))}
    /\ job' = NoJob
    /\ UNCHANGED <<catalogVars, bookVars>>

\* The download, and the check sum, succeed or not.
Download ==
    /\ job.step = "download"
    /\ job' \in {[job EXCEPT !.step = "remove"], NoJob}
    /\ UNCHANGED <<catalogVars, backups, bookVars>>

RemoveOld ==
    /\ job.step = "remove"
    /\ RemoveAll(target)
    /\ job' = [job EXCEPT !.step = "mkdir"]
    /\ UNCHANGED <<threadVars, backups, bookVars>>

CreateDirectories ==
    /\ job.step = "mkdir"
    /\ MakeDir(target, 0)
    /\ job' = [job EXCEPT !.step = "install"]
    /\ UNCHANGED <<threadVars, silent, backups, bookVars>>

InstallQuietly ==                                   \* mutant: no reload_cb_
    /\ job.step = "install"
    /\ PutManifest(target, job.ver)
    /\ job' = NoJob
    /\ UNCHANGED <<threadVars, silent, backups, bookVars>>

Install ==
    /\ job.step = "install"
    /\ PutManifest(target, job.ver)
    /\ job' = NoJob
    /\ Goto(Updater, "reload")
    /\ UNCHANGED <<toReload, cache, loaded, scanVars, spent, silent, overlap, backups, bookVars>>

\* The rename fails: the error is returned, the old skill is gone.
InstallFails ==
    /\ job.step = "install"
    /\ job' = NoJob
    /\ UNCHANGED <<catalogVars, backups, bookVars>>
-----------------------------------------------------------------------------
\* The backups whose name begins with the skill's name and an underscore: those of
\* the skill, when no other skill's name begins like that.  The newest is chosen
\* once, before anything is removed; only this thread adds and removes backups.
Fitting(s) == {i \in 1..Len(backups) : backups[i].skill = s}
Latest(s) == CHOOSE i \in Fitting(s) : \A j \in Fitting(s) : j <= i

RollbackSkill(s) ==
    /\ job.step = "no" /\ pc[Updater] = "idle" /\ Spend
    /\ Fitting(s) # {}
    /\ job' = At("clear", s, 0, Latest(s))
    /\ UNCHANGED <<restVars, backups, bookVars>>

RemoveCurrent ==
    /\ job.step = "clear"
    /\ RemoveAll(target)
    /\ LET b == backups[job.from]
       IN  spoiled' = IF b.whole /\ b.ver > 0 THEN spoiled
                      ELSE spoiled \cup {target}
    /\ job' = [job EXCEPT !.step = "restore"]
    /\ UNCHANGED <<threadVars, backups, had>>

Restore ==
    /\ job.step = "restore" /\ disk[target] <= 0
    /\ MakeDir(target, backups[job.from].ver)
    /\ job' = [job EXCEPT !.step = "drop"]
    /\ UNCHANGED <<threadVars, silent, backups, bookVars>>

\* The copy fails, the manifest may have been copied before; nobody is told.
RestoreFails ==
    /\ job.step = "restore"
    /\ \E v \in {0, backups[job.from].ver} :
          /\ MakeDir(target, v)
          /\ silent' = IF v > Offered(disk[target]) THEN silent \cup {target} ELSE silent
    /\ job' = NoJob
    /\ UNCHANGED <<threadVars, backups, bookVars>>

DropBackup ==
    /\ job.step = "drop"
    /\ LET n == job.from
       IN  backups' = SubSeq(backups, 1, n - 1) \o SubSeq(backups, n + 1, Len(backups))
    /\ job' = NoJob
    /\ Goto(Updater, "reload")
    /\ UNCHANGED <<disk, watched, inotify, toReload, cache, loaded, scanVars, spent,
                   suspect, silent, overlap, bookVars>>

\* The daemon dies and is started again; an interrupted copy stays.
Crash ==
    /\ Spend
    /\ backups' = IF job.step = "backup" /\ disk[target] # -1 THEN Append(backups, Saved(FALSE))
                  ELSE backups
    /\ job' = NoJob
    /\ watched' = {s \in Skill : disk[s] >= 0}
    /\ inotify' = <<>> /\ toReload' = FALSE
    /\ cache' = Cleared /\ loaded' = FALSE
    /\ holder' = Nobody /\ toRead' = {} /\ acc' = [s \in All |-> 0]
    /\ pc' = [t \in Thread |-> "idle"]
    /\ suspect' = {} /\ silent' = {} /\ overlap' = {}
    /\ UNCHANGED <<disk, had, spoiled>>

UpdateStep ==
    \/ BackupSkill \/ BackupFails \/ Download \/ RemoveOld \/ CreateDirectories
    \/ Install \/ InstallFails
    \/ RemoveCurrent \/ Restore \/ RestoreFails \/ DropBackup

Catalog == CatalogStep /\ UNCHANGED updaterVars

Next ==
    \/ Catalog
    \/ \E s \in Skill : RollbackSkill(s) \/ \E v \in 1..MaxVersion : UpdateSkill(s, v)
    \/ UpdateStep
    \/ Crash

Spec == Init /\ [][Next]_vars

\* Threads that are inside the daemon go on; the watcher's loop never ends.
FairSpec ==
    /\ Spec
    /\ WF_vars((WatchRead \/ WatchFire) /\ UNCHANGED updaterVars)
    /\ WF_vars(ManageDone /\ UNCHANGED updaterVars)
    /\ \A t \in Thread : WF_vars(LoadStep(t) /\ UNCHANGED updaterVars)
    /\ WF_vars(UpdateStep)
-----------------------------------------------------------------------------
AtRest ==
    /\ \A t \in Thread : pc[t] = "idle"
    /\ inotify = <<>> /\ ~toReload /\ job.step = "no"

\* What the cache shows of skill s is what is on disk.
Fresh(s) == cache # Cleared /\ cache[s] = Offered(disk[s])

\* When nothing is under way, a list that will be served from the cache is the
\* one on disk, but for skills that changed during a scan after they were read,
\* and for those changed where nobody looks.
FreshAtRest ==
    AtRest /\ loaded => \A s \in All : Fresh(s) \/ s \in suspect \cup silent

\* A list that does not show a change is given up in the end, with the same
\* exceptions: the watcher or the thread that made the change sees to it.
StaleRepaired ==
    \A s \in All : loaded ~> (~loaded \/ Fresh(s) \/ s \in suspect \cup silent)

\* A skill that was to be updated is not lost: it is installed, or a whole backup
\* of it exists, whatever fails and wherever the daemon dies; the exception is a
\* rollback to an incomplete or an empty backup.
NeverLost ==
    \A s \in had \ spoiled :
        \/ disk[s] > 0
        \/ \E i \in 1..Len(backups) :
              backups[i].skill = s /\ backups[i].whole /\ backups[i].ver > 0
=============================================================================
