------------------------------ MODULE MCSkills -----------------------------
(***************************************************************************)
(* SkillCatalog and OtaUpdater for TLC: a skill that is edited, updated    *)
(* and rolled back, and a custom skill.                                    *)
(***************************************************************************)
EXTENDS OtaUpdater, TLC

CONSTANTS a1, c1, p1, watcher, updater, manager, nobody

MCSkill == {a1}
MCCustom == {c1}
MCPrompt == {p1}
=============================================================================
