--------------------------- MODULE SkillRegistry ---------------------------
(***************************************************************************)
(* app/core/skills/registry.py with parse_skill_file() of loader.py: the   *)
(* scan at startup indexes what each directory says, load() parses a file  *)
(* again when its body is first wanted, and the file may have been edited  *)
(* in between. No function here awaits: each is one step.                  *)
(*                                                                         *)
(* Directories are numbered in the order iter_skill_dirs() returns them. A *)
(* SKILL.md is a Contents record: kind "skill" (name and enabled are its   *)
(* frontmatter), "bad" (a BizException: unreadable, missing or without a   *)
(* frontmatter or a name) or "fatal" (an exception of another type, such   *)
(* as that of invalid UTF-8). Its body is told by the edit that wrote it.  *)
(***************************************************************************)
EXTENDS Naturals

CONSTANTS SkillNames,
          NumDirs,        \* bound: directories under base_dir
          Contents,       \* what an edit may write
          Layouts,        \* the disks to start from
          MaxEdits        \* bound: edits of files

ASSUME SkillAssumption ==
    /\ NumDirs \in Nat
    /\ MaxEdits \in Nat
    /\ Contents \subseteq [kind : {"skill", "bad", "fatal"},
                           name : SkillNames, enabled : BOOLEAN]
    /\ Layouts \subseteq [1..NumDirs -> Contents]

VARIABLES disk,            \* the SKILL.md of each directory
          written,         \* the edit that wrote it, 0 for the first disk
          edits,           \* edits so far
          skill_index,     \* by name: the directory (0: none), enabled
          skill_bundles,   \* by name: the cached bundle
          settings_cache,  \* "none", "caching" or "reloading"
          scanned,         \* ghost: written, as it was at the scan
          first            \* ghost: by name, the first bundle of this life

files    == <<disk, written, edits>>
registry == <<skill_index, skill_bundles, settings_cache, scanned, first>>

Dirs     == 1..NumDirs
NoMeta   == [dir |-> 0, enabled |-> FALSE]
NoBundle == [dir |-> 0]
Metas    == [dir : 0..NumDirs, enabled : BOOLEAN]
Bundles  == [dir : Dirs, name : SkillNames, enabled : BOOLEAN, edit : 0..MaxEdits]

SkillTypeOK == /\ disk \in [Dirs -> Contents]
               /\ written \in [Dirs -> 0..MaxEdits]
               /\ edits \in 0..MaxEdits
               /\ skill_index \in [SkillNames -> Metas]
               /\ skill_bundles \in [SkillNames -> Bundles \cup {NoBundle}]
               /\ settings_cache \in {"none", "caching", "reloading"}
               /\ scanned \in [Dirs -> 0..MaxEdits]
               /\ first \in [SkillNames -> Bundles \cup {NoBundle}]

Empty(nothing) == [n \in SkillNames |-> nothing]

SkillInit == /\ disk \in Layouts
             /\ written = [d \in Dirs |-> 0]
             /\ edits = 0
             /\ skill_index = Empty(NoMeta)
             /\ skill_bundles = Empty(NoBundle)
             /\ settings_cache = "none"
             /\ scanned = [d \in Dirs |-> 0]
             /\ first = Empty(NoBundle)

(* Somebody writes a SKILL.md, at any time.                                 *)
EditSkill(d) ==
    /\ edits < MaxEdits
    /\ edits' = edits + 1
    /\ \E content \in Contents : disk' = [disk EXCEPT ![d] = content]
    /\ written' = [written EXCEPT ![d] = edits + 1]

(* parse_skill_file() of directory d, when it is a skill.                   *)
Parsed(d) == [dir |-> d, name |-> disk[d].name, enabled |-> disk[d].enabled,
              edit |-> written[d]]

(***************************************************************************)
(* init_skills(), close_skills()                                           *)
(***************************************************************************)
(* Directories whose file says its name is n, before the scan stops.        *)
Claims(n, reached) == {d \in reached : disk[d].kind = "skill" /\ disk[d].name = n}

(* skill_index[meta.name] = meta: the last directory wins a name.           *)
Index(reached) ==
    [n \in SkillNames |->
        IF Claims(n, reached) = {} THEN NoMeta
        ELSE LET d == CHOOSE d \in Claims(n, reached) :
                         \A e \in Claims(n, reached) : e <= d
             IN  [dir |-> d, enabled |-> disk[d].enabled]]

(* The scan ends at the first file that raises another type of exception.   *)
Reached == {d \in Dirs : \A e \in 1..d : disk[e].kind # "fatal"}

(* Regression: the cache of bodies outlives the index.                      *)
KeepBundles == UNCHANGED skill_bundles

ClearBundles == skill_bundles' = Empty(NoBundle)

(* base_dir is scanned unless the switch is off or it is no directory.      *)
InitSkills(scan, cache_loaded) ==
    /\ ClearBundles
    /\ settings_cache' = IF cache_loaded THEN "caching" ELSE "reloading"
    /\ skill_index' = IF scan THEN Index(Reached) ELSE Empty(NoMeta)
    /\ scanned' = written
    /\ first' = Empty(NoBundle)

(* init_skills() itself raises.                                             *)
ScanRaises(scan) == scan /\ Reached # Dirs

CloseSkills == /\ skill_index' = Empty(NoMeta)
               /\ ClearBundles
               /\ settings_cache' = "none"
               /\ scanned' = [d \in Dirs |-> 0]
               /\ first' = Empty(NoBundle)

(***************************************************************************)
(* get_meta() and load()                                                   *)
(***************************************************************************)
GetMetaErrno(n) ==
    IF \A m \in SkillNames : skill_index[m] = NoMeta THEN "SKILL_NOT_INITIALIZED"
    ELSE IF skill_index[n] = NoMeta THEN "SKILL_NOT_FOUND"
    ELSE IF ~ skill_index[n].enabled THEN "SKILL_DISABLED"
    ELSE "none"

(* Regression: the cache is written but not asked.                          *)
NeverCached(n) == FALSE

Cached(n) == settings_cache = "caching" /\ skill_bundles[n] # NoBundle

(* "crash": an exception that is not a BizException.                        *)
LoadErrno(n) ==
    IF GetMetaErrno(n) # "none" THEN GetMetaErrno(n)
    ELSE IF Cached(n) \/ disk[skill_index[n].dir].kind = "skill" THEN "none"
    ELSE IF disk[skill_index[n].dir].kind = "bad" THEN "SKILL_LOAD_FAILED"
    ELSE "crash"

Loaded(n) == IF Cached(n) THEN skill_bundles[n] ELSE Parsed(skill_index[n].dir)

(* Regression: filed under the name the file gives itself.                  *)
CacheKeyOfFile(n) == Loaded(n).name

(* skill_bundles[name] = bundle: under the name that was asked for.         *)
CacheKey(n) == n

(* load(n), when LoadErrno(n) is "none".                                    *)
Load(n) ==
    /\ skill_bundles' = IF settings_cache = "caching"
                        THEN [skill_bundles EXCEPT ![CacheKey(n)] = Loaded(n)]
                        ELSE skill_bundles
    /\ first' = IF first[n] = NoBundle THEN [first EXCEPT ![n] = Loaded(n)] ELSE first
    /\ UNCHANGED <<skill_index, settings_cache, scanned>>
=============================================================================
