------------------------------ MODULE EnvFiles ------------------------------
(* The two EnvironmentFileWatchers of a target's interpreter: before each     *)
(* task ~/.pam_environment and then /etc/environment are looked at, and what  *)
(* appeared in or vanished from them is carried over to the environment.      *)
EXTENDS Naturals, FiniteSets

CONSTANTS EnvKeys, MaxEdits
Pam == "pam"
Etc == "etc"
Watched == {Pam, Etc}
VARIABLES
  content,   \* the keys each file names; {} as well when there is no file
  stale,     \* files changed since they were last looked at: their stat() differs from _st
  fileKeys,  \* EnvironmentFileWatcher._keys
  source,    \* where the environment has a key from: "none", "inherited", "pam" or "etc"
  turn,      \* the file that is looked at next, or "task"
  bothNamed, \* keys that each of the files has named at some time
  named,     \* named[f]: keys that f has named
  edits
efVars == <<content, stale, fileKeys, source, turn, bothNamed, named, edits>>

EnvFilesInit ==
  /\ content \in [Watched -> SUBSET EnvKeys] /\ stale = {}
  \* login sessions have the keys of the files; the constructor claims those with equal values
  /\ source \in [EnvKeys -> {"none", "inherited", "pam", "etc"}]
  /\ \A k \in EnvKeys : \A f \in Watched : source[k] = f => k \in content[f]
  /\ fileKeys \in [Watched -> SUBSET EnvKeys]
  /\ \A f \in Watched : /\ {k \in EnvKeys : source[k] = f} \subseteq fileKeys[f]
                        /\ fileKeys[f] \subseteq {k \in content[f] : source[k] \in Watched}
  /\ \A k \in EnvKeys : source[k] = "none" => \A f \in Watched : k \notin content[f]
  /\ named = content /\ bothNamed = content[Pam] \intersect content[Etc]
  /\ turn = Pam /\ edits = 0

\* A task, or anybody else, edits a file.
Edit(f, keys) ==
  /\ edits < MaxEdits /\ edits' = edits + 1 /\ stale' = stale \union {f}
  /\ content' = [content EXCEPT ![f] = keys] /\ named' = [named EXCEPT ![f] = @ \union keys]
  /\ bothNamed' = named'[Pam] \intersect named'[Etc]
  /\ UNCHANGED <<fileKeys, source, turn>>

\* mutation: keys of the old file stay.
KeepOld(f) == source
\* _remove_existing(): the keys that this file gave, as far as they are still set.
Without(f) == [k \in EnvKeys |-> IF k \in fileKeys[f] THEN "none" ELSE source[k]]
\* mutation: a key that the environment has is overwritten.
Overwrites(f) == content[f]
\* _on_file_changed(): the keys it names now, where the environment has none.
With(f) == {k \in content[f] : Without(f)[k] = "none"}
\* mutation: a file that gave keys is not read again.
CheckLazily(f) ==
  /\ turn = f /\ turn' = IF f = Pam THEN Etc ELSE "task"
  /\ stale' = stale \ {f}
  /\ IF f \notin stale \/ fileKeys[f] # {} THEN UNCHANGED <<fileKeys, source>>
     ELSE /\ source' = [k \in EnvKeys |-> IF k \in With(f) THEN f ELSE Without(f)[k]]
          /\ fileKeys' = [fileKeys EXCEPT ![f] = With(f)]
  /\ UNCHANGED <<content, named, bothNamed, edits>>
Check(f) ==
  /\ turn = f /\ turn' = IF f = Pam THEN Etc ELSE "task"
  /\ stale' = stale \ {f}
  /\ IF f \notin stale THEN UNCHANGED <<fileKeys, source>>
     ELSE /\ source' = [k \in EnvKeys |-> IF k \in With(f) THEN f ELSE Without(f)[k]]
          /\ fileKeys' = [fileKeys EXCEPT ![f] = With(f)]
  /\ UNCHANGED <<content, named, bothNamed, edits>>
\* The task's own changes are reverted to the snapshot taken after the checks.
TaskOver == turn = "task" /\ turn' = Pam /\ UNCHANGED <<content, stale, fileKeys, source, named, bothNamed, edits>>

EnvFilesNext == \/ \E f \in Watched : Check(f) \/ \E keys \in SUBSET EnvKeys : Edit(f, keys)
                \/ TaskOver
EnvFilesSpec == EnvFilesInit /\ [][EnvFilesNext]_efVars

-----------------------------------------------------------------------------
UpToDate == turn = "task" /\ stale = {}
\* A task does not see a key that no file names any more, nor loses one that it inherited.
NoRemnants == UpToDate => \A k \in EnvKeys : source[k] \in Watched => k \in content[source[k]]
InheritedKept == [][\A k \in EnvKeys : source[k] = "inherited" => source'[k] = "inherited"]_efVars
\* A task sees the keys that the files name, whatever was edited since the last one, as long as
\* only one of the files ever names a key: else the file that gives the key up removes it.
EditsReflected ==
  UpToDate => \A k \in (content[Pam] \union content[Etc]) \ bothNamed : source[k] # "none"

\* What EnvironmentFileWatcher promises: "update and remove keys that appear to originate in
\* path, and that do not conflict with any existing environment key inherited from elsewhere".
EnvFilesSafe ==
  /\ [](NoRemnants /\ EditsReflected)
  /\ InheritedKept
=============================================================================
