------------------------------- MODULE Editor -------------------------------
(***************************************************************************)
(* The interactive editor of src/src/interactive.rs, and AppConfig::save   *)
(* of src/src/config.rs: processes that each load config.yaml, edit a copy *)
(* of it, and write it back through a temporary file, while others read    *)
(* the file at any time.                                                   *)
(*                                                                         *)
(* The prompts of one action are answered by one person and change nothing *)
(* until the end, so that an action of the menu is one step.               *)
(***************************************************************************)
EXTENDS AppConfig, SequencesExt

CONSTANTS Process,    \* process ids
          Typed,      \* tunnels that somebody may type in
          Kept,       \* sets of fields that an edit may leave as they are
          Folded,     \* names as eq_ignore_ascii_case compares them
          FirstFile,  \* what the file may hold in the beginning
          NoFile,     \* there is no temporary file
          MaxChanges  \* bound on the changes that are made in all

ASSUME DocumentAssumption ==
  \A f \in {Missing, Blank, Malformed, NoConfig, NoFile} : f \notin Document
ASSUME FirstFileAssumption == FirstFile \subseteq Document \union {Missing, Blank, Malformed}
ASSUME TypedAssumption == Typed \subseteq TunnelConfig

VARIABLES
  file,    \* config.yaml
  temp,    \* the temporary files, by the process id in their names
  at,      \* where each editor is
  edited,  \* the configuration it edits
  dirty,   \* whether it has unsaved changes
  loaded,  \* history: the configuration as it was loaded
  changes  \* how many changes have been made, to bound them

editorVars == <<file, temp, at, edited, dirty, loaded, changes>>

EditorInit ==
  /\ file \in FirstFile
  /\ temp = [e \in Process |-> NoFile]
  /\ at = [e \in Process |-> "off"]
  /\ edited = [e \in Process |-> DefaultConfig]
  /\ dirty = [e \in Process |-> FALSE]
  /\ loaded = edited
  /\ changes = 0

Goto(e, place) == at' = [at EXCEPT ![e] = place]

(* The process ends and its memory with it. *)
Ends(e) ==
  /\ Goto(e, "off")
  /\ edited' = [edited EXCEPT ![e] = DefaultConfig]
  /\ dirty' = [dirty EXCEPT ![e] = FALSE]
  /\ loaded' = [loaded EXCEPT ![e] = DefaultConfig]

-----------------------------------------------------------------------------
(* The start of manage_config, which ends at once if the file cannot be    *)
(* loaded.                                                                 *)
Open(e) ==
  /\ at[e] = "off"
  /\ LoadOrDefault(file) # NoConfig
  /\ Goto(e, "menu")
  /\ edited' = [edited EXCEPT ![e] = LoadOrDefault(file)]
  /\ loaded' = [loaded EXCEPT ![e] = LoadOrDefault(file)]
  /\ dirty' = [dirty EXCEPT ![e] = FALSE]
  /\ UNCHANGED <<file, temp, changes>>

(* An action of the menu that has changed something. *)
Change(e, config) ==
  /\ at[e] = "menu"
  /\ changes < MaxChanges
  /\ changes' = changes + 1
  /\ edited' = [edited EXCEPT ![e] = config]
  /\ dirty' = [dirty EXCEPT ![e] = TRUE]
  /\ UNCHANGED <<file, temp, at, loaded>>

(* Mutant of NewName: names are compared as validate compares them. *)
NewName_Exact(ts, name, own) ==
  name \notin BlankName /\ \A j \in DOMAIN ts \ own : ts[j].name # name

(* What prompt_new_name lets through for the tunnel at own, or a new one. *)
NewName(ts, name, own) ==
  name \notin BlankName /\ \A j \in DOMAIN ts \ own : Folded[ts[j].name] # Folded[name]

Add(e, t) ==
  LET ts == edited[e].tunnels IN
  /\ NewName(ts, t.name, {})
  /\ {t.listen, t.target} \subseteq Address
  /\ Change(e, [edited[e] EXCEPT !.tunnels = Append(ts, t)])

(* Fields may be kept as they are, but a name that is kept has to pass all *)
(* the same.                                                               *)
Edit(e, i, t, kept) ==
  LET ts == edited[e].tunnels
      new == [f \in DOMAIN t |-> IF f \in kept THEN ts[i][f] ELSE t[f]] IN
  /\ NewName(ts, new.name, {i})
  /\ {new.listen, new.target} \subseteq Address
  /\ Change(e, [edited[e] EXCEPT !.tunnels[i] = new])

Toggle(e, i) == Change(e, [edited[e] EXCEPT !.tunnels[i].enabled = ~@])

(* Mutant of Delete: the change is not recorded as one. *)
Delete_NotDirty(e, i) ==
  /\ at[e] = "menu"
  /\ changes < MaxChanges
  /\ changes' = changes + 1
  /\ edited' = [edited EXCEPT ![e].tunnels = RemoveAt(@, i)]
  /\ UNCHANGED <<file, temp, at, dirty, loaded>>

Delete(e, i) == Change(e, [edited[e] EXCEPT !.tunnels = RemoveAt(@, i)])

ToggleMode(e) == Change(e, [edited[e] EXCEPT !.mode = IF @ = "nft" THEN "socket" ELSE "nft"])

ToggleDaemonLog(e) == Change(e, [edited[e] EXCEPT !.daemon_log = ~@])

(* Mutant of Quit: it asks whether there is something to lose or not. *)
Quit_AlwaysAsks(e) ==
  /\ at[e] = "menu"
  /\ Goto(e, "ask")
  /\ UNCHANGED <<file, temp, edited, dirty, loaded, changes>>

(* Quitting asks once more if there is something to lose. *)
Quit(e) ==
  /\ at[e] = "menu"
  /\ IF dirty[e] THEN Goto(e, "ask") /\ UNCHANGED <<edited, dirty, loaded>> ELSE Ends(e)
  /\ UNCHANGED <<file, temp, changes>>

Answer(e, discard) ==
  /\ at[e] = "ask"
  /\ IF discard THEN Ends(e) ELSE Goto(e, "menu") /\ UNCHANGED <<edited, dirty, loaded>>
  /\ UNCHANGED <<file, temp, changes>>

-----------------------------------------------------------------------------
(* Mutant of TempPath: the process id is left out of the name. *)
TempPath_Shared(e) == CHOOSE shared \in Process : TRUE

TempPath(e) == e

(* AppConfig::save validates, and what it refuses ends the editor. *)
Save(e) ==
  /\ at[e] = "menu"
  /\ IF Valid(edited[e])
     THEN Goto(e, "create") /\ UNCHANGED <<edited, dirty, loaded>>
     ELSE Ends(e)
  /\ UNCHANGED <<file, temp, changes>>

(* fs::write creates or truncates, then writes. *)
CreateTemp(e) ==
  /\ at[e] = "create"
  /\ temp' = [temp EXCEPT ![TempPath(e)] = Blank]
  /\ Goto(e, "write")
  /\ UNCHANGED <<file, edited, dirty, loaded, changes>>

WriteTemp(e) ==
  /\ at[e] = "write"
  /\ temp' = [temp EXCEPT ![TempPath(e)] = edited[e]]
  /\ Goto(e, "rename")
  /\ UNCHANGED <<file, edited, dirty, loaded, changes>>

Rename(e) ==
  /\ at[e] = "rename"
  /\ temp[TempPath(e)] # NoFile
  /\ file' = temp[TempPath(e)]
  /\ temp' = [temp EXCEPT ![TempPath(e)] = NoFile]
  /\ Ends(e)
  /\ UNCHANGED changes

(* A call fails, which ends the editor. *)
SaveFails(e) ==
  /\ at[e] \in {"create", "write", "rename"}
  /\ Ends(e)
  /\ UNCHANGED <<file, temp, changes>>

(* A disk that is full takes a part of the text. *)
WriteFails(e) ==
  /\ at[e] = "write"
  /\ temp' = [temp EXCEPT ![TempPath(e)] = Malformed]
  /\ Ends(e)
  /\ UNCHANGED <<file, changes>>

(* Ctrl+C, or anything else that kills the process. *)
Killed(e) ==
  /\ at[e] # "off"
  /\ Ends(e)
  /\ UNCHANGED <<file, temp, changes>>

Menu(e) ==
  \/ \E t \in Typed : Add(e, t)
  \/ \E i \in DOMAIN edited[e].tunnels :
       \/ \E t \in Typed, kept \in Kept : Edit(e, i, t, kept)
       \/ Toggle(e, i)
       \/ Delete(e, i)
  \/ ToggleMode(e)
  \/ ToggleDaemonLog(e)
  \/ Quit(e)
  \/ \E discard \in BOOLEAN : Answer(e, discard)

Saving(e) == Save(e) \/ CreateTemp(e) \/ WriteTemp(e) \/ Rename(e) \/ SaveFails(e) \/ WriteFails(e)

EditorNext == \E e \in Process : Open(e) \/ Menu(e) \/ Saving(e) \/ Killed(e)

EditorSpec == EditorInit /\ [][EditorNext]_editorVars

-----------------------------------------------------------------------------
(* Unsaved work exists only in an editor that is open. *)
EditorTypeOK ==
  /\ file \in Document \union {Missing, Blank, Malformed}
  /\ temp \in [Process -> Document \union {NoFile, Blank, Malformed}]
  /\ edited \in [Process -> Document]
  /\ loaded \in [Process -> Document]
  /\ at \in [Process -> {"off", "menu", "ask", "create", "write", "rename"}]
  /\ dirty \in [Process -> BOOLEAN]
  /\ \A e \in Process :
       /\ at[e] = "off" => ~dirty[e] /\ edited[e] = DefaultConfig
       /\ at[e] = "ask" => dirty[e]

(* Whoever reads the file, at whatever moment, finds what it held in the   *)
(* beginning or the whole of what one editor has saved, and can run it:    *)
(* src/README.md promises "Atomic config saves".                           *)
Saves == file' # file => LoadForRuntime(file') # NoConfig /\ \E e \in Process : file' = edited[e]

SavesAreAtomic == [][Saves]_editorVars

(* Nobody loses work by quitting who has not been asked. *)
QuitKeeps ==
  \A e \in Process : Quit(e) => at'[e] = "ask" \/ edited[e] = loaded[e]

NoSilentLoss == [][QuitKeeps]_editorVars

(* What the prompts let through, validate accepts, so that a save is       *)
(* refused only for what nft mode cannot serve; and if no two names of the *)
(* file differ in case alone, a name always selects one tunnel only.       *)
CaseDistinct(config) ==
  \A i, j \in DOMAIN config.tunnels :
    Folded[config.tunnels[i].name] = Folded[config.tunnels[j].name] => i = j

EditsStayValid ==
  \A e \in Process :
    /\ Valid([edited[e] EXCEPT !.mode = "socket"])
    /\ CaseDistinct(loaded[e]) => CaseDistinct(edited[e])

(* How far a save has come, and that what was changed is known to be.      *)
Tracked ==
  \A e \in Process :
    /\ at[e] \in {"create", "write", "rename"} => Valid(edited[e])
    /\ at[e] = "rename" => temp[TempPath(e)] = edited[e]
    /\ ~dirty[e] => edited[e] = loaded[e]

(* The inductive invariant. *)
EditorInv == EditorTypeOK /\ Tracked /\ EditsStayValid
=============================================================================
