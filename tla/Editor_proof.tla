----------------------------- MODULE Editor_proof -----------------------------
(***************************************************************************)
(* Saves are atomic and nothing is lost silently, for any number of        *)
(* editors and changes, and any tunnels that are typed in.                 *)
(***************************************************************************)
EXTENDS Editor, SequenceTheorems, TLAPS

(* The tunnels are such that socket mode can serve them. *)
Servable(ts) == (\A i \in DOMAIN ts : ValidTunnel(ts[i])) /\ DistinctNames(ts)

LEMMA ServableIsValid ==
  ASSUME NEW config \in Document
  PROVE  Valid([config EXCEPT !.mode = "socket"]) <=> Servable(config.tunnels)
BY DEF Document, Valid, Servable

-----------------------------------------------------------------------------
(* What the actions of the menu make of a configuration.                   *)

(* A tunnel is taken out of a list. *)
LEMMA Removal ==
  ASSUME NEW S, NEW ts \in Seq(S), NEW i \in DOMAIN ts
  PROVE  /\ RemoveAt(ts, i) \in Seq(S)
         /\ DOMAIN RemoveAt(ts, i) = 1..(Len(ts) - 1)
         /\ \A j \in 1..(Len(ts) - 1) : RemoveAt(ts, i)[j] = IF j < i THEN ts[j] ELSE ts[j + 1]
<1>1. i \in 1..Len(ts) /\ Len(ts) \in Nat
  OBVIOUS
<1> DEFINE front == SubSeq(ts, 1, i - 1)
           back == SubSeq(ts, i + 1, Len(ts))
<1>2. /\ front \in Seq(S) /\ Len(front) = i - 1
      /\ \A j \in 1..(i - 1) : front[j] = ts[j]
  <2>1. \A j \in 1..(i - 1) : ts[j] \in S
    BY <1>1
  <2> QED
    BY <1>1, <2>1, SubSeqProperties
<1>3. /\ back \in Seq(S) /\ Len(back) = Len(ts) - i
      /\ \A j \in 1..(Len(ts) - i) : back[j] = ts[i + j]
  <2>1. \A j \in (i + 1)..Len(ts) : ts[j] \in S
    BY <1>1
  <2>2. /\ back \in Seq(S)
        /\ Len(back) = IF i + 1 <= Len(ts) THEN Len(ts) - (i + 1) + 1 ELSE 0
        /\ \A j \in 1..(Len(ts) - (i + 1) + 1) : back[j] = ts[i + 1 + j - 1]
    BY <1>1, <2>1, SubSeqProperties
  <2> QED
    BY <1>1, <2>2
<1> HIDE DEF front, back
<1>4. /\ front \o back \in Seq(S)
      /\ Len(front \o back) = Len(ts) - 1
      /\ \A j \in 1..(Len(ts) - 1) : (front \o back)[j] = IF j <= i - 1 THEN front[j] ELSE back[j - (i - 1)]
  <2>1. /\ front \o back \in Seq(S)
        /\ Len(front \o back) = Len(front) + Len(back)
        /\ \A j \in 1..(Len(front) + Len(back)) :
             (front \o back)[j] = IF j <= Len(front) THEN front[j] ELSE back[j - Len(front)]
    BY <1>2, <1>3, ConcatProperties
  <2>2. Len(front) + Len(back) = Len(ts) - 1
    BY <1>1, <1>2, <1>3
  <2> QED
    BY <1>2, <2>1, <2>2
<1>5. DOMAIN (front \o back) = 1..(Len(ts) - 1)
  BY <1>4, LenProperties
<1>6. ASSUME NEW j \in 1..(Len(ts) - 1)
      PROVE  (front \o back)[j] = IF j < i THEN ts[j] ELSE ts[j + 1]
  <2>1. CASE j < i
    BY <1>1, <1>2, <1>4, <2>1
  <2>2. CASE ~(j < i)
    <3>1. j - (i - 1) \in 1..(Len(ts) - i) /\ i + (j - (i - 1)) = j + 1
      BY <1>1, <2>2
    <3>2. ~(j <= i - 1)
      BY <1>1, <2>2
    <3> QED
      BY <1>3, <1>4, <2>2, <3>1, <3>2
  <2> QED
    BY <2>1, <2>2
<1>7. RemoveAt(ts, i) = front \o back
  BY DEF RemoveAt, front, back
<1> QED
  BY <1>4, <1>5, <1>6, <1>7

LEMMA AddGives ==
  ASSUME EditorInv, NEW e \in Process, NEW t \in Typed, Add(e, t)
  PROVE  \E config \in Document :
           /\ Change(e, config)
           /\ Servable(config.tunnels)
           /\ CaseDistinct(edited[e]) => CaseDistinct(config)
<1> DEFINE ts == edited[e].tunnels
           config == [edited[e] EXCEPT !.tunnels = Append(ts, t)]
<1>1. edited[e] \in Document /\ ts \in Seq(TunnelConfig) /\ t \in TunnelConfig
  BY TypedAssumption DEF EditorInv, EditorTypeOK, Document
<1>2. config \in Document /\ config.tunnels = Append(ts, t)
  BY <1>1, AppendProperties DEF Document
<1>3. Servable(ts)
  BY <1>1, ServableIsValid DEF EditorInv, EditsStayValid
<1>4. NewName(ts, t.name, {}) /\ ValidTunnel(t)
  BY DEF Add, NewName, ValidTunnel
<1>5. /\ DOMAIN Append(ts, t) = (DOMAIN ts) \union {Len(ts) + 1}
      /\ \A i \in DOMAIN ts : Append(ts, t)[i] = ts[i]
      /\ Append(ts, t)[Len(ts) + 1] = t
  BY <1>1, AppendProperties, LenProperties
<1>6. Servable(Append(ts, t))
  BY <1>3, <1>4, <1>5 DEF Servable, DistinctNames, NewName
<1>7. CaseDistinct(edited[e]) => CaseDistinct(config)
  BY <1>2, <1>4, <1>5 DEF CaseDistinct, NewName
<1> QED
  BY <1>2, <1>6, <1>7 DEF Add

LEMMA EditGives ==
  ASSUME EditorInv, NEW e \in Process, NEW i \in DOMAIN edited[e].tunnels, NEW t \in Typed, NEW kept, Edit(e, i, t, kept)
  PROVE  \E config \in Document :
           /\ Change(e, config)
           /\ Servable(config.tunnels)
           /\ CaseDistinct(edited[e]) => CaseDistinct(config)
<1> DEFINE ts == edited[e].tunnels
           new == [f \in DOMAIN t |-> IF f \in kept THEN ts[i][f] ELSE t[f]]
           config == [edited[e] EXCEPT !.tunnels[i] = new]
<1>1. edited[e] \in Document /\ ts \in Seq(TunnelConfig) /\ t \in TunnelConfig /\ ts[i] \in TunnelConfig
  BY TypedAssumption DEF EditorInv, EditorTypeOK, Document
<1>2. new \in TunnelConfig
  BY <1>1 DEF TunnelConfig
<1>3. NewName(ts, new.name, {i}) /\ ValidTunnel(new) /\ Change(e, config)
  BY DEF Edit, NewName, ValidTunnel
<1> HIDE DEF new
<1>4. config \in Document /\ config.tunnels = [ts EXCEPT ![i] = new]
  BY <1>1, <1>2 DEF Document
<1>5. Servable(ts)
  BY <1>1, ServableIsValid DEF EditorInv, EditsStayValid
<1>6. Servable([ts EXCEPT ![i] = new])
  BY <1>1, <1>3, <1>5 DEF Servable, DistinctNames, NewName
<1>7. CaseDistinct(edited[e]) => CaseDistinct(config)
  BY <1>1, <1>3, <1>4 DEF CaseDistinct, NewName
<1> QED
  BY <1>3, <1>4, <1>6, <1>7

LEMMA ToggleGives ==
  ASSUME EditorInv, NEW e \in Process, NEW i \in DOMAIN edited[e].tunnels, Toggle(e, i)
  PROVE  \E config \in Document :
           /\ Change(e, config)
           /\ Servable(config.tunnels)
           /\ CaseDistinct(edited[e]) => CaseDistinct(config)
<1> DEFINE ts == edited[e].tunnels
           new == [ts[i] EXCEPT !.enabled = ~@]
           config == [edited[e] EXCEPT !.tunnels[i].enabled = ~@]
<1>1. edited[e] \in Document /\ ts \in Seq(TunnelConfig) /\ ts[i] \in TunnelConfig
  BY DEF EditorInv, EditorTypeOK, Document
<1>2. /\ new \in TunnelConfig
      /\ new.name = ts[i].name /\ new.listen = ts[i].listen /\ new.target = ts[i].target
  BY <1>1 DEF TunnelConfig
<1>3. config.tunnels = [ts EXCEPT ![i] = new]
  BY <1>1 DEF Document
<1>4. config \in Document
  BY <1>1, <1>2 DEF Document
<1> HIDE DEF new, config
<1>5. Servable(ts)
  BY <1>1, ServableIsValid DEF EditorInv, EditsStayValid
<1>6. Servable([ts EXCEPT ![i] = new])
  BY <1>1, <1>2, <1>5 DEF Servable, DistinctNames, ValidTunnel
<1>7. CaseDistinct(edited[e]) => CaseDistinct(config)
  BY <1>1, <1>2, <1>3 DEF CaseDistinct
<1> QED
  BY <1>3, <1>4, <1>6, <1>7 DEF Toggle, config

LEMMA DeleteGives ==
  ASSUME EditorInv, NEW e \in Process, NEW i \in DOMAIN edited[e].tunnels, Delete(e, i)
  PROVE  \E config \in Document :
           /\ Change(e, config)
           /\ Servable(config.tunnels)
           /\ CaseDistinct(edited[e]) => CaseDistinct(config)
<1> DEFINE ts == edited[e].tunnels
           rest == RemoveAt(ts, i)
           config == [edited[e] EXCEPT !.tunnels = rest]
<1>1. edited[e] \in Document /\ ts \in Seq(TunnelConfig) /\ Len(ts) \in Nat /\ DOMAIN ts = 1..Len(ts)
  BY DEF EditorInv, EditorTypeOK, Document
<1>2. /\ rest \in Seq(TunnelConfig) /\ DOMAIN rest = 1..(Len(ts) - 1)
      /\ \A j \in 1..(Len(ts) - 1) : rest[j] = IF j < i THEN ts[j] ELSE ts[j + 1]
  BY <1>1, Removal
<1>3. Change(e, config)
  BY DEF Delete
<1> HIDE DEF rest
<1>4. config \in Document /\ config.tunnels = rest
  BY <1>1, <1>2 DEF Document
<1>5. Servable(ts)
  BY <1>1, ServableIsValid DEF EditorInv, EditsStayValid
<1> DEFINE Before(j) == IF j < i THEN j ELSE j + 1
<1>6. /\ \A j \in DOMAIN rest : Before(j) \in DOMAIN ts /\ rest[j] = ts[Before(j)]
      /\ \A j, k \in DOMAIN rest : Before(j) = Before(k) => j = k
  <2>1. i \in 1..Len(ts)
    BY <1>1
  <2>2. \A j \in 1..(Len(ts) - 1) : Before(j) \in 1..Len(ts)
    BY <1>1, <2>1
  <2>3. \A j, k \in 1..(Len(ts) - 1) : Before(j) = Before(k) => j = k
    BY <1>1, <2>1
  <2>4. \A j \in 1..(Len(ts) - 1) : rest[j] = ts[Before(j)]
    BY <1>2
  <2> HIDE DEF Before
  <2> QED
    BY <1>1, <1>2, <2>2, <2>3, <2>4
<1> HIDE DEF Before
<1>7. Servable(rest)
  BY <1>5, <1>6 DEF Servable, DistinctNames
<1>8. CaseDistinct(edited[e]) => CaseDistinct(config)
  BY <1>4, <1>6 DEF CaseDistinct
<1> QED
  BY <1>3, <1>4, <1>7, <1>8

-----------------------------------------------------------------------------
(* The steps.  A process that is not the one that acts is left alone: its  *)
(* temporary file has a name of its own.                                   *)

LEMMA DefaultIsServable ==
  /\ DefaultConfig \in Document
  /\ Servable(DefaultConfig.tunnels)
  /\ CaseDistinct(DefaultConfig)
<1>1. <<>> \in Seq(TunnelConfig) /\ DOMAIN <<>> = {}
  BY EmptySeq, LenProperties
<1> QED
  BY <1>1 DEF DefaultConfig, Document, AppMode, Servable, DistinctNames, CaseDistinct

LEMMA ChangeKeeps ==
  ASSUME EditorInv, NEW e \in Process, NEW config \in Document, Change(e, config),
         Servable(config.tunnels), CaseDistinct(edited[e]) => CaseDistinct(config)
  PROVE  EditorInv'
<1>1. /\ edited' = [edited EXCEPT ![e] = config] /\ dirty' = [dirty EXCEPT ![e] = TRUE]
      /\ at[e] = "menu" /\ UNCHANGED <<file, temp, at, loaded>>
  BY DEF Change
<1>2. EditorTypeOK'
  BY <1>1 DEF EditorInv, EditorTypeOK
<1>3. Tracked'
  BY <1>1 DEF EditorInv, EditorTypeOK, Tracked, TempPath
<1>4. Valid([config EXCEPT !.mode = "socket"])
  BY ServableIsValid
<1>5. EditsStayValid'
  BY <1>1, <1>4 DEF EditorInv, EditorTypeOK, EditsStayValid
<1> QED
  BY <1>2, <1>3, <1>5 DEF EditorInv

LEMMA EndsKeeps ==
  ASSUME EditorInv, NEW e \in Process, Ends(e),
         file' \in Document \union {Missing, Blank, Malformed},
         \/ temp' = temp
         \/ \E f \in Document \union {NoFile, Blank, Malformed} : temp' = [temp EXCEPT ![e] = f]
  PROVE  EditorInv'
<1>1. /\ at' = [at EXCEPT ![e] = "off"]
      /\ edited' = [edited EXCEPT ![e] = DefaultConfig]
      /\ dirty' = [dirty EXCEPT ![e] = FALSE]
      /\ loaded' = [loaded EXCEPT ![e] = DefaultConfig]
  BY DEF Ends, Goto
<1>2. EditorTypeOK'
  BY <1>1, DefaultIsServable DEF EditorInv, EditorTypeOK
<1>3. Tracked'
  BY <1>1 DEF EditorInv, EditorTypeOK, Tracked, TempPath
<1>4. Valid([DefaultConfig EXCEPT !.mode = "socket"])
  BY DefaultIsServable, ServableIsValid
<1>5. EditsStayValid'
  BY <1>1, <1>4 DEF EditorInv, EditorTypeOK, EditsStayValid
<1> QED
  BY <1>2, <1>3, <1>5 DEF EditorInv

LEMMA OpenKeeps ==
  ASSUME EditorInv, NEW e \in Process, Open(e)
  PROVE  EditorInv'
<1> DEFINE config == LoadOrDefault(file)
<1>1. config \in Document /\ Servable(config.tunnels)
  <2>1. CASE file \in {Missing, Blank}
    BY <2>1, DefaultIsServable DEF LoadOrDefault
  <2>2. CASE file \notin {Missing, Blank}
    <3>1. config = file /\ file # Malformed /\ Valid(file)
      BY <2>2 DEF Open, LoadOrDefault, Parse
    <3>2. config \in Document
      BY <2>2, <3>1 DEF EditorInv, EditorTypeOK
    <3> QED
      BY <3>1, <3>2 DEF Valid, Servable
  <2> QED
    BY <2>1, <2>2
<1>2. /\ at[e] = "off" /\ at' = [at EXCEPT ![e] = "menu"]
      /\ edited' = [edited EXCEPT ![e] = config]
      /\ loaded' = [loaded EXCEPT ![e] = config]
      /\ dirty' = [dirty EXCEPT ![e] = FALSE]
      /\ UNCHANGED <<file, temp>>
  BY DEF Open, Goto
<1> HIDE DEF config
<1>3. EditorTypeOK'
  BY <1>1, <1>2 DEF EditorInv, EditorTypeOK
<1>4. Tracked'
  BY <1>2 DEF EditorInv, EditorTypeOK, Tracked, TempPath
<1>5. Valid([config EXCEPT !.mode = "socket"])
  BY <1>1, ServableIsValid
<1>6. EditsStayValid'
  BY <1>2, <1>5 DEF EditorInv, EditorTypeOK, EditsStayValid
<1> QED
  BY <1>3, <1>4, <1>6 DEF EditorInv

LEMMA MenuKeeps ==
  ASSUME EditorInv, NEW e \in Process, Menu(e)
  PROVE  EditorInv'
<1> USE DEF EditorInv, EditorTypeOK, Tracked, Goto, TempPath
<1> DEFINE Gives == \E config \in Document :
                      /\ Change(e, config)
                      /\ Servable(config.tunnels)
                      /\ CaseDistinct(edited[e]) => CaseDistinct(config)
<1>1. Gives => EditorInv'
  BY ChangeKeeps
<1>2. edited[e] \in Document /\ Servable(edited[e].tunnels)
  BY ServableIsValid DEF EditsStayValid
<1>3. CASE \E t \in Typed : Add(e, t)
  <2>1. Gives
    BY <1>3, AddGives
  <2> QED
    BY <1>1, <2>1
<1>4. CASE \E i \in DOMAIN edited[e].tunnels :
             \/ \E t \in Typed, kept \in Kept : Edit(e, i, t, kept)
             \/ Toggle(e, i)
             \/ Delete(e, i)
  <2>1. Gives
    BY <1>4, EditGives, ToggleGives, DeleteGives
  <2> QED
    BY <1>1, <2>1
<1>5. CASE ToggleMode(e)
  <2> DEFINE config == [edited[e] EXCEPT !.mode = IF @ = "nft" THEN "socket" ELSE "nft"]
  <2>1. config \in Document /\ config.tunnels = edited[e].tunnels
    BY <1>2 DEF Document, AppMode
  <2>2. Change(e, config)
    BY <1>5 DEF ToggleMode
  <2>3. CaseDistinct(edited[e]) => CaseDistinct(config)
    BY <2>1 DEF CaseDistinct
  <2> HIDE DEF config
  <2>4. Gives
    BY <1>2, <2>1, <2>2, <2>3
  <2> QED
    BY <1>1, <2>4
<1>6. CASE ToggleDaemonLog(e)
  <2> DEFINE config == [edited[e] EXCEPT !.daemon_log = ~@]
  <2>1. config \in Document /\ config.tunnels = edited[e].tunnels
    BY <1>2 DEF Document
  <2>2. Change(e, config)
    BY <1>6 DEF ToggleDaemonLog
  <2>3. CaseDistinct(edited[e]) => CaseDistinct(config)
    BY <2>1 DEF CaseDistinct
  <2> HIDE DEF config
  <2>4. Gives
    BY <1>2, <2>1, <2>2, <2>3
  <2> QED
    BY <1>1, <2>4
<1>7. CASE Quit(e)
  <2>1. CASE ~dirty[e]
    BY <1>7, <2>1, EndsKeeps DEF Quit
  <2>2. CASE dirty[e]
    <3>1. /\ at[e] = "menu" /\ at' = [at EXCEPT ![e] = "ask"]
          /\ UNCHANGED <<file, temp, edited, dirty, loaded>>
      BY <1>7, <2>2 DEF Quit
    <3>2. EditorTypeOK' /\ Tracked' /\ EditsStayValid'
      BY <2>2, <3>1 DEF EditsStayValid
    <3> QED
      BY <3>2
  <2> QED
    BY <2>1, <2>2
<1>8. ASSUME NEW discard \in BOOLEAN, Answer(e, discard)
      PROVE  EditorInv'
  <2>1. CASE discard
    BY <1>8, <2>1, EndsKeeps DEF Answer
  <2>2. CASE ~discard
    <3>1. /\ at[e] = "ask" /\ at' = [at EXCEPT ![e] = "menu"]
          /\ UNCHANGED <<file, temp, edited, dirty, loaded>>
      BY <1>8, <2>2 DEF Answer
    <3>2. EditorTypeOK' /\ Tracked' /\ EditsStayValid'
      BY <3>1 DEF EditsStayValid
    <3> QED
      BY <3>2
  <2> QED
    BY <2>1, <2>2
<1> QED
  BY <1>3, <1>4, <1>5, <1>6, <1>7, <1>8 DEF Menu

LEMMA SavingKeeps ==
  ASSUME EditorInv, NEW e \in Process, Saving(e)
  PROVE  EditorInv'
<1> USE DEF EditorInv, EditorTypeOK, Tracked, Goto, TempPath
<1>1. CASE Save(e) /\ Valid(edited[e])
  <2>1. /\ at[e] = "menu" /\ at' = [at EXCEPT ![e] = "create"]
        /\ UNCHANGED <<file, temp, edited, dirty, loaded>>
    BY <1>1 DEF Save
  <2>2. EditorTypeOK' /\ Tracked' /\ EditsStayValid'
    BY <1>1, <2>1 DEF EditsStayValid
  <2> QED
    BY <2>2
<1>2. CASE Save(e) /\ ~Valid(edited[e])
  BY <1>2, EndsKeeps DEF Save
<1>3. CASE CreateTemp(e)
  <2>1. /\ at[e] = "create" /\ at' = [at EXCEPT ![e] = "write"]
        /\ temp' = [temp EXCEPT ![e] = Blank]
        /\ UNCHANGED <<file, edited, dirty, loaded>>
    BY <1>3 DEF CreateTemp
  <2>2. EditorTypeOK' /\ Tracked' /\ EditsStayValid'
    BY <2>1 DEF EditsStayValid
  <2> QED
    BY <2>2
<1>4. CASE WriteTemp(e)
  <2>1. /\ at[e] = "write" /\ at' = [at EXCEPT ![e] = "rename"]
        /\ temp' = [temp EXCEPT ![e] = edited[e]]
        /\ UNCHANGED <<file, edited, dirty, loaded>>
    BY <1>4 DEF WriteTemp
  <2>2. EditorTypeOK' /\ Tracked' /\ EditsStayValid'
    BY <2>1 DEF EditsStayValid
  <2> QED
    BY <2>2
<1>5. CASE Rename(e)
  <2>1. file' = edited[e] /\ temp' = [temp EXCEPT ![e] = NoFile] /\ Ends(e)
    BY <1>5 DEF Rename
  <2> QED
    BY <2>1, EndsKeeps
<1>6. CASE SaveFails(e)
  BY <1>6, EndsKeeps DEF SaveFails
<1>7. CASE WriteFails(e)
  <2>1. file' = file /\ temp' = [temp EXCEPT ![e] = Malformed] /\ Ends(e)
    BY <1>7 DEF WriteFails
  <2> QED
    BY <2>1, EndsKeeps
<1> QED
  BY <1>1, <1>2, <1>3, <1>4, <1>5, <1>6, <1>7 DEF Saving

-----------------------------------------------------------------------------
(* For any files, processes and changes, whatever stops them: what is      *)
(* renamed into place is what the editor has validated, and what is typed  *)
(* in keeps the configuration one that can be validated.                   *)
THEOREM EditorInvariance == EditorSpec => []EditorInv
<1>1. EditorInit => EditorInv
  <2> SUFFICES ASSUME EditorInit PROVE EditorInv
    OBVIOUS
  <2>1. EditorTypeOK /\ Tracked
    BY DefaultIsServable, FirstFileAssumption DEF EditorInit, EditorTypeOK, Tracked
  <2>2. EditsStayValid
    BY DefaultIsServable, ServableIsValid DEF EditorInit, EditsStayValid
  <2> QED
    BY <2>1, <2>2 DEF EditorInv
<1>2. EditorInv /\ [EditorNext]_editorVars => EditorInv'
  <2> SUFFICES ASSUME EditorInv, [EditorNext]_editorVars PROVE EditorInv'
    OBVIOUS
  <2>1. ASSUME NEW e \in Process, Open(e) PROVE EditorInv'
    BY <2>1, OpenKeeps
  <2>2. ASSUME NEW e \in Process, Menu(e) PROVE EditorInv'
    BY <2>2, MenuKeeps
  <2>3. ASSUME NEW e \in Process, Saving(e) PROVE EditorInv'
    BY <2>3, SavingKeeps
  <2>4. ASSUME NEW e \in Process, Killed(e) PROVE EditorInv'
    BY <2>4, EndsKeeps DEF Killed, EditorInv, EditorTypeOK
  <2>5. CASE UNCHANGED editorVars
    BY <2>5 DEF editorVars, EditorInv, EditorTypeOK, Tracked, EditsStayValid, TempPath
  <2> QED
    BY <2>1, <2>2, <2>3, <2>4, <2>5 DEF EditorNext
<1> QED
  BY <1>1, <1>2, PTL DEF EditorSpec

(* What prompt_new_name and the address prompts let through, validate      *)
(* accepts in socket mode, and a name selects one tunnel only if it did in *)
(* the file that was loaded.                                               *)
THEOREM PromptsSuffice == EditorSpec => []EditsStayValid
<1>1. EditorInv => EditsStayValid
  BY DEF EditorInv
<1> QED
  BY <1>1, EditorInvariance, PTL

(* AppConfig::save is atomic for readers, whatever number of editors save  *)
(* at once, fail or are killed.                                            *)
THEOREM Atomic == EditorSpec => SavesAreAtomic
<1>1. EditorInv /\ [EditorNext]_editorVars => [Saves]_editorVars
  <2> SUFFICES ASSUME EditorInv, EditorNext, file' # file PROVE Saves
    BY DEF Saves, editorVars
  <2>1. PICK e \in Process : Rename(e)
    <3>1. ASSUME NEW e \in Process, NEW config, Change(e, config) PROVE FALSE
      BY <3>1 DEF Change
    <3>2. ASSUME NEW e \in Process, Menu(e) PROVE FALSE
      BY <3>1, <3>2 DEF Menu, Add, Edit, Toggle, Delete, ToggleMode, ToggleDaemonLog, Quit, Answer
    <3>3. ASSUME NEW e \in Process, Open(e) \/ Killed(e) PROVE FALSE
      BY <3>3 DEF Open, Killed
    <3>4. ASSUME NEW e \in Process, Saving(e) PROVE Rename(e)
      BY <3>4 DEF Saving, Save, CreateTemp, WriteTemp, SaveFails, WriteFails
    <3> QED
      BY <3>2, <3>3, <3>4 DEF EditorNext
  <2>2. file' = edited[e] /\ Valid(edited[e]) /\ edited[e] \in Document
    BY <2>1 DEF Rename, TempPath, EditorInv, EditorTypeOK, Tracked
  <2>3. LoadForRuntime(file') # NoConfig
    BY <2>2, DocumentAssumption DEF LoadForRuntime, Parse
  <2> QED
    BY <2>2, <2>3 DEF Saves
<1> QED
  BY <1>1, EditorInvariance, PTL DEF EditorSpec, SavesAreAtomic

(* The flag dirty is good enough to decide whether quitting has to ask.    *)
THEOREM AsksFirst == EditorSpec => NoSilentLoss
<1>1. EditorInv => [QuitKeeps]_editorVars
  BY DEF EditorInv, EditorTypeOK, Tracked, QuitKeeps, Quit, Goto
<1> QED
  BY <1>1, EditorInvariance, PTL DEF NoSilentLoss
=============================================================================
