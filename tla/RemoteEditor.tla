----------------------------- MODULE RemoteEditor -----------------------------
(***************************************************************************)
(* Editing one file of the server: ReadFile and WriteFile (api/editor.go)    *)
(* and the tabs that call them (stores/editor.ts).  The tabs belong to        *)
(* different sessions, so the calls of their requests interleave; other        *)
(* programs write the file as well.                                         *)
(*                                                                         *)
(* A text is the number of the write that made it.  A version stands for      *)
(* size and mtime in seconds: a write may leave it as it was, or bring back    *)
(* one the file had before.                                                *)
(***************************************************************************)
EXTENDS Naturals

CONSTANTS
  Tabs,
  NoText,     \* the file is gone, or the tab was never loaded
  NoVersion,  \* null: the server could not stat the file
  MaxWrites   \* bound on the writes to the file, for TLC alone

ASSUME RemoteEditorAssumption ==
  /\ MaxWrites \in Nat
  /\ NoText \notin Nat \cup Tabs /\ NoVersion \notin Nat

VARIABLES
  edText,     \* the file's text
  edVersion,  \* and its version
  edNewest,   \* the number of versions it has had, less one
  edWrites,   \* the last text
  edPc,       \* a tab: closed, reading, ready, checking, writing, stating
  edSeen,     \* the text it loaded or stored last
  edBase,     \* tab.version
  edFound,    \* the version ReadFile has found
  edConflict, \* tab.conflict
  edForced,   \* the save under way names no version
  edMissed,   \* history: the tabs whose save, between two of its calls, met the text's write
  edAliased   \* history: the text was stored under a version that an earlier text had

edFile == <<edText, edVersion, edNewest, edWrites, edAliased>>
edTab  == <<edPc, edSeen, edBase, edFound, edConflict, edForced>>
edvars == <<edFile, edTab, edMissed>>

EDInit ==
  /\ edText = 0 /\ edVersion = 0 /\ edNewest = 0 /\ edWrites = 0
  /\ edPc = [t \in Tabs |-> "closed"]
  /\ edSeen = [t \in Tabs |-> NoText]
  /\ edBase = [t \in Tabs |-> NoVersion]
  /\ edFound = [t \in Tabs |-> NoVersion]
  /\ edConflict = [t \in Tabs |-> FALSE] /\ edForced = [t \in Tabs |-> FALSE]
  /\ edMissed = {} /\ edAliased = FALSE

Goes(t, pc) == edPc' = [edPc EXCEPT ![t] = pc]

\* A tab that was never loaded stays closed.
Rests(t) == Goes(t, IF edSeen[t] = NoText THEN "closed" ELSE "ready")

\* Tab t's save is under way: it has checked, or has uploaded and not looked again.
InWindow(t) == edPc[t] \in {"writing", "stating"}

\* Somebody stores a new text; by is the tab that does, or NoText.  Its version is a new
\* one, or one the file had: the second was the same, or the writer keeps the time.
Stores(by) ==
  /\ edWrites < MaxWrites
  /\ edWrites' = edWrites + 1 /\ edText' = edWrites + 1
  /\ \/ /\ edVersion' = edNewest + 1 /\ edNewest' = edNewest + 1
        /\ edAliased' = FALSE
     \/ /\ edVersion' \in 0..edNewest /\ UNCHANGED edNewest
        /\ edAliased' = TRUE
  /\ edMissed' = {t \in Tabs \ {by} : InWindow(t)}

\* openFile and reloadTab: ReadFile stats first.  A Stat that fails is a file without
\* version, unless the connection is lost.
EDStat(t) ==
  /\ edPc[t] \in {"closed", "ready"}
  /\ Goes(t, "reading")
  /\ \E v \in {NoVersion} \cup (IF edText # NoText THEN {edVersion} ELSE {}) :
       edFound' = [edFound EXCEPT ![t] = v]
  /\ UNCHANGED <<edFile, edSeen, edBase, edConflict, edForced, edMissed>>

\* Then it downloads.  A transfer that ended early, a file too large and one that is gone
\* leave the tab as it was.
EDRead(t) ==
  /\ edPc[t] = "reading"
  /\ \/ /\ edText # NoText
        /\ Goes(t, "ready")
        /\ edSeen' = [edSeen EXCEPT ![t] = edText]
        /\ edBase' = [edBase EXCEPT ![t] = edFound[t]]
        /\ edConflict' = [edConflict EXCEPT ![t] = FALSE]
     \/ Rests(t) /\ UNCHANGED <<edSeen, edBase, edConflict>>
  /\ edFound' = [edFound EXCEPT ![t] = NoVersion]
  /\ UNCHANGED <<edFile, edForced, edMissed>>

\* saveTab: overwrite is sent for a tab without a version, and where the user, shown the
\* conflict, chose it; a plain save of a tab in conflict is checked again.
EDSave(t) ==
  /\ edPc[t] = "ready" /\ edWrites < MaxWrites
  /\ \E force \in BOOLEAN :
       /\ edBase[t] = NoVersion => force
       /\ force => edConflict[t] \/ edBase[t] = NoVersion
       /\ Goes(t, IF force THEN "writing" ELSE "checking")
       /\ edForced' = [edForced EXCEPT ![t] = force]
  /\ UNCHANGED <<edFile, edSeen, edBase, edFound, edConflict, edMissed>>

\* Mutant: a file that is there may be replaced.
MatchesIfThere(t) == edText # NoText

\* The version the tab was opened from is still that of the file.
Matches(t) == edText # NoText /\ edVersion = edBase[t]

\* WriteFile checks; a Stat that fails says the file is gone.
EDCheck(t) ==
  /\ edPc[t] = "checking"
  /\ \/ Matches(t) /\ Goes(t, "writing") /\ UNCHANGED edConflict
     \/ Goes(t, "ready") /\ edConflict' = [edConflict EXCEPT ![t] = TRUE]
     \/ Goes(t, "ready") /\ UNCHANGED edConflict   \* the connection is lost
  /\ UNCHANGED <<edFile, edSeen, edBase, edFound, edForced, edMissed>>

\* The upload is whole, leaves a part, or is refused.
EDUpload(t) ==
  /\ edPc[t] = "writing"
  /\ \/ /\ Stores(t)
        /\ Goes(t, "stating") \/ Goes(t, "ready")
        /\ edSeen' = [edSeen EXCEPT ![t] = edText']
     \/ Goes(t, "ready") /\ UNCHANGED <<edFile, edSeen, edMissed>>
  /\ edForced' = [edForced EXCEPT ![t] = FALSE]
  /\ UNCHANGED <<edBase, edFound, edConflict>>

\* The tab takes what is there now for its own.
EDRestat(t) ==
  /\ edPc[t] = "stating"
  /\ Goes(t, "ready")
  /\ \/ /\ \E v \in {NoVersion} \cup (IF edText # NoText THEN {edVersion} ELSE {}) :
             edBase' = [edBase EXCEPT ![t] = v]
        /\ edConflict' = [edConflict EXCEPT ![t] = FALSE]
     \/ UNCHANGED <<edBase, edConflict>>            \* the connection is lost
  /\ UNCHANGED <<edFile, edSeen, edFound, edForced, edMissed>>

\* External: another program stores the file, or deletes it.
EDForeign ==
  /\ Stores(NoText)
  /\ UNCHANGED edTab

EDGone ==
  /\ edText # NoText
  /\ edText' = NoText
  /\ UNCHANGED <<edVersion, edNewest, edWrites, edAliased, edTab, edMissed>>

EDNext ==
  \/ \E t \in Tabs : EDStat(t) \/ EDRead(t) \/ EDSave(t) \/ EDCheck(t) \/ EDUpload(t) \/ EDRestat(t)
  \/ EDForeign \/ EDGone

EDSpec == EDInit /\ [][EDNext]_edvars

-----------------------------------------------------------------------------
(* Properties.                                                             *)

EDTypeOK ==
  /\ edText \in Nat \cup {NoText} /\ edNewest \in Nat /\ edVersion \in 0..edNewest
  /\ edWrites \in 0..MaxWrites
  /\ edPc \in [Tabs -> {"closed", "reading", "ready", "checking", "writing", "stating"}]
  /\ edBase \in [Tabs -> Nat \cup {NoVersion}] /\ edFound \in [Tabs -> Nat \cup {NoVersion}]
  /\ edSeen \in [Tabs -> Nat \cup {NoText}]
  /\ edConflict \in [Tabs -> BOOLEAN] /\ edForced \in [Tabs -> BOOLEAN]
  /\ edMissed \subseteq Tabs /\ edAliased \in BOOLEAN
  /\ \A t \in Tabs : edSeen[t] = NoText => edPc[t] \in {"closed", "reading"}

\* A conditional save destroys a text the tab never saw in two cases only: the text came
\* between two calls of one of this tab's saves, or it has the size and second of a text
\* before it, be it the last or an older one.  That ReadFile stats before it downloads and
\* that WriteFile compares make the rest safe.
EDLossOnlyInWindow ==
  [][\A t \in Tabs :
       /\ edPc[t] = "writing" /\ edWrites' > edWrites /\ edPc'[t] # "writing"
       /\ ~edForced[t] /\ edText \notin {NoText, edSeen[t]}
       => t \in edMissed \/ edAliased]_edvars

\* What is in the file is no surprise to tab t, or one of the excepted ones.
Excused(t) == edText \in {NoText, edSeen[t]} \/ t \in edMissed \/ edAliased

\* Nobody holds a version that the file has yet to get.
Past(versions) == \A t \in Tabs : versions[t] # NoVersion => versions[t] <= edNewest

\* A version that is still the file's, a check that was passed and an upload that is done
\* each leave only texts that are excused.
Guarded ==
  \A t \in Tabs :
    \/ edBase[t] = edVersion
    \/ edPc[t] = "writing" /\ ~edForced[t]
    \/ edPc[t] = "stating"
    => Excused(t)

\* The inductive invariant.
EDIInv == EDTypeOK /\ Past(edBase) /\ Past(edFound) /\ Guarded
=============================================================================
