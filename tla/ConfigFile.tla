------------------------------ MODULE ConfigFile ------------------------------
(***************************************************************************)
(* CConfigFile (configFile.cpp): the published configuration file of a     *)
(* module and its three copies in memory - the base that is saved, the     *)
(* runtime configuration with the device's own overrides on top, and the   *)
(* overrides.  The application thread reads, polls and reloads; the        *)
(* receive thread applies the updates of the user interface.  Neither      *)
(* takes a lock.  What a statement does to one of the copies is one step:  *)
(* that parts of one copy are read while the other thread changes them is  *)
(* not modelled.                                                           *)
(*                                                                         *)
(* A document gives each key the number of the edit that set it last.      *)
(***************************************************************************)
EXTENDS Naturals

CONSTANTS Keys,         \* keys of the configuration
          Overridable,  \* those a device may override
          Local         \* the value an override gives to a key

ASSUME ConfigAssumption == Keys # {} /\ Overridable \subseteq Keys /\ Local \notin Nat

VARIABLES file,       \* the published file: [whole, doc]; it parses when it is
                      \* whole, and doc is what is left in it otherwise
          mtime,      \* how often it was written
          backup,     \* the newest backup of it
          process,    \* "off", "up", or "failed": ended by exit(1)
          main, rx,   \* the next statement of the two threads
          contents,   \* what ReadFile read, until ParseData has parsed it
          config, base, overrides,  \* m_ConfigJSON, m_BaseJSON, m_LocalOverrides
          lastTime, pending,        \* m_lastWriteTime, m_updatePending
          edit        \* the update the receive thread is in the course of applying

memory == <<config, base, overrides>>
configVars == <<file, mtime, backup, process, main, rx, contents, memory, lastTime, pending, edit>>

Published == [Keys -> Nat]
Runtime == [Keys -> Nat \union {Local}]
File(Doc) == [whole : BOOLEAN, doc : Doc]
MainSteps == {"boot", "localFile", "localCreate", "override", "idle",
              "reload", "parse", "base", "layer", "reloadTime", "localWrite"}
RxSteps == {"idle", "runtime", "base", "backup", "truncate", "write", "time"}

ConfigTypeOK ==
    /\ file \in File(Runtime)
    /\ mtime \in Nat
    /\ backup \in File(Runtime)
    /\ process \in {"off", "up", "failed"}
    /\ main \in MainSteps
    /\ rx \in RxSteps
    /\ contents \in File(Runtime)
    /\ config \in Runtime
    /\ base \in Published
    /\ overrides \in SUBSET Overridable
    /\ lastTime \in Nat
    /\ pending \in BOOLEAN
    /\ edit \in [key : Keys, number : Nat]

Fresh == [k \in Keys |-> 0]
Nothing == [whole |-> FALSE, doc |-> Fresh]
NoEdit == [key |-> CHOOSE k \in Keys : TRUE, number |-> 0]

\* The process ends, and its memory goes with it.
Ends(how) ==
    /\ process' = how
    /\ main' = "boot" /\ rx' = "idle"
    /\ contents' = Nothing
    /\ config' = Fresh /\ base' = Fresh /\ overrides' = {}
    /\ lastTime' = 0 /\ pending' = FALSE
    /\ edit' = NoEdit
    /\ UNCHANGED <<file, mtime, backup>>

\* A module is about to be started on a published file that is complete.
ConfigInit ==
    /\ file = [whole |-> TRUE, doc |-> Fresh]
    /\ mtime = 0
    /\ backup = Nothing
    /\ process = "off"
    /\ main = "boot"
    /\ rx = "idle"
    /\ contents = Nothing
    /\ config = Fresh
    /\ base = Fresh
    /\ overrides = {}
    /\ lastTime = 0
    /\ pending = FALSE
    /\ edit = NoEdit

---------------------------------------------------------------------------
(* The application thread. *)

\* deepMerge: the overrides on top of a document.
Layer(doc, keys) == [k \in Keys |-> IF k \in keys THEN Local ELSE doc[k]]

\* initConfigFile in a new process: exit(1) when the file does not parse.
InitRead ==
    /\ process # "up"
    /\ IF file.whole
       THEN /\ process' = "up"
            /\ base' = file.doc /\ config' = file.doc
            /\ UNCHANGED <<file, mtime, backup, main, rx, contents, overrides, lastTime, pending, edit>>
       ELSE Ends("failed")

\* ReadFile: exit(1) when the file cannot be opened.
InitOpenFails == process # "up" /\ Ends("failed")

\* The time of the last write is asked for after the file was read.
InitTime ==
    /\ process = "up" /\ main = "boot"
    /\ lastTime' = mtime
    /\ main' = "localFile"
    /\ UNCHANGED <<file, mtime, backup, process, rx, contents, memory, pending, edit>>

\* applyLocalOverrides: an empty object is stored, and nothing is reset.
ApplyOverrides(keys) ==
    /\ overrides' = keys
    /\ config' = IF keys = {} THEN config ELSE Layer(base, keys)

\* Mutant: only updateJSON is noticed, not an edit of the file.
PollPendingOnly ==
    /\ process = "up" /\ main = "idle"
    /\ pending
    /\ pending' = FALSE
    /\ main' = "reload"
    /\ UNCHANGED <<file, mtime, backup, process, rx, contents, memory, lastTime, edit>>

\* fileUpdated returns true and the application calls reloadFile.
Poll ==
    /\ process = "up" /\ main = "idle"
    /\ pending \/ lastTime # mtime
    /\ pending' = FALSE
    /\ lastTime' = IF pending THEN lastTime ELSE mtime
    /\ main' = "reload"
    /\ UNCHANGED <<file, mtime, backup, process, rx, contents, memory, edit>>

ReloadRead ==
    /\ process = "up" /\ main = "reload"
    /\ pending' = FALSE
    /\ contents' = file
    /\ main' = "parse"
    /\ UNCHANGED <<file, mtime, backup, process, rx, memory, lastTime, edit>>

\* The same in a module that was running well.
ReloadOpenFails == process = "up" /\ main = "reload" /\ Ends("failed")

\* ParseData: exit(1) when what was read does not parse.
ReloadParse ==
    /\ process = "up" /\ main = "parse"
    /\ IF contents.whole
       THEN /\ config' = contents.doc
            /\ contents' = Nothing
            /\ main' = "base"
            /\ UNCHANGED <<file, mtime, backup, process, rx, base, overrides, lastTime, pending, edit>>
       ELSE Ends("failed")

ReloadBase ==
    /\ process = "up" /\ main = "base"
    /\ base' = config
    /\ main' = "layer"
    /\ UNCHANGED <<file, mtime, backup, process, rx, contents, config, overrides, lastTime, pending, edit>>

\* Mutant: the overrides are not applied again after a reload.
ReloadLayerForgets ==
    /\ process = "up" /\ main = "layer"
    /\ main' = "reloadTime"
    /\ UNCHANGED <<file, mtime, backup, process, rx, contents, memory, lastTime, pending, edit>>

ReloadLayer ==
    /\ process = "up" /\ main = "layer"
    /\ ApplyOverrides(overrides)
    /\ main' = "reloadTime"
    /\ UNCHANGED <<file, mtime, backup, process, rx, contents, base, lastTime, pending, edit>>

ReloadTime ==
    /\ process = "up" /\ main = "reloadTime"
    /\ lastTime' = mtime
    /\ main' = "idle"
    /\ UNCHANGED <<file, mtime, backup, process, rx, contents, memory, pending, edit>>

---------------------------------------------------------------------------
(* The receive thread: CONFIG_ACTION_APPLY_CONFIG ends in updateJSON. *)

Booted == process = "up" /\ main \notin {"boot", "localFile", "localCreate", "override"}
Receiving(step) == process = "up" /\ rx = step

\* The flag is raised before the update is parsed, applied or saved.
Receive(k, n) ==
    /\ Booted /\ rx = "idle"
    /\ pending' = TRUE
    /\ edit' = [key |-> k, number |-> n]
    /\ rx' = "runtime"
    /\ UNCHANGED <<file, mtime, backup, process, main, contents, memory, lastTime>>

\* An update that does not parse: the exception is swallowed.
ReceiveInvalid ==
    /\ Booted /\ rx = "idle"
    /\ pending' = TRUE
    /\ UNCHANGED <<file, mtime, backup, process, main, rx, contents, memory, lastTime, edit>>

UpdateRuntime ==
    /\ Receiving("runtime")
    /\ config' = [config EXCEPT ![edit.key] = edit.number]
    /\ rx' = "base"
    /\ UNCHANGED <<file, mtime, backup, process, main, contents, base, overrides, lastTime, pending, edit>>

\* Mutant: the base is replaced by the runtime configuration.
UpdateBaseLeaks ==
    /\ Receiving("base")
    /\ base' = config
    /\ rx' = "backup"
    /\ UNCHANGED <<file, mtime, backup, process, main, contents, config, overrides, lastTime, pending, edit>>

\* Mutant: only the runtime configuration is updated.
UpdateBaseSkipped ==
    /\ Receiving("base")
    /\ rx' = "backup"
    /\ UNCHANGED <<file, mtime, backup, process, main, contents, memory, lastTime, pending, edit>>

UpdateBase ==
    /\ Receiving("base")
    /\ base' = [base EXCEPT ![edit.key] = edit.number]
    /\ rx' = "backup"
    /\ UNCHANGED <<file, mtime, backup, process, main, contents, config, overrides, lastTime, pending, edit>>

\* Mutant: the file is opened for writing before it is copied.
SaveBackupLate ==
    /\ Receiving("backup")
    /\ backup' = [whole |-> FALSE, doc |-> base]
    /\ rx' = "truncate"
    /\ UNCHANGED <<file, mtime, process, main, contents, memory, lastTime, pending, edit>>

\* saveConfigFile: a copy of the file first.
SaveBackup ==
    /\ Receiving("backup")
    /\ backup' = file
    /\ rx' = "truncate"
    /\ UNCHANGED <<file, mtime, process, main, contents, memory, lastTime, pending, edit>>

\* The stream is opened: the published file is empty from here on.
SaveTruncate ==
    /\ Receiving("truncate")
    /\ file' = Nothing
    /\ mtime' = mtime + 1
    /\ rx' = "write"
    /\ UNCHANGED <<backup, process, main, contents, memory, lastTime, pending, edit>>

\* Mutant: the runtime configuration is saved, not the base.
SaveWriteRuntime ==
    /\ Receiving("write")
    /\ file' = [whole |-> TRUE, doc |-> config]
    /\ mtime' = mtime + 1
    /\ rx' = "time"
    /\ UNCHANGED <<backup, process, main, contents, memory, lastTime, pending, edit>>

\* Mutant: the stream is not flushed.
SaveWriteUnflushed ==
    /\ Receiving("write")
    /\ mtime' = mtime + 1
    /\ rx' = "time"
    /\ UNCHANGED <<file, backup, process, main, contents, memory, lastTime, pending, edit>>

SaveWrite ==
    /\ Receiving("write")
    /\ file' = [whole |-> TRUE, doc |-> base]
    /\ mtime' = mtime + 1
    /\ rx' = "time"
    /\ UNCHANGED <<backup, process, main, contents, memory, lastTime, pending, edit>>

SaveTime ==
    /\ Receiving("time")
    /\ lastTime' = mtime
    /\ rx' = "idle" /\ edit' = NoEdit
    /\ UNCHANGED <<file, mtime, backup, process, main, contents, memory, pending>>

\* The copy fails: the save goes on without a backup.
SaveCopyFails ==
    /\ Receiving("backup")
    /\ rx' = "truncate"
    /\ UNCHANGED <<file, mtime, backup, process, main, contents, memory, lastTime, pending, edit>>

\* The stream cannot be opened: the update stays in memory only.
SaveOpenFails ==
    /\ Receiving("truncate")
    /\ rx' = "idle" /\ edit' = NoEdit
    /\ UNCHANGED <<file, mtime, backup, process, main, contents, memory, lastTime, pending>>

\* The write is not checked: none of the text is in the file, or a part that
\* does not parse, and the save goes on.
SaveWriteFails ==
    /\ Receiving("write")
    /\ rx' = "time"
    /\ UNCHANGED <<file, mtime, backup, process, main, contents, memory, lastTime, pending, edit>>

---------------------------------------------------------------------------
(* Around the process. *)

\* A person edits the published file, but not in the moment between its
\* truncation and the writing of the text.  A text that does not parse, or was
\* lost, may be put back from the backup.
EditFile(k, n) ==
    /\ ~Receiving("write")
    /\ \E old \in {file} \union {b \in {backup} : b.whole /\ ~file.whole} :
          file' = [whole |-> TRUE, doc |-> [old.doc EXCEPT ![k] = n]]
    /\ mtime' = mtime + 1
    /\ UNCHANGED <<backup, process, main, rx, contents, memory, lastTime, pending, edit>>

\* A slip: the text the person leaves does not parse.
MangleFile ==
    /\ file.whole
    /\ file' = [file EXCEPT !.whole = FALSE]
    /\ mtime' = mtime + 1
    /\ UNCHANGED <<backup, process, main, rx, contents, memory, lastTime, pending, edit>>

\* The process dies: a crash, or CONFIG_ACTION_Restart.
Die == process = "up" /\ Ends("off")
=============================================================================
