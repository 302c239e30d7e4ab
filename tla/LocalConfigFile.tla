---------------------------- MODULE LocalConfigFile ----------------------------
(***************************************************************************)
(* CLocalConfigFile (localConfigFile.cpp): the *.local file with the       *)
(* settings of one device.  Its object is the set of keys it has a value   *)
(* for; ConfigFile layers them over the published configuration.           *)
(***************************************************************************)
EXTENDS ConfigFile

VARIABLES localFile,  \* [exists, whole, keys]
          local,      \* m_ConfigJSON of CLocalConfigFile
          streamed    \* m_fileContents holds what an earlier call read

localVars == <<localFile, local, streamed>>

LocalFiles == [exists : BOOLEAN, whole : BOOLEAN, keys : SUBSET Overridable]
LocalText(whole, keys) == [exists |-> TRUE, whole |-> whole, keys |-> keys]

LocalTypeOK ==
    /\ localFile \in LocalFiles
    /\ local \in SUBSET Overridable
    /\ streamed \in BOOLEAN

LocalInit ==
    /\ localFile \in {[exists |-> FALSE, whole |-> FALSE, keys |-> {}]}
                        \union {LocalText(TRUE, keys) : keys \in SUBSET Overridable}
    /\ local = {}
    /\ streamed = FALSE

At(step) == process = "up" /\ main = step
Goto(step) ==
    /\ main' = step
    /\ UNCHANGED <<file, mtime, backup, process, rx, contents, memory, lastTime, pending, edit>>

\* The singleton goes with the process.
LocalEnds == local' = {} /\ streamed' = FALSE /\ UNCHANGED localFile

\* InitConfigFile.  The stream is filled, not replaced: with an earlier text
\* in front of it nothing parses, as nothing does of a torn file; exit(1).
LocalRead ==
    /\ process = "up" /\ main \in {"localFile", "idle"}
    /\ localFile.exists
    /\ IF localFile.whole /\ ~streamed
       THEN /\ local' = localFile.keys /\ streamed' = TRUE
            /\ Goto("override")
            /\ UNCHANGED localFile
       ELSE Ends("failed") /\ LocalEnds

\* No file yet: WriteFile creates one, which is empty until the text is in it.
LocalCreate ==
    /\ At("localFile")
    /\ ~localFile.exists
    /\ localFile' = LocalText(FALSE, {})
    /\ streamed' = TRUE
    /\ local' = {}
    /\ Goto("localCreate")

LocalCreated ==
    /\ At("localCreate")
    /\ localFile' = LocalText(TRUE, {})
    /\ Goto("override")
    /\ UNCHANGED <<local, streamed>>

\* WriteFile cannot open the file: exit(1), when it should be created as when
\* apply or clearFile writes it.
LocalOpenFails ==
    /\ process = "up" /\ main \in {"localFile", "idle"}
    /\ main = "localFile" => ~localFile.exists
    /\ Ends("failed") /\ LocalEnds

\* addStringField, ModifyNumericField and their like; removeFieldByName.
LocalAdd(k) == At("idle") /\ local' = local \union {k} /\ UNCHANGED <<localFile, streamed, configVars>>
LocalRemove(k) == At("idle") /\ local' = local \ {k} /\ UNCHANGED <<localFile, streamed, configVars>>

\* apply and clearFile: WriteFile truncates the file, then writes the object.
LocalTruncate(keys) ==
    /\ At("idle")
    /\ localFile.exists
    /\ local' = keys
    /\ localFile' = LocalText(FALSE, localFile.keys)
    /\ Goto("localWrite")
    /\ UNCHANGED streamed

LocalWrite ==
    /\ At("localWrite")
    /\ localFile' = LocalText(TRUE, local)
    /\ Goto("idle")
    /\ UNCHANGED <<local, streamed>>

\* The text does not get into the file: the write is not checked.
LocalWriteFails ==
    /\ At("localCreate") \/ At("localWrite")
    /\ Goto(IF main = "localCreate" THEN "override" ELSE "idle")
    /\ UNCHANGED localVars

\* A person edits the file, or makes a slip, but not while it is written.
EditLocalFile ==
    /\ localFile.exists
    /\ ~(At("localCreate") \/ At("localWrite"))
    /\ localFile' \in {LocalText(FALSE, localFile.keys)} \union {LocalText(TRUE, keys) : keys \in SUBSET Overridable}
    /\ UNCHANGED <<configVars, local, streamed>>
=============================================================================
