--------------------------- MODULE ConfigStoreProofs ---------------------------
(***************************************************************************)
(* Proofs about ConfigStore, for any keys and any number of events.        *)
(***************************************************************************)
EXTENDS ConfigStore, TLAPS

USE ConfigAssumption, StoreAssumption

AtLeast(doc, versions) == \A k \in Keys : doc[k] >= versions[k]

\* Documents on disk and in the reader have no override in them.
DocsPublished ==
    /\ file.doc \in Published /\ backup.doc \in Published /\ contents.doc \in Published
    /\ main = "base" => config \in Published

\* The clocks: nothing is newer than the last event, no time than the file's.
Clocks ==
    /\ lastTime <= mtime
    /\ edit.number <= events
    /\ \A k \in Keys :
          /\ latest[k] <= events /\ base[k] <= events
          /\ file.doc[k] <= events /\ backup.doc[k] <= events /\ contents.doc[k] <= events
          /\ main = "base" => config[k] <= events

\* The memory of a process that ended.
Dead ==
    process # "up" =>
        /\ main = "boot" /\ rx = "idle"
        /\ overrides = {} /\ ~pending /\ local = {} /\ ~streamed

\* An update and a reload at the same time are an overlap; without one the
\* flag of an update stays up while it runs.
Alone ==
    process = "up" /\ rx # "idle" => overlap \/ (main = "idle" /\ pending)

Reasons == torn \/ mangled \/ unopened \/ overlap \/ again

\* When the two files do not parse, and what may be read of them then.
Tears ==
    /\ process = "up" /\ rx = "write" => ~file.whole
    /\ ~file.whole => Reasons \/ (process = "up" /\ rx = "write")
    /\ process = "up" /\ main = "parse" /\ ~contents.whole => Reasons
    /\ localFile.exists /\ ~localFile.whole =>
          Reasons \/ (process = "up" /\ main \in {"localCreate", "localWrite"})
    /\ process = "up" /\ main \in {"boot", "localFile"} => ~streamed

\* The base was read, and nothing was written since without the application
\* being told of it.
Read ==
    /\ process = "up" /\ ~hidden
    /\ \/ main \in {"boot", "layer", "reloadTime"}
       \/ main \notin {"boot", "layer", "reloadTime", "reload", "parse", "base"} /\ lastTime = mtime

Honest == ~overlap /\ ~overwrote

\* What a save writes has every edit that reached the file.
BaseHasEdits ==
    Honest =>
        /\ file.whole => AtLeast(file.doc, latest)
        /\ Read => AtLeast(base, latest)
        /\ Read /\ rx \in {"runtime", "base"} => edit.number >= latest[edit.key]
        /\ process = "up" /\ rx \in {"backup", "truncate", "write"} => base[edit.key] = edit.number
        /\ process = "up" /\ rx = "write" => AtLeast(base, latest)
        /\ process = "up" /\ rx = "time" /\ ~hidden => AtLeast(base, latest)
        /\ process = "up" /\ main = "parse" /\ ~hidden /\ contents.whole => AtLeast(contents.doc, latest)
        /\ process = "up" /\ main = "base" /\ ~hidden => AtLeast(config, latest)
        /\ (~file.whole \/ (process = "up" /\ rx = "truncate")) /\ ~mangled /\ ~unsaved =>
              backup.whole /\ AtLeast(backup.doc, latest)

\* The copies in memory follow the file.
Follows ==
    process = "up" /\ ~overlap =>
        /\ main = "parse" /\ ~hidden => contents = file
        /\ main = "base" /\ ~hidden => file.whole /\ config = file.doc
        /\ main = "layer" => config = base
        /\ Read /\ ~pending => file.whole /\ base = file.doc
        /\ ~pending /\ ~kept /\ main \notin {"reload", "parse", "base", "layer"} =>
              config = Layer(base, overrides)

---------------------------------------------------------------------------
(* The steps of Next, one name each. *)

Quiet == UNCHANGED <<latest, hidden, overwrote, kept, unsaved, reasons>>
LocalQuiet == UNCHANGED <<latest, hidden, overwrote, kept, unsaved, torn, mangled, unopened>>

StepStart == Start /\ file.whole

StepInitTime ==
    /\ InitTime
    /\ StepOnly
    /\ Quiet

StepPoll ==
    /\ Poll
    /\ StepOnly
    /\ Quiet

StepReloadRead ==
    /\ ReloadRead
    /\ hidden' = FALSE
    /\ StepOnly
    /\ UNCHANGED <<latest, overwrote, kept, unsaved, reasons>>

StepReloadParse ==
    /\ ReloadParse /\ contents.whole
    /\ UNCHANGED localVars
    /\ kept' = FALSE
    /\ UNCHANGED events /\ Overlaps
    /\ UNCHANGED <<latest, hidden, overwrote, unsaved, reasons>>

StepReloadBase ==
    /\ ReloadBase
    /\ StepOnly
    /\ Quiet

StepReloadLayer ==
    /\ ReloadLayer
    /\ StepOnly
    /\ Quiet

StepReloadTime ==
    /\ ReloadTime
    /\ StepOnly
    /\ Quiet

StepLocalRead ==
    /\ LocalRead /\ localFile.whole /\ ~streamed
    /\ again' = (again \/ main = "idle")
    /\ UNCHANGED events
    /\ Overlaps /\ LocalQuiet

StepLocalChange ==
    /\ \E k \in Overridable : LocalAdd(k) \/ LocalRemove(k)
    /\ Event /\ UNCHANGED again
    /\ Overlaps /\ LocalQuiet

StepLocalTruncate ==
    /\ \E keys \in {local, {}} : LocalTruncate(keys)
    /\ Event /\ UNCHANGED again
    /\ Overlaps /\ LocalQuiet

StepLocalCreate ==
    /\ LocalCreate
    /\ UNCHANGED <<again, events>>
    /\ Overlaps /\ LocalQuiet

StepLocalCreated ==
    /\ LocalCreated
    /\ UNCHANGED <<again, events>>
    /\ Overlaps /\ LocalQuiet

StepLocalWrite ==
    /\ LocalWrite
    /\ UNCHANGED <<again, events>>
    /\ Overlaps /\ LocalQuiet

StepLocalWriteFails ==
    /\ LocalWriteFails
    /\ Event
    /\ torn' = TRUE
    /\ UNCHANGED <<latest, overlap, hidden, overwrote, kept, unsaved, mangled, unopened, again>>

StepReceive ==
    /\ \E k \in Keys : Receive(k, Number)
    /\ Event
    /\ Overlaps
    /\ UNCHANGED localVars /\ Quiet

StepReceiveInvalid ==
    /\ ReceiveInvalid
    /\ Event
    /\ Overlaps
    /\ UNCHANGED localVars /\ Quiet

StepRuntime ==
    /\ UpdateRuntime
    /\ StepOnly
    /\ Quiet

StepBase ==
    /\ UpdateBase
    /\ StepOnly
    /\ Quiet

StepBackup ==
    /\ SaveBackup
    /\ unsaved' = (unsaved \/ ~file.whole)
    /\ StepOnly
    /\ UNCHANGED <<latest, hidden, overwrote, kept, reasons>>

StepTruncate ==
    /\ SaveTruncate
    /\ overwrote' = (overwrote \/ mtime # lastTime \/ hidden)
    /\ StepOnly
    /\ UNCHANGED <<latest, hidden, kept, unsaved, reasons>>

StepWrite ==
    /\ SaveWrite
    /\ latest' = [latest EXCEPT ![edit.key] = edit.number]
    /\ StepOnly
    /\ UNCHANGED <<hidden, overwrote, kept, unsaved, reasons>>

StepWriteFails ==
    /\ SaveWriteFails /\ UNCHANGED localVars
    /\ Event
    /\ torn' = TRUE
    /\ UNCHANGED <<latest, overlap, hidden, overwrote, kept, unsaved, mangled, unopened, again>>

StepSaveTime ==
    /\ SaveTime
    /\ StepOnly
    /\ Quiet

StepEdit ==
    /\ Event
    /\ \E k \in Keys : EditFile(k, Number)
    /\ latest' = file'.doc
    /\ EditMeetsSave
    /\ UNCHANGED mangled
    /\ UNCHANGED <<localVars, overlap, kept, unsaved, torn, unopened, again>>

StepMangle ==
    /\ Event
    /\ MangleFile
    /\ latest' = file'.doc
    /\ EditMeetsSave
    /\ mangled' = TRUE
    /\ UNCHANGED <<localVars, overlap, kept, unsaved, torn, unopened, again>>

\* The process calls exit: at its start, in a reload, or with the device's own
\* file.
StepExit ==
    /\ Ends("failed") /\ LocalEnds
    /\ \/ process # "up" /\ ~file.whole
       \/ process = "up" /\ main = "parse" /\ ~contents.whole
       \/ process = "up" /\ main = "localFile" /\ localFile.exists /\ ~(localFile.whole /\ ~streamed)
       \/ again'
       \/ unopened'
    /\ events' \in {events, events + 1}
    /\ overlap' = overlap /\ (again => again') /\ (unopened => unopened')
    /\ \A h \in {hidden', kept', again', unopened'} : h \in BOOLEAN
    /\ UNCHANGED <<latest, overwrote, unsaved, torn, mangled>>

IInv ==
    /\ TypeOK /\ DocsPublished /\ Clocks /\ Dead /\ Alone /\ Tears /\ FailsForAReason
    /\ BaseHasEdits /\ Follows

LEMMA Blanks ==
    /\ Fresh \in Published /\ Fresh \in Runtime
    /\ \A k \in Keys : Fresh[k] = 0
    /\ Nothing \in File(Runtime) /\ Nothing.doc = Fresh /\ ~Nothing.whole
    /\ NoEdit \in [key : Keys, number : Nat] /\ NoEdit.number = 0
<1>1. Fresh \in Published /\ Fresh \in Runtime
  BY DEF Fresh, Published, Runtime
<1>2. (CHOOSE k \in Keys : TRUE) \in Keys
  OBVIOUS
<1>3. \A k \in Keys : Fresh[k] = 0
  BY DEF Fresh
<1> QED BY <1>1, <1>2, <1>3 DEF Nothing, NoEdit, File

LEMMA Steps ==
    ASSUME IInv, [Next]_vars
    PROVE  \/ StepStart \/ Override \/ StepInitTime \/ StepPoll \/ StepReloadRead \/ StepReloadParse
           \/ StepReloadBase \/ StepReloadLayer \/ StepReloadTime \/ StepLocalRead \/ StepLocalChange \/ StepLocalTruncate
           \/ StepLocalCreate \/ StepLocalCreated \/ StepLocalWrite \/ StepLocalWriteFails \/ StepReceive \/ StepReceiveInvalid
           \/ StepRuntime \/ StepBase \/ StepBackup \/ StepTruncate \/ StepWrite \/ StepWriteFails
           \/ StepSaveTime \/ SaveFails \/ StepEdit \/ StepMangle \/ EditLocal \/ StepExit
           \/ Death
           \/ UNCHANGED vars
<1> USE DEF IInv, TypeOK
<1>1. CASE Start
  <2>1. ASSUME ~file.whole PROVE Ends("failed") /\ process # "up" /\ events' = events
    BY <1>1, <2>1 DEF Start, InitRead
  <2>2. LocalEnds \/ process = "up"
    BY <1>1 DEF Start, LocalEnds, localVars, Dead
  <2>3. ASSUME ~file.whole PROVE StepExit
    BY <1>1, <2>1, <2>2, <2>3 DEF Start, StepExit, reasons
  <2> QED BY <1>1, <2>3 DEF StepStart
<1>2. CASE AppReads
  <2>1. CASE ReloadParse /\ contents.whole
    BY <1>2, <2>1 DEF AppReads, StepReloadParse, ReloadParse, ReloadRead, InitTime, Poll, ReloadBase, ReloadLayer, ReloadTime
  <2>2. ASSUME ReloadParse, ~contents.whole, LocalEnds, kept' = FALSE, UNCHANGED events, Overlaps,
               UNCHANGED <<latest, hidden, overwrote, unsaved, reasons>>
        PROVE  StepExit
    BY <2>2 DEF ReloadParse, Ends, LocalEnds, StepExit, Overlaps, reasons
  <2> QED
    BY <1>2, <2>1, <2>2 DEF AppReads, StepReloadParse, StepReloadRead, StepInitTime, StepPoll,
       StepReloadBase, StepReloadLayer, StepReloadTime, Quiet
<1>3. CASE AppLocal
  <2>1. ASSUME LocalRead, ~(localFile.whole /\ ~streamed), again' = (again \/ main = "idle"), UNCHANGED events,
               Overlaps, LocalQuiet
        PROVE  StepExit
    BY <2>1 DEF LocalRead, Ends, LocalEnds, StepExit, Overlaps, LocalQuiet
  <2> QED
    BY <1>3, <2>1 DEF AppLocal, StepLocalRead, StepLocalChange, StepLocalTruncate, StepLocalCreate,
       StepLocalCreated, StepLocalWrite, LocalQuiet
<1>4. CASE Update
  BY <1>4 DEF Update, StepReceive, StepReceiveInvalid, Quiet, localVars
<1>5. CASE Save
  BY <1>5 DEF Save, StepRuntime, StepBase, StepBackup, StepSaveTime, StepTruncate, StepWrite, Quiet
<1>6. CASE WriteFails
  BY <1>6 DEF WriteFails, StepWriteFails, StepLocalWriteFails
<1>7. CASE OpenFails
  BY <1>7 DEF OpenFails, InitOpenFails, ReloadOpenFails, LocalOpenFails, StepExit, Event
<1>8. CASE Edit
  BY <1>8 DEF Edit, StepEdit, StepMangle
<1> QED BY <1>1, <1>2, <1>3, <1>4, <1>5, <1>6, <1>7, <1>8 DEF Next

LEMMA InitInvariant == Init => IInv
<1> SUFFICES ASSUME Init PROVE IInv
  OBVIOUS
<1> USE DEF Init, ConfigInit, LocalInit
<1>1. ConfigTypeOK
  <2>1. file \in File(Runtime) /\ backup \in File(Runtime) /\ contents \in File(Runtime)
    BY Blanks DEF File
  <2>2. config \in Runtime /\ base \in Published /\ overrides \in SUBSET Overridable
    BY Blanks
  <2>3. main \in MainSteps /\ rx \in RxSteps /\ process \in {"off", "up", "failed"}
    BY DEF MainSteps, RxSteps
  <2>4. mtime \in Nat /\ lastTime \in Nat /\ pending \in BOOLEAN
    OBVIOUS
  <2>5. edit \in [key : Keys, number : Nat]
    BY Blanks
  <2> QED BY <2>1, <2>2, <2>3, <2>4, <2>5 DEF ConfigTypeOK
<1>2. LocalTypeOK
  <2>1. CASE localFile = [exists |-> FALSE, whole |-> FALSE, keys |-> {}]
    BY <2>1 DEF LocalTypeOK, LocalFiles
  <2>2. ASSUME NEW keys \in SUBSET Overridable, localFile = LocalText(TRUE, keys)
        PROVE  LocalTypeOK
    BY <2>2 DEF LocalTypeOK, LocalFiles, LocalText
  <2> QED BY <2>1, <2>2
<1>3. TypeOK
  BY <1>1, <1>2, Blanks DEF TypeOK
<1>4. DocsPublished /\ Clocks /\ Dead /\ Alone
  BY Blanks DEF DocsPublished, Clocks, Dead, Alone, Fresh
<1>5. Tears /\ FailsForAReason
  BY DEF Tears, FailsForAReason, LocalText
<1>6. BaseHasEdits
  BY DEF BaseHasEdits, Honest, Read, AtLeast, Fresh
<1>7. Follows
  BY DEF Follows
<1> QED BY <1>3, <1>4, <1>5, <1>6, <1>7 DEF IInv

\* An update and a reload do not run together without being recorded.
LEMMA AloneKept == ASSUME IInv, [Next]_vars PROVE Alone'
<1> USE DEF IInv, TypeOK, ConfigTypeOK, Alone, Dead, Quiet
<1>1. CASE StepStart
  BY <1>1 DEF StepStart, Start, InitRead, memory, localVars, reasons
<1>2. CASE Override
  BY <1>2 DEF Override, ApplyOverrides, Layer, memory, localVars, reasons
<1>3. CASE StepInitTime
  BY <1>3 DEF StepInitTime, InitTime, StepOnly, Overlaps, memory, localVars, reasons
<1>4. CASE StepPoll
  BY <1>4 DEF StepPoll, Poll, StepOnly, Overlaps, memory, localVars, reasons
<1>5. CASE StepReloadRead
  BY <1>5 DEF StepReloadRead, ReloadRead, StepOnly, Overlaps, memory, localVars, reasons
<1>6. CASE StepReloadParse
  BY <1>6 DEF StepReloadParse, ReloadParse, Overlaps, memory, localVars, reasons
<1>7. CASE StepReloadBase
  BY <1>7 DEF StepReloadBase, ReloadBase, StepOnly, Overlaps, memory, localVars, reasons
<1>8. CASE StepReloadLayer
  BY <1>8 DEF StepReloadLayer, ReloadLayer, ApplyOverrides, Layer, StepOnly, Overlaps, memory, localVars, reasons
<1>9. CASE StepReloadTime
  BY <1>9 DEF StepReloadTime, ReloadTime, StepOnly, Overlaps, memory, localVars, reasons
<1>10. CASE StepLocalRead
  BY <1>10 DEF StepLocalRead, LocalRead, Goto, LocalQuiet, Overlaps, memory, localVars, reasons
<1>11. CASE StepLocalChange
  BY <1>11 DEF StepLocalChange, LocalAdd, LocalRemove, LocalQuiet, configVars, At, Event, Overlaps, memory, localVars, reasons
<1>12. CASE StepLocalTruncate
  BY <1>12 DEF StepLocalTruncate, LocalTruncate, LocalText, Goto, LocalQuiet, At, Event, Overlaps, memory, localVars, reasons
<1>13. CASE StepLocalCreate
  BY <1>13 DEF StepLocalCreate, LocalCreate, LocalText, Goto, LocalQuiet, At, Overlaps, memory, localVars, reasons
<1>14. CASE StepLocalCreated
  BY <1>14 DEF StepLocalCreated, LocalCreated, LocalText, Goto, LocalQuiet, At, Overlaps, memory, localVars, reasons
<1>15. CASE StepLocalWrite
  BY <1>15 DEF StepLocalWrite, LocalWrite, LocalText, Goto, LocalQuiet, At, Overlaps, memory, localVars, reasons
<1>16. CASE StepLocalWriteFails
  BY <1>16 DEF StepLocalWriteFails, LocalWriteFails, Goto, At, Event, memory, localVars, reasons
<1>17. CASE StepReceive
  BY <1>17 DEF StepReceive, Receive, Booted, Number, Event, Overlaps, memory, localVars, reasons
<1>18. CASE StepReceiveInvalid
  BY <1>18 DEF StepReceiveInvalid, ReceiveInvalid, Booted, Event, Overlaps, memory, localVars, reasons
<1>19. CASE StepRuntime
  BY <1>19 DEF StepRuntime, UpdateRuntime, Receiving, StepOnly, Overlaps, memory, localVars, reasons
<1>20. CASE StepBase
  BY <1>20 DEF StepBase, UpdateBase, Receiving, StepOnly, Overlaps, memory, localVars, reasons
<1>21. CASE StepBackup
  BY <1>21 DEF StepBackup, SaveBackup, Receiving, StepOnly, Overlaps, memory, localVars, reasons
<1>22. CASE StepTruncate
  BY <1>22 DEF StepTruncate, SaveTruncate, Receiving, StepOnly, Overlaps, memory, localVars, reasons
<1>23. CASE StepWrite
  BY <1>23 DEF StepWrite, SaveWrite, Receiving, StepOnly, Overlaps, memory, localVars, reasons
<1>24. CASE StepWriteFails
  BY <1>24 DEF StepWriteFails, SaveWriteFails, Receiving, Event, memory, localVars, reasons
<1>25. CASE StepSaveTime
  BY <1>25 DEF StepSaveTime, SaveTime, Receiving, StepOnly, Overlaps, memory, localVars, reasons
<1>26. CASE SaveFails
  BY <1>26 DEF SaveFails, SaveCopyFails, SaveOpenFails, Receiving, Event, memory, localVars, reasons
<1>27. CASE StepEdit
  BY <1>27 DEF StepEdit, EditFile, Number, Event, Receiving, EditMeetsSave, memory, localVars, reasons
<1>28. CASE StepMangle
  BY <1>28 DEF StepMangle, MangleFile, Event, Receiving, EditMeetsSave, memory, localVars, reasons
<1>29. CASE EditLocal
  BY <1>29 DEF EditLocal, EditLocalFile, LocalText, configVars, At, Event, memory, localVars, reasons
<1>30. CASE StepExit
  BY <1>30 DEF StepExit, Ends, LocalEnds, memory, localVars, reasons
<1>31. CASE Death
  BY <1>31 DEF Death, Die, Ends, LocalEnds, Event, memory, localVars, reasons
<1>32. CASE UNCHANGED vars
  BY <1>32 DEF vars, history, configVars, memory, localVars, reasons
<1> QED
  BY Steps, <1>1, <1>2, <1>3, <1>4, <1>5, <1>6, <1>7, <1>8, <1>9, <1>10, <1>11, <1>12,
     <1>13, <1>14, <1>15, <1>16, <1>17, <1>18, <1>19, <1>20, <1>21, <1>22, <1>23, <1>24,
     <1>25, <1>26, <1>27, <1>28, <1>29, <1>30, <1>31, <1>32

\* Only the base is saved.
LEMMA DocsKept == ASSUME IInv, [Next]_vars PROVE DocsPublished'
<1> USE DEF IInv, TypeOK, ConfigTypeOK, Published, DocsPublished, Quiet
<1>1. CASE StepStart
  BY <1>1 DEF StepStart, Start, InitRead, memory, localVars, reasons
<1>2. CASE Override
  BY <1>2 DEF Override, ApplyOverrides, Layer, memory, localVars, reasons
<1>3. CASE StepInitTime
  BY <1>3 DEF StepInitTime, InitTime, StepOnly, Overlaps, memory, localVars, reasons
<1>4. CASE StepPoll
  BY <1>4 DEF StepPoll, Poll, StepOnly, Overlaps, memory, localVars, reasons
<1>5. CASE StepReloadRead
  BY <1>5 DEF StepReloadRead, ReloadRead, StepOnly, Overlaps, memory, localVars, reasons
<1>6. CASE StepReloadParse
  BY <1>6, Blanks DEF StepReloadParse, ReloadParse, Overlaps, memory, localVars, reasons
<1>7. CASE StepReloadBase
  BY <1>7 DEF StepReloadBase, ReloadBase, StepOnly, Overlaps, memory, localVars, reasons
<1>8. CASE StepReloadLayer
  BY <1>8 DEF StepReloadLayer, ReloadLayer, ApplyOverrides, Layer, StepOnly, Overlaps, memory, localVars, reasons
<1>9. CASE StepReloadTime
  BY <1>9 DEF StepReloadTime, ReloadTime, StepOnly, Overlaps, memory, localVars, reasons
<1>10. CASE StepLocalRead
  BY <1>10 DEF StepLocalRead, LocalRead, Goto, LocalQuiet, Overlaps, memory, localVars, reasons
<1>11. CASE StepLocalChange
  BY <1>11 DEF StepLocalChange, LocalAdd, LocalRemove, LocalQuiet, configVars, At, Event, Overlaps, memory, localVars, reasons
<1>12. CASE StepLocalTruncate
  BY <1>12 DEF StepLocalTruncate, LocalTruncate, LocalText, Goto, LocalQuiet, At, Event, Overlaps, memory, localVars, reasons
<1>13. CASE StepLocalCreate
  BY <1>13 DEF StepLocalCreate, LocalCreate, LocalText, Goto, LocalQuiet, At, Overlaps, memory, localVars, reasons
<1>14. CASE StepLocalCreated
  BY <1>14 DEF StepLocalCreated, LocalCreated, LocalText, Goto, LocalQuiet, At, Overlaps, memory, localVars, reasons
<1>15. CASE StepLocalWrite
  BY <1>15 DEF StepLocalWrite, LocalWrite, LocalText, Goto, LocalQuiet, At, Overlaps, memory, localVars, reasons
<1>16. CASE StepLocalWriteFails
  BY <1>16 DEF StepLocalWriteFails, LocalWriteFails, Goto, At, Event, memory, localVars, reasons
<1>17. CASE StepReceive
  BY <1>17 DEF StepReceive, Receive, Booted, Number, Event, Overlaps, memory, localVars, reasons
<1>18. CASE StepReceiveInvalid
  BY <1>18 DEF StepReceiveInvalid, ReceiveInvalid, Booted, Event, Overlaps, memory, localVars, reasons
<1>19. CASE StepRuntime
  BY <1>19 DEF StepRuntime, UpdateRuntime, Receiving, StepOnly, Overlaps, memory, localVars, reasons
<1>20. CASE StepBase
  BY <1>20 DEF StepBase, UpdateBase, Receiving, StepOnly, Overlaps, memory, localVars, reasons
<1>21. CASE StepBackup
  BY <1>21 DEF StepBackup, SaveBackup, Receiving, StepOnly, Overlaps, memory, localVars, reasons
<1>22. CASE StepTruncate
  BY <1>22, Blanks DEF StepTruncate, SaveTruncate, Receiving, StepOnly, Overlaps, memory, localVars, reasons
<1>23. CASE StepWrite
  BY <1>23 DEF StepWrite, SaveWrite, Receiving, StepOnly, Overlaps, memory, localVars, reasons
<1>24. CASE StepWriteFails
  BY <1>24 DEF StepWriteFails, SaveWriteFails, Receiving, Event, memory, localVars, reasons
<1>25. CASE StepSaveTime
  BY <1>25 DEF StepSaveTime, SaveTime, Receiving, StepOnly, Overlaps, memory, localVars, reasons
<1>26. CASE SaveFails
  BY <1>26 DEF SaveFails, SaveCopyFails, SaveOpenFails, Receiving, Event, memory, localVars, reasons
<1>27. CASE StepEdit
  BY <1>27 DEF StepEdit, EditFile, Number, Event, Receiving, EditMeetsSave, memory, localVars, reasons
<1>28. CASE StepMangle
  BY <1>28 DEF StepMangle, MangleFile, Event, Receiving, EditMeetsSave, memory, localVars, reasons
<1>29. CASE EditLocal
  BY <1>29 DEF EditLocal, EditLocalFile, LocalText, configVars, At, Event, memory, localVars, reasons
<1>30. CASE StepExit
  BY <1>30, Blanks DEF StepExit, Ends, LocalEnds, memory, localVars, reasons
<1>31. CASE Death
  BY <1>31, Blanks DEF Death, Die, Ends, LocalEnds, Event, memory, localVars, reasons
<1>32. CASE UNCHANGED vars
  BY <1>32 DEF vars, history, configVars, memory, localVars, reasons
<1> QED
  BY Steps, <1>1, <1>2, <1>3, <1>4, <1>5, <1>6, <1>7, <1>8, <1>9, <1>10, <1>11, <1>12,
     <1>13, <1>14, <1>15, <1>16, <1>17, <1>18, <1>19, <1>20, <1>21, <1>22, <1>23, <1>24,
     <1>25, <1>26, <1>27, <1>28, <1>29, <1>30, <1>31, <1>32

\* No time is ahead of the file's and no edit of the events.
LEMMA ClocksKept == ASSUME IInv, [Next]_vars PROVE Clocks'
<1> USE DEF IInv, TypeOK, ConfigTypeOK, Published, DocsPublished, Clocks, Quiet
<1>1. CASE StepStart
  BY <1>1 DEF StepStart, Start, InitRead, memory, localVars, reasons
<1>2. CASE Override
  BY <1>2 DEF Override, ApplyOverrides, Layer, memory, localVars, reasons
<1>3. CASE StepInitTime
  BY <1>3 DEF StepInitTime, InitTime, StepOnly, Overlaps, memory, localVars, reasons
<1>4. CASE StepPoll
  BY <1>4 DEF StepPoll, Poll, StepOnly, Overlaps, memory, localVars, reasons
<1>5. CASE StepReloadRead
  BY <1>5 DEF StepReloadRead, ReloadRead, StepOnly, Overlaps, memory, localVars, reasons
<1>6. CASE StepReloadParse
  BY <1>6, Blanks DEF StepReloadParse, ReloadParse, Overlaps, memory, localVars, reasons
<1>7. CASE StepReloadBase
  BY <1>7 DEF StepReloadBase, ReloadBase, StepOnly, Overlaps, memory, localVars, reasons
<1>8. CASE StepReloadLayer
  BY <1>8 DEF StepReloadLayer, ReloadLayer, ApplyOverrides, Layer, StepOnly, Overlaps, memory, localVars, reasons
<1>9. CASE StepReloadTime
  BY <1>9 DEF StepReloadTime, ReloadTime, StepOnly, Overlaps, memory, localVars, reasons
<1>10. CASE StepLocalRead
  BY <1>10 DEF StepLocalRead, LocalRead, Goto, LocalQuiet, Overlaps, memory, localVars, reasons
<1>11. CASE StepLocalChange
  BY <1>11 DEF StepLocalChange, LocalAdd, LocalRemove, LocalQuiet, configVars, At, Event, Overlaps, memory, localVars, reasons
<1>12. CASE StepLocalTruncate
  BY <1>12 DEF StepLocalTruncate, LocalTruncate, LocalText, Goto, LocalQuiet, At, Event, Overlaps, memory, localVars, reasons
<1>13. CASE StepLocalCreate
  BY <1>13 DEF StepLocalCreate, LocalCreate, LocalText, Goto, LocalQuiet, At, Overlaps, memory, localVars, reasons
<1>14. CASE StepLocalCreated
  BY <1>14 DEF StepLocalCreated, LocalCreated, LocalText, Goto, LocalQuiet, At, Overlaps, memory, localVars, reasons
<1>15. CASE StepLocalWrite
  BY <1>15 DEF StepLocalWrite, LocalWrite, LocalText, Goto, LocalQuiet, At, Overlaps, memory, localVars, reasons
<1>16. CASE StepLocalWriteFails
  BY <1>16 DEF StepLocalWriteFails, LocalWriteFails, Goto, At, Event, memory, localVars, reasons
<1>17. CASE StepReceive
  BY <1>17 DEF StepReceive, Receive, Booted, Number, Event, Overlaps, memory, localVars, reasons
<1>18. CASE StepReceiveInvalid
  BY <1>18 DEF StepReceiveInvalid, ReceiveInvalid, Booted, Event, Overlaps, memory, localVars, reasons
<1>19. CASE StepRuntime
  BY <1>19 DEF StepRuntime, UpdateRuntime, Receiving, StepOnly, Overlaps, memory, localVars, reasons
<1>20. CASE StepBase
  BY <1>20 DEF StepBase, UpdateBase, Receiving, StepOnly, Overlaps, memory, localVars, reasons
<1>21. CASE StepBackup
  BY <1>21 DEF StepBackup, SaveBackup, Receiving, StepOnly, Overlaps, memory, localVars, reasons
<1>22. CASE StepTruncate
  BY <1>22, Blanks DEF StepTruncate, SaveTruncate, Receiving, StepOnly, Overlaps, memory, localVars, reasons
<1>23. CASE StepWrite
  BY <1>23 DEF StepWrite, SaveWrite, Receiving, StepOnly, Overlaps, memory, localVars, reasons
<1>24. CASE StepWriteFails
  BY <1>24 DEF StepWriteFails, SaveWriteFails, Receiving, Event, memory, localVars, reasons
<1>25. CASE StepSaveTime
  BY <1>25, Blanks DEF StepSaveTime, SaveTime, Receiving, StepOnly, Overlaps, memory, localVars, reasons
<1>26. CASE SaveFails
  BY <1>26, Blanks DEF SaveFails, SaveCopyFails, SaveOpenFails, Receiving, Event, memory, localVars, reasons
<1>27. CASE StepEdit
  BY <1>27 DEF StepEdit, EditFile, Number, Event, Receiving, EditMeetsSave, memory, localVars, reasons
<1>28. CASE StepMangle
  BY <1>28 DEF StepMangle, MangleFile, Event, Receiving, EditMeetsSave, memory, localVars, reasons
<1>29. CASE EditLocal
  BY <1>29 DEF EditLocal, EditLocalFile, LocalText, configVars, At, Event, memory, localVars, reasons
<1>30. CASE StepExit
  BY <1>30, Blanks DEF StepExit, Ends, LocalEnds, memory, localVars, reasons
<1>31. CASE Death
  BY <1>31, Blanks DEF Death, Die, Ends, LocalEnds, Event, memory, localVars, reasons
<1>32. CASE UNCHANGED vars
  BY <1>32 DEF vars, history, configVars, memory, localVars, reasons
<1> QED
  BY Steps, <1>1, <1>2, <1>3, <1>4, <1>5, <1>6, <1>7, <1>8, <1>9, <1>10, <1>11, <1>12,
     <1>13, <1>14, <1>15, <1>16, <1>17, <1>18, <1>19, <1>20, <1>21, <1>22, <1>23, <1>24,
     <1>25, <1>26, <1>27, <1>28, <1>29, <1>30, <1>31, <1>32

\* A process that ended has no memory.
LEMMA DeadKept == ASSUME IInv, [Next]_vars PROVE Dead'
<1> USE DEF IInv, TypeOK, ConfigTypeOK, LocalTypeOK, Dead, Quiet
<1>1. CASE StepStart
  BY <1>1 DEF StepStart, Start, InitRead, memory, localVars, reasons
<1>2. CASE Override
  BY <1>2 DEF Override, ApplyOverrides, Layer, memory, localVars, reasons
<1>3. CASE StepInitTime
  BY <1>3 DEF StepInitTime, InitTime, StepOnly, Overlaps, memory, localVars, reasons
<1>4. CASE StepPoll
  BY <1>4 DEF StepPoll, Poll, StepOnly, Overlaps, memory, localVars, reasons
<1>5. CASE StepReloadRead
  BY <1>5 DEF StepReloadRead, ReloadRead, StepOnly, Overlaps, memory, localVars, reasons
<1>6. CASE StepReloadParse
  BY <1>6 DEF StepReloadParse, ReloadParse, Overlaps, memory, localVars, reasons
<1>7. CASE StepReloadBase
  BY <1>7 DEF StepReloadBase, ReloadBase, StepOnly, Overlaps, memory, localVars, reasons
<1>8. CASE StepReloadLayer
  BY <1>8 DEF StepReloadLayer, ReloadLayer, ApplyOverrides, Layer, StepOnly, Overlaps, memory, localVars, reasons
<1>9. CASE StepReloadTime
  BY <1>9 DEF StepReloadTime, ReloadTime, StepOnly, Overlaps, memory, localVars, reasons
<1>10. CASE StepLocalRead
  BY <1>10 DEF StepLocalRead, LocalRead, Goto, LocalQuiet, Overlaps, memory, localVars, reasons
<1>11. CASE StepLocalChange
  BY <1>11 DEF StepLocalChange, LocalAdd, LocalRemove, LocalQuiet, configVars, At, Event, Overlaps, memory, localVars, reasons
<1>12. CASE StepLocalTruncate
  BY <1>12 DEF StepLocalTruncate, LocalTruncate, LocalText, Goto, LocalQuiet, At, Event, Overlaps, memory, localVars, reasons
<1>13. CASE StepLocalCreate
  BY <1>13 DEF StepLocalCreate, LocalCreate, LocalText, Goto, LocalQuiet, At, Overlaps, memory, localVars, reasons
<1>14. CASE StepLocalCreated
  BY <1>14 DEF StepLocalCreated, LocalCreated, LocalText, Goto, LocalQuiet, At, Overlaps, memory, localVars, reasons
<1>15. CASE StepLocalWrite
  BY <1>15 DEF StepLocalWrite, LocalWrite, LocalText, Goto, LocalQuiet, At, Overlaps, memory, localVars, reasons
<1>16. CASE StepLocalWriteFails
  BY <1>16 DEF StepLocalWriteFails, LocalWriteFails, Goto, At, Event, memory, localVars, reasons
<1>17. CASE StepReceive
  BY <1>17 DEF StepReceive, Receive, Booted, Number, Event, Overlaps, memory, localVars, reasons
<1>18. CASE StepReceiveInvalid
  BY <1>18 DEF StepReceiveInvalid, ReceiveInvalid, Booted, Event, Overlaps, memory, localVars, reasons
<1>19. CASE StepRuntime
  BY <1>19 DEF StepRuntime, UpdateRuntime, Receiving, StepOnly, Overlaps, memory, localVars, reasons
<1>20. CASE StepBase
  BY <1>20 DEF StepBase, UpdateBase, Receiving, StepOnly, Overlaps, memory, localVars, reasons
<1>21. CASE StepBackup
  BY <1>21 DEF StepBackup, SaveBackup, Receiving, StepOnly, Overlaps, memory, localVars, reasons
<1>22. CASE StepTruncate
  BY <1>22 DEF StepTruncate, SaveTruncate, Receiving, StepOnly, Overlaps, memory, localVars, reasons
<1>23. CASE StepWrite
  BY <1>23 DEF StepWrite, SaveWrite, Receiving, StepOnly, Overlaps, memory, localVars, reasons
<1>24. CASE StepWriteFails
  BY <1>24 DEF StepWriteFails, SaveWriteFails, Receiving, Event, memory, localVars, reasons
<1>25. CASE StepSaveTime
  BY <1>25 DEF StepSaveTime, SaveTime, Receiving, StepOnly, Overlaps, memory, localVars, reasons
<1>26. CASE SaveFails
  BY <1>26 DEF SaveFails, SaveCopyFails, SaveOpenFails, Receiving, Event, memory, localVars, reasons
<1>27. CASE StepEdit
  BY <1>27 DEF StepEdit, EditFile, Number, Event, Receiving, EditMeetsSave, memory, localVars, reasons
<1>28. CASE StepMangle
  BY <1>28 DEF StepMangle, MangleFile, Event, Receiving, EditMeetsSave, memory, localVars, reasons
<1>29. CASE EditLocal
  BY <1>29 DEF EditLocal, EditLocalFile, LocalText, configVars, At, Event, memory, localVars, reasons
<1>30. CASE StepExit
  BY <1>30 DEF StepExit, Ends, LocalEnds, memory, localVars, reasons
<1>31. CASE Death
  BY <1>31 DEF Death, Die, Ends, LocalEnds, Event, memory, localVars, reasons
<1>32. CASE UNCHANGED vars
  BY <1>32 DEF vars, history, configVars, memory, localVars, reasons
<1> QED
  BY Steps, <1>1, <1>2, <1>3, <1>4, <1>5, <1>6, <1>7, <1>8, <1>9, <1>10, <1>11, <1>12,
     <1>13, <1>14, <1>15, <1>16, <1>17, <1>18, <1>19, <1>20, <1>21, <1>22, <1>23, <1>24,
     <1>25, <1>26, <1>27, <1>28, <1>29, <1>30, <1>31, <1>32

\* The module calls exit for one of the named reasons only.
LEMMA ExitHasReason == ASSUME IInv, StepExit PROVE Reasons'
<1>1. UNCHANGED <<torn, mangled, overlap>> /\ (again => again') /\ (unopened => unopened')
  BY DEF StepExit
<1>2. Reasons => Reasons'
  BY <1>1 DEF Reasons
<1>3. CASE process # "up" /\ ~file.whole
  BY <1>2, <1>3 DEF IInv, Tears
<1>4. CASE process = "up" /\ main = "parse" /\ ~contents.whole
  BY <1>2, <1>4 DEF IInv, Tears
<1>5. CASE process = "up" /\ main = "localFile" /\ localFile.exists /\ ~(localFile.whole /\ ~streamed)
  BY <1>2, <1>5 DEF IInv, Tears
<1>6. CASE again' \/ unopened'
  BY <1>6 DEF Reasons
<1> QED BY <1>3, <1>4, <1>5, <1>6 DEF StepExit

\* A file is torn by its writer or by a person only, and nobody else reads it then.
LEMMA TearsKept == ASSUME IInv, [Next]_vars PROVE (Tears /\ FailsForAReason)'
<1> USE DEF IInv, TypeOK, ConfigTypeOK, LocalTypeOK, LocalFiles, Alone, Dead, Tears, FailsForAReason, Reasons, Quiet
<1>1. CASE StepStart
  BY <1>1 DEF StepStart, Start, InitRead, memory, localVars, reasons
<1>2. CASE Override
  BY <1>2 DEF Override, ApplyOverrides, Layer, memory, localVars, reasons
<1>3. CASE StepInitTime
  BY <1>3 DEF StepInitTime, InitTime, StepOnly, Overlaps, memory, localVars, reasons
<1>4. CASE StepPoll
  BY <1>4 DEF StepPoll, Poll, StepOnly, Overlaps, memory, localVars, reasons
<1>5. CASE StepReloadRead
  BY <1>5 DEF StepReloadRead, ReloadRead, StepOnly, Overlaps, memory, localVars, reasons
<1>6. CASE StepReloadParse
  BY <1>6 DEF StepReloadParse, ReloadParse, Overlaps, memory, localVars, reasons
<1>7. CASE StepReloadBase
  BY <1>7 DEF StepReloadBase, ReloadBase, StepOnly, Overlaps, memory, localVars, reasons
<1>8. CASE StepReloadLayer
  BY <1>8 DEF StepReloadLayer, ReloadLayer, ApplyOverrides, Layer, StepOnly, Overlaps, memory, localVars, reasons
<1>9. CASE StepReloadTime
  BY <1>9 DEF StepReloadTime, ReloadTime, StepOnly, Overlaps, memory, localVars, reasons
<1>10. CASE StepLocalRead
  BY <1>10 DEF StepLocalRead, LocalRead, Goto, LocalQuiet, Overlaps, memory, localVars, reasons
<1>11. CASE StepLocalChange
  BY <1>11 DEF StepLocalChange, LocalAdd, LocalRemove, LocalQuiet, configVars, At, Event, Overlaps, memory, localVars, reasons
<1>12. CASE StepLocalTruncate
  BY <1>12 DEF StepLocalTruncate, LocalTruncate, LocalText, Goto, LocalQuiet, At, Event, Overlaps, memory, localVars, reasons
<1>13. CASE StepLocalCreate
  BY <1>13 DEF StepLocalCreate, LocalCreate, LocalText, Goto, LocalQuiet, At, Overlaps, memory, localVars, reasons
<1>14. CASE StepLocalCreated
  BY <1>14 DEF StepLocalCreated, LocalCreated, LocalText, Goto, LocalQuiet, At, Overlaps, memory, localVars, reasons
<1>15. CASE StepLocalWrite
  BY <1>15 DEF StepLocalWrite, LocalWrite, LocalText, Goto, LocalQuiet, At, Overlaps, memory, localVars, reasons
<1>16. CASE StepLocalWriteFails
  BY <1>16 DEF StepLocalWriteFails, LocalWriteFails, Goto, At, Event, memory, localVars, reasons
<1>17. CASE StepReceive
  BY <1>17 DEF StepReceive, Receive, Booted, Number, Event, Overlaps, memory, localVars, reasons
<1>18. CASE StepReceiveInvalid
  BY <1>18 DEF StepReceiveInvalid, ReceiveInvalid, Booted, Event, Overlaps, memory, localVars, reasons
<1>19. CASE StepRuntime
  BY <1>19 DEF StepRuntime, UpdateRuntime, Receiving, StepOnly, Overlaps, memory, localVars, reasons
<1>20. CASE StepBase
  BY <1>20 DEF StepBase, UpdateBase, Receiving, StepOnly, Overlaps, memory, localVars, reasons
<1>21. CASE StepBackup
  BY <1>21 DEF StepBackup, SaveBackup, Receiving, StepOnly, Overlaps, memory, localVars, reasons
<1>22. CASE StepTruncate
  BY <1>22, Blanks DEF StepTruncate, SaveTruncate, Receiving, StepOnly, Overlaps, memory, localVars, reasons
<1>23. CASE StepWrite
  BY <1>23 DEF StepWrite, SaveWrite, Receiving, StepOnly, Overlaps, memory, localVars, reasons
<1>24. CASE StepWriteFails
  BY <1>24 DEF StepWriteFails, SaveWriteFails, Receiving, Event, memory, localVars, reasons
<1>25. CASE StepSaveTime
  BY <1>25 DEF StepSaveTime, SaveTime, Receiving, StepOnly, Overlaps, memory, localVars, reasons
<1>26. CASE SaveFails
  BY <1>26 DEF SaveFails, SaveCopyFails, SaveOpenFails, Receiving, Event, memory, localVars, reasons
<1>27. CASE StepEdit
  BY <1>27 DEF StepEdit, EditFile, Number, Event, Receiving, EditMeetsSave, memory, localVars, reasons
<1>28. CASE StepMangle
  BY <1>28 DEF StepMangle, MangleFile, Event, Receiving, EditMeetsSave, memory, localVars, reasons
<1>29. CASE EditLocal
  BY <1>29 DEF EditLocal, EditLocalFile, LocalText, configVars, At, Event, memory, localVars, reasons
<1>30. CASE StepExit
  BY <1>30, ExitHasReason DEF StepExit, Ends, LocalEnds, memory, localVars, reasons
<1>31. CASE Death
  BY <1>31 DEF Death, Die, Ends, LocalEnds, Event, memory, localVars, reasons
<1>32. CASE UNCHANGED vars
  BY <1>32 DEF vars, history, configVars, memory, localVars, reasons
<1> QED
  BY Steps, <1>1, <1>2, <1>3, <1>4, <1>5, <1>6, <1>7, <1>8, <1>9, <1>10, <1>11, <1>12,
     <1>13, <1>14, <1>15, <1>16, <1>17, <1>18, <1>19, <1>20, <1>21, <1>22, <1>23, <1>24,
     <1>25, <1>26, <1>27, <1>28, <1>29, <1>30, <1>31, <1>32

\* Types.
LEMMA TypesKept == ASSUME IInv, [Next]_vars PROVE TypeOK'
<1> USE DEF IInv, TypeOK, ConfigTypeOK, LocalTypeOK, Published, Runtime, File, LocalFiles, MainSteps, RxSteps, DocsPublished, Quiet
<1>1. CASE StepStart
  <2>1. /\ process' = "up" /\ base' = file.doc /\ config' = file.doc
        /\ hidden' = FALSE /\ kept' = FALSE
        /\ file' = file /\ mtime' = mtime /\ backup' = backup /\ main' = main /\ rx' = rx
        /\ contents' = contents /\ overrides' = overrides /\ lastTime' = lastTime
        /\ pending' = pending /\ edit' = edit
        /\ localFile' = localFile /\ local' = local /\ streamed' = streamed
    BY <1>1 DEF StepStart, Start, InitRead, localVars
  <2>2. /\ events' = events /\ latest' = latest /\ overlap' = overlap /\ overwrote' = overwrote
        /\ unsaved' = unsaved /\ torn' = torn /\ mangled' = mangled /\ unopened' = unopened
        /\ again' = again
    BY <1>1 DEF StepStart, Start, reasons
  <2>3. ConfigTypeOK'
    BY <2>1
  <2>4. LocalTypeOK'
    BY <2>1
  <2> QED BY <2>1, <2>2, <2>3, <2>4
<1>2. CASE Override
  BY <1>2 DEF Override, ApplyOverrides, Layer, memory, localVars, reasons
<1>3. CASE StepInitTime
  BY <1>3 DEF StepInitTime, InitTime, StepOnly, Overlaps, memory, localVars, reasons
<1>4. CASE StepPoll
  <2>1. /\ process' = process /\ base' = base /\ config' = config /\ overrides' = overrides
        /\ file' = file /\ mtime' = mtime /\ backup' = backup /\ main' = "reload" /\ rx' = rx
        /\ contents' = contents /\ lastTime' \in {lastTime, mtime}
        /\ pending' = FALSE /\ edit' = edit
        /\ localFile' = localFile /\ local' = local /\ streamed' = streamed
    BY <1>4 DEF StepPoll, Poll, StepOnly, memory, localVars
  <2>2. /\ events' = events /\ latest' = latest /\ overlap' \in BOOLEAN /\ overwrote' = overwrote
        /\ hidden' = hidden /\ kept' = kept
        /\ unsaved' = unsaved /\ torn' = torn /\ mangled' = mangled /\ unopened' = unopened
        /\ again' = again
    BY <1>4 DEF StepPoll, StepOnly, Overlaps, reasons
  <2>3. ConfigTypeOK'
    BY <2>1
  <2>4. LocalTypeOK'
    BY <2>1
  <2> QED BY <2>2, <2>3, <2>4
<1>5. CASE StepReloadRead
  BY <1>5 DEF StepReloadRead, ReloadRead, StepOnly, Overlaps, memory, localVars, reasons
<1>6. CASE StepReloadParse
  BY <1>6, Blanks, ZenonT(60) DEF StepReloadParse, ReloadParse, Overlaps, memory, localVars, reasons
<1>7. CASE StepReloadBase
  BY <1>7 DEF StepReloadBase, ReloadBase, StepOnly, Overlaps, memory, localVars, reasons
<1>8. CASE StepReloadLayer
  BY <1>8 DEF StepReloadLayer, ReloadLayer, ApplyOverrides, Layer, StepOnly, Overlaps, memory, localVars, reasons
<1>9. CASE StepReloadTime
  BY <1>9 DEF StepReloadTime, ReloadTime, StepOnly, Overlaps, memory, localVars, reasons
<1>10. CASE StepLocalRead
  BY <1>10 DEF StepLocalRead, LocalRead, Goto, LocalQuiet, Overlaps, memory, localVars, reasons
<1>11. CASE StepLocalChange
  BY <1>11 DEF StepLocalChange, LocalAdd, LocalRemove, LocalQuiet, configVars, At, Event, Overlaps, memory, localVars, reasons
<1>12. CASE StepLocalTruncate
  BY <1>12 DEF StepLocalTruncate, LocalTruncate, LocalText, Goto, LocalQuiet, At, Event, Overlaps, memory, localVars, reasons
<1>13. CASE StepLocalCreate
  BY <1>13 DEF StepLocalCreate, LocalCreate, LocalText, Goto, LocalQuiet, At, Overlaps, memory, localVars, reasons
<1>14. CASE StepLocalCreated
  BY <1>14 DEF StepLocalCreated, LocalCreated, LocalText, Goto, LocalQuiet, At, Overlaps, memory, localVars, reasons
<1>15. CASE StepLocalWrite
  BY <1>15 DEF StepLocalWrite, LocalWrite, LocalText, Goto, LocalQuiet, At, Overlaps, memory, localVars, reasons
<1>16. CASE StepLocalWriteFails
  BY <1>16 DEF StepLocalWriteFails, LocalWriteFails, Goto, At, Event, memory, localVars, reasons
<1>17. CASE StepReceive
  BY <1>17 DEF StepReceive, Receive, Booted, Number, Event, Overlaps, memory, localVars, reasons
<1>18. CASE StepReceiveInvalid
  BY <1>18 DEF StepReceiveInvalid, ReceiveInvalid, Booted, Event, Overlaps, memory, localVars, reasons
<1>19. CASE StepRuntime
  BY <1>19 DEF StepRuntime, UpdateRuntime, Receiving, StepOnly, Overlaps, memory, localVars, reasons
<1>20. CASE StepBase
  BY <1>20 DEF StepBase, UpdateBase, Receiving, StepOnly, Overlaps, memory, localVars, reasons
<1>21. CASE StepBackup
  BY <1>21 DEF StepBackup, SaveBackup, Receiving, StepOnly, Overlaps, memory, localVars, reasons
<1>22. CASE StepTruncate
  BY <1>22, Blanks DEF StepTruncate, SaveTruncate, Receiving, StepOnly, Overlaps, memory, localVars, reasons
<1>23. CASE StepWrite
  BY <1>23 DEF StepWrite, SaveWrite, Receiving, StepOnly, Overlaps, memory, localVars, reasons
<1>24. CASE StepWriteFails
  BY <1>24 DEF StepWriteFails, SaveWriteFails, Receiving, Event, memory, localVars, reasons
<1>25. CASE StepSaveTime
  BY <1>25, Blanks DEF StepSaveTime, SaveTime, Receiving, StepOnly, Overlaps, memory, localVars, reasons
<1>26. CASE SaveFails
  BY <1>26, Blanks DEF SaveFails, SaveCopyFails, SaveOpenFails, Receiving, Event, memory, localVars, reasons
<1>27. CASE StepEdit
  BY <1>27 DEF StepEdit, EditFile, Number, Event, Receiving, EditMeetsSave, memory, localVars, reasons
<1>28. CASE StepMangle
  <2>1. file' \in File(Runtime) /\ mtime' \in Nat
    <3>1. file \in [whole : BOOLEAN, doc : Runtime] /\ file' = [file EXCEPT !.whole = FALSE] /\ mtime' = mtime + 1
      BY <1>28 DEF StepMangle, MangleFile
    <3>2. mtime' \in Nat
      BY <3>1
    <3> HIDE DEF IInv, TypeOK, ConfigTypeOK, Runtime, DocsPublished
    <3> QED BY <3>1, <3>2
  <2>2. latest' \in Published
    BY <1>28, DocsKept DEF StepMangle
  <2>3. hidden' \in BOOLEAN /\ overwrote' \in BOOLEAN /\ mangled' \in BOOLEAN /\ events' \in Nat
    BY <1>28 DEF StepMangle, EditMeetsSave, Event
  <2>4. /\ UNCHANGED <<backup, process, main, rx, contents, config, base, overrides, lastTime, pending, edit>>
        /\ UNCHANGED <<localFile, local, streamed, overlap, kept, unsaved, torn, unopened, again>>
    BY <1>28 DEF StepMangle, MangleFile, memory, localVars
  <2> HIDE DEF Published, Runtime, File
  <2> QED BY <2>1, <2>2, <2>3, <2>4
<1>29. CASE EditLocal
  <2>1. localFile' \in LocalFiles
    <3>1. CASE localFile' = LocalText(FALSE, localFile.keys)
      BY <3>1 DEF LocalText
    <3>2. ASSUME NEW keys \in SUBSET Overridable, localFile' = LocalText(TRUE, keys)
          PROVE  localFile' \in LocalFiles
      BY <3>2 DEF LocalText
    <3> QED BY <1>29, <3>1, <3>2 DEF EditLocal, EditLocalFile
  <2>2. mangled' \in BOOLEAN /\ events' \in Nat
    BY <1>29, <2>1 DEF EditLocal, Event
  <2>3. /\ UNCHANGED <<file, mtime, backup, process, main, rx, contents, config, base, overrides, lastTime, pending, edit>>
        /\ UNCHANGED <<local, streamed, latest, overlap, hidden, overwrote, kept, unsaved, torn, unopened, again>>
    BY <1>29 DEF EditLocal, EditLocalFile, configVars, memory
  <2> HIDE DEF Published, Runtime, File, LocalFiles
  <2> QED BY <2>1, <2>2, <2>3
<1>30. CASE StepExit
  <2>1. /\ process' \in {"off", "failed"} /\ main' \in MainSteps /\ rx' \in RxSteps
        /\ contents' \in File(Runtime) /\ config' \in Runtime /\ base' \in Published
        /\ overrides' \in SUBSET Overridable /\ lastTime' \in Nat /\ pending' \in BOOLEAN
        /\ edit' \in [key : Keys, number : Nat]
    BY <1>30, Blanks DEF StepExit, Ends
  <2>2. UNCHANGED <<file, mtime, backup, localFile>> /\ local' \in SUBSET Overridable /\ streamed' \in BOOLEAN
    BY <1>30 DEF StepExit, Ends, LocalEnds
  <2>3. /\ events' \in Nat /\ latest' \in Published
        /\ \A h \in {overlap, hidden, overwrote, kept, unsaved, torn, mangled, unopened, again}' : h \in BOOLEAN
    BY <1>30 DEF StepExit, Event
  <2> HIDE DEF Published, Runtime, File, MainSteps, RxSteps
  <2> QED BY <2>1, <2>2, <2>3
<1>31. CASE Death
  <2>1. /\ process' \in {"off", "failed"} /\ main' \in MainSteps /\ rx' \in RxSteps
        /\ contents' \in File(Runtime) /\ config' \in Runtime /\ base' \in Published
        /\ overrides' \in SUBSET Overridable /\ lastTime' \in Nat /\ pending' \in BOOLEAN
        /\ edit' \in [key : Keys, number : Nat]
    BY <1>31, Blanks DEF Death, Die, Ends
  <2>2. UNCHANGED <<file, mtime, backup, localFile>> /\ local' \in SUBSET Overridable /\ streamed' \in BOOLEAN
    BY <1>31 DEF Death, Die, Ends, LocalEnds
  <2>3. /\ events' \in Nat /\ latest' \in Published
        /\ \A h \in {overlap, hidden, overwrote, kept, unsaved, torn, mangled, unopened, again}' : h \in BOOLEAN
    BY <1>31 DEF Death, Die, Event
  <2> HIDE DEF Published, Runtime, File, MainSteps, RxSteps
  <2> QED BY <2>1, <2>2, <2>3
<1>32. CASE UNCHANGED vars
  BY <1>32 DEF vars, history, configVars, memory, localVars, reasons
<1> QED
  BY Steps, <1>1, <1>2, <1>3, <1>4, <1>5, <1>6, <1>7, <1>8, <1>9, <1>10, <1>11, <1>12,
     <1>13, <1>14, <1>15, <1>16, <1>17, <1>18, <1>19, <1>20, <1>21, <1>22, <1>23, <1>24,
     <1>25, <1>26, <1>27, <1>28, <1>29, <1>30, <1>31, <1>32

\* The application has not read an edit that just came, and will be told of it
\* or has been recorded not to be.
LEMMA EditIsSeen ==
    ASSUME IInv, StepEdit \/ StepMangle
    PROVE  /\ ~Read'
           /\ ~(process' = "up" /\ main' \in {"parse", "base"} /\ ~hidden')
           /\ ~(process' = "up" /\ rx' = "time" /\ ~hidden')
<1>1. mtime' # lastTime'
  BY DEF IInv, TypeOK, ConfigTypeOK, Clocks, StepEdit, StepMangle, EditFile, MangleFile
<1>2. /\ process' = "up" /\ main' \in {"boot", "parse", "base", "layer", "reloadTime"} => hidden'
      /\ process' = "up" /\ rx' = "time" => hidden'
  BY DEF StepEdit, StepMangle, EditFile, MangleFile, EditMeetsSave
<1> QED BY <1>1, <1>2 DEF Read

\* No save takes an edit back.
LEMMA BaseKept == ASSUME IInv, [Next]_vars PROVE BaseHasEdits'
<1> USE DEF IInv, TypeOK, ConfigTypeOK, Published, DocsPublished, Clocks, Dead, Alone, Tears, BaseHasEdits, Honest, Read, AtLeast, Follows, Quiet
<1>1. CASE StepStart
  BY <1>1 DEF StepStart, Start, InitRead, memory, localVars, reasons
<1>2. CASE Override
  BY <1>2 DEF Override, ApplyOverrides, Layer, memory, localVars, reasons
<1>3. CASE StepInitTime
  BY <1>3 DEF StepInitTime, InitTime, StepOnly, Overlaps, memory, localVars, reasons
<1>4. CASE StepPoll
  BY <1>4 DEF StepPoll, Poll, StepOnly, Overlaps, memory, localVars, reasons
<1>5. CASE StepReloadRead
  BY <1>5 DEF StepReloadRead, ReloadRead, StepOnly, Overlaps, memory, localVars, reasons
<1>6. CASE StepReloadParse
  BY <1>6 DEF StepReloadParse, ReloadParse, Overlaps, memory, localVars, reasons
<1>7. CASE StepReloadBase
  BY <1>7 DEF StepReloadBase, ReloadBase, StepOnly, Overlaps, memory, localVars, reasons
<1>8. CASE StepReloadLayer
  BY <1>8 DEF StepReloadLayer, ReloadLayer, ApplyOverrides, Layer, StepOnly, Overlaps, memory, localVars, reasons
<1>9. CASE StepReloadTime
  BY <1>9 DEF StepReloadTime, ReloadTime, StepOnly, Overlaps, memory, localVars, reasons
<1>10. CASE StepLocalRead
  BY <1>10 DEF StepLocalRead, LocalRead, Goto, LocalQuiet, Overlaps, memory, localVars, reasons
<1>11. CASE StepLocalChange
  BY <1>11 DEF StepLocalChange, LocalAdd, LocalRemove, LocalQuiet, configVars, At, Event, Overlaps, memory, localVars, reasons
<1>12. CASE StepLocalTruncate
  BY <1>12 DEF StepLocalTruncate, LocalTruncate, LocalText, Goto, LocalQuiet, At, Event, Overlaps, memory, localVars, reasons
<1>13. CASE StepLocalCreate
  BY <1>13 DEF StepLocalCreate, LocalCreate, LocalText, Goto, LocalQuiet, At, Overlaps, memory, localVars, reasons
<1>14. CASE StepLocalCreated
  BY <1>14 DEF StepLocalCreated, LocalCreated, LocalText, Goto, LocalQuiet, At, Overlaps, memory, localVars, reasons
<1>15. CASE StepLocalWrite
  BY <1>15 DEF StepLocalWrite, LocalWrite, LocalText, Goto, LocalQuiet, At, Overlaps, memory, localVars, reasons
<1>16. CASE StepLocalWriteFails
  BY <1>16 DEF StepLocalWriteFails, LocalWriteFails, Goto, At, Event, memory, localVars, reasons
<1>17. CASE StepReceive
  BY <1>17 DEF StepReceive, Receive, Booted, Number, Event, Overlaps, memory, localVars, reasons
<1>18. CASE StepReceiveInvalid
  BY <1>18 DEF StepReceiveInvalid, ReceiveInvalid, Booted, Event, Overlaps, memory, localVars, reasons
<1>19. CASE StepRuntime
  BY <1>19 DEF StepRuntime, UpdateRuntime, Receiving, StepOnly, Overlaps, memory, localVars, reasons
<1>20. CASE StepBase
  BY <1>20 DEF StepBase, UpdateBase, Receiving, StepOnly, Overlaps, memory, localVars, reasons
<1>21. CASE StepBackup
  BY <1>21 DEF StepBackup, SaveBackup, Receiving, StepOnly, Overlaps, memory, localVars, reasons
<1>22. CASE StepTruncate
  BY <1>22, Blanks DEF StepTruncate, SaveTruncate, Receiving, StepOnly, Overlaps, memory, localVars, reasons
<1>23. CASE StepWrite
  BY <1>23 DEF StepWrite, SaveWrite, Receiving, StepOnly, Overlaps, memory, localVars, reasons
<1>24. CASE StepWriteFails
  BY <1>24 DEF StepWriteFails, SaveWriteFails, Receiving, Event, memory, localVars, reasons
<1>25. CASE StepSaveTime
  BY <1>25 DEF StepSaveTime, SaveTime, Receiving, StepOnly, Overlaps, memory, localVars, reasons
<1>26. CASE SaveFails
  BY <1>26 DEF SaveFails, SaveCopyFails, SaveOpenFails, Receiving, Event, memory, localVars, reasons
<1>27. CASE StepEdit
  <2>1. ~Read' /\ ~(process' = "up" /\ main' \in {"parse", "base"} /\ ~hidden')
             /\ ~(process' = "up" /\ rx' = "time" /\ ~hidden')
    BY <1>27, EditIsSeen
  <2>2. /\ process = "up" => rx # "write"
        /\ process = "up" /\ rx = "truncate" => overwrote'
        /\ UNCHANGED <<process, rx, base, edit, overlap>>
        /\ overwrote => overwrote'
    BY <1>27 DEF StepEdit, EditFile, memory, Receiving, EditMeetsSave
  <2>3. AtLeast(file.doc, latest)'
    BY <1>27, DocsKept DEF StepEdit, EditFile
  <2>4. file'.whole \/ mangled'
    BY <1>27 DEF StepEdit, EditFile
  <2> QED BY <2>1, <2>2, <2>3, <2>4
<1>28. CASE StepMangle
  <2>1. ~Read' /\ ~(process' = "up" /\ main' \in {"parse", "base"} /\ ~hidden')
             /\ ~(process' = "up" /\ rx' = "time" /\ ~hidden')
    BY <1>28, EditIsSeen
  <2>2. /\ process = "up" => rx # "write"
        /\ process = "up" /\ rx = "truncate" => overwrote'
        /\ UNCHANGED <<process, rx, base, edit, overlap>>
        /\ overwrote => overwrote'
    BY <1>28 DEF StepMangle, MangleFile, memory, Receiving, EditMeetsSave
  <2>3. AtLeast(file.doc, latest)'
    BY <1>28, DocsKept DEF StepMangle, MangleFile
  <2>4. file'.whole \/ mangled'
    BY <1>28 DEF StepMangle, MangleFile
  <2> QED BY <2>1, <2>2, <2>3, <2>4
<1>29. CASE EditLocal
  BY <1>29 DEF EditLocal, EditLocalFile, LocalText, configVars, At, Event, memory, localVars, reasons
<1>30. CASE StepExit
  BY <1>30 DEF StepExit, Ends, LocalEnds, memory, localVars, reasons
<1>31. CASE Death
  BY <1>31 DEF Death, Die, Ends, LocalEnds, Event, memory, localVars, reasons
<1>32. CASE UNCHANGED vars
  BY <1>32 DEF vars, history, configVars, memory, localVars, reasons
<1> QED
  BY Steps, <1>1, <1>2, <1>3, <1>4, <1>5, <1>6, <1>7, <1>8, <1>9, <1>10, <1>11, <1>12,
     <1>13, <1>14, <1>15, <1>16, <1>17, <1>18, <1>19, <1>20, <1>21, <1>22, <1>23, <1>24,
     <1>25, <1>26, <1>27, <1>28, <1>29, <1>30, <1>31, <1>32

\* What the application has read it has in memory.
LEMMA FollowsKept == ASSUME IInv, [Next]_vars PROVE Follows'
<1> USE DEF IInv, TypeOK, ConfigTypeOK, LocalTypeOK, Published, Runtime, Clocks, Dead, Alone, Tears, Follows, Read, Layer, Quiet
<1>1. CASE StepStart
  <2>1. /\ base' = file.doc /\ file' = file /\ file.whole /\ config' = base' /\ overrides' = {}
        /\ main' = "boot"
    BY <1>1 DEF StepStart, Start, InitRead
  <2>2. file.doc \in [Keys -> Nat]
    BY DEF DocsPublished
  <2>3. config' = Layer(base, overrides)'
    BY <2>1, <2>2
  <2> QED BY <2>1, <2>3
<1>2. CASE Override
  BY <1>2 DEF Override, ApplyOverrides, Layer, memory, localVars, reasons
<1>3. CASE StepInitTime
  BY <1>3 DEF StepInitTime, InitTime, StepOnly, Overlaps, memory, localVars, reasons
<1>4. CASE StepPoll
  BY <1>4 DEF StepPoll, Poll, StepOnly, Overlaps, memory, localVars, reasons
<1>5. CASE StepReloadRead
  BY <1>5 DEF StepReloadRead, ReloadRead, StepOnly, Overlaps, memory, localVars, reasons
<1>6. CASE StepReloadParse
  BY <1>6 DEF StepReloadParse, ReloadParse, Overlaps, memory, localVars, reasons
<1>7. CASE StepReloadBase
  BY <1>7 DEF StepReloadBase, ReloadBase, StepOnly, Overlaps, memory, localVars, reasons
<1>8. CASE StepReloadLayer
  BY <1>8 DEF StepReloadLayer, ReloadLayer, ApplyOverrides, Layer, StepOnly, Overlaps, memory, localVars, reasons
<1>9. CASE StepReloadTime
  BY <1>9 DEF StepReloadTime, ReloadTime, StepOnly, Overlaps, memory, localVars, reasons
<1>10. CASE StepLocalRead
  BY <1>10 DEF StepLocalRead, LocalRead, Goto, LocalQuiet, Overlaps, memory, localVars, reasons
<1>11. CASE StepLocalChange
  BY <1>11 DEF StepLocalChange, LocalAdd, LocalRemove, LocalQuiet, configVars, At, Event, Overlaps, memory, localVars, reasons
<1>12. CASE StepLocalTruncate
  BY <1>12 DEF StepLocalTruncate, LocalTruncate, LocalText, Goto, LocalQuiet, At, Event, Overlaps, memory, localVars, reasons
<1>13. CASE StepLocalCreate
  BY <1>13 DEF StepLocalCreate, LocalCreate, LocalText, Goto, LocalQuiet, At, Overlaps, memory, localVars, reasons
<1>14. CASE StepLocalCreated
  BY <1>14 DEF StepLocalCreated, LocalCreated, LocalText, Goto, LocalQuiet, At, Overlaps, memory, localVars, reasons
<1>15. CASE StepLocalWrite
  BY <1>15 DEF StepLocalWrite, LocalWrite, LocalText, Goto, LocalQuiet, At, Overlaps, memory, localVars, reasons
<1>16. CASE StepLocalWriteFails
  BY <1>16 DEF StepLocalWriteFails, LocalWriteFails, Goto, At, Event, memory, localVars, reasons
<1>17. CASE StepReceive
  BY <1>17 DEF StepReceive, Receive, Booted, Number, Event, Overlaps, memory, localVars, reasons
<1>18. CASE StepReceiveInvalid
  BY <1>18 DEF StepReceiveInvalid, ReceiveInvalid, Booted, Event, Overlaps, memory, localVars, reasons
<1>19. CASE StepRuntime
  BY <1>19 DEF StepRuntime, UpdateRuntime, Receiving, StepOnly, Overlaps, memory, localVars, reasons
<1>20. CASE StepBase
  BY <1>20 DEF StepBase, UpdateBase, Receiving, StepOnly, Overlaps, memory, localVars, reasons
<1>21. CASE StepBackup
  BY <1>21 DEF StepBackup, SaveBackup, Receiving, StepOnly, Overlaps, memory, localVars, reasons
<1>22. CASE StepTruncate
  BY <1>22 DEF StepTruncate, SaveTruncate, Receiving, StepOnly, Overlaps, memory, localVars, reasons
<1>23. CASE StepWrite
  BY <1>23 DEF StepWrite, SaveWrite, Receiving, StepOnly, Overlaps, memory, localVars, reasons
<1>24. CASE StepWriteFails
  BY <1>24 DEF StepWriteFails, SaveWriteFails, Receiving, Event, memory, localVars, reasons
<1>25. CASE StepSaveTime
  BY <1>25 DEF StepSaveTime, SaveTime, Receiving, StepOnly, Overlaps, memory, localVars, reasons
<1>26. CASE SaveFails
  BY <1>26 DEF SaveFails, SaveCopyFails, SaveOpenFails, Receiving, Event, memory, localVars, reasons
<1>27. CASE StepEdit
  <2>1. ~Read' /\ ~(process' = "up" /\ main' \in {"parse", "base"} /\ ~hidden')
    BY <1>27, EditIsSeen
  <2>2. UNCHANGED <<process, main, config, base, overrides, pending, kept, overlap>>
    BY <1>27 DEF StepEdit, EditFile, memory
  <2> QED BY <2>1, <2>2
<1>28. CASE StepMangle
  <2>1. ~Read' /\ ~(process' = "up" /\ main' \in {"parse", "base"} /\ ~hidden')
    BY <1>28, EditIsSeen
  <2>2. UNCHANGED <<process, main, config, base, overrides, pending, kept, overlap>>
    BY <1>28 DEF StepMangle, MangleFile, memory
  <2> QED BY <2>1, <2>2
<1>29. CASE EditLocal
  BY <1>29 DEF EditLocal, EditLocalFile, LocalText, configVars, At, Event, memory, localVars, reasons
<1>30. CASE StepExit
  BY <1>30 DEF StepExit, Ends, LocalEnds, memory, localVars, reasons
<1>31. CASE Death
  BY <1>31 DEF Death, Die, Ends, LocalEnds, Event, memory, localVars, reasons
<1>32. CASE UNCHANGED vars
  BY <1>32 DEF vars, history, configVars, memory, localVars, reasons
<1> QED
  BY Steps, <1>1, <1>2, <1>3, <1>4, <1>5, <1>6, <1>7, <1>8, <1>9, <1>10, <1>11, <1>12,
     <1>13, <1>14, <1>15, <1>16, <1>17, <1>18, <1>19, <1>20, <1>21, <1>22, <1>23, <1>24,
     <1>25, <1>26, <1>27, <1>28, <1>29, <1>30, <1>31, <1>32

LEMMA Invariance == Spec => []IInv
<1>1. ASSUME IInv, [Next]_vars PROVE IInv'
  <2>1. TypeOK' BY <1>1, TypesKept
  <2>2. DocsPublished' BY <1>1, DocsKept
  <2>3. Clocks' BY <1>1, ClocksKept
  <2>4. Alone' BY <1>1, AloneKept
  <2>5. (Tears /\ FailsForAReason)' BY <1>1, TearsKept
  <2>6. BaseHasEdits' BY <1>1, BaseKept
  <2>7. Follows' BY <1>1, FollowsKept
  <2>8. Dead' BY <1>1, DeadKept
  <2> QED BY <2>1, <2>2, <2>3, <2>4, <2>5, <2>6, <2>7, <2>8 DEF IInv
<1> QED BY <1>1, InitInvariant, PTL DEF Spec

---------------------------------------------------------------------------
\* Every variable of the configuration store keeps its type.
THEOREM TypeCorrect == Spec => []TypeOK
<1>1. IInv => TypeOK
  BY DEF IInv
<1> QED BY <1>1, Invariance, PTL

\* For any keys, updates, edits and deaths: no value of a local override is
\* ever in the published file or in its backup.
THEOREM OverridesStayLocal == Spec => []NeverLeaks
<1>1. IInv => NeverLeaks
  BY DEF IInv, DocsPublished, Published, NeverLeaks
<1> QED BY <1>1, Invariance, PTL

\* Outside the recorded exceptions a settled module runs on the published file
\* with the overrides on top.
THEOREM SettledModuleIsCurrent == Spec => []SettledIsCurrent
<1>1. IInv => SettledIsCurrent
  BY DEF IInv, Tears, Follows, Read, SettledIsCurrent, Settled
<1> QED BY <1>1, Invariance, PTL

\* Outside the recorded exceptions no save takes back an edit.
THEOREM EditsAreKept == Spec => []NoEditUndone
<1>1. IInv => NoEditUndone
  BY DEF IInv, BaseHasEdits, Honest, AtLeast, NoEditUndone
<1> QED BY <1>1, Invariance, PTL

\* For any updates, edits, failing calls and deaths, a module ends itself or
\* cannot be started only because a writing was cut short, a person left a file
\* that does not parse, a file could not be opened, a reload met an update, or
\* the device's file was read a second time.
THEOREM FailuresExplained == Spec => []FailsForAReason
<1>1. IInv => FailsForAReason
  BY DEF IInv
<1> QED BY <1>1, Invariance, PTL

\* The backup of a file that the program left torn has every edit the file had.
THEOREM TornFileRecoverable == Spec => []TearRecoverable
<1>1. IInv => TearRecoverable
  BY DEF IInv, BaseHasEdits, Honest, AtLeast, TearRecoverable
<1> QED BY <1>1, Invariance, PTL
=============================================================================
