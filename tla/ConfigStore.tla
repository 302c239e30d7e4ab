------------------------------ MODULE ConfigStore ------------------------------
(***************************************************************************)
(* The configuration of a module as a whole: the published file, the       *)
(* device's own file, the application thread that polls and reloads, the   *)
(* receive thread that applies remote updates, a person who edits the      *)
(* published file, and a process that dies and is started again.           *)
(***************************************************************************)
EXTENDS LocalConfigFile

CONSTANT MaxEvents  \* bound on the updates, edits, changes of the device's own
                    \* settings, failing calls and deaths, all together

ASSUME StoreAssumption == MaxEvents \in Nat

VARIABLES events,     \* so far
          latest,     \* history: per key, the edit that a person or a save left in
                      \* the file last
          overlap,    \* history: an update ran during a reload
          hidden,     \* history: an edit came between a reading or a save of the
                      \* file and the question for its time, and was not read since
          overwrote,  \* history: a save overwrote an edit that was not read
          kept,       \* history: an empty object of overrides kept the old ones
          unsaved,    \* history: a save made no backup, or one of a text that does
                      \* not parse, or could not open the file
          torn,       \* history: a death or a failing call cut the writing of a
                      \* file short
          mangled,    \* history: a person left a file that does not parse
          unopened,   \* history: a file could not be opened
          again       \* history: InitConfigFile was called a second time

reasons == <<torn, mangled, unopened, again>>
history == <<latest, overlap, hidden, overwrote, kept, unsaved, reasons>>
vars == <<configVars, localVars, events, history>>

Init ==
    /\ ConfigInit /\ LocalInit
    /\ events = 0
    /\ latest = Fresh
    /\ overlap = FALSE /\ hidden = FALSE /\ overwrote = FALSE /\ kept = FALSE
    /\ unsaved = FALSE /\ torn = FALSE /\ mangled = FALSE /\ unopened = FALSE /\ again = FALSE

---------------------------------------------------------------------------
Event == events < MaxEvents /\ events' = events + 1
Number == events + 1
Overlaps == overlap' = (overlap \/ (main' # "idle" /\ rx' # "idle"))
StepOnly == UNCHANGED <<localVars, events>> /\ Overlaps

Start ==
    /\ InitRead /\ UNCHANGED localVars
    /\ hidden' = FALSE /\ kept' = FALSE
    /\ UNCHANGED <<events, latest, overlap, overwrote, unsaved, reasons>>

\* The application layers the device's settings over the published ones, at
\* the start and when it likes.
Override ==
    /\ process = "up" /\ main \in {"override", "idle"}
    /\ ApplyOverrides(local)
    /\ main' = "idle"
    /\ kept' = (kept \/ (local = {} /\ \E k \in Keys : config[k] = Local))
    /\ UNCHANGED <<file, mtime, backup, process, rx, contents, base, lastTime, pending, edit>>
    /\ UNCHANGED <<localVars, events, latest, hidden, overwrote, unsaved, reasons>>
    /\ overlap' = (overlap \/ rx # "idle")

AppReads ==
    \/ /\ ReloadRead
       /\ hidden' = FALSE
       /\ StepOnly
       /\ UNCHANGED <<latest, overwrote, kept, unsaved, reasons>>
    \/ /\ ReloadParse
       /\ IF contents.whole THEN UNCHANGED localVars ELSE LocalEnds
       /\ kept' = FALSE
       /\ UNCHANGED events /\ Overlaps
       /\ UNCHANGED <<latest, hidden, overwrote, unsaved, reasons>>
    \/ /\ InitTime \/ Poll \/ ReloadBase \/ ReloadLayer \/ ReloadTime
       /\ StepOnly
       /\ UNCHANGED <<latest, hidden, overwrote, kept, unsaved, reasons>>

AppLocal ==
    /\ \/ /\ LocalRead
          /\ again' = (again \/ main = "idle")
          /\ UNCHANGED events
       \/ /\ Event
          /\ \/ \E k \in Overridable : LocalAdd(k) \/ LocalRemove(k)
             \/ \E keys \in {local, {}} : LocalTruncate(keys)
          /\ UNCHANGED again
       \/ /\ LocalCreate \/ LocalCreated \/ LocalWrite
          /\ UNCHANGED <<again, events>>
    /\ Overlaps
    /\ UNCHANGED <<latest, hidden, overwrote, kept, unsaved, torn, mangled, unopened>>

Update ==
    /\ Event
    /\ \/ \E k \in Keys : Receive(k, Number)
       \/ ReceiveInvalid
    /\ Overlaps
    /\ UNCHANGED <<localVars, latest, hidden, overwrote, kept, unsaved, reasons>>

Save ==
    \/ /\ UpdateRuntime \/ UpdateBase \/ SaveTime
       /\ StepOnly
       /\ UNCHANGED <<latest, hidden, overwrote, kept, unsaved, reasons>>
    \/ /\ SaveBackup
       /\ unsaved' = (unsaved \/ ~file.whole)
       /\ StepOnly
       /\ UNCHANGED <<latest, hidden, overwrote, kept, reasons>>
    \/ /\ SaveTruncate
       /\ overwrote' = (overwrote \/ mtime # lastTime \/ hidden)
       /\ StepOnly
       /\ UNCHANGED <<latest, hidden, kept, unsaved, reasons>>
    \/ /\ SaveWrite
       /\ latest' = [latest EXCEPT ![edit.key] = edit.number]
       /\ StepOnly
       /\ UNCHANGED <<hidden, overwrote, kept, unsaved, reasons>>

\* A copy or a write that fails is not noticed, or not acted upon.
SaveFails ==
    /\ SaveCopyFails \/ SaveOpenFails
    /\ Event
    /\ unsaved' = TRUE
    /\ UNCHANGED <<localVars, latest, overlap, hidden, overwrote, kept, reasons>>

WriteFails ==
    /\ \/ SaveWriteFails /\ UNCHANGED localVars
       \/ LocalWriteFails
    /\ Event
    /\ torn' = TRUE
    /\ UNCHANGED <<latest, overlap, hidden, overwrote, kept, unsaved, mangled, unopened, again>>

OpenFails ==
    /\ InitOpenFails \/ ReloadOpenFails \/ LocalOpenFails
    /\ LocalEnds
    /\ Event
    /\ unopened' = TRUE
    /\ UNCHANGED <<latest, overlap, hidden, overwrote, kept, unsaved, torn, mangled, again>>

\* An edit that comes after the file was read or saved and before its time is
\* asked for, or that a save is about to overwrite.
EditMeetsSave ==
    /\ hidden' = (hidden \/ (process = "up" /\ (main \in {"boot", "parse", "base", "layer", "reloadTime"} \/ rx = "time")))
    /\ overwrote' = (overwrote \/ Receiving("truncate"))

\* What a person leaves in the file is what counts.
Edit ==
    /\ Event
    /\ \/ (\E k \in Keys : EditFile(k, Number)) /\ UNCHANGED mangled
       \/ MangleFile /\ mangled' = TRUE
    /\ latest' = file'.doc
    /\ EditMeetsSave
    /\ UNCHANGED <<localVars, overlap, kept, unsaved, torn, unopened, again>>

EditLocal ==
    /\ Event
    /\ EditLocalFile
    /\ mangled' = (mangled \/ ~localFile'.whole)
    /\ UNCHANGED <<latest, overlap, hidden, overwrote, kept, unsaved, torn, unopened, again>>

Death ==
    /\ Die /\ LocalEnds
    /\ Event
    /\ torn' = (torn \/ ~file.whole \/ (localFile.exists /\ ~localFile.whole))
    /\ UNCHANGED <<latest, overlap, hidden, overwrote, kept, unsaved, mangled, unopened, again>>

Next ==
    \/ Start \/ Override \/ AppReads \/ AppLocal
    \/ Update \/ Save
    \/ SaveFails \/ WriteFails \/ OpenFails
    \/ Edit \/ EditLocal \/ Death

Spec == Init /\ [][Next]_vars

\* Both threads are scheduled and the application polls regularly; it has a
\* reason to start the process again, to call for updates and edits it has none.
AppRuns ==
    \/ Start \/ AppReads
    \/ main = "override" /\ Override
    \/ main # "idle" /\ AppLocal

Fairness == WF_vars(AppRuns) /\ WF_vars(Save)

FairSpec == Spec /\ Fairness

---------------------------------------------------------------------------
TypeOK ==
    /\ ConfigTypeOK /\ LocalTypeOK
    /\ events \in Nat
    /\ latest \in Published
    /\ \A h \in {overlap, hidden, overwrote, kept, unsaved, torn, mangled, unopened, again} : h \in BOOLEAN

\* The value of a local override never gets into the published file or its
\* backup, whatever the two threads do at the same time ("so that
\* saveConfigFile() never leaks local overrides into the published file").
NeverLeaks == \A k \in Keys : Local \notin {file.doc[k], backup.doc[k]}

Settled ==
    /\ process = "up" /\ main = "idle" /\ rx = "idle"
    /\ ~pending /\ lastTime = mtime

\* When the application has nothing left to poll, the base is the published
\* file and the runtime configuration is that with the overrides on top -
\* unless an update ran during a reload, an edit was hidden from the poll or
\* an empty object of overrides kept the old ones in force.
SettledIsCurrent ==
    Settled /\ ~overlap /\ ~hidden =>
        /\ file.whole /\ base = file.doc
        /\ ~kept => config = Layer(file.doc, overrides)

\* No edit that reached the published file is taken back by a later save, as
\* long as no update ran during a reload and no save overwrote an edit that
\* had not been read.
NoEditUndone ==
    ~overlap /\ ~overwrote /\ file.whole => \A k \in Keys : file.doc[k] >= latest[k]

\* A module ends itself, or cannot be started, only when the writing of one of
\* the two files was cut short, by a death or by a write that failed unnoticed;
\* when a person left one that does not parse; when one could not be opened;
\* when a reload met an update; or when InitConfigFile was called a second time.
\* Updates, saves and reloads that keep apart never end it.
FailsForAReason == process = "failed" => torn \/ mangled \/ unopened \/ overlap \/ again

\* A published file that a death or a failing write left torn can be put back:
\* its backup has every edit the file had - unless a save made none, or copied
\* a file that did not parse any more, or a person did the damage.
TearRecoverable ==
    ~file.whole /\ ~mangled /\ ~unsaved /\ ~overwrote /\ ~overlap =>
        backup.whole /\ \A k \in Keys : backup.doc[k] >= latest[k]

\* The runtime configuration has what edits and saves left in the file last, or
\* a newer update, or the device's own value.
HasTheLatest ==
    /\ file.whole
    /\ \A k \in Keys : (k \in overrides /\ config[k] = Local)
                         \/ (k \notin overrides /\ config[k] # Local /\ config[k] >= latest[k])

\* A module that stays up comes to rest with everything polled, whatever
\* changed the file: one change does not make it reload for ever.  And then it
\* runs on what edits and saves left in the file last, unless an update ran
\* during a reload, an edit was hidden from the poll or overwritten by a save
\* before it was read, or old overrides were kept.  An update whose file could
\* not be opened never was in the file: the next reload takes it back.
Settles ==
    <>[](process = "up") =>
        <>[](Settled /\ (overlap \/ hidden \/ overwrote \/ kept \/ HasTheLatest))
=============================================================================
