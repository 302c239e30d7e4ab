---------------------------- MODULE CameraRegistry ----------------------------
(***************************************************************************)
(* The camera registry file of src/helpers/camera_registry.hpp: calibration *)
(* tools call cameraRegistryUpdateEntry, which reads the file, changes one  *)
(* entry, writes <path>.new, syncs it, moves the old file to a backup and   *)
(* renames the new one into place.  Processes crash between any two of     *)
(* these system calls, the machine loses power, calls on the disk fail.     *)
(*                                                                         *)
(* The file system is a set of inodes and the names that lead to them: a   *)
(* writer that opened <path>.new keeps writing to that inode after another *)
(* process has renamed it.  A document is the version of each camera's     *)
(* entry, 0 when it has none.  An inode that was truncated and not yet     *)
(* written again is not whole: no reader can parse it.  The document goes  *)
(* out in one write, as the stream passes on a string it is flushed with.  *)
(* The file system puts names on the disk when it likes, in order: a power *)
(* loss takes the names back to the last commit, and tears what was not    *)
(* synced.                                                                 *)
(***************************************************************************)
EXTENDS Naturals, FiniteSets

CONSTANTS Writers,      \* processes that update the registry
          Cams,         \* camera ids
          Inodes, None, \* files, and no file
          MaxUpdates,   \* bound on the updates that are begun
          MaxFaults     \* bound on crashes, power losses and failed calls

ASSUME NoneAssumption == None \notin Inodes
ASSUME BoundAssumption == MaxUpdates \in Nat /\ MaxFaults \in Nat

VARIABLES content,  \* what an inode holds: [whole, doc]
          synced,   \* inodes whose content is on the disk
          live,     \* the inode <path> leads to
          tmp,      \* the inode <path>.new leads to
          backups,  \* inodes that <path>.<time>.bak names lead to
          disk,     \* the three of them as the disk has them
          pc, fd,   \* per writer: the next call, the file it has open
          doc, cam, \* per writer: the document it writes, the camera it sets
          alone,    \* history, per writer: no other update ran during this one
          updates, faults,
          acked,    \* history: last version of a camera whose update returned true
          overlap,  \* history: two updates ran at the same time
          gap,      \* history: an update ended while <path> led nowhere
          undone,   \* history: a power loss took names back
          unsynced, \* history: files whose failing sync was ignored
          spoiled   \* history: a power loss tore one of those

files == <<content, synced, live, tmp, backups, disk>>
threads == <<pc, fd, doc, cam, alone>>
vars == <<files, threads, updates, faults, acked, overlap, gap, undone, unsynced, spoiled>>

Docs == [Cams -> Nat]
NoEntries == [c \in Cams |-> 0]
MaybeInode == Inodes \union {None}
Calls == {"idle", "open", "write", "sync", "check", "backup", "publish"}

TypeOK ==
    /\ content \in [Inodes -> [whole : BOOLEAN, doc : Docs]]
    /\ synced \in SUBSET Inodes
    /\ live \in MaybeInode
    /\ tmp \in MaybeInode
    /\ backups \in SUBSET Inodes
    /\ disk \in [live : MaybeInode, tmp : MaybeInode, backups : SUBSET Inodes]
    /\ pc \in [Writers -> Calls]
    /\ fd \in [Writers -> MaybeInode]
    /\ doc \in [Writers -> Docs]
    /\ cam \in [Writers -> Cams]
    /\ alone \in [Writers -> BOOLEAN]
    /\ updates \in Nat
    /\ faults \in Nat
    /\ acked \in Docs
    /\ overlap \in BOOLEAN
    /\ gap \in BOOLEAN
    /\ undone \in BOOLEAN
    /\ unsynced \in SUBSET Inodes
    /\ spoiled \in BOOLEAN

Init ==
    /\ content = [i \in Inodes |-> [whole |-> FALSE, doc |-> NoEntries]]
    /\ synced = {}
    /\ live = None
    /\ tmp = None
    /\ backups = {}
    /\ disk = [live |-> None, tmp |-> None, backups |-> {}]
    /\ pc = [w \in Writers |-> "idle"]
    /\ fd = [w \in Writers |-> None]
    /\ doc = [w \in Writers |-> NoEntries]
    /\ cam \in [Writers -> Cams]
    /\ alone = [w \in Writers |-> FALSE]
    /\ updates = 0
    /\ faults = 0
    /\ acked = NoEntries
    /\ overlap = FALSE
    /\ gap = FALSE
    /\ undone = FALSE
    /\ unsynced = {}
    /\ spoiled = FALSE

---------------------------------------------------------------------------
\* Mutant: A new document starts from an empty object: the other cameras are dropped.
ParsedNothing == NoEntries

\* What a process that opens <path> and parses it gets; nothing when the file
\* is missing or does not parse.
Parsed == IF live # None /\ content[live].whole THEN content[live].doc ELSE NoEntries

Goto(w, call) == pc' = [pc EXCEPT ![w] = call]
Torn(S) == [i \in Inodes |-> IF i \in S THEN [content[i] EXCEPT !.whole = FALSE] ELSE content[i]]
Used == {live, tmp} \union backups \union {fd[v] : v \in Writers}
            \union {disk.live, disk.tmp} \union disk.backups
Names == [live |-> live, tmp |-> tmp, backups |-> backups]
InGap(w) == pc[w] = "publish" /\ live = None
Fault == faults < MaxFaults /\ faults' = faults + 1

\* The old document is read and the entry of one camera set in it.
ReadOld(w, c) ==
    /\ pc[w] = "idle"
    /\ updates < MaxUpdates
    /\ updates' = updates + 1
    /\ cam' = [cam EXCEPT ![w] = c]
    /\ doc' = [doc EXCEPT ![w] = [Parsed EXCEPT ![c] = updates + 1]]
    /\ Goto(w, "open")
    /\ LET others == \E v \in Writers : pc[v] # "idle"
       IN  /\ overlap' = (overlap \/ others)
           /\ alone' = [v \in Writers |-> IF v = w THEN ~others ELSE FALSE]
    /\ UNCHANGED <<files, fd, faults, acked, gap, undone, unsynced, spoiled>>

\* std::ofstream(tmp_path, trunc): a file of that name is truncated, whoever
\* is writing to it.
OpenTmp(w) ==
    /\ pc[w] = "open"
    /\ \E i \in Inodes :
          /\ IF tmp = None
             THEN i \notin Used
             ELSE i = tmp
          /\ fd' = [fd EXCEPT ![w] = i]
          /\ tmp' = i
          /\ content' = Torn({i})
          /\ synced' = synced \ {i}
          /\ unsynced' = unsynced \ {i}
    /\ Goto(w, "write")
    /\ UNCHANGED <<live, backups, disk, doc, cam, alone, updates, faults, acked, overlap, gap, undone, spoiled>>

\* The document is written and the stream closed.
WriteTmp(w) ==
    /\ pc[w] = "write"
    /\ content' = [content EXCEPT ![fd[w]] = [whole |-> TRUE, doc |-> doc[w]]]
    /\ synced' = synced \ {fd[w]}
    /\ fd' = [fd EXCEPT ![w] = None]
    /\ Goto(w, "sync")
    /\ UNCHANGED <<live, tmp, backups, disk, doc, cam, alone, updates, faults, acked, overlap, gap, undone, unsynced, spoiled>>

\* Mutant: out.fail() is not tested after the write.
WriteFailsUnchecked(w) ==
    /\ pc[w] = "write"
    /\ Fault
    /\ fd' = [fd EXCEPT ![w] = None]
    /\ Goto(w, "sync")
    /\ UNCHANGED <<files, doc, cam, alone, updates, acked, overlap, gap, undone, unsynced, spoiled>>

\* The stream cannot be opened or written: the update returns false.
WriteFails(w) ==
    /\ pc[w] \in {"open", "write"}
    /\ Fault
    /\ fd' = [fd EXCEPT ![w] = None]
    /\ Goto(w, "idle")
    /\ UNCHANGED <<files, doc, cam, alone, updates, acked, overlap, gap, undone, unsynced, spoiled>>

\* Mutant: The temporary file is not synced before it is renamed.
SyncTmpSkipped(w) ==
    /\ pc[w] = "sync"
    /\ Goto(w, "check")
    /\ UNCHANGED <<files, fd, doc, cam, alone, updates, faults, acked, overlap, gap, undone, unsynced, spoiled>>

\* fopen and fsync of whatever file has the name <path>.new by now.
SyncTmp(w) ==
    /\ pc[w] = "sync"
    /\ synced' = synced \union ({tmp} \ {None})
    /\ Goto(w, "check")
    /\ UNCHANGED <<content, live, tmp, backups, disk, fd, doc, cam, alone, updates, faults, acked, overlap, gap, undone, unsynced, spoiled>>

\* fopen or fsync fails: the code does not look at what they return.
SyncFails(w) ==
    /\ pc[w] = "sync"
    /\ Fault
    /\ unsynced' = unsynced \union ({tmp} \ {None})
    /\ Goto(w, "check")
    /\ UNCHANGED <<files, fd, doc, cam, alone, updates, acked, overlap, gap, undone, spoiled>>

\* access(path): is there a file to back up?
CheckLive(w) ==
    /\ pc[w] = "check"
    /\ Goto(w, IF live # None THEN "backup" ELSE "publish")
    /\ UNCHANGED <<files, fd, doc, cam, alone, updates, faults, acked, overlap, gap, undone, unsynced, spoiled>>

\* Mutant: The old file is removed where it should be kept as a backup.
BackupRemoves(w) ==
    /\ pc[w] = "backup"
    /\ live' = None
    /\ Goto(w, "publish")
    /\ UNCHANGED <<content, synced, tmp, backups, disk, fd, doc, cam, alone, updates, faults, acked, overlap, gap, undone, unsynced, spoiled>>

\* Mutant: A backup is recorded though the file was gone by the time of the rename.
BackupUnchecked(w) ==
    /\ pc[w] = "backup"
    /\ backups' = backups \union {live}
    /\ live' = None
    /\ Goto(w, "publish")
    /\ UNCHANGED <<content, synced, tmp, disk, fd, doc, cam, alone, updates, faults, acked, overlap, gap, undone, unsynced, spoiled>>

\* rename(path, bak).
Backup(w) ==
    /\ pc[w] = "backup"
    /\ backups' = backups \union ({live} \ {None})
    /\ live' = None
    /\ Goto(w, "publish")
    /\ UNCHANGED <<content, synced, tmp, disk, fd, doc, cam, alone, updates, faults, acked, overlap, gap, undone, unsynced, spoiled>>

\* The rename to the backup fails, nothing is said, and the old file is
\* replaced without a backup.
BackupFails(w) ==
    /\ pc[w] = "backup"
    /\ Fault
    /\ Goto(w, "publish")
    /\ UNCHANGED <<files, fd, doc, cam, alone, updates, acked, overlap, gap, undone, unsynced, spoiled>>

\* rename(tmp, path): what has the name <path>.new is the registry now.
Publish(w) ==
    /\ pc[w] = "publish"
    /\ tmp # None
    /\ live' = tmp
    /\ tmp' = None
    /\ acked' = [acked EXCEPT ![cam[w]] = doc[w][cam[w]]]
    /\ Goto(w, "idle")
    /\ UNCHANGED <<content, synced, backups, disk, fd, doc, cam, alone, updates, faults, overlap, gap, undone, unsynced, spoiled>>

\* The rename fails, or another writer has renamed the file away: the update
\* returns false.  What was at <path> has gone to the backup already.
PublishFails(w) ==
    /\ pc[w] = "publish"
    /\ Fault \/ (tmp = None /\ UNCHANGED faults)
    /\ gap' = (gap \/ InGap(w))
    /\ Goto(w, "idle")
    /\ UNCHANGED <<files, fd, doc, cam, alone, updates, acked, overlap, undone, unsynced, spoiled>>

\* A process dies between two calls; it may be started again.
Crash(w) ==
    /\ pc[w] # "idle"
    /\ Fault
    /\ gap' = (gap \/ InGap(w))
    /\ fd' = [fd EXCEPT ![w] = None]
    /\ Goto(w, "idle")
    /\ UNCHANGED <<files, doc, cam, alone, updates, acked, overlap, undone, unsynced, spoiled>>

\* The names reach the disk.
Commit ==
    /\ disk # Names
    /\ disk' = Names
    /\ UNCHANGED <<content, synced, live, tmp, backups, threads, updates, faults, acked, overlap, gap, undone, unsynced, spoiled>>

\* All processes die; names go back to what the disk has and content that was
\* not synced may be lost.
PowerLoss ==
    /\ Fault
    /\ \E S \in SUBSET (Inodes \ synced) :
          /\ content' = Torn(S)
          /\ spoiled' = (spoiled \/ S \intersect unsynced # {})
    /\ live' = disk.live
    /\ tmp' = disk.tmp
    /\ backups' = disk.backups
    /\ fd' = [w \in Writers |-> None]
    /\ pc' = [w \in Writers |-> "idle"]
    /\ gap' = (gap \/ live' = None)
    /\ undone' = (undone \/ disk # Names)
    /\ UNCHANGED <<synced, disk, doc, cam, alone, updates, acked, overlap, unsynced>>

Next ==
    \/ \E w \in Writers :
          \/ \E c \in Cams : ReadOld(w, c)
          \/ OpenTmp(w) \/ WriteTmp(w) \/ WriteFails(w) \/ SyncTmp(w) \/ SyncFails(w)
          \/ CheckLive(w) \/ Backup(w) \/ BackupFails(w) \/ Publish(w) \/ PublishFails(w) \/ Crash(w)
    \/ Commit \/ PowerLoss

Spec == Init /\ [][Next]_vars

---------------------------------------------------------------------------
(* Properties.  Updates that run at the same time keep no promise: a writer *)
(* truncates the file another one is about to publish, reads a document the *)
(* other is replacing, and moves away what the other has just published.    *)
(* A failing sync is not noticed: no promise outlives a power loss that     *)
(* tears a file published that way.                                         *)

Serial == ~overlap

\* An update that ran alone publishes the document it composed, whole, and on
\* the disk unless its sync failed - also when updates that overlapped, calls
\* that failed or processes that died left a torn registry, a half-written
\* <path>.new or no file behind.
LoneUpdatePublishes ==
    \A w \in Writers :
        alone[w] /\ pc[w] = "publish" =>
            /\ tmp # None
            /\ content[tmp] = [whole |-> TRUE, doc |-> doc[w]]
            /\ tmp \in synced \union unsynced

\* The registry is never a partial file: as long as updates do not overlap,
\* what <path> leads to can be parsed, after any crash, power loss, failed
\* write or failed rename ("so a crash after rename doesn't leave a partial
\* file").  The one exception is a file whose failing sync was ignored and
\* that a power loss then tore.
NeverTorn == Serial /\ ~spoiled /\ live # None => content[live].whole

Has(i, c) == content[i].whole /\ content[i].doc[c] = acked[c]

\* An entry whose update returned true stays in the registry with the version
\* of its last such update, whatever happens to later updates of it and of
\* other cameras; while a writer is between the two renames, its document
\* carries every entry it does not set.  Excepted are updates that overlap, an
\* update that ends between the two renames - its process dies or the second
\* rename fails, with the registry moved away to the backup -, renames a power
\* loss takes back, and a torn file whose failing sync was ignored.
OthersSurvive ==
    Serial /\ ~gap /\ ~undone /\ ~spoiled =>
        \A c \in Cams : acked[c] # 0 =>
            IF live # None
            THEN Has(live, c)
            ELSE \E w \in Writers : /\ pc[w] = "publish"
                                   /\ c # cam[w] => doc[w][c] = acked[c]

\* Nothing an update acknowledged is gone for good, even after a writer ended
\* between the renames, died there or had the second one fail, and the next one
\* started from an empty registry, and even when a registry was replaced
\* without the backup: the registry or a backup holds the entry.
Recoverable ==
    Serial /\ ~undone /\ ~spoiled =>
        \A c \in Cams : acked[c] # 0 => \E i \in backups \union ({live} \ {None}) : Has(i, c)

=============================================================================
