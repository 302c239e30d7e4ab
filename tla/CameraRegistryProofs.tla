------------------------- MODULE CameraRegistryProofs -------------------------
(***************************************************************************)
(* Proofs that updates which run alone publish whole documents, that a      *)
(* registry written by such updates is never torn, keeps every entry it    *)
(* acknowledged and can be recovered after any crash or failing call, as   *)
(* far as no power loss tears a file whose failing sync was ignored - for  *)
(* any number of writers, cameras, files, updates and faults.              *)
(***************************************************************************)
EXTENDS CameraRegistry, TLAPS

Named == ({live} \union backups \union {disk.live} \union disk.backups) \ {None}

\* <path>.new is a file of its own, and a writer has it open while it writes.
Apart ==
    /\ tmp # None => tmp \notin Named
    /\ disk.tmp # None => disk.tmp \notin ({disk.live} \union disk.backups)
    /\ \A w \in Writers : pc[w] = "write" => fd[w] \in Inodes

\* What an update that runs alone has achieved so far.
Lone ==
    \A w \in Writers : alone[w] /\ pc[w] # "idle" =>
        /\ \A v \in Writers : v # w => pc[v] = "idle"
        /\ pc[w] = "write" => fd[w] = tmp
        /\ pc[w] \in {"sync", "check", "backup", "publish"} =>
              tmp # None /\ content[tmp] = [whole |-> TRUE, doc |-> doc[w]]
        /\ pc[w] \in {"check", "backup", "publish"} => tmp \in synced \union unsynced

SerialAlone == Serial => \A w \in Writers : pc[w] # "idle" => alone[w]

Solid == Serial /\ ~spoiled => \A i \in Named : content[i].whole /\ i \in synced \union unsynced

\* The document of an update carries every entry of the registry it replaces.
Carries ==
    Serial /\ ~spoiled =>
        \A w \in Writers, c \in Cams :
            pc[w] # "idle" /\ live # None /\ c # cam[w] => doc[w][c] = content[live].doc[c]

Kept ==
    Serial /\ ~undone /\ ~spoiled =>
        \A c \in Cams : acked[c] # 0 =>
            \E i \in backups \union ({live} \ {None}) : content[i].doc[c] = acked[c]

Current ==
    Serial /\ ~gap /\ ~undone /\ ~spoiled =>
        /\ \A c \in Cams : acked[c] # 0 =>
              \/ live # None /\ content[live].doc[c] = acked[c]
              \/ live = None /\ \E w \in Writers : pc[w] = "publish"
        /\ \A w \in Writers, c \in Cams :
              pc[w] # "idle" /\ c # cam[w] /\ acked[c] # 0 => doc[w][c] = acked[c]

IInv == TypeOK /\ Apart /\ Lone /\ SerialAlone /\ Solid /\ Carries /\ Kept /\ Current

USE NoneAssumption, BoundAssumption

-----------------------------------------------------------------------------
(* Types. *)

LEMMA TornTypes ==
    ASSUME TypeOK, NEW S
    PROVE  /\ Torn(S) \in [Inodes -> [whole : BOOLEAN, doc : Docs]]
           /\ \A i \in Inodes : Torn(S)[i].doc = content[i].doc
           /\ \A i \in Inodes : i \notin S => Torn(S)[i] = content[i]
BY ZenonT(60) DEF TypeOK, Torn

LEMMA ParsedTypes == TypeOK => Parsed \in Docs
BY DEF TypeOK, Parsed, Docs, NoEntries, MaybeInode

LEMMA InitTypes == Init => TypeOK
<1> SUFFICES ASSUME Init PROVE TypeOK
  OBVIOUS
<1>1. NoEntries \in Docs
  BY DEF NoEntries, Docs
<1>2. content \in [Inodes -> [whole : BOOLEAN, doc : Docs]]
  BY <1>1 DEF Init
<1>3. disk \in [live : MaybeInode, tmp : MaybeInode, backups : SUBSET Inodes]
  BY DEF Init, MaybeInode
<1>4. /\ fd \in [Writers -> MaybeInode] /\ doc \in [Writers -> Docs]
      /\ pc \in [Writers -> Calls] /\ alone \in [Writers -> BOOLEAN]
  BY <1>1 DEF Init, MaybeInode, Calls
<1> QED BY <1>1, <1>2, <1>3, <1>4 DEF Init, TypeOK, MaybeInode

LEMMA TypeStep ==
    ASSUME TypeOK, [Next]_vars
    PROVE  TypeOK'
<1> USE DEF MaybeInode, Calls, files, threads, Goto, Fault, Names
<1>1. ASSUME NEW w \in Writers, NEW c \in Cams, ReadOld(w, c) PROVE TypeOK'
  <2>1. doc' \in [Writers -> Docs]
    BY <1>1, ParsedTypes DEF TypeOK, ReadOld, Docs
  <2>2. alone' \in [Writers -> BOOLEAN] /\ overlap' \in BOOLEAN
    BY <1>1 DEF TypeOK, ReadOld
  <2>3. pc' \in [Writers -> Calls] /\ cam' \in [Writers -> Cams] /\ updates' \in Nat
    BY <1>1 DEF TypeOK, ReadOld
  <2> QED BY <1>1, <2>1, <2>2, <2>3 DEF TypeOK, ReadOld
<1>2. ASSUME NEW w \in Writers, OpenTmp(w) PROVE TypeOK'
  BY <1>2, TornTypes DEF TypeOK, OpenTmp
<1>3. ASSUME NEW w \in Writers, WriteTmp(w) PROVE TypeOK'
  BY <1>3 DEF TypeOK, WriteTmp
<1>4. ASSUME NEW w \in Writers, WriteFails(w) PROVE TypeOK'
  BY <1>4 DEF TypeOK, WriteFails
<1>5. ASSUME NEW w \in Writers, SyncTmp(w) PROVE TypeOK'
  BY <1>5 DEF TypeOK, SyncTmp
<1>5a. ASSUME NEW w \in Writers, SyncFails(w) PROVE TypeOK'
  BY <1>5a DEF TypeOK, SyncFails
<1>6. ASSUME NEW w \in Writers, CheckLive(w) PROVE TypeOK'
  BY <1>6 DEF TypeOK, CheckLive
<1>7. ASSUME NEW w \in Writers, Backup(w) PROVE TypeOK'
  BY <1>7 DEF TypeOK, Backup
<1>7a. ASSUME NEW w \in Writers, BackupFails(w) PROVE TypeOK'
  BY <1>7a DEF TypeOK, BackupFails
<1>8. ASSUME NEW w \in Writers, Publish(w) PROVE TypeOK'
  BY <1>8 DEF TypeOK, Publish, Docs
<1>9. ASSUME NEW w \in Writers, PublishFails(w) PROVE TypeOK'
  BY <1>9 DEF TypeOK, PublishFails
<1>10. ASSUME NEW w \in Writers, Crash(w) PROVE TypeOK'
  BY <1>10 DEF TypeOK, Crash
<1>11. ASSUME Commit PROVE TypeOK'
  BY <1>11 DEF TypeOK, Commit
<1>12. ASSUME PowerLoss PROVE TypeOK'
  BY <1>12, TornTypes DEF TypeOK, PowerLoss
<1>13. CASE UNCHANGED vars
  BY <1>13 DEF TypeOK, vars
<1> QED BY <1>1, <1>2, <1>3, <1>4, <1>5, <1>5a, <1>6, <1>7, <1>7a, <1>8, <1>9, <1>10, <1>11, <1>12, <1>13 DEF Next

-----------------------------------------------------------------------------
(* What is kept by every step. *)

LEMMA ApartStep ==
    ASSUME IInv, [Next]_vars
    PROVE  Apart'
<1> USE DEF files, threads, Goto, Fault, Names, MaybeInode, Apart, Named, Used
<1>0. TypeOK /\ TypeOK'
  BY TypeStep DEF IInv
<1>1. ASSUME NEW w \in Writers, NEW c \in Cams, ReadOld(w, c) PROVE Apart'
  BY <1>1, <1>0 DEF TypeOK, IInv, ReadOld
<1>2. ASSUME NEW w \in Writers, OpenTmp(w) PROVE Apart'
  BY <1>2, <1>0, TornTypes DEF TypeOK, IInv, OpenTmp
<1>3. ASSUME NEW w \in Writers, WriteTmp(w) PROVE Apart'
  BY <1>3, <1>0 DEF TypeOK, IInv, WriteTmp
<1>4. ASSUME NEW w \in Writers, WriteFails(w) PROVE Apart'
  BY <1>4, <1>0 DEF TypeOK, IInv, WriteFails
<1>5. ASSUME NEW w \in Writers, SyncTmp(w) PROVE Apart'
  BY <1>5, <1>0 DEF TypeOK, IInv, SyncTmp
<1>5a. ASSUME NEW w \in Writers, SyncFails(w) PROVE Apart'
  BY <1>5a, <1>0 DEF TypeOK, IInv, SyncFails
<1>6. ASSUME NEW w \in Writers, CheckLive(w) PROVE Apart'
  BY <1>6, <1>0 DEF TypeOK, IInv, CheckLive
<1>7. ASSUME NEW w \in Writers, Backup(w) PROVE Apart'
  BY <1>7, <1>0 DEF TypeOK, IInv, Backup
<1>7a. ASSUME NEW w \in Writers, BackupFails(w) PROVE Apart'
  BY <1>7a, <1>0 DEF TypeOK, IInv, BackupFails
<1>8. ASSUME NEW w \in Writers, Publish(w) PROVE Apart'
  BY <1>8, <1>0 DEF TypeOK, IInv, Publish
<1>9. ASSUME NEW w \in Writers, PublishFails(w) PROVE Apart'
  BY <1>9, <1>0 DEF TypeOK, IInv, PublishFails
<1>10. ASSUME NEW w \in Writers, Crash(w) PROVE Apart'
  BY <1>10, <1>0 DEF TypeOK, IInv, Crash
<1>11. ASSUME Commit PROVE Apart'
  BY <1>11, <1>0 DEF TypeOK, IInv, Commit
<1>12. ASSUME PowerLoss PROVE Apart'
  BY <1>12, <1>0, TornTypes DEF TypeOK, IInv, PowerLoss
<1>13. CASE UNCHANGED vars
  BY <1>13 DEF IInv, vars
<1> QED BY <1>1, <1>2, <1>3, <1>4, <1>5, <1>5a, <1>6, <1>7, <1>7a, <1>8, <1>9, <1>10, <1>11, <1>12, <1>13 DEF Next

LEMMA LoneStep ==
    ASSUME IInv, [Next]_vars
    PROVE  Lone'
<1> USE DEF files, threads, Goto, Fault, Names, MaybeInode, Lone, Apart, Named
<1>0. TypeOK /\ TypeOK'
  BY TypeStep DEF IInv
<1>1. ASSUME NEW w \in Writers, NEW c \in Cams, ReadOld(w, c) PROVE Lone'
  BY <1>1, <1>0 DEF TypeOK, IInv, ReadOld
<1>2. ASSUME NEW w \in Writers, OpenTmp(w) PROVE Lone'
  BY <1>2, <1>0, TornTypes DEF TypeOK, IInv, OpenTmp
<1>3. ASSUME NEW w \in Writers, WriteTmp(w) PROVE Lone'
  <2>1. /\ fd[w] \in Inodes /\ pc' = [pc EXCEPT ![w] = "sync"]
        /\ content'[fd[w]] = [whole |-> TRUE, doc |-> doc[w]]
    BY <1>3, <1>0 DEF TypeOK, IInv, WriteTmp
  <2>2. /\ pc[w] = "write" /\ pc'[w] = "sync"
        /\ \A u \in Writers : u # w => pc'[u] = pc[u]
        /\ UNCHANGED <<alone, tmp, doc, live>>
    BY <1>3, <2>1, <1>0 DEF TypeOK, WriteTmp
  <2>3. ASSUME NEW v \in Writers, alone'[v], pc'[v] # "idle"
        PROVE  v = w /\ \A u \in Writers : u # v => pc'[u] = "idle"
    BY <2>2, <2>3 DEF IInv
  <2>4. alone[w] => fd[w] = tmp
    BY <2>2 DEF IInv
  <2>5. tmp # None => tmp \in Inodes
    BY <1>0 DEF TypeOK
  <2>6. alone[w] => tmp # None /\ content'[tmp] = [whole |-> TRUE, doc |-> doc[w]]
    BY <2>1, <2>4
  <2> QED BY <2>2, <2>3, <2>6
<1>4. ASSUME NEW w \in Writers, WriteFails(w) PROVE Lone'
  BY <1>4, <1>0 DEF TypeOK, IInv, WriteFails
<1>5. ASSUME NEW w \in Writers, SyncTmp(w) PROVE Lone'
  BY <1>5, <1>0 DEF TypeOK, IInv, SyncTmp
<1>5a. ASSUME NEW w \in Writers, SyncFails(w) PROVE Lone'
  BY <1>5a, <1>0 DEF TypeOK, IInv, SyncFails
<1>6. ASSUME NEW w \in Writers, CheckLive(w) PROVE Lone'
  BY <1>6, <1>0 DEF TypeOK, IInv, CheckLive
<1>7. ASSUME NEW w \in Writers, Backup(w) PROVE Lone'
  BY <1>7, <1>0 DEF TypeOK, IInv, Backup
<1>7a. ASSUME NEW w \in Writers, BackupFails(w) PROVE Lone'
  BY <1>7a, <1>0 DEF TypeOK, IInv, BackupFails
<1>8. ASSUME NEW w \in Writers, Publish(w) PROVE Lone'
  BY <1>8, <1>0, ZenonT(60) DEF TypeOK, IInv, Publish
<1>9. ASSUME NEW w \in Writers, PublishFails(w) PROVE Lone'
  BY <1>9, <1>0 DEF TypeOK, IInv, PublishFails
<1>10. ASSUME NEW w \in Writers, Crash(w) PROVE Lone'
  BY <1>10, <1>0 DEF TypeOK, IInv, Crash
<1>11. ASSUME Commit PROVE Lone'
  BY <1>11, <1>0 DEF TypeOK, IInv, Commit
<1>12. ASSUME PowerLoss PROVE Lone'
  BY <1>12, <1>0, TornTypes DEF TypeOK, IInv, PowerLoss
<1>13. CASE UNCHANGED vars
  BY <1>13 DEF IInv, vars
<1> QED BY <1>1, <1>2, <1>3, <1>4, <1>5, <1>5a, <1>6, <1>7, <1>7a, <1>8, <1>9, <1>10, <1>11, <1>12, <1>13 DEF Next

LEMMA AloneStep ==
    ASSUME IInv, [Next]_vars
    PROVE  SerialAlone'
<1> USE DEF files, threads, Goto, Fault, Names, MaybeInode, SerialAlone, Serial
<1>0. TypeOK /\ TypeOK'
  BY TypeStep DEF IInv
<1>1. ASSUME NEW w \in Writers, NEW c \in Cams, ReadOld(w, c) PROVE SerialAlone'
  BY <1>1, <1>0 DEF TypeOK, IInv, ReadOld
<1>2. ASSUME NEW w \in Writers, OpenTmp(w) PROVE SerialAlone'
  BY <1>2, <1>0, TornTypes DEF TypeOK, IInv, OpenTmp
<1>3. ASSUME NEW w \in Writers, WriteTmp(w) PROVE SerialAlone'
  BY <1>3, <1>0 DEF TypeOK, IInv, WriteTmp
<1>4. ASSUME NEW w \in Writers, WriteFails(w) PROVE SerialAlone'
  BY <1>4, <1>0 DEF TypeOK, IInv, WriteFails
<1>5. ASSUME NEW w \in Writers, SyncTmp(w) PROVE SerialAlone'
  BY <1>5, <1>0 DEF TypeOK, IInv, SyncTmp
<1>5a. ASSUME NEW w \in Writers, SyncFails(w) PROVE SerialAlone'
  BY <1>5a, <1>0 DEF TypeOK, IInv, SyncFails
<1>6. ASSUME NEW w \in Writers, CheckLive(w) PROVE SerialAlone'
  BY <1>6, <1>0 DEF TypeOK, IInv, CheckLive
<1>7. ASSUME NEW w \in Writers, Backup(w) PROVE SerialAlone'
  BY <1>7, <1>0 DEF TypeOK, IInv, Backup
<1>7a. ASSUME NEW w \in Writers, BackupFails(w) PROVE SerialAlone'
  BY <1>7a, <1>0 DEF TypeOK, IInv, BackupFails
<1>8. ASSUME NEW w \in Writers, Publish(w) PROVE SerialAlone'
  BY <1>8, <1>0 DEF TypeOK, IInv, Publish
<1>9. ASSUME NEW w \in Writers, PublishFails(w) PROVE SerialAlone'
  BY <1>9, <1>0 DEF TypeOK, IInv, PublishFails
<1>10. ASSUME NEW w \in Writers, Crash(w) PROVE SerialAlone'
  BY <1>10, <1>0 DEF TypeOK, IInv, Crash
<1>11. ASSUME Commit PROVE SerialAlone'
  BY <1>11, <1>0 DEF TypeOK, IInv, Commit
<1>12. ASSUME PowerLoss PROVE SerialAlone'
  BY <1>12, <1>0, TornTypes DEF TypeOK, IInv, PowerLoss
<1>13. CASE UNCHANGED vars
  BY <1>13 DEF IInv, vars
<1> QED BY <1>1, <1>2, <1>3, <1>4, <1>5, <1>5a, <1>6, <1>7, <1>7a, <1>8, <1>9, <1>10, <1>11, <1>12, <1>13 DEF Next

LEMMA SolidStep ==
    ASSUME IInv, [Next]_vars
    PROVE  Solid'
<1> USE DEF files, threads, Goto, Fault, Names, MaybeInode, Solid, Serial, SerialAlone, Lone, Apart, Named
<1>0. TypeOK /\ TypeOK'
  BY TypeStep DEF IInv
<1>1. ASSUME NEW w \in Writers, NEW c \in Cams, ReadOld(w, c) PROVE Solid'
  BY <1>1, <1>0 DEF TypeOK, IInv, ReadOld
<1>2. ASSUME NEW w \in Writers, OpenTmp(w) PROVE Solid'
  <2>1. PICK i \in Inodes : /\ i \notin Named
                             /\ content' = Torn({i})
                             /\ synced' = synced \ {i} /\ unsynced' = unsynced \ {i}
    <3>1. PICK i \in Inodes : /\ (i = tmp \/ i \notin Used)
                               /\ content' = Torn({i})
                               /\ synced' = synced \ {i} /\ unsynced' = unsynced \ {i}
      BY <1>2 DEF OpenTmp
    <3>2. i \notin Named
      BY <3>1 DEF IInv, Used
    <3> QED BY <3>1, <3>2
  <2>2. \A j \in Inodes : j # i => content'[j] = content[j]
    BY <2>1, <1>0, TornTypes
  <2>3. Named' = Named /\ UNCHANGED <<overlap, spoiled>>
    BY <1>2 DEF OpenTmp
  <2>4. Named \subseteq Inodes
    BY <1>0 DEF TypeOK
  <2>5. ASSUME Serial, ~spoiled, NEW j \in Named
        PROVE  content'[j].whole /\ j \in synced' \union unsynced'
    <3>1. content[j].whole /\ j \in synced \union unsynced
      BY <2>5 DEF IInv
    <3>2. j # i /\ j \in Inodes
      BY <2>1, <2>4, <2>5
    <3> QED BY <2>1, <2>2, <3>1, <3>2
  <2> QED BY <2>3, <2>5
<1>3. ASSUME NEW w \in Writers, WriteTmp(w) PROVE Solid'
  BY <1>3, <1>0 DEF TypeOK, IInv, WriteTmp
<1>4. ASSUME NEW w \in Writers, WriteFails(w) PROVE Solid'
  BY <1>4, <1>0 DEF TypeOK, IInv, WriteFails
<1>5. ASSUME NEW w \in Writers, SyncTmp(w) PROVE Solid'
  BY <1>5, <1>0 DEF TypeOK, IInv, SyncTmp
<1>5a. ASSUME NEW w \in Writers, SyncFails(w) PROVE Solid'
  BY <1>5a, <1>0 DEF TypeOK, IInv, SyncFails
<1>6. ASSUME NEW w \in Writers, CheckLive(w) PROVE Solid'
  BY <1>6, <1>0 DEF TypeOK, IInv, CheckLive
<1>7. ASSUME NEW w \in Writers, Backup(w) PROVE Solid'
  BY <1>7, <1>0 DEF TypeOK, IInv, Backup
<1>7a. ASSUME NEW w \in Writers, BackupFails(w) PROVE Solid'
  BY <1>7a, <1>0 DEF TypeOK, IInv, BackupFails
<1>8. ASSUME NEW w \in Writers, Publish(w) PROVE Solid'
  <2>1. SUFFICES ASSUME Serial', ~spoiled'
        PROVE  \A i \in Named' : content'[i].whole /\ i \in synced' \union unsynced'
    OBVIOUS
  <2>2. Serial /\ pc[w] = "publish" /\ alone[w]
    BY <1>8, <2>1 DEF IInv, Publish
  <2>3. content[tmp].whole /\ tmp \in synced \union unsynced
    <3>1. content[tmp] = [whole |-> TRUE, doc |-> doc[w]] /\ tmp \in synced \union unsynced
      BY <2>2 DEF IInv
    <3> QED BY <3>1
  <2>4. Named' \subseteq Named \union {tmp}
    BY <1>8 DEF Publish
  <2> QED BY <1>8, <2>1, <2>3, <2>4 DEF IInv, Publish
<1>9. ASSUME NEW w \in Writers, PublishFails(w) PROVE Solid'
  BY <1>9, <1>0 DEF TypeOK, IInv, PublishFails
<1>10. ASSUME NEW w \in Writers, Crash(w) PROVE Solid'
  BY <1>10, <1>0 DEF TypeOK, IInv, Crash
<1>11. ASSUME Commit PROVE Solid'
  BY <1>11, <1>0 DEF TypeOK, IInv, Commit
<1>12. ASSUME PowerLoss PROVE Solid'
  BY <1>12, <1>0, TornTypes DEF TypeOK, IInv, PowerLoss
<1>13. CASE UNCHANGED vars
  BY <1>13 DEF IInv, vars
<1> QED BY <1>1, <1>2, <1>3, <1>4, <1>5, <1>5a, <1>6, <1>7, <1>7a, <1>8, <1>9, <1>10, <1>11, <1>12, <1>13 DEF Next

LEMMA CarriesStep ==
    ASSUME IInv, [Next]_vars
    PROVE  Carries'
<1> USE DEF files, threads, Goto, Fault, Names, MaybeInode, Carries, Solid, Serial, SerialAlone, Lone, Apart, Named
<1>0. TypeOK /\ TypeOK'
  BY TypeStep DEF IInv
<1>1. ASSUME NEW w \in Writers, NEW c \in Cams, ReadOld(w, c) PROVE Carries'
  <2>1. SUFFICES ASSUME Serial', ~spoiled', NEW v \in Writers, NEW d \in Cams,
                        pc'[v] # "idle", live' # None, d # cam'[v]
        PROVE  doc'[v][d] = content'[live'].doc[d]
    OBVIOUS
  <2>2. v = w /\ cam'[v] = c /\ ~spoiled /\ Serial /\ UNCHANGED <<live, content>>
    BY <1>1, <2>1, <1>0 DEF ReadOld, TypeOK
  <2>3. content[live].whole
    BY <2>1, <2>2 DEF IInv
  <2>4. Parsed[d] = content[live].doc[d]
    BY <2>1, <2>2, <2>3 DEF Parsed
  <2>5. doc'[v][d] = Parsed[d]
    BY <1>1, <2>1, <2>2, <1>0, ParsedTypes DEF ReadOld, TypeOK, Docs
  <2> QED BY <2>2, <2>4, <2>5
<1>2. ASSUME NEW w \in Writers, OpenTmp(w) PROVE Carries'
  BY <1>2, <1>0, TornTypes DEF TypeOK, IInv, OpenTmp
<1>3. ASSUME NEW w \in Writers, WriteTmp(w) PROVE Carries'
  BY <1>3, <1>0 DEF TypeOK, IInv, WriteTmp
<1>4. ASSUME NEW w \in Writers, WriteFails(w) PROVE Carries'
  BY <1>4, <1>0 DEF TypeOK, IInv, WriteFails
<1>5. ASSUME NEW w \in Writers, SyncTmp(w) PROVE Carries'
  BY <1>5, <1>0 DEF TypeOK, IInv, SyncTmp
<1>5a. ASSUME NEW w \in Writers, SyncFails(w) PROVE Carries'
  BY <1>5a, <1>0 DEF TypeOK, IInv, SyncFails
<1>6. ASSUME NEW w \in Writers, CheckLive(w) PROVE Carries'
  BY <1>6, <1>0 DEF TypeOK, IInv, CheckLive
<1>7. ASSUME NEW w \in Writers, Backup(w) PROVE Carries'
  BY <1>7, <1>0 DEF TypeOK, IInv, Backup
<1>7a. ASSUME NEW w \in Writers, BackupFails(w) PROVE Carries'
  BY <1>7a, <1>0 DEF TypeOK, IInv, BackupFails
<1>8. ASSUME NEW w \in Writers, Publish(w) PROVE Carries'
  BY <1>8, <1>0 DEF TypeOK, IInv, Publish
<1>9. ASSUME NEW w \in Writers, PublishFails(w) PROVE Carries'
  BY <1>9, <1>0 DEF TypeOK, IInv, PublishFails
<1>10. ASSUME NEW w \in Writers, Crash(w) PROVE Carries'
  BY <1>10, <1>0 DEF TypeOK, IInv, Crash
<1>11. ASSUME Commit PROVE Carries'
  BY <1>11, <1>0 DEF TypeOK, IInv, Commit
<1>12. ASSUME PowerLoss PROVE Carries'
  BY <1>12, <1>0, TornTypes DEF TypeOK, IInv, PowerLoss
<1>13. CASE UNCHANGED vars
  BY <1>13 DEF IInv, vars
<1> QED BY <1>1, <1>2, <1>3, <1>4, <1>5, <1>5a, <1>6, <1>7, <1>7a, <1>8, <1>9, <1>10, <1>11, <1>12, <1>13 DEF Next

LEMMA KeptStep ==
    ASSUME IInv, [Next]_vars
    PROVE  Kept'
<1> USE DEF files, threads, Goto, Fault, Names, MaybeInode, Kept, Solid, Serial, SerialAlone, Lone, Apart, Named
<1>0. TypeOK /\ TypeOK'
  BY TypeStep DEF IInv
<1>1. ASSUME NEW w \in Writers, NEW c \in Cams, ReadOld(w, c) PROVE Kept'
  BY <1>1, <1>0 DEF TypeOK, IInv, ReadOld
<1>2. ASSUME NEW w \in Writers, OpenTmp(w) PROVE Kept'
  BY <1>2, <1>0, TornTypes DEF TypeOK, IInv, OpenTmp
<1>3. ASSUME NEW w \in Writers, WriteTmp(w) PROVE Kept'
  BY <1>3, <1>0 DEF TypeOK, IInv, WriteTmp
<1>4. ASSUME NEW w \in Writers, WriteFails(w) PROVE Kept'
  BY <1>4, <1>0 DEF TypeOK, IInv, WriteFails
<1>5. ASSUME NEW w \in Writers, SyncTmp(w) PROVE Kept'
  BY <1>5, <1>0 DEF TypeOK, IInv, SyncTmp
<1>5a. ASSUME NEW w \in Writers, SyncFails(w) PROVE Kept'
  BY <1>5a, <1>0 DEF TypeOK, IInv, SyncFails
<1>6. ASSUME NEW w \in Writers, CheckLive(w) PROVE Kept'
  BY <1>6, <1>0 DEF TypeOK, IInv, CheckLive
<1>7. ASSUME NEW w \in Writers, Backup(w) PROVE Kept'
  BY <1>7, <1>0 DEF TypeOK, IInv, Backup
<1>7a. ASSUME NEW w \in Writers, BackupFails(w) PROVE Kept'
  BY <1>7a, <1>0 DEF TypeOK, IInv, BackupFails
<1>8. ASSUME NEW w \in Writers, Publish(w) PROVE Kept'
  <2>1. SUFFICES ASSUME Serial', ~undone', ~spoiled', NEW c \in Cams, acked'[c] # 0
        PROVE  \E i \in backups' \union ({live'} \ {None}) : content'[i].doc[c] = acked'[c]
    OBVIOUS
  <2>2. alone[w] /\ pc[w] = "publish"
    BY <1>8, <2>1 DEF IInv, Publish
  <2>3. /\ content[tmp] = [whole |-> TRUE, doc |-> doc[w]]
        /\ tmp # None
    BY <2>2 DEF IInv
  <2>4. CASE c = cam[w]
    <3>1. content'[live'].doc[c] = acked'[c] /\ live' # None
      BY <1>8, <2>3, <2>4, <1>0 DEF TypeOK, Publish, Docs
    <3> QED BY <3>1
  <2>5. CASE c # cam[w]
    <3>1. acked'[c] = acked[c] /\ UNCHANGED <<backups, content, undone, overlap, spoiled>>
      BY <1>8, <2>5, <1>0 DEF TypeOK, Publish
    <3>2. PICK i \in backups \union ({live} \ {None}) : content[i].doc[c] = acked[c]
      BY <1>8, <2>1, <3>1 DEF IInv, Publish
    <3>3. CASE i \in backups
      BY <3>1, <3>2, <3>3
    <3>4. CASE i = live /\ live # None
      <4>1. doc[w][c] = content[live].doc[c]
        BY <1>8, <2>1, <2>2, <2>5, <3>4 DEF IInv, Carries, Publish
      <4>2. content'[live'].doc[c] = acked'[c] /\ live' # None
        BY <1>8, <2>3, <3>1, <3>2, <3>4, <4>1 DEF Publish
      <4> QED BY <4>2
    <3> QED BY <3>2, <3>3, <3>4
  <2> QED BY <2>4, <2>5
<1>9. ASSUME NEW w \in Writers, PublishFails(w) PROVE Kept'
  BY <1>9, <1>0 DEF TypeOK, IInv, PublishFails
<1>10. ASSUME NEW w \in Writers, Crash(w) PROVE Kept'
  BY <1>10, <1>0 DEF TypeOK, IInv, Crash
<1>11. ASSUME Commit PROVE Kept'
  BY <1>11, <1>0 DEF TypeOK, IInv, Commit
<1>12. ASSUME PowerLoss PROVE Kept'
  <2>1. SUFFICES ASSUME Serial', ~undone', ~spoiled', NEW c \in Cams, acked'[c] # 0
        PROVE  \E i \in backups' \union ({live'} \ {None}) : content'[i].doc[c] = acked'[c]
    OBVIOUS
  <2>2. /\ UNCHANGED <<live, backups, acked, overlap>> /\ ~undone /\ ~spoiled
    <3>1. disk = Names
      BY <1>12, <2>1 DEF PowerLoss
    <3>2. disk.live = live /\ disk.backups = backups
      BY <3>1
    <3> QED BY <1>12, <2>1, <3>2 DEF PowerLoss
  <2>3. PICK i \in backups \union ({live} \ {None}) : content[i].doc[c] = acked[c]
    BY <2>1, <2>2 DEF IInv
  <2>4. content'[i].doc = content[i].doc
    BY <1>12, <1>0, TornTypes DEF TypeOK, PowerLoss
  <2> QED BY <2>2, <2>3, <2>4
<1>13. CASE UNCHANGED vars
  BY <1>13 DEF IInv, vars
<1> QED BY <1>1, <1>2, <1>3, <1>4, <1>5, <1>5a, <1>6, <1>7, <1>7a, <1>8, <1>9, <1>10, <1>11, <1>12, <1>13 DEF Next

LEMMA CurrentStep ==
    ASSUME IInv, [Next]_vars
    PROVE  Current'
<1> USE DEF files, threads, Goto, Fault, Names, MaybeInode, Current, Solid, Serial, SerialAlone, Lone, Apart, Named
<1>0. TypeOK /\ TypeOK'
  BY TypeStep DEF IInv
<1>1. ASSUME NEW w \in Writers, NEW c \in Cams, ReadOld(w, c) PROVE Current'
  <2>1. SUFFICES ASSUME Serial', ~gap', ~undone', ~spoiled'
        PROVE  /\ \A c_1 \in Cams : acked'[c_1] # 0 =>
                     \/ live' # None /\ content'[live'].doc[c_1] = acked'[c_1]
                     \/ live' = None /\ \E v \in Writers : pc'[v] = "publish"
               /\ \A v \in Writers, d \in Cams :
                     pc'[v] # "idle" /\ d # cam'[v] /\ acked'[d] # 0 => doc'[v][d] = acked'[d]
    OBVIOUS
  <2>2. /\ \A v \in Writers : pc[v] = "idle"
        /\ Serial /\ ~gap /\ ~undone /\ ~spoiled
    BY <1>1, <2>1 DEF ReadOld
  <2>3. \A d \in Cams : acked[d] # 0 => live # None /\ content[live].doc[d] = acked[d]
    BY <2>2 DEF IInv
  <2>4. \A d \in Cams : acked[d] # 0 => Parsed[d] = acked[d]
    BY <2>2, <2>3, <1>0 DEF IInv, Parsed, TypeOK
  <2>5. \A d \in Cams : d # c /\ acked[d] # 0 => doc'[w][d] = acked[d]
    BY <1>1, <2>4, <1>0, ParsedTypes DEF ReadOld, TypeOK, Docs
  <2>6. \A v \in Writers : pc'[v] # "idle" => v = w
    BY <1>1, <2>2, <1>0 DEF ReadOld, TypeOK
  <2> QED BY <1>1, <2>3, <2>5, <2>6, <1>0 DEF ReadOld, TypeOK
<1>2. ASSUME NEW w \in Writers, OpenTmp(w) PROVE Current'
  BY <1>2, <1>0, TornTypes DEF TypeOK, IInv, OpenTmp
<1>3. ASSUME NEW w \in Writers, WriteTmp(w) PROVE Current'
  BY <1>3, <1>0 DEF TypeOK, IInv, WriteTmp
<1>4. ASSUME NEW w \in Writers, WriteFails(w) PROVE Current'
  BY <1>4, <1>0 DEF TypeOK, IInv, WriteFails
<1>5. ASSUME NEW w \in Writers, SyncTmp(w) PROVE Current'
  BY <1>5, <1>0 DEF TypeOK, IInv, SyncTmp
<1>5a. ASSUME NEW w \in Writers, SyncFails(w) PROVE Current'
  BY <1>5a, <1>0 DEF TypeOK, IInv, SyncFails
<1>6. ASSUME NEW w \in Writers, CheckLive(w) PROVE Current'
  BY <1>6, <1>0 DEF TypeOK, IInv, CheckLive
<1>7. ASSUME NEW w \in Writers, Backup(w) PROVE Current'
  BY <1>7, <1>0 DEF TypeOK, IInv, Backup
<1>7a. ASSUME NEW w \in Writers, BackupFails(w) PROVE Current'
  BY <1>7a, <1>0 DEF TypeOK, IInv, BackupFails
<1>8. ASSUME NEW w \in Writers, Publish(w) PROVE Current'
  <2>1. SUFFICES ASSUME Serial', ~gap', ~undone', ~spoiled'
        PROVE  /\ \A c_1 \in Cams : acked'[c_1] # 0 =>
                     \/ live' # None /\ content'[live'].doc[c_1] = acked'[c_1]
                     \/ live' = None /\ \E v \in Writers : pc'[v] = "publish"
               /\ \A v \in Writers, d \in Cams :
                     pc'[v] # "idle" /\ d # cam'[v] /\ acked'[d] # 0 => doc'[v][d] = acked'[d]
    OBVIOUS
  <2>2. alone[w] /\ pc[w] = "publish" /\ Serial /\ ~gap /\ ~undone /\ ~spoiled
    BY <1>8, <2>1 DEF IInv, Publish
  <2>3. /\ content[tmp] = [whole |-> TRUE, doc |-> doc[w]]
        /\ live' = tmp /\ tmp # None /\ UNCHANGED <<content, doc, cam>>
    BY <1>8, <2>2 DEF IInv, Publish
  <2>4. \A v \in Writers : pc'[v] = "idle"
    BY <1>8, <2>2, <1>0, ZenonT(60) DEF IInv, Publish, TypeOK
  <2>5. ASSUME NEW d \in Cams, acked'[d] # 0 PROVE doc[w][d] = acked'[d]
    <3>1. CASE d = cam[w]
      BY <1>8, <3>1, <2>3, <1>0 DEF Publish, TypeOK, Docs
    <3>2. CASE d # cam[w]
      BY <1>8, <3>2, <2>2, <2>5, <1>0 DEF IInv, Publish, TypeOK
    <3> QED BY <3>1, <3>2
  <2> QED BY <2>3, <2>4, <2>5
<1>9. ASSUME NEW w \in Writers, PublishFails(w) PROVE Current'
  <2>1. SUFFICES ASSUME Serial', ~gap', ~undone', ~spoiled'
        PROVE  /\ \A c_1 \in Cams : acked'[c_1] # 0 =>
                     \/ live' # None /\ content'[live'].doc[c_1] = acked'[c_1]
                     \/ live' = None /\ \E v \in Writers : pc'[v] = "publish"
               /\ \A v \in Writers, d \in Cams :
                     pc'[v] # "idle" /\ d # cam'[v] /\ acked'[d] # 0 => doc'[v][d] = acked'[d]
    OBVIOUS
  <2>2. /\ Serial /\ ~gap /\ ~undone /\ ~spoiled /\ ~InGap(w) /\ alone[w]
        /\ UNCHANGED <<live, content, acked, doc, cam>>
    BY <1>9, <2>1 DEF IInv, PublishFails
  <2>3. \A v \in Writers : pc'[v] = "idle"
    BY <1>9, <2>2, <1>0, ZenonT(60) DEF IInv, PublishFails, TypeOK
  <2>4. live = None => \A v \in Writers : pc[v] # "publish"
    BY <1>9, <2>2 DEF IInv, PublishFails, InGap
  <2> QED BY <2>2, <2>3, <2>4 DEF IInv
<1>10. ASSUME NEW w \in Writers, Crash(w) PROVE Current'
  <2>1. SUFFICES ASSUME Serial', ~gap', ~undone', ~spoiled'
        PROVE  /\ \A c_1 \in Cams : acked'[c_1] # 0 =>
                     \/ live' # None /\ content'[live'].doc[c_1] = acked'[c_1]
                     \/ live' = None /\ \E v \in Writers : pc'[v] = "publish"
               /\ \A v \in Writers, d \in Cams :
                     pc'[v] # "idle" /\ d # cam'[v] /\ acked'[d] # 0 => doc'[v][d] = acked'[d]
    OBVIOUS
  <2>2. /\ Serial /\ ~gap /\ ~undone /\ ~spoiled /\ ~InGap(w) /\ alone[w]
        /\ UNCHANGED <<live, content, acked, doc, cam>>
    BY <1>10, <2>1 DEF IInv, Crash
  <2>3. \A v \in Writers : pc'[v] = "idle"
    BY <1>10, <2>2, <1>0, ZenonT(60) DEF IInv, Crash, TypeOK
  <2>4. live = None => \A v \in Writers : pc[v] # "publish"
    BY <1>10, <2>2 DEF IInv, Crash, InGap
  <2> QED BY <2>2, <2>3, <2>4 DEF IInv
<1>11. ASSUME Commit PROVE Current'
  BY <1>11, <1>0 DEF TypeOK, IInv, Commit
<1>12. ASSUME PowerLoss PROVE Current'
  BY <1>12, <1>0, TornTypes DEF TypeOK, IInv, PowerLoss
<1>13. CASE UNCHANGED vars
  BY <1>13 DEF IInv, vars
<1> QED BY <1>1, <1>2, <1>3, <1>4, <1>5, <1>5a, <1>6, <1>7, <1>7a, <1>8, <1>9, <1>10, <1>11, <1>12, <1>13 DEF Next

-----------------------------------------------------------------------------

LEMMA Invariance == Spec => []IInv
<1>1. Init => IInv
  <2> SUFFICES ASSUME Init PROVE IInv
    OBVIOUS
  <2>1. TypeOK
    BY InitTypes
  <2> QED BY <2>1 DEF Init, IInv, Apart, Lone, SerialAlone, Solid, Carries, Kept, Current, Named, Serial, NoEntries
<1>2. IInv /\ [Next]_vars => IInv'
  <2> SUFFICES ASSUME IInv, [Next]_vars PROVE IInv'
    OBVIOUS
  <2>1. TypeOK'
    BY TypeStep DEF IInv
  <2> QED BY <2>1, ApartStep, LoneStep, AloneStep, SolidStep, CarriesStep, KeptStep, CurrentStep DEF IInv
<1> QED BY <1>1, <1>2, PTL DEF Spec

\* Every variable of the registry keeps its type: the names lead to files, and
\* backups are made of files that existed.
THEOREM TypeCorrect == Spec => []TypeOK
<1>1. IInv => TypeOK
  BY DEF IInv
<1> QED BY <1>1, Invariance, PTL

\* An update that ran alone publishes the document it composed, whole, and on
\* the disk unless its own sync failed, whatever earlier updates, failing calls
\* and deaths left behind.
THEOREM LoneUpdateHeals == Spec => []LoneUpdatePublishes
<1>1. IInv => LoneUpdatePublishes
  BY DEF IInv, Lone, LoneUpdatePublishes
<1> QED BY <1>1, Invariance, PTL

\* A registry whose updates never overlapped can always be parsed, unless a
\* power loss tore a file whose failing sync was ignored.
THEOREM RegistryNeverTorn == Spec => []NeverTorn
<1>1. IInv => NeverTorn
  BY DEF IInv, Solid, Named, NeverTorn
<1> QED BY <1>1, Invariance, PTL

\* The entries whose updates returned true survive the updates of other cameras
\* and every fault but an update that ends in the gap between the two renames,
\* by a death or by the failing second rename, and a power loss that takes
\* renames back or tears a file whose sync failed.
THEOREM EntriesSurvive == Spec => []OthersSurvive
<1>1. IInv => OthersSurvive
  <2> SUFFICES ASSUME IInv, Serial, ~gap, ~undone, ~spoiled, NEW c \in Cams, acked[c] # 0
               PROVE  IF live # None
                      THEN Has(live, c)
                      ELSE \E w \in Writers : /\ pc[w] = "publish"
                                             /\ c # cam[w] => doc[w][c] = acked[c]
    BY DEF OthersSurvive
  <2>1. CASE live # None
    BY <2>1 DEF IInv, Current, Solid, Named, Has
  <2>2. CASE live = None
    <3>1. PICK w \in Writers : pc[w] = "publish"
      BY <2>2 DEF IInv, Current
    <3>2. c # cam[w] => doc[w][c] = acked[c]
      BY <3>1 DEF IInv, Current
    <3> QED BY <2>2, <3>1, <3>2
  <2> QED BY <2>1, <2>2
<1> QED BY <1>1, Invariance, PTL

\* What an update acknowledged is in the registry or in a backup, also after an
\* update that ended between the renames made the next one start from nothing,
\* and after a registry was replaced while the rename to its backup failed.
THEOREM EntriesRecoverable == Spec => []Recoverable
<1>1. IInv => Recoverable
  BY DEF IInv, Kept, Solid, Named, Has, Recoverable, TypeOK
<1> QED BY <1>1, Invariance, PTL

=============================================================================
