--------------------------- MODULE BackupRestore ----------------------------
(***************************************************************************)
(* esbackup and esrestore around one data directory and one backup          *)
(* destination.  The server runs on the directory, takes snapshots of it    *)
(* and replaces its files (a file is never changed, and its name is never   *)
(* used again); only parts.json, which lists the files that make up the     *)
(* data, is rewritten in place.  A backup brings the destination in line    *)
(* with a snapshot, a restore brings the directory in line with the         *)
(* destination; both work on parts of files, by key, skip what the other    *)
(* side already has, and may be interrupted at any step and run again.      *)
(*                                                                         *)
(* A listing of parts.json in the model is the set of its files: what the   *)
(* restored data means.  As the tools require, a restore runs while the     *)
(* server is stopped and no backup writes to the same destination.          *)
(***************************************************************************)
EXTENDS Naturals, FiniteSets

CONSTANTS
  DataFiles,      \* names of the immutable files
  PartsJson,      \* the mutable file
  PartCount,      \* number of parts of each immutable file (1 up to MAX_PART_SIZE)
  Origins,        \* the contents -origin may have: functions on Parts
  RestoreFaults,  \* stages in which a restore may be interrupted
  MaxInterrupts   \* bound on interruptions of backups and restores

Json == <<PartsJson, 1>>
PartsIn(F) == {p \in F \X {1, 2} : p[2] <= PartCount[p[1]]} \cup {Json}
Parts == PartsIn(DataFiles)

ASSUME BackupAssumption ==
  /\ PartsJson \notin DataFiles
  /\ IsFiniteSet(DataFiles)
  /\ PartCount \in [DataFiles -> {1, 2}]
  /\ Origins \subseteq [Parts -> {"none", "torn", "full"}]
  /\ RestoreFaults \subseteq {"delete", "download"}
  /\ MaxInterrupts \in Nat

VARIABLES
  serving,   \* the server has the directory open
  local,     \* the directory: [parts, lists], lists is what its parts.json says
  lock,      \* restore-in-progress exists in it
  snapshot,  \* the snapshot to back up: {} or {its files}
  used,      \* file names handed out so far
  remote,    \* the destination: [parts, lists]
  marker,    \* backup_complete.ignore exists in it
  origin,    \* parts of the backup that -origin names, an earlier one of the same data
  bk,        \* the running backup: work left, parts being written
  rs,        \* the running restore: stage, work left, parts being written
  interrupts

backupVars == <<serving, local, lock, snapshot, used, remote, marker, origin, bk, rs, interrupts>>

NoBackup == [active |-> FALSE, delete |-> {}, copy |-> {}, upload |-> {}, open |-> {}]
NoRestore == [stage |-> "idle", delete |-> {}, get |-> {}, open |-> {}]

BackupInit ==
  /\ serving = FALSE /\ lock = FALSE /\ marker = FALSE /\ interrupts = 0
  /\ local = [parts |-> [p \in Parts |-> IF p = Json THEN "full" ELSE "none"], lists |-> {}]
  /\ remote = [parts |-> [p \in Parts |-> "none"], lists |-> {}]
  /\ snapshot = {} /\ used = {}
  /\ origin = [p \in Parts |-> "none"]
  /\ bk = NoBackup /\ rs = NoRestore

-----------------------------------------------------------------------------
(* Keys and their differences                                              *)

\* Mutant: a part cut short has the key of the whole one.
RemoteKeys_NoActualSize(parts) == {<<p, "full">> : p \in {q \in Parts : parts[q] # "none"}}

\* LocalRemote::list_parts: the key of a part has the size it should have and
\* the size it has, so that of a part cut short is not that of the whole one.
RemoteKeys(parts) == {<<p, parts[p]>> : p \in {q \in Parts : parts[q] # "none"}}

\* LocalFs::list_parts: a file is listed by its length alone.
LocalKeys(parts) == {<<p, "full">> : p \in {q \in Parts : parts[q] # "none"}}

\* parts_difference, parts_intersect: no key of parts.json equals another one.
Minus(a, b) == {k[1] : k \in {l \in a : l \notin b \/ l[1] = Json}}
Common(a, b) == {k[1] : k \in {l \in a : l \in b /\ l[1] # Json}}

-----------------------------------------------------------------------------
(* The server                                                              *)

\* Mutant: the storage does not look for restore-in-progress.
OpenStorage_Anyway ==
  /\ ~serving /\ rs = NoRestore
  /\ serving' = TRUE
  /\ UNCHANGED <<local, lock, snapshot, used, remote, marker, origin, bk, rs, interrupts>>

\* Storage::must_open refuses a directory in which a restore has not ended.
OpenStorage ==
  /\ ~serving /\ ~lock /\ rs = NoRestore
  /\ serving' = TRUE
  /\ UNCHANGED <<local, lock, snapshot, used, remote, marker, origin, bk, rs, interrupts>>

CloseStorage ==
  /\ serving
  /\ serving' = FALSE
  /\ UNCHANGED <<local, lock, snapshot, used, remote, marker, origin, bk, rs, interrupts>>

\* A flush or a merge replaces some files by a new one.
ReplaceFiles(f, old) ==
  /\ serving /\ f \notin used
  /\ used' = used \cup {f}
  /\ LET files == (local.lists \ old) \cup {f}
     IN  local' = [parts |-> [p \in Parts |-> IF p \in PartsIn(files) THEN "full" ELSE "none"],
                   lists |-> files]
  /\ UNCHANGED <<serving, lock, snapshot, remote, marker, origin, bk, rs, interrupts>>

-----------------------------------------------------------------------------
(* esbackup                                                                *)

\* The marker goes first, then the three sides are compared.
Backup_run(files) ==
  /\ ~bk.active /\ rs = NoRestore
  /\ origin' \in {[p \in Parts |-> IF p[1] \in used THEN o[p] ELSE "none"] : o \in Origins}
  /\ marker' = FALSE
  /\ snapshot' = {files}
  /\ LET src == {<<p, "full">> : p \in PartsIn(files)}
         dst == RemoteKeys(remote.parts)
         to_copy == {<<p, "full">> : p \in Minus(src, dst)}
     IN  bk' = [active |-> TRUE, open |-> {},
                delete |-> Minus(dst, src),
                copy |-> Common(to_copy, RemoteKeys(origin')),
                upload |-> Minus(to_copy, RemoteKeys(origin'))]
  /\ UNCHANGED <<serving, local, lock, used, remote, rs, interrupts>>

\* -snapshot.createURL asks the server for a snapshot, -snapshotName names one.
esbackup ==
  \/ serving /\ Backup_run(local.lists)
  \/ \E files \in snapshot : Backup_run(files)

delete_part(p) ==
  /\ p \in bk.delete
  /\ remote' = [remote EXCEPT !.parts[p] = "none"]
  /\ bk' = [bk EXCEPT !.delete = @ \ {p}]
  /\ UNCHANGED <<serving, local, lock, snapshot, used, marker, origin, rs, interrupts>>

\* copy_part_from and upload_part create the object and fill it.
CreatePart(p) ==
  /\ bk.delete = {} /\ p \notin bk.open
  /\ p \in IF bk.copy # {} THEN bk.copy ELSE bk.upload
  /\ bk' = [bk EXCEPT !.open = @ \cup {p}]
  /\ remote' = [remote EXCEPT !.parts[p] = "torn"]
  /\ UNCHANGED <<serving, local, lock, snapshot, used, marker, origin, rs, interrupts>>

copy_part_from(p) ==
  /\ p \in bk.open \cap bk.copy
  /\ bk' = [bk EXCEPT !.open = @ \ {p}, !.copy = @ \ {p}]
  /\ remote' = [remote EXCEPT !.parts[p] = origin[p]]
  /\ UNCHANGED <<serving, local, lock, snapshot, used, marker, origin, rs, interrupts>>

upload_part(p) ==
  /\ p \in bk.open \cap bk.upload
  /\ bk' = [bk EXCEPT !.open = @ \ {p}, !.upload = @ \ {p}]
  /\ \E files \in snapshot :
       remote' = [parts |-> [remote.parts EXCEPT ![p] = "full"],
                  lists |-> IF p = Json THEN files ELSE remote.lists]
  /\ UNCHANGED <<serving, local, lock, snapshot, used, marker, origin, rs, interrupts>>

\* The metadata, which nothing reads, and the marker.  A snapshot that esbackup
\* had created is deleted when it ends, if the server answers.
CompleteBackup ==
  /\ bk.active /\ bk.delete = {} /\ bk.copy = {} /\ bk.upload = {}
  /\ marker' = TRUE /\ bk' = NoBackup
  /\ snapshot' \in {snapshot, {}}
  /\ UNCHANGED <<serving, local, lock, used, remote, origin, rs, interrupts>>

\* Mutant: a backup that gives up forgets to wait for its workers.
BackupInterrupted_Busy ==
  /\ bk.active /\ interrupts < MaxInterrupts
  /\ interrupts' = interrupts + 1
  /\ bk' = [NoBackup EXCEPT !.open = bk.open]
  /\ snapshot' \in {snapshot, {}}
  /\ UNCHANGED <<serving, local, lock, used, remote, marker, origin, rs>>

\* A crash, or an error: run_parallel gives the first one up.
BackupInterrupted ==
  /\ bk.active /\ interrupts < MaxInterrupts
  /\ interrupts' = interrupts + 1
  /\ bk' = NoBackup
  /\ snapshot' \in {snapshot, {}}
  /\ UNCHANGED <<serving, local, lock, used, remote, marker, origin, rs>>

-----------------------------------------------------------------------------
(* esrestore                                                               *)

\* validate_parts: every file of the backup is there from end to end.
validate_parts(parts) ==
  /\ \A p \in Parts : parts[p] # "torn"
  /\ \A f \in DataFiles : \A i, j \in 1..PartCount[f] :
       parts[<<f, i>>] = "full" => parts[<<f, j>>] = "full"

\* The files to delete are those whose part at offset 0 the backup does not have.
\* Snapshots are files like any other, and no backup has them.
Restore_run ==
  /\ ~serving /\ ~bk.active /\ rs = NoRestore /\ marker
  /\ lock' = TRUE
  /\ rs' = IF validate_parts(remote.parts)
           THEN [NoRestore EXCEPT !.stage = "delete",
                   !.delete = {p[1] : p \in {q \in Minus(LocalKeys(local.parts),
                                                        RemoteKeys(remote.parts)) : q[2] = 1}}]
           ELSE NoRestore
  /\ UNCHANGED <<serving, local, snapshot, used, remote, marker, origin, bk, interrupts>>

\* Mutant: files that the backup does not have are left alone.
delete_path_Skip(f) ==
  /\ f \in rs.delete
  /\ rs' = [rs EXCEPT !.delete = @ \ {f}]
  /\ UNCHANGED <<serving, local, lock, snapshot, used, remote, marker, origin, bk, interrupts>>

delete_path(f) ==
  /\ f \in rs.delete
  /\ local' = [local EXCEPT !.parts = [p \in Parts |-> IF p[1] = f THEN "none" ELSE @[p]]]
  /\ snapshot' = {}
  /\ rs' = [rs EXCEPT !.delete = @ \ {f}]
  /\ UNCHANGED <<serving, lock, used, remote, marker, origin, bk, interrupts>>

\* The directory is listed again, for the parts it lacks.
ListMissing ==
  /\ rs.stage = "delete" /\ rs.delete = {}
  /\ rs' = [rs EXCEPT !.stage = "download",
                      !.get = Minus(RemoteKeys(remote.parts), LocalKeys(local.parts))]
  /\ UNCHANGED <<serving, local, lock, snapshot, used, remote, marker, origin, bk, interrupts>>

\* write_part_at, up to set_len: the file gets its full length.  The parts of a
\* file are written by one worker in the order of their offsets.
GrowFile(p) ==
  /\ p \in rs.get \ rs.open
  /\ \A q \in rs.get : q[1] = p[1] => q[2] >= p[2]
  /\ rs' = [rs EXCEPT !.open = @ \cup {p}]
  /\ local' = [local EXCEPT !.parts =
                 [q \in Parts |-> IF q[1] = p[1] /\ @[q] = "none" THEN "zeros" ELSE @[q]]]
  /\ UNCHANGED <<serving, lock, snapshot, used, remote, marker, origin, bk, interrupts>>

write_part_at(p) ==
  /\ p \in rs.open
  /\ rs' = [rs EXCEPT !.open = @ \ {p}, !.get = @ \ {p}]
  /\ local' = [parts |-> [local.parts EXCEPT ![p] = "full"],
               lists |-> IF p = Json THEN remote.lists ELSE local.lists]
  /\ UNCHANGED <<serving, lock, snapshot, used, remote, marker, origin, bk, interrupts>>

CompleteRestore ==
  /\ rs.stage = "download" /\ rs.get = {}
  /\ lock' = FALSE
  /\ rs' = NoRestore
  /\ UNCHANGED <<serving, local, snapshot, used, remote, marker, origin, bk, interrupts>>

RestoreInterrupted ==
  /\ rs.stage \in RestoreFaults /\ interrupts < MaxInterrupts
  /\ interrupts' = interrupts + 1
  /\ rs' = NoRestore
  /\ UNCHANGED <<serving, local, lock, snapshot, used, remote, marker, origin, bk>>

BackupNext ==
  \/ OpenStorage \/ CloseStorage
  \/ \E f \in DataFiles, old \in SUBSET local.lists : ReplaceFiles(f, old)
  \/ esbackup \/ CompleteBackup \/ BackupInterrupted
  \/ \E p \in Parts : delete_part(p) \/ CreatePart(p) \/ copy_part_from(p) \/ upload_part(p)
  \/ Restore_run \/ ListMissing \/ CompleteRestore \/ RestoreInterrupted
  \/ \E f \in DataFiles \cup {PartsJson} : delete_path(f)
  \/ \E p \in Parts : GrowFile(p) \/ write_part_at(p)

BackupSpec == BackupInit /\ [][BackupNext]_backupVars

-----------------------------------------------------------------------------
(* Properties                                                              *)

BackupTypeOK ==
  /\ serving \in BOOLEAN /\ lock \in BOOLEAN /\ marker \in BOOLEAN
  /\ local \in [parts : [Parts -> {"none", "zeros", "full"}], lists : SUBSET DataFiles]
  /\ remote \in [parts : [Parts -> {"none", "torn", "full"}], lists : SUBSET DataFiles]
  /\ used \subseteq DataFiles /\ local.lists \cup remote.lists \subseteq used
  /\ Cardinality(snapshot) <= 1 /\ \A files \in snapshot : files \subseteq used
  /\ origin \in [Parts -> {"none", "torn", "full"}] /\ interrupts \in 0..MaxInterrupts
  /\ bk.open \subseteq bk.copy \cup bk.upload /\ bk.copy \cap bk.upload = {}
  /\ rs.open \subseteq rs.get /\ (rs.stage # "idle" => lock /\ ~serving)
  /\ bk.active => rs = NoRestore

\* What a backup or a data directory must be: exactly the parts of the files that
\* its parts.json lists, every one whole.
Whole(place) ==
  \A p \in Parts : place.parts[p] = IF p \in PartsIn(place.lists) THEN "full" ELSE "none"

\* backup_complete.ignore is only ever beside a whole backup, however many
\* backups of however many snapshots were interrupted at the destination before
\* (names.rs: its presence means the backup is complete and valid).
MarkerMeansWhole == marker => Whole(remote)

\* The server never serves a directory that an interrupted restore left behind:
\* whatever it has open is exactly what its parts.json lists.
ServedDataWhole == serving => Whole(local)

\* A restore that removes restore-in-progress has made the directory the backup:
\* parts kept from earlier data or from an interrupted restore hold the bytes
\* that the backup has for them.
RestoreYieldsBackup == [][lock /\ ~lock' => local' = remote']_backupVars

\* Whatever was interrupted, a backup with its marker is whole and so is what the server serves
\* (Backup::run, Restore::run, must_open).
BackupSound == BackupTypeOK /\ MarkerMeansWhole /\ ServedDataWhole
=============================================================================
