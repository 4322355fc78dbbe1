------------------------------ MODULE ServerData ------------------------------
(***************************************************************************)
(* What the server keeps besides jobs and certificates: the state document  *)
(* (hosts, their certificates as last seen, scan ranges, upload devices),    *)
(* the passwords of the devices in the table secrets, the master key that    *)
(* encrypts them, and the backups made of it all (app.py, certmon/db.py,     *)
(* certmon/vault.py, certmon/backup.py, certmon/server_backup.py).          *)
(*                                                                         *)
(* The document is one setting.  A request reads the whole of it with all    *)
(* passwords, changes its part, and writes all passwords and the whole       *)
(* document back, each in a transaction of its own; between any two steps    *)
(* other threads run or the process stops.                                  *)
(***************************************************************************)
EXTENDS Naturals, FiniteSets

CONSTANTS
  Hosts, Ranges, Devices, Passwords,
  Certs,           \* what get_cert_info finds at a host
  Keys,            \* master keys; the vault never generates one twice
  Workers,         \* threads of the web server and of scans
  Protectors,      \* whether a start finds something to protect a master key with
                   \* (Windows, or a data directory of its own); without it there
                   \* is no vault
  None,
  Faults           \* which of FaultKinds may happen

FaultKinds ==
  {"crash",      \* the process stops
   "db_fails",   \* a statement raises, and with it the request
   "disk_full"}  \* a key file or the copy of the old data file cannot be written

ASSUME NoneAssumption ==
  None \notin Hosts \cup Devices \cup Passwords \cup Certs \cup Keys
ASSUME FaultAssumption == Faults \subseteq FaultKinds
ASSUME ProtectorAssumption == Protectors \subseteq BOOLEAN

VARIABLES
  doc,        \* the setting legacy_state
  secret,     \* device-password:<device> of the table secrets
  keyFile,    \* master-key.json and pending-master-key.json
  legacy,     \* the file of an old installation and what is left to take over
  serving,    \* how far the process has come up
  vault,      \* the keys in memory
  scanning,   \* scan_progress["running"]
  pc, loc,    \* where each thread is, and its locals
  rotation,   \* the thread of rotate_secrets
  backup,     \* a backup being made, or made
  usedKeys,   \* keys generated so far
  exposed,    \* passwords saved past a rotation (history)
  memoryOnly  \* passwords saved or converted under a pending key that is in no
              \* file (history)

disk == <<doc, secret, keyFile, legacy, usedKeys>>
threads == <<pc, loc, scanning>>
history == <<exposed, memoryOnly>>
vars == <<disk, serving, vault, threads, rotation, backup, history>>

Document == [hosts : SUBSET Hosts, certs : [Hosts -> Certs \cup {None}],
             ranges : SUBSET Ranges, devices : SUBSET Devices]

EmptyState == [hosts |-> {}, certs |-> [h \in Hosts |-> None], ranges |-> {}, devices |-> {}]

\* The parts of the server's data that one request or another is about.
Items == {"host", "cert"} \X Hosts \cup {"range"} \X Ranges
           \cup {"device", "password"} \X Devices

HostItems(hs) == {"host", "cert"} \X hs
DeviceItems(d) == {"device", "password"} \X {d}

\* The parts in which two documents differ.
Changed(a, b) ==
       {<<"host", h>> : h \in (a.hosts \ b.hosts) \cup (b.hosts \ a.hosts)}
  \cup {<<"cert", h>> : h \in {g \in Hosts : a.certs[g] # b.certs[g]}}
  \cup {<<"range", g>> : g \in (a.ranges \ b.ranges) \cup (b.ranges \ a.ranges)}
  \cup {<<"device", d>> : d \in (a.devices \ b.devices) \cup (b.devices \ a.devices)}

\* An encrypted password: what it is and the key it was encrypted with.
Blob == [pw : Passwords, key : Keys]

ASSUME BlobAssumption == None \notin Blob

\* The old file: its upload devices and those of them that have no password in it.
Legacy == [left : {"file", "state", "none"}, devices : SUBSET Devices,
           bare : SUBSET Devices]

KeyPair == [key : Keys \cup {None}, pending : Keys \cup {None}]
NoKeys == [key |-> None, pending |-> None]

\* A request: the document and the passwords it holds, what it is about, what
\* others have saved since it read (history), the passwords it has still to save,
\* the one it has just encrypted, what it does after its save, and the ranges a
\* scan has still to visit.
Locals == [data : Document, pws : [Devices -> Passwords \cup {None}], own : SUBSET Items,
           stale : SUBSET Items, unsaved : SUBSET Devices,
           blob : Blob \cup {None}, device : Devices \cup {None},
           then : {"idle", "visit"}, left : SUBSET Ranges]

NoPasswords == [d \in Devices |-> None]
NoLocals == [data |-> EmptyState, pws |-> NoPasswords, own |-> {}, stale |-> {},
             unsaved |-> {}, blob |-> None, device |-> None, then |-> "idle", left |-> {}]

\* A rotation: the secrets to convert, the one being converted and what was read.
Rotation == [at : {"idle", "list", "next", "convert", "master", "unlink"},
             todo : SUBSET Devices, device : Devices \cup {None}, blob : Blob \cup {None}]
NoRotation == [at |-> "idle", todo |-> {}, device |-> None, blob |-> None]

\* A backup: the master key in its recovery package, the key that each secret in
\* its copy of the database needs, the pending key in its copy of the files; and,
\* as history, whether a rotation has ended while it was made and the passwords
\* that the two histories named when the database was copied.
Backup == [at : {"none", "database", "keys", "made"}, package : Keys \cup {None},
           needs : [Devices -> Keys \cup {None}], pending : Keys \cup {None},
           rotated : BOOLEAN, excepted : SUBSET Devices]
NoBackup == [at |-> "none", package |-> None, needs |-> [d \in Devices |-> None],
             pending |-> None, rotated |-> FALSE, excepted |-> {}]

Labels == {"idle", "save", "put", "connect", "scan", "visit"}

TypeOK ==
  /\ doc \in Document
  /\ secret \in [Devices -> Blob \cup {None}]
  /\ keyFile \in KeyPair /\ vault \in KeyPair
  /\ legacy \in Legacy
  /\ serving \in {"down", "database", "vault", "up"}
  /\ scanning \in BOOLEAN
  /\ rotation \in Rotation /\ backup \in Backup
  /\ usedKeys \in SUBSET Keys
  /\ exposed \in SUBSET Devices /\ memoryOnly \in SUBSET Devices
  /\ pc \in [Workers -> Labels] /\ loc \in [Workers -> Locals]
  /\ \A w \in Workers :
       /\ pc[w] # "idle" => serving = "up"
       /\ {d \in Devices : loc[w].pws[d] # None} \subseteq loc[w].data.devices
       /\ pc[w] = "put" => loc[w].blob \in Blob /\ loc[w].device \in Devices

Init ==
  /\ doc = EmptyState
  /\ secret = [d \in Devices |-> None]
  /\ keyFile = NoKeys /\ vault = NoKeys
  /\ legacy \in {l \in Legacy : /\ l.bare \subseteq l.devices
                              /\ \/ l.left = "file"
                                 \/ l.left = "none" /\ l.devices = {}}
  /\ serving = "down" /\ scanning = FALSE
  /\ pc = [w \in Workers |-> "idle"] /\ loc = [w \in Workers |-> NoLocals]
  /\ rotation = NoRotation
  /\ backup = NoBackup
  /\ usedKeys = {} /\ exposed = {} /\ memoryOnly = {}

(***************************************************************************)
(* Starting                                                                *)
(***************************************************************************)

\* The import of app.py: migrate_legacy_nonsecrets puts the old file, but for
\* its passwords, into the document, in one transaction with the mark that it
\* has done so.
OpenDatabase ==
  /\ serving = "down"
  /\ serving' = "database"
  /\ IF legacy.left = "file"
       THEN /\ doc' = [EmptyState EXCEPT !.hosts = Hosts, !.devices = legacy.devices]
            /\ legacy' = [legacy EXCEPT !.left = "state"]
       ELSE UNCHANGED <<doc, legacy>>
  /\ UNCHANGED <<secret, keyFile, usedKeys, vault, threads, rotation, backup, history>>

\* bootstrap_services finds nothing to protect a key with: the server comes up
\* without a vault.
StartWithoutVault ==
  /\ serving = "database" /\ FALSE \in Protectors
  /\ serving' = "up"
  /\ UNCHANGED <<disk, vault, threads, rotation, backup, history>>

\* Vault.initialize makes a master key, ...
MakeKeys ==
  /\ serving = "database" /\ TRUE \in Protectors /\ keyFile.key = None
  /\ \E k \in Keys \ usedKeys :
       /\ keyFile' = [keyFile EXCEPT !.key = k]
       /\ vault' = [key |-> k, pending |-> None]
       /\ usedKeys' = usedKeys \cup {k}
  /\ serving' = "vault"
  /\ UNCHANGED <<doc, secret, legacy, threads, rotation, backup, history>>

\* ... or loads the key files.
LoadKeys ==
  /\ serving = "database" /\ TRUE \in Protectors /\ keyFile.key # None
  /\ vault' = keyFile
  /\ serving' = "vault"
  /\ UNCHANGED <<disk, threads, rotation, backup, history>>

\* complete_legacy_secret_migration encrypts the passwords of the old file, for the
\* devices that have one there and no secret yet, and marks it in the same
\* transaction; then it copies the file, which may fail and stops the start.
MigrateSecrets ==
  /\ serving = "vault"
  /\ IF legacy.left = "state"
       THEN /\ \E p \in [legacy.devices \ legacy.bare -> Passwords] :
                 secret' = [d \in Devices |->
                   IF d \in legacy.devices \ legacy.bare /\ secret[d] = None
                     THEN [pw |-> p[d], key |-> vault.key] ELSE secret[d]]
            /\ legacy' = [legacy EXCEPT !.left = "none"]
            /\ serving' \in IF "disk_full" \in Faults THEN {"up", "down"} ELSE {"up"}
       ELSE /\ serving' = "up"
            /\ UNCHANGED <<secret, legacy>>
  /\ vault' = IF serving' = "up" THEN vault ELSE NoKeys
  /\ UNCHANGED <<doc, keyFile, usedKeys, threads, rotation, backup, history>>

(***************************************************************************)
(* Requests on the document                                                *)
(***************************************************************************)

Goto(w, label, l) == pc' = [pc EXCEPT ![w] = label] /\ loc' = [loc EXCEPT ![w] = l]
Return(w) == Goto(w, "idle", NoLocals)

\* After a change of parts of the data, what other threads hold of them is stale.
WithStale(items) ==
  [v \in Workers |-> IF pc[v] = "idle" THEN loc[v]
                                       ELSE [loc[v] EXCEPT !.stale = @ \cup (items \ loc[v].own)]]

GotoStaling(w, label, l, items) ==
  /\ pc' = [pc EXCEPT ![w] = label]
  /\ loc' = [WithStale(items) EXCEPT ![w] = l]

Readable(blob) == blob.key \in {vault.key, vault.pending}

HasVault == vault.key # None

\* load_data decrypts every password of a listed device, and fails when it cannot;
\* without a vault it loads no passwords.
CanLoad == HasVault => \A d \in doc.devices : secret[d] # None => Readable(secret[d])

Loaded ==
  [NoLocals EXCEPT !.data = doc,
     !.pws = [d \in Devices |-> IF HasVault /\ d \in doc.devices /\ secret[d] # None
                                  THEN secret[d].pw ELSE None]]

\* A request has loaded the data and changed its part to data and pws; it saves
\* what it has, be it much later.
LoadAndChange(w, data, pws, own) ==
  /\ pc[w] = "idle" /\ serving = "up"
  /\ CanLoad
  /\ Goto(w, "save", [Loaded EXCEPT !.data = data, !.pws = pws, !.own = own,
                        !.unsaved = {d \in data.devices : pws[d] # None}])
  /\ UNCHANGED <<disk, serving, vault, scanning, rotation, backup, history>>

\* add_host loads, connects to the host, which may take long, and saves.
AddHost(w, h) ==
  \E c \in Certs \cup {doc.certs[h]} :
    LoadAndChange(w, [doc EXCEPT !.hosts = @ \cup {h}, !.certs[h] = c],
                  Loaded.pws, HostItems({h}))

RemoveHost(w, h) ==
  LoadAndChange(w, [doc EXCEPT !.hosts = @ \ {h}, !.certs[h] = None],
                Loaded.pws, HostItems({h}))

\* add_range saves only when the range is new.
AddRange(w, g) ==
  /\ g \notin doc.ranges
  /\ LoadAndChange(w, [doc EXCEPT !.ranges = @ \cup {g}], Loaded.pws, {<<"range", g>>})

RemoveRange(w, g) ==
  LoadAndChange(w, [doc EXCEPT !.ranges = @ \ {g}], Loaded.pws, {<<"range", g>>})

\* add_upload_device gives the device a new identifier.
AddUploadDevice(w, d, p) ==
  /\ d \notin doc.devices \cup legacy.devices /\ secret[d] = None
  /\ \A v \in Workers : <<"device", d>> \notin loc[v].own
  /\ LoadAndChange(w, [doc EXCEPT !.devices = @ \cup {d}],
                   [Loaded.pws EXCEPT ![d] = p], DeviceItems(d))

\* Mutant: the password of a removed device stays in the document.
RemoveUploadDeviceOnly(w, d) ==
  LoadAndChange(w, [doc EXCEPT !.devices = @ \ {d}], Loaded.pws, DeviceItems(d))

\* remove_upload_device takes the device out of the document; its secret stays.
RemoveUploadDevice(w, d) ==
  LoadAndChange(w, [doc EXCEPT !.devices = @ \ {d}],
                [Loaded.pws EXCEPT ![d] = None], DeviceItems(d))

\* update_upload_device gives the device another password or, p being None, leaves
\* it; it saves even if it has found no such device.
UpdateUploadDevice(w, d, p) ==
  LoadAndChange(w, doc,
                IF d \in doc.devices /\ p # None THEN [Loaded.pws EXCEPT ![d] = p]
                                               ELSE Loaded.pws,
                DeviceItems(d))

\* save_data encrypts the next password with the vault's key ...
EncryptPassword(w) ==
  /\ pc[w] = "save"
  /\ HasVault
  /\ \E d \in loc[w].unsaved :
       Goto(w, "put", [loc[w] EXCEPT !.device = d,
                         !.blob = [pw |-> loc[w].pws[d], key |-> vault.key]])
  /\ UNCHANGED <<disk, serving, vault, scanning, rotation, backup, history>>

\* A rotation is under way, or one has ended since a password was encrypted with
\* this key.
PastRotation(key) == rotation.at # "idle" \/ key # vault.key

\* The key is the pending one, and begin_rotation has failed to write its file: no
\* later rotation of this process writes it again.
InMemoryOnly(key) == key = vault.pending /\ key # keyFile.pending

\* The history names the passwords for which b holds.
Noted(set, d, b) == IF b THEN set \cup {d} ELSE set \ {d}

\* ... and stores it.
PutSecret(w) ==
  LET d == loc[w].device
      kept == secret[d] # None /\ secret[d].pw = loc[w].blob.pw
  IN /\ pc[w] = "put"
     /\ secret' = [secret EXCEPT ![d] = loc[w].blob]
     /\ exposed' = Noted(exposed, d, PastRotation(loc[w].blob.key))
     /\ memoryOnly' = Noted(memoryOnly, d, InMemoryOnly(loc[w].blob.key))
     /\ GotoStaling(w, "save", [loc[w] EXCEPT !.unsaved = @ \ {d}, !.device = None,
                                              !.blob = None],
                    IF kept THEN {} ELSE {<<"password", d>>})
     /\ UNCHANGED <<doc, keyFile, legacy, usedKeys, serving, vault, scanning, rotation, backup>>

\* Mutant: the document is written before its passwords.
SavedEarly(w) == TRUE

\* All passwords are stored.
Saved(w) == loc[w].unsaved = {}

\* save_legacy_state writes the whole document.
SaveDocument(w) ==
  /\ pc[w] = "save"
  /\ Saved(w)
  /\ doc' = loc[w].data
  /\ GotoStaling(w, loc[w].then, IF loc[w].then = "idle" THEN NoLocals ELSE loc[w],
                 Changed(doc, doc'))
  /\ UNCHANGED <<secret, keyFile, legacy, usedKeys, serving, vault, scanning, rotation,
                 backup, history>>

\* refresh_host asks the host first ...
RefreshHost(w, h) ==
  /\ pc[w] = "idle" /\ serving = "up"
  /\ Goto(w, "connect", [NoLocals EXCEPT !.own = {<<"cert", h>>}])
  /\ UNCHANGED <<disk, serving, vault, scanning, rotation, backup, history>>

\* Mutant: the answer is stored whether or not the certificate is still monitored.
StillMonitoredIgnored(h) == TRUE

StillMonitored(h) == doc.certs[h] # None

\* ... and then update_monitored_certificate reads, merges and writes in one
\* transaction.  A host that does not answer keeps the certificate seen before.
UpdateMonitored(w, h) ==
  /\ pc[w] = "connect" /\ loc[w].own = {<<"cert", h>>}
  /\ \E c \in IF StillMonitored(h) THEN Certs \cup {doc.certs[h]} ELSE {doc.certs[h]} :
       doc' = [doc EXCEPT !.certs[h] = c]
  /\ GotoStaling(w, "idle", NoLocals, Changed(doc, doc'))
  /\ UNCHANGED <<secret, keyFile, legacy, usedKeys, serving, vault, scanning, rotation,
                 backup, history>>

(***************************************************************************)
(* The scan                                                                *)
(***************************************************************************)

\* start_scan looks at the flag, which only the new thread will set.
StartScan(w) ==
  /\ pc[w] = "idle" /\ serving = "up"
  /\ ~scanning
  /\ CanLoad
  /\ doc.ranges # {}
  /\ Goto(w, "scan", [NoLocals EXCEPT !.left = doc.ranges, !.then = "visit"])
  /\ UNCHANGED <<disk, serving, vault, scanning, rotation, backup, history>>

BeginScan(w) ==
  /\ pc[w] = "scan"
  /\ CanLoad
  /\ scanning' = TRUE
  /\ Goto(w, "visit", [loc[w] EXCEPT !.data = doc, !.pws = Loaded.pws, !.stale = {}])
  /\ UNCHANGED <<disk, serving, vault, rotation, backup, history>>

\* Every host found in range g gets its certificate; then the whole is saved.
VisitRange(w, g) ==
  /\ pc[w] = "visit"
  /\ g \in loc[w].left
  /\ \E found \in SUBSET Hosts : \E seen \in [found -> Certs] :
       Goto(w, "save",
            [loc[w] EXCEPT
               !.left = @ \ {g}, !.own = @ \cup HostItems(found),
               !.data.hosts = @ \cup found,
               !.data.certs = [h \in Hosts |-> IF h \in found THEN seen[h]
                                                             ELSE loc[w].data.certs[h]],
               !.unsaved = {d \in loc[w].data.devices : loc[w].pws[d] # None}])
  /\ UNCHANGED <<disk, serving, vault, scanning, rotation, backup, history>>

EndScan(w) ==
  /\ pc[w] = "visit"
  /\ loc[w].left = {}
  /\ scanning' = FALSE
  /\ Return(w)
  /\ UNCHANGED <<disk, serving, vault, rotation, backup, history>>

(***************************************************************************)
(* Rotation of the master key                                              *)
(***************************************************************************)

RotationAt(label) == rotation' = [rotation EXCEPT !.at = label]

\* A pending key is made once, and only then written: a rotation that finds one
\* in memory goes on with it.
BeginRotation ==
  /\ serving = "up" /\ HasVault /\ rotation.at = "idle"
  /\ \/ /\ vault.pending # None
        /\ RotationAt("list")
        /\ UNCHANGED <<vault, keyFile, usedKeys>>
     \/ \E k \in Keys \ usedKeys :
          /\ vault.pending = None
          /\ vault' = [vault EXCEPT !.pending = k]
          /\ usedKeys' = usedKeys \cup {k}
          /\ \/ /\ keyFile' = [keyFile EXCEPT !.pending = k]
                /\ RotationAt("list")
             \/ /\ "disk_full" \in Faults
                /\ UNCHANGED <<keyFile, rotation>>
  /\ UNCHANGED <<doc, secret, legacy, serving, threads, backup, history>>

ListSecrets ==
  /\ rotation.at = "list"
  /\ rotation' = [rotation EXCEPT !.at = "next",
       !.todo = {d \in Devices : secret[d] # None /\ secret[d].key # vault.pending}]
  /\ UNCHANGED <<disk, serving, vault, threads, backup, history>>

\* get_secret, decrypt, encrypt_for_rotation; a key nobody knows ends the rotation.
DecryptNext ==
  /\ rotation.at = "next"
  /\ \E d \in rotation.todo :
       rotation' = IF Readable(secret[d])
                     THEN [rotation EXCEPT !.at = "convert", !.todo = @ \ {d},
                                           !.device = d, !.blob = secret[d]]
                     ELSE NoRotation
  /\ UNCHANGED <<disk, serving, vault, threads, backup, history>>

\* UPDATE secrets ... WHERE id = ? AND key_id = ?: what was saved since under
\* the same key is replaced by what the rotation read.
ConvertSecret ==
  LET d == rotation.device
  IN /\ rotation.at = "convert"
     /\ IF secret[d].key = rotation.blob.key
          THEN /\ secret' = [secret EXCEPT ![d] = [rotation.blob EXCEPT !.key = vault.pending]]
               /\ memoryOnly' = IF InMemoryOnly(vault.pending) THEN memoryOnly \cup {d}
                                                              ELSE memoryOnly
               /\ loc' = IF secret[d] = rotation.blob THEN loc
                                                      ELSE WithStale({<<"password", d>>})
          ELSE UNCHANGED <<secret, memoryOnly, loc>>
     /\ rotation' = [rotation EXCEPT !.at = "next", !.device = None, !.blob = None]
     /\ UNCHANGED <<doc, keyFile, legacy, usedKeys, serving, vault, pc, scanning, backup,
                    exposed>>

\* Mutant: the pending file is removed before the master file is written.
ActivateUnlinking ==
  /\ rotation.at = "next" /\ rotation.todo = {}
  /\ vault' = [vault EXCEPT !.key = vault.pending]
  /\ keyFile' = [keyFile EXCEPT !.pending = None]
  /\ RotationAt("master")
  /\ UNCHANGED <<doc, secret, legacy, usedKeys, serving, threads, backup, history>>

\* activate_pending_key: in memory, ...
ActivatePending ==
  /\ rotation.at = "next" /\ rotation.todo = {}
  /\ vault' = [vault EXCEPT !.key = vault.pending]
  /\ RotationAt("master")
  /\ UNCHANGED <<disk, serving, threads, backup, history>>

\* ... in the master file, ...
WriteMaster ==
  /\ rotation.at = "master"
  /\ \/ /\ keyFile' = [keyFile EXCEPT !.key = vault.key]
        /\ RotationAt("unlink")
     \/ /\ "disk_full" \in Faults
        /\ rotation' = NoRotation
        /\ UNCHANGED keyFile
  /\ UNCHANGED <<doc, secret, legacy, usedKeys, serving, vault, threads, backup, history>>

\* ... and then there is no pending key any more.
ForgetPending ==
  /\ rotation.at = "unlink"
  /\ keyFile' = [keyFile EXCEPT !.pending = None]
  /\ vault' = [vault EXCEPT !.pending = None]
  /\ rotation' = NoRotation
  /\ backup' = [backup EXCEPT !.rotated = backup.at \in {"database", "keys"} \/ @]
  /\ memoryOnly' = {}
  /\ UNCHANGED <<doc, secret, legacy, usedKeys, serving, threads, exposed>>

AbortRotation ==
  /\ "db_fails" \in Faults
  /\ rotation.at \in {"list", "next", "convert"}
  /\ rotation' = NoRotation
  /\ UNCHANGED <<disk, serving, vault, threads, backup, history>>

(***************************************************************************)
(* Backup                                                                  *)
(***************************************************************************)

\* export_package makes the recovery package, ...
StartBackup ==
  /\ serving = "up" /\ HasVault /\ backup.at = "none"
  /\ backup' = [NoBackup EXCEPT !.at = "database", !.package = vault.key]
  /\ UNCHANGED <<disk, serving, vault, threads, rotation, history>>

\* ... copies the database as it is at one moment, ...
CopyDatabase ==
  /\ backup.at = "database"
  /\ backup' = [backup EXCEPT !.at = "keys",
       !.needs = [d \in Devices |-> IF secret[d] = None THEN None ELSE secret[d].key],
       !.excepted = exposed \cup memoryOnly]
  /\ UNCHANGED <<disk, serving, vault, threads, rotation, history>>

\* Mutant: only the master file is copied.
CopyMasterKey ==
  /\ backup.at = "keys"
  /\ backup' = [backup EXCEPT !.at = "made"]
  /\ UNCHANGED <<disk, serving, vault, threads, rotation, history>>

\* ... and then the files.
CopyKeys ==
  /\ backup.at = "keys"
  /\ backup' = [backup EXCEPT !.at = "made", !.pending = keyFile.pending]
  /\ UNCHANGED <<disk, serving, vault, threads, rotation, history>>

\* An error while a backup is made, or the download is over.
DropBackup ==
  /\ backup.at # "none"
  /\ backup' = NoBackup
  /\ UNCHANGED <<disk, serving, vault, threads, rotation, history>>

\* stage_restore copies the files back and writes the master key of the package.
Restored == [key |-> backup.package, pending |-> backup.pending]

(***************************************************************************)
(* Failures                                                                *)
(***************************************************************************)

\* A request or a scan ends with an exception, as a save does that has a password
\* and no vault; a scan leaves its flag set.
Abort(w) ==
  /\ pc[w] # "idle"
  /\ \/ "db_fails" \in Faults
     \/ pc[w] = "scan" /\ ~CanLoad
     \/ pc[w] = "save" /\ ~HasVault /\ loc[w].unsaved # {}
  /\ scanning' = (scanning \/ pc[w] = "scan")
  /\ Return(w)
  /\ UNCHANGED <<disk, serving, vault, rotation, backup, history>>

Crash ==
  /\ "crash" \in Faults
  /\ serving # "down"
  /\ serving' = "down" /\ vault' = NoKeys /\ scanning' = FALSE
  /\ pc' = [w \in Workers |-> "idle"] /\ loc' = [w \in Workers |-> NoLocals]
  /\ rotation' = NoRotation
  /\ backup' = IF backup.at = "made" THEN backup ELSE NoBackup
  /\ UNCHANGED <<disk, history>>

Start == OpenDatabase \/ StartWithoutVault \/ MakeKeys \/ LoadKeys \/ MigrateSecrets

ChangeDocument(w) ==
  \/ \E h \in Hosts : AddHost(w, h) \/ RemoveHost(w, h) \/ RefreshHost(w, h)
                        \/ UpdateMonitored(w, h)
  \/ \E g \in Ranges : AddRange(w, g) \/ RemoveRange(w, g)
  \/ \E d \in Devices : \/ RemoveUploadDevice(w, d)
                        \/ \E p \in Passwords : AddUploadDevice(w, d, p)
                        \/ \E p \in Passwords \cup {None} : UpdateUploadDevice(w, d, p)
  \/ EncryptPassword(w) \/ PutSecret(w) \/ SaveDocument(w)

Scan(w) ==
  StartScan(w) \/ BeginScan(w) \/ (\E g \in Ranges : VisitRange(w, g)) \/ EndScan(w)

Rotate ==
  \/ BeginRotation \/ ListSecrets \/ DecryptNext \/ ConvertSecret
  \/ ActivatePending \/ WriteMaster \/ ForgetPending \/ AbortRotation

BackUp == StartBackup \/ CopyDatabase \/ CopyKeys \/ DropBackup

Next ==
  \/ Start \/ Rotate \/ BackUp \/ Crash
  \/ \E w \in Workers : ChangeDocument(w) \/ Scan(w) \/ Abort(w)

Spec == Init /\ [][Next]_vars

(***************************************************************************)
(* Properties                                                              *)
(***************************************************************************)

\* A server that serves with a vault has a password for every device in its
\* document, but for those that had none in the old file: the passwords are stored
\* before the document, a migration takes them over before the first request, and
\* no failure or crash comes in between (save_data).  A server without a vault
\* stores no device with a password, and leaves those of the old file to the first
\* start with a vault.
PasswordKept ==
  serving = "up" /\ HasVault => \A d \in doc.devices \ legacy.bare : secret[d] # None

\* What a save changes is what its own request is about or what another request
\* has changed since it read, never anything else, and a scan is about the hosts it
\* has found; a refresh only renews a certificate that is there, and never brings
\* back a removed one.  A password that is not saved by a request changes only if
\* it was saved past a rotation.
OnlyOverlapLoses ==
  [][serving = "up" =>
       /\ \A item \in Changed(doc, doc') : \E w \in Workers :
            /\ pc'[w] # pc[w]
            /\ \/ pc[w] = "save" /\ item \in loc[w].own \cup loc[w].stale
               \/ /\ pc[w] = "connect" /\ item \in loc[w].own
                  /\ doc.certs[item[2]] # None /\ doc'.certs[item[2]] # None
       /\ \A d \in Devices :
            secret[d] # None /\ secret'[d].pw # secret[d].pw =>
              \/ d \in exposed
              \/ \E w \in Workers : /\ pc[w] = "put" /\ pc'[w] = "save"
                                    /\ <<"password", d>> \in loc[w].own \cup loc[w].stale]_vars

\* A password can be decrypted with a key that is on disk, whatever the process does
\* next, and so after every crash of a rotation (rotate_secrets, begin_rotation,
\* activate_pending_key).  The code loses two kinds of passwords, which are excepted:
\* those saved past a rotation (exposed), and all those saved or converted under a
\* pending key whose file begin_rotation failed to write, however long ago they were
\* given, until the rotation with that key has ended (memoryOnly).
SecretsReadable ==
  \A d \in Devices \ (exposed \cup memoryOnly) :
    secret[d] # None => secret[d].key \in {keyFile.key, keyFile.pending}

\* A backup that is made can be restored with the data it has and its recovery
\* package: the keys it then has open the secrets in its database, also if it was
\* made in the middle of a rotation, unless that rotation ended meanwhile
\* (create_backup copies the database and then the key files, which no lock holds).
\* The passwords are excepted that were in one of the two histories of
\* SecretsReadable when the database was copied: a pending key that is in memory
\* only is in no backup either.
BackupRestorable ==
  backup.at = "made" /\ ~backup.rotated =>
    \A d \in Devices \ backup.excepted :
      backup.needs[d] \in {None, Restored.key, Restored.pending}

=============================================================================
