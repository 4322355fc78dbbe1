--------------------------- MODULE ServerDataProofs ---------------------------
(***************************************************************************)
(* What is proved about ServerData for every set of hosts, devices, keys    *)
(* and threads and every choice of faults.                                  *)
(***************************************************************************)
EXTENDS ServerData, TLAPS

(***************************************************************************)
(* The inductive invariant                                                 *)
(***************************************************************************)

\* The devices whose password was last saved apart from a rotation, and those of
\* them whose password is in neither history.
Unexposed == {d \in Devices \ exposed : secret[d] # None}
Unexcepted == Unexposed \ memoryOnly

\* The devices that may be without a password: those of the old file until its
\* passwords are taken over, and then those that had none there.
Lacking == IF legacy.left = "state" THEN legacy.devices ELSE legacy.bare

\* What has been done when the server is so far up: keys are in memory, or there is
\* no vault; the old file has been taken over, and only then there are rotations
\* and backups.
Started ==
  /\ vault.key # None => serving \in {"vault", "up"} /\ keyFile.key # None
  /\ vault.key = None => vault = NoKeys
  /\ serving = "vault" => vault.key # None /\ vault = keyFile
  /\ serving # "down" => legacy.left # "file"
  /\ serving = "up" /\ vault.key # None => legacy.left = "none"
  /\ rotation.at # "idle" \/ backup.at \in {"database", "keys"} =>
       serving = "up" /\ vault.key # None
  /\ legacy.left = "file" => doc.devices = {}
  /\ \A d \in doc.devices \ Lacking : secret[d] # None
  /\ keyFile.key = None => keyFile.pending = None

\* Keys in memory are those on disk, but for a pending key that is in memory only
\* and a master key that is not in its file yet; such keys open no password that
\* is in neither history, unless they open all of them.
KeysOK ==
  /\ \A d \in Devices : secret[d] # None => secret[d].key \in usedKeys
  /\ {keyFile.key, keyFile.pending} \subseteq usedKeys \cup {None}
  /\ vault.key # None =>
       /\ vault.key \in {keyFile.key, vault.pending}
       /\ keyFile.pending \in {None, vault.pending}
       /\ vault.pending \in usedKeys \cup {None}
  /\ vault.pending # keyFile.pending => \A d \in Unexcepted : secret[d].key # vault.pending
  /\ vault.key # None /\ vault.key = vault.pending =>
       \A d \in Unexposed : secret[d].key = vault.pending
  /\ keyFile.key # None /\ keyFile.key = keyFile.pending =>
       \A d \in Unexposed : secret[d].key = keyFile.pending

\* A rotation has converted every password but those still on its list; what it
\* has read is what is stored, unless a request has saved another meanwhile.
Rotating ==
  /\ rotation.at # "idle" => vault.pending # None
  /\ rotation.at \in {"next", "convert"} => \A d \in Unexposed :
       \/ secret[d].key = vault.pending
       \/ d \in rotation.todo
       \/ rotation.at = "convert" /\ d = rotation.device
  /\ rotation.at = "convert" =>
       /\ rotation.device \in Devices /\ rotation.blob \in Blob
       /\ secret[rotation.device] # None
       /\ (rotation.device \in exposed \/ secret[rotation.device] = rotation.blob)
  /\ rotation.at \in {"master", "unlink"} => vault.key = vault.pending
  /\ rotation.at = "unlink" => keyFile.key = vault.key
  /\ \A d \in rotation.todo : secret[d] # None

\* Until a rotation ends, the keys of a backup being made open what it copies.
BackingUp ==
  ~backup.rotated =>
    /\ backup.at = "database" =>
         /\ vault.key \in {backup.package, vault.pending}
         /\ \A d \in Unexcepted : secret[d].key \in {backup.package, keyFile.pending}
    /\ backup.at = "keys" => \A d \in Devices \ backup.excepted :
                               backup.needs[d] \in {None, backup.package, keyFile.pending}

\* What a request holds when it saves: the passwords that are not stored yet are
\* among those it will store, and what it holds differs from what is stored only
\* in its own part and where others have saved since it read.
Holding == {"save", "put", "visit"}

Saving(w) ==
  LET l == loc[w] IN
  /\ pc[w] \in Holding =>
       /\ \A d \in l.data.devices \ Lacking :
            secret[d] = None => pc[w] # "visit" /\ d \in l.unsaved
       /\ l.unsaved \subseteq {d \in l.data.devices : l.pws[d] # None}
       /\ Changed(doc, l.data) \subseteq l.own \cup l.stale
       /\ \A d \in Devices :
            l.pws[d] # None /\ secret[d] # None /\ <<"password", d>> \notin l.own \cup l.stale
              => secret[d].pw = l.pws[d]
  /\ pc[w] = "put" => l.device \in l.unsaved /\ l.blob.pw = l.pws[l.device]
                        /\ l.blob.key \in usedKeys
  /\ pc[w] \in {"scan", "visit"} => l.then = "visit" /\ l.unsaved = {}

Invariant ==
  /\ TypeOK
  /\ Started /\ KeysOK /\ Rotating /\ BackingUp
  /\ \A w \in Workers : Saving(w)
  /\ SecretsReadable /\ BackupRestorable

(***************************************************************************)
(* Documents and the parts in which they differ                            *)
(***************************************************************************)

\* What differs in two documents differs in one of them and a third.
LEMMA ChangedTriangle ==
  ASSUME NEW a \in Document, NEW b \in Document, NEW c \in Document
  PROVE  Changed(a, c) \subseteq Changed(a, b) \cup Changed(b, c)
BY DEF Changed

\* The parts are parts of the server's data.
LEMMA ChangedItems ==
  ASSUME NEW a \in Document, NEW b \in Document PROVE Changed(a, b) \subseteq Items
BY DEF Changed, Items, Document

(***************************************************************************)
(* Types                                                                   *)
(***************************************************************************)

\* The fields of a document.
LEMMA DocumentFields ==
  ASSUME NEW d \in Document
  PROVE  /\ d.hosts \subseteq Hosts /\ d.ranges \subseteq Ranges /\ d.devices \subseteq Devices
         /\ d.certs \in [Hosts -> Certs \cup {None}]
         /\ d = [hosts |-> d.hosts, certs |-> d.certs, ranges |-> d.ranges, devices |-> d.devices]
BY DEF Document

\* The fields of a request's locals.
LEMMA LocalFields ==
  ASSUME NEW l \in Locals
  PROVE  /\ l.data \in Document /\ l.pws \in [Devices -> Passwords \cup {None}]
         /\ l.own \subseteq Items /\ l.stale \subseteq Items /\ l.unsaved \subseteq Devices
         /\ l.blob \in Blob \cup {None} /\ l.device \in Devices \cup {None}
         /\ l.then \in {"idle", "visit"} /\ l.left \subseteq Ranges
BY DEF Locals

\* The types of everything but the threads.
StateTypes ==
  /\ doc \in Document
  /\ secret \in [Devices -> Blob \cup {None}]
  /\ keyFile \in KeyPair /\ vault \in KeyPair
  /\ legacy \in Legacy
  /\ serving \in {"down", "database", "vault", "up"}
  /\ scanning \in BOOLEAN
  /\ rotation \in Rotation /\ backup \in Backup
  /\ usedKeys \in SUBSET Keys
  /\ exposed \in SUBSET Devices /\ memoryOnly \in SUBSET Devices

\* What TypeOK says of a thread at label with locals l.
ThreadFits(label, l) ==
  /\ label \in Labels /\ l \in Locals
  /\ {d \in Devices : l.pws[d] # None} \subseteq l.data.devices
  /\ label = "put" => l.blob \in Blob /\ l.device \in Devices

ThreadTypes ==
  /\ pc \in [Workers -> Labels] /\ loc \in [Workers -> Locals]
  /\ \A w \in Workers : ThreadFits(pc[w], loc[w]) /\ (pc[w] # "idle" => serving = "up")

\* The type invariant is that of the state and that of the threads.
LEMMA TypeParts == TypeOK <=> StateTypes /\ ThreadTypes
BY DEF TypeOK, StateTypes, ThreadTypes, ThreadFits

\* The locals of a thread that does nothing.
LEMMA NoLocalsFit == ThreadFits("idle", NoLocals)
<1>1. EmptyState \in Document
  BY DEF EmptyState, Document
<1>2. NoLocals \in Locals
  BY <1>1 DEF NoLocals, Locals, NoPasswords
<1> QED
  BY <1>2 DEF ThreadFits, Labels, NoLocals, NoPasswords

\* After a change others make, a thread has the same locals but for what is stale.
LEMMA StaledLocals ==
  ASSUME ThreadTypes, NEW items \in SUBSET Items, NEW v \in Workers
  PROVE  LET l == loc[v]
             m == WithStale(items)[v]
         IN /\ m \in Locals
            /\ m.data = l.data /\ m.pws = l.pws /\ m.own = l.own /\ m.unsaved = l.unsaved
            /\ m.blob = l.blob /\ m.device = l.device /\ m.then = l.then /\ m.left = l.left
            /\ pc[v] # "idle" => m.stale = l.stale \cup (items \ l.own)
            /\ pc[v] = "idle" => m.stale = l.stale
<1>1. loc[v] \in Locals
  BY DEF ThreadTypes
<1>2. CASE pc[v] = "idle"
  BY <1>1, <1>2 DEF WithStale
<1>3. CASE pc[v] # "idle"
  <2> DEFINE s == loc[v].stale \cup (items \ loc[v].own)
  <2>1. s \in SUBSET Items
    BY <1>1, LocalFields
  <2>2. WithStale(items)[v] = [loc[v] EXCEPT !.stale = s]
    BY <1>3 DEF WithStale
  <2> HIDE DEF s
  <2>3. [loc[v] EXCEPT !.stale = s] \in Locals
    BY ONLY <1>1, <2>1 DEF Locals
  <2>4. s = loc[v].stale \cup (items \ loc[v].own)
    BY DEF s
  <2> QED
    BY <1>1, <1>3, <2>2, <2>3, <2>4 DEF Locals
<1> QED
  BY <1>2, <1>3

\* One thread moves on, to a label its locals fit.
LEMMA ThreadMoves ==
  ASSUME ThreadTypes, NEW w \in Workers, NEW label, NEW l, ThreadFits(label, l),
         Goto(w, label, l), serving = "up", serving' = "up"
  PROVE  ThreadTypes'
<1>1. pc' \in [Workers -> Labels] /\ loc' \in [Workers -> Locals]
  BY DEF ThreadTypes, ThreadFits, Goto
<1>2. ASSUME NEW v \in Workers PROVE ThreadFits(pc'[v], loc'[v])
  BY DEF ThreadTypes, Goto
<1> QED
  BY <1>1, <1>2 DEF ThreadTypes, ThreadFits

\* The same, when what the others hold becomes stale.
LEMMA ThreadMovesStaling ==
  ASSUME ThreadTypes, NEW w \in Workers, NEW label, NEW l, ThreadFits(label, l),
         NEW items \in SUBSET Items, GotoStaling(w, label, l, items),
         serving = "up", serving' = "up"
  PROVE  ThreadTypes'
<1>1. ASSUME NEW v \in Workers, v # w
      PROVE  pc'[v] = pc[v] /\ loc'[v] = WithStale(items)[v]
  BY <1>1 DEF GotoStaling, WithStale, ThreadTypes
<1>2. pc'[w] = label /\ loc'[w] = l
  BY DEF GotoStaling, WithStale, ThreadTypes
<1>3. ASSUME NEW v \in Workers PROVE ThreadFits(pc'[v], loc'[v])
  <2>1. CASE v = w
    BY <1>2, <2>1
  <2>2. CASE v # w
    <3>1. ThreadFits(pc[v], loc[v])
      BY DEF ThreadTypes
    <3> QED
      BY <1>1, <2>2, <3>1, StaledLocals DEF ThreadFits
  <2> QED
    BY <2>1, <2>2
<1>4. pc' \in [Workers -> Labels] /\ loc' \in [Workers -> Locals]
  <2>1. pc' \in [Workers -> Labels]
    BY DEF GotoStaling, ThreadTypes, ThreadFits
  <2>2. loc' = [v \in Workers |-> loc'[v]]
    BY DEF GotoStaling, WithStale
  <2> QED
    BY <1>3, <2>1, <2>2 DEF ThreadFits
<1> QED
  BY <1>3, <1>4 DEF ThreadTypes, ThreadFits

(***************************************************************************)
(* Requests that load, change and save                                     *)
(***************************************************************************)

\* What a request has loaded.
LEMMA LoadedFields ==
  ASSUME TypeOK
  PROVE  /\ Loaded.data = doc
         /\ Loaded.pws \in [Devices -> Passwords \cup {None}]
         /\ \A d \in Devices : Loaded.pws[d] # None =>
              d \in doc.devices /\ secret[d] # None /\ Loaded.pws[d] = secret[d].pw
<1>1. /\ Loaded.data = doc
      /\ Loaded.pws = [d \in Devices |-> IF HasVault /\ d \in doc.devices /\ secret[d] # None
                                           THEN secret[d].pw ELSE None]
  BY DEF Loaded, NoLocals
<1>2. \A d \in Devices : secret[d] # None => secret[d].pw \in Passwords
  BY DEF TypeOK, Blob
<1> QED
  BY <1>1, <1>2

\* A change of the data held: it differs from what is stored in the request's own
\* part only, and has a password for every device that has one.
Change(data, pws, own) ==
  /\ data \in Document
  /\ pws \in [Devices -> Passwords \cup {None}]
  /\ own \in SUBSET Items
  /\ Changed(doc, data) \subseteq own
  /\ \A d \in Devices : pws[d] # None =>
       d \in data.devices /\ (secret[d] # None /\ <<"password", d>> \notin own
                                => secret[d].pw = pws[d])
  /\ \A d \in data.devices \ Lacking : secret[d] # None \/ pws[d] # None

Changes(w) ==
  \E data, pws, own : Change(data, pws, own) /\ LoadAndChange(w, data, pws, own)

\* The requests on hosts and ranges change no device.
LEMMA SameDevices ==
  ASSUME TypeOK, Started, serving = "up", NEW data \in Document, data.devices = doc.devices,
         NEW own \in SUBSET Items, Changed(doc, data) \subseteq own
  PROVE  Change(data, Loaded.pws, own)
<1>1. \A d \in doc.devices \ Lacking : secret[d] # None
  BY DEF Started
<1> QED
  BY <1>1, LoadedFields DEF Change

\* Adding or removing a host changes that host and its certificate only.
LEMMA HostChanges ==
  ASSUME TypeOK, Started, NEW w \in Workers, NEW h \in Hosts, AddHost(w, h) \/ RemoveHost(w, h)
  PROVE  Changes(w)
<1>0. serving = "up"
  BY DEF AddHost, RemoveHost, LoadAndChange
<1>1. HostItems({h}) \in SUBSET Items
  BY DEF HostItems, Items
<1>2. doc \in Document
  BY DEF TypeOK
<1>3. CASE AddHost(w, h)
  <2>1. PICK c \in Certs \cup {doc.certs[h]} :
          LoadAndChange(w, [doc EXCEPT !.hosts = @ \cup {h}, !.certs[h] = c],
                        Loaded.pws, HostItems({h}))
    BY <1>3 DEF AddHost
  <2> DEFINE data == [doc EXCEPT !.hosts = @ \cup {h}, !.certs[h] = c]
  <2>2. c \in Certs \cup {None}
    BY <1>2 DEF Document
  <2>3. data \in Document /\ data.devices = doc.devices
    BY <1>2, <2>2 DEF Document
  <2>4. Changed(doc, data) \subseteq HostItems({h})
    BY <1>2 DEF Changed, Document, HostItems
  <2>5. Change(data, Loaded.pws, HostItems({h}))
    BY <1>0, <1>1, <2>3, <2>4, SameDevices
  <2> QED
    BY <2>1, <2>5 DEF Changes
<1>4. CASE RemoveHost(w, h)
  <2> DEFINE data == [doc EXCEPT !.hosts = @ \ {h}, !.certs[h] = None]
  <2>3. data \in Document /\ data.devices = doc.devices
    BY <1>2 DEF Document
  <2>4. Changed(doc, data) \subseteq HostItems({h})
    BY <1>2 DEF Changed, Document, HostItems
  <2>5. Change(data, Loaded.pws, HostItems({h}))
    BY <1>0, <1>1, <2>3, <2>4, SameDevices
  <2> QED
    BY <1>4, <2>5 DEF RemoveHost, Changes
<1> QED
  BY <1>3, <1>4

\* Adding or removing a range changes that range only.
LEMMA RangeChanges ==
  ASSUME TypeOK, Started, NEW w \in Workers, NEW g \in Ranges, AddRange(w, g) \/ RemoveRange(w, g)
  PROVE  Changes(w)
<1>0. serving = "up"
  BY DEF AddRange, RemoveRange, LoadAndChange
<1>1. {<<"range", g>>} \in SUBSET Items
  BY DEF Items
<1>2. doc \in Document
  BY DEF TypeOK
<1>3. ASSUME NEW data, data = [doc EXCEPT !.ranges = @ \cup {g}] \/ data = [doc EXCEPT !.ranges = @ \ {g}]
      PROVE  Change(data, Loaded.pws, {<<"range", g>>})
  <2>3. data \in Document /\ data.devices = doc.devices
    BY <1>2, <1>3 DEF Document
  <2>4. Changed(doc, data) \subseteq {<<"range", g>>}
    BY <1>2, <1>3 DEF Changed, Document
  <2> QED
    BY <1>0, <1>1, <2>3, <2>4, SameDevices
<1> QED
  BY <1>3 DEF AddRange, RemoveRange, Changes

\* What is done to one upload device changes that device and its password only.
LEMMA DeviceChanges ==
  ASSUME TypeOK, Started, NEW w \in Workers, NEW d \in Devices,
         \/ RemoveUploadDevice(w, d)
         \/ \E p \in Passwords : AddUploadDevice(w, d, p)
         \/ \E p \in Passwords \cup {None} : UpdateUploadDevice(w, d, p)
  PROVE  Changes(w)
<1>0. serving = "up"
  BY DEF AddUploadDevice, RemoveUploadDevice, UpdateUploadDevice, LoadAndChange
<1>1. DeviceItems(d) \in SUBSET Items /\ <<"device", d>> \in DeviceItems(d)
        /\ <<"password", d>> \in DeviceItems(d)
  BY DEF DeviceItems, Items
<1>2. /\ doc \in Document /\ \A e \in doc.devices : e \in Devices
      /\ \A e \in doc.devices \ Lacking : secret[e] # None
  BY <1>0 DEF TypeOK, Started, Document
<1>3. \A p \in Passwords : p # None
  BY NoneAssumption
<1>4. ASSUME NEW p \in Passwords, AddUploadDevice(w, d, p) PROVE Changes(w)
  <2> DEFINE data == [doc EXCEPT !.devices = @ \cup {d}]
             pws == [Loaded.pws EXCEPT ![d] = p]
  <2>1. data \in Document /\ data.devices = doc.devices \cup {d}
    BY <1>2 DEF Document
  <2>2. Changed(doc, data) \subseteq {<<"device", d>>}
    BY <1>2 DEF Changed, Document
  <2>3. /\ pws \in [Devices -> Passwords \cup {None}] /\ pws[d] = p
        /\ \A e \in Devices : e # d => pws[e] = Loaded.pws[e]
    BY LoadedFields
  <2>4. \A e \in Devices : pws[e] # None =>
          e \in data.devices /\ (secret[e] # None /\ <<"password", e>> \notin DeviceItems(d)
                                   => secret[e].pw = pws[e])
    BY <1>1, <2>1, <2>3, LoadedFields
  <2>5. \A e \in data.devices \ Lacking : secret[e] # None \/ pws[e] # None
    BY <1>2, <1>3, <2>1, <2>3
  <2> HIDE DEF data, pws
  <2>6. Change(data, pws, DeviceItems(d))
    BY <1>1, <2>1, <2>2, <2>3, <2>4, <2>5 DEF Change
  <2> QED
    BY <1>4, <2>6 DEF AddUploadDevice, Changes, data, pws
<1>5. CASE RemoveUploadDevice(w, d)
  <2> DEFINE data == [doc EXCEPT !.devices = @ \ {d}]
             pws == [Loaded.pws EXCEPT ![d] = None]
  <2>1. data \in Document /\ data.devices = doc.devices \ {d}
    BY <1>2 DEF Document
  <2>2. Changed(doc, data) \subseteq {<<"device", d>>}
    BY <1>2 DEF Changed, Document
  <2>3. /\ pws \in [Devices -> Passwords \cup {None}] /\ pws[d] = None
        /\ \A e \in Devices : e # d => pws[e] = Loaded.pws[e]
    BY LoadedFields
  <2>4. \A e \in Devices : pws[e] # None =>
          e \in data.devices /\ (secret[e] # None /\ <<"password", e>> \notin DeviceItems(d)
                                   => secret[e].pw = pws[e])
    BY <2>1, <2>3, LoadedFields
  <2>5. \A e \in data.devices \ Lacking : secret[e] # None \/ pws[e] # None
    BY <1>2, <2>1
  <2> HIDE DEF data, pws
  <2>6. Change(data, pws, DeviceItems(d))
    BY <1>1, <2>1, <2>2, <2>3, <2>4, <2>5 DEF Change
  <2> QED
    BY <1>5, <2>6 DEF RemoveUploadDevice, Changes, data, pws
<1>6. ASSUME NEW p \in Passwords \cup {None}, UpdateUploadDevice(w, d, p) PROVE Changes(w)
  <2> DEFINE pws == IF d \in doc.devices /\ p # None THEN [Loaded.pws EXCEPT ![d] = p]
                                                     ELSE Loaded.pws
  <2>1. Changed(doc, doc) = {}
    BY DEF Changed
  <2>2. /\ pws \in [Devices -> Passwords \cup {None}]
        /\ d \in doc.devices /\ p # None => pws[d] = p
        /\ \A e \in Devices : e # d \/ d \notin doc.devices \/ p = None => pws[e] = Loaded.pws[e]
    BY LoadedFields
  <2>3. \A e \in Devices : pws[e] # None =>
          e \in doc.devices /\ (secret[e] # None /\ <<"password", e>> \notin DeviceItems(d)
                                   => secret[e].pw = pws[e])
    BY <1>1, <2>2, LoadedFields
  <2> HIDE DEF pws
  <2>4. Change(doc, pws, DeviceItems(d))
    BY <1>1, <1>2, <2>1, <2>2, <2>3 DEF Change
  <2> QED
    BY <1>6, <2>4 DEF UpdateUploadDevice, Changes, pws
<1> QED
  BY <1>4, <1>5, <1>6

\* What a request has loaded, as its locals.
LEMMA LoadedLocals ==
  ASSUME TypeOK PROVE Loaded \in Locals /\ Loaded.stale = {} /\ Loaded.then = "idle"
<1> DEFINE pws == [d \in Devices |-> IF HasVault /\ d \in doc.devices /\ secret[d] # None
                                       THEN secret[d].pw ELSE None]
<1>1. pws \in [Devices -> Passwords \cup {None}] /\ doc \in Document
  BY DEF TypeOK, Blob
<1>2. NoLocals \in Locals /\ NoLocals.stale = {} /\ NoLocals.then = "idle"
  BY NoLocalsFit DEF ThreadFits, NoLocals
<1>3. Loaded = [NoLocals EXCEPT !.data = doc, !.pws = pws]
  BY DEF Loaded
<1> HIDE DEF pws
<1> QED
  BY ONLY <1>1, <1>2, <1>3 DEF Locals

\* A request with a change of its own goes on to save it.
LEMMA ChangesEnter ==
  ASSUME Invariant, NEW w \in Workers, Changes(w)
  PROVE  /\ ThreadTypes'
         /\ pc[w] = "idle" /\ pc'[w] = "save" /\ Saving(w)'
         /\ \A v \in Workers : v # w => pc'[v] = pc[v] /\ loc'[v] = loc[v]
         /\ UNCHANGED <<disk, serving, vault, scanning, rotation, backup, history>>
<1>1. PICK data, pws, own : Change(data, pws, own) /\ LoadAndChange(w, data, pws, own)
  BY DEF Changes
<1> DEFINE unsaved == {d \in data.devices : pws[d] # None}
           l == [Loaded EXCEPT !.data = data, !.pws = pws, !.own = own, !.unsaved = unsaved]
<1>2. /\ pc[w] = "idle" /\ serving = "up" /\ Goto(w, "save", l)
      /\ UNCHANGED <<disk, serving, vault, scanning, rotation, backup, history>>
  BY <1>1 DEF LoadAndChange
<1>4. data.devices \subseteq Devices
  BY <1>1 DEF Change, Document
<1>5. unsaved \in SUBSET Devices
  BY <1>4
<1>10. /\ l \in Locals
       /\ l.data = data /\ l.pws = pws /\ l.own = own /\ l.stale = {} /\ l.unsaved = unsaved
       /\ l.then = "idle"
  <2>1. /\ Loaded \in Locals /\ Loaded.stale = {} /\ Loaded.then = "idle"
        /\ data \in Document /\ pws \in [Devices -> Passwords \cup {None}] /\ own \in SUBSET Items
    BY <1>1, LoadedLocals DEF Change, Invariant
  <2> HIDE DEF unsaved
  <2> QED
    BY ONLY <1>5, <2>1 DEF l, Locals
<1>6. ThreadFits("save", l)
  BY <1>1, <1>10 DEF Change, ThreadFits, Labels
<1> HIDE DEF l
<1>7. ThreadTypes'
  BY <1>2, <1>6, ThreadMoves, TypeParts DEF Invariant
<1>8. /\ pc'[w] = "save" /\ loc'[w] = l
      /\ \A v \in Workers : v # w => pc'[v] = pc[v] /\ loc'[v] = loc[v]
  BY <1>2 DEF Goto, Invariant, TypeOK
<1>9. /\ \A d \in data.devices \ Lacking : secret[d] = None => d \in unsaved
      /\ Changed(doc, data) \subseteq own
      /\ \A d \in Devices : pws[d] # None /\ secret[d] # None /\ <<"password", d>> \notin own
                              => secret[d].pw = pws[d]
  BY <1>1, <1>4 DEF Change
<1>11. doc' = doc /\ secret' = secret /\ Lacking' = Lacking
  BY <1>2 DEF disk, Lacking
<1>13. /\ \A d \in l.data.devices \ Lacking : secret[d] = None => d \in l.unsaved
       /\ l.unsaved \subseteq {d \in l.data.devices : l.pws[d] # None}
       /\ Changed(doc, l.data) \subseteq l.own \cup l.stale
       /\ \A d \in Devices :
            l.pws[d] # None /\ secret[d] # None /\ <<"password", d>> \notin l.own \cup l.stale
              => secret[d].pw = l.pws[d]
  BY <1>9, <1>10
<1> HIDE DEF unsaved
<1>12. Saving(w)'
  BY <1>8, <1>10, <1>11, <1>13 DEF Saving, Holding
<1> QED
  BY <1>2, <1>7, <1>8, <1>12

(***************************************************************************)
(* Steps of threads                                                        *)
(***************************************************************************)

\* The order of two documents does not matter for the parts in which they differ.
LEMMA ChangedSymmetric == \A a, b : Changed(a, b) = Changed(b, a)
BY DEF Changed

\* A thread that does not move: what others have saved meanwhile is stale for it.
LEMMA SavingWaits ==
  ASSUME Invariant, NEW v \in Workers, pc'[v] = pc[v],
         NEW items \in SUBSET Items, loc'[v] = WithStale(items)[v],
         doc' \in Document, Changed(doc, doc') \subseteq items,
         \A d \in Devices : secret[d] # None => secret'[d] # None,
         \A d \in Devices : secret'[d] # None =>
           \/ secret[d] # None /\ secret'[d].pw = secret[d].pw
           \/ <<"password", d>> \in items,
         usedKeys \subseteq usedKeys', legacy' = legacy
  PROVE  Saving(v)'
<1> DEFINE l == loc[v]
           m == loc'[v]
<1>1. /\ l \in Locals /\ m \in Locals
      /\ m.data = l.data /\ m.pws = l.pws /\ m.own = l.own /\ m.unsaved = l.unsaved
      /\ m.blob = l.blob /\ m.device = l.device /\ m.then = l.then /\ m.left = l.left
      /\ pc[v] # "idle" => m.stale = l.stale \cup (items \ l.own)
  BY StaledLocals, TypeParts DEF Invariant, ThreadTypes
<1>2. Saving(v)
  BY DEF Invariant
<1>3. ASSUME pc[v] \in Holding
      PROVE  /\ \A d \in l.data.devices \ Lacking :
                  secret'[d] = None => pc[v] # "visit" /\ d \in l.unsaved
             /\ l.unsaved \subseteq {d \in l.data.devices : l.pws[d] # None}
             /\ Changed(doc', l.data) \subseteq l.own \cup m.stale
             /\ \A d \in Devices :
                  l.pws[d] # None /\ secret'[d] # None /\ <<"password", d>> \notin l.own \cup m.stale
                    => secret'[d].pw = l.pws[d]
  <2>1. m.stale = l.stale \cup (items \ l.own)
    BY <1>1, <1>3 DEF Holding
  <2>2. l.data.devices \subseteq Devices /\ l.data \in Document /\ doc \in Document
    BY <1>1, LocalFields, DocumentFields DEF Invariant, TypeOK
  <2>3. Changed(doc', l.data) \subseteq Changed(doc, doc') \cup Changed(doc, l.data)
    BY <2>2, ChangedTriangle, ChangedSymmetric
  <2>4. Changed(doc, l.data) \subseteq l.own \cup l.stale
    BY <1>2, <1>3 DEF Saving
  <2>5. \A d \in l.data.devices \ Lacking :
          secret[d] = None => pc[v] # "visit" /\ d \in l.unsaved
    BY <1>2, <1>3 DEF Saving
  <2>6. l.unsaved \subseteq {d \in l.data.devices : l.pws[d] # None}
    BY <1>2, <1>3 DEF Saving
  <2>7. \A d \in Devices :
          l.pws[d] # None /\ secret[d] # None /\ <<"password", d>> \notin l.own \cup l.stale
            => secret[d].pw = l.pws[d]
    BY <1>2, <1>3 DEF Saving
  <2>8. Changed(doc', l.data) \subseteq l.own \cup m.stale
    BY <2>1, <2>3, <2>4
  <2>9. ASSUME NEW d \in Devices, l.pws[d] # None, secret'[d] # None,
               <<"password", d>> \notin l.own \cup m.stale
        PROVE  secret'[d].pw = l.pws[d]
    <3>1. <<"password", d>> \notin items /\ <<"password", d>> \notin l.own \cup l.stale
      BY <2>1, <2>9
    <3> QED
      BY <2>7, <2>9, <3>1
  <2> QED
    BY <2>2, <2>5, <2>6, <2>8, <2>9
<1>4. pc[v] = "put" => l.device \in l.unsaved /\ l.blob.pw = l.pws[l.device]
                          /\ l.blob.key \in usedKeys'
  BY <1>2 DEF Saving
<1>5. pc[v] \in {"scan", "visit"} => l.then = "visit" /\ l.unsaved = {}
  BY <1>2 DEF Saving
<1>6. Lacking' = Lacking
  BY DEF Lacking
<1> HIDE DEF l, m
<1> QED
  BY <1>1, <1>3, <1>4, <1>5, <1>6 DEF Saving, l, m

\* The same when nothing it holds has changed.
LEMMA SavingStays ==
  ASSUME Invariant, NEW v \in Workers, pc'[v] = pc[v], loc'[v] = loc[v],
         doc' = doc, secret' = secret, usedKeys \subseteq usedKeys', legacy' = legacy
  PROVE  Saving(v)'
<1>1. Saving(v)
  BY DEF Invariant
<1>2. Lacking' = Lacking
  BY DEF Lacking
<1> QED
  BY <1>1, <1>2 DEF Saving

\* A thread that ends holds nothing.
LEMMA SavingEnds ==
  ASSUME NEW v \in Workers, pc'[v] = "idle", loc'[v] = NoLocals PROVE Saving(v)'
BY DEF Saving, Holding, NoLocals

\* What a thread knows when it is not idle: the server is up, and a vault's key is used.
LEMMA Busy ==
  ASSUME Invariant, NEW w \in Workers, pc[w] # "idle"
  PROVE  /\ serving = "up" /\ loc[w] \in Locals /\ ThreadFits(pc[w], loc[w]) /\ Saving(w)
         /\ HasVault => vault.key \in usedKeys
         /\ usedKeys \subseteq Keys
<1>1. serving = "up" /\ ThreadFits(pc[w], loc[w]) /\ StateTypes
  BY TypeParts DEF Invariant, ThreadTypes
<1>2. HasVault => vault.key \in usedKeys
  BY <1>1 DEF Invariant, KeysOK, HasVault
<1> QED
  BY <1>1, <1>2 DEF Invariant, ThreadFits, StateTypes

ThreadsKept == ThreadTypes' /\ \A w \in Workers : Saving(w)'

\* A thread moves on with what it holds, while nothing stored changes.
LEMMA MovesQuietly ==
  ASSUME Invariant, NEW w \in Workers, NEW label, NEW l, Goto(w, label, l),
         ThreadFits(label, l), Saving(w)', serving = "up",
         UNCHANGED <<disk, serving>>
  PROVE  ThreadsKept
<1>1. ThreadTypes'
  BY ThreadMoves, TypeParts DEF Invariant
<1>2. ASSUME NEW v \in Workers, v # w PROVE Saving(v)'
  <2>1. pc'[v] = pc[v] /\ loc'[v] = loc[v]
    BY <1>2 DEF Goto, Invariant, TypeOK
  <2> QED
    BY <2>1, SavingStays DEF disk
<1> QED
  BY <1>1, <1>2 DEF ThreadsKept

\* A request encrypts a password: it holds what it held.
LEMMA EncryptThreads ==
  ASSUME Invariant, NEW w \in Workers, EncryptPassword(w) PROVE ThreadsKept
<1>0. pc[w] = "save" /\ HasVault /\ UNCHANGED <<disk, serving>>
  BY DEF EncryptPassword
<1>1. PICK d \in loc[w].unsaved :
        Goto(w, "put", [loc[w] EXCEPT !.device = d,
                          !.blob = [pw |-> loc[w].pws[d], key |-> vault.key]])
  BY DEF EncryptPassword
<1> DEFINE r == loc[w]
           blob == [pw |-> r.pws[d], key |-> vault.key]
           l == [r EXCEPT !.device = d, !.blob = blob]
<1>2. /\ r \in Locals /\ ThreadFits("save", r) /\ Saving(w) /\ serving = "up"
      /\ vault.key \in usedKeys /\ usedKeys \subseteq Keys
  BY <1>0, Busy
<1>3. d \in Devices /\ r.pws[d] \in Passwords
  BY <1>0, <1>1, <1>2, LocalFields DEF Saving, Holding
<1>4. blob \in Blob /\ blob.pw = r.pws[d] /\ blob.key = vault.key
  BY <1>2, <1>3 DEF Blob
<1> HIDE DEF blob
<1>5. /\ l \in Locals /\ l.blob = blob /\ l.device = d
      /\ l.data = r.data /\ l.pws = r.pws /\ l.own = r.own /\ l.stale = r.stale
      /\ l.unsaved = r.unsaved /\ l.then = r.then /\ l.left = r.left
  BY ONLY <1>2, <1>3, <1>4 DEF Locals, l
<1>6. Goto(w, "put", l)
  BY <1>1 DEF blob
<1> HIDE DEF l
<1>7. ThreadFits("put", l)
  BY <1>2, <1>3, <1>4, <1>5 DEF ThreadFits, Labels
<1>8. pc'[w] = "put" /\ loc'[w] = l
  BY <1>6 DEF Goto, Invariant, TypeOK
<1>9. /\ l.device \in l.unsaved /\ l.blob.pw = l.pws[l.device] /\ l.blob.key \in usedKeys
  BY <1>1, <1>2, <1>4, <1>5
<1>10. doc' = doc /\ secret' = secret /\ usedKeys' = usedKeys /\ Lacking' = Lacking
  BY <1>0 DEF disk, Lacking
<1>11. Saving(w)'
  BY <1>0, <1>2, <1>5, <1>8, <1>9, <1>10 DEF Saving, Holding
<1> QED
  BY <1>0, <1>2, <1>6, <1>7, <1>11, MovesQuietly

\* A request ends, or a thread begins one in which it holds nothing yet.
LEMMA ReturnThreads ==
  ASSUME Invariant, NEW w \in Workers, Return(w), serving = "up", UNCHANGED <<disk, serving>>
  PROVE  ThreadsKept
<1>1. pc'[w] = "idle" /\ loc'[w] = NoLocals
  BY DEF Return, Goto, Invariant, TypeOK
<1> QED
  BY <1>1, NoLocalsFit, SavingEnds, MovesQuietly DEF Return

\* A refresh holds nothing while it asks the host.
LEMMA RefreshThreads ==
  ASSUME Invariant, NEW w \in Workers, NEW h \in Hosts, RefreshHost(w, h) PROVE ThreadsKept
<1> DEFINE l == [NoLocals EXCEPT !.own = {<<"cert", h>>}]
<1>1. serving = "up" /\ Goto(w, "connect", l) /\ UNCHANGED <<disk, serving>>
  BY DEF RefreshHost
<1>2. {<<"cert", h>>} \in SUBSET Items /\ NoLocals \in Locals
  BY NoLocalsFit DEF Items, ThreadFits
<1>3. l \in Locals /\ l.pws = NoLocals.pws /\ l.then = NoLocals.then /\ l.data = NoLocals.data
  BY ONLY <1>2 DEF Locals
<1>4. NoLocals.pws = NoPasswords /\ NoLocals.then = "idle"
  BY DEF NoLocals
<1> HIDE DEF l
<1>5. ThreadFits("connect", l)
  BY <1>3, <1>4 DEF ThreadFits, Labels, NoPasswords
<1>6. pc'[w] = "connect" /\ loc'[w] = l
  BY <1>1 DEF Goto, Invariant, TypeOK
<1>7. Saving(w)'
  BY <1>3, <1>4, <1>6 DEF Saving, Holding
<1> QED
  BY <1>1, <1>5, <1>7, MovesQuietly

\* A scan that is started holds nothing but the ranges to visit.
LEMMA StartScanThreads ==
  ASSUME Invariant, NEW w \in Workers, StartScan(w) PROVE ThreadsKept
<1> DEFINE l == [NoLocals EXCEPT !.left = doc.ranges, !.then = "visit"]
<1>1. serving = "up" /\ Goto(w, "scan", l) /\ UNCHANGED <<disk, serving>>
  BY DEF StartScan
<1>2. NoLocals \in Locals /\ doc.ranges \in SUBSET Ranges
  BY NoLocalsFit, DocumentFields DEF ThreadFits, Invariant, TypeOK
<1>3. /\ l \in Locals /\ l.pws = NoLocals.pws /\ l.then = "visit"
      /\ l.unsaved = NoLocals.unsaved
  BY ONLY <1>2 DEF Locals
<1>4. NoLocals.pws = NoPasswords /\ NoLocals.unsaved = {}
  BY DEF NoLocals
<1> HIDE DEF l
<1>5. ThreadFits("scan", l)
  BY <1>3, <1>4 DEF ThreadFits, Labels, NoPasswords
<1>6. pc'[w] = "scan" /\ loc'[w] = l
  BY <1>1 DEF Goto, Invariant, TypeOK
<1>7. Saving(w)'
  BY <1>3, <1>4, <1>6 DEF Saving, Holding
<1> QED
  BY <1>1, <1>5, <1>7, MovesQuietly

\* A scan reads the data as it is.
LEMMA BeginScanThreads ==
  ASSUME Invariant, NEW w \in Workers, BeginScan(w) PROVE ThreadsKept
<1> DEFINE r == loc[w]
           pws == Loaded.pws
           l == [r EXCEPT !.data = doc, !.pws = pws, !.stale = {}]
<1>0. pc[w] = "scan"
  BY DEF BeginScan
<1>1. Goto(w, "visit", l) /\ UNCHANGED <<disk, serving>>
  BY DEF BeginScan
<1>2. r \in Locals /\ ThreadFits("scan", r) /\ Saving(w) /\ serving = "up"
  BY <1>0, Busy
<1>3. /\ doc \in Document /\ pws \in [Devices -> Passwords \cup {None}]
      /\ \A d \in Devices : pws[d] # None =>
           d \in doc.devices /\ secret[d] # None /\ pws[d] = secret[d].pw
  BY LoadedFields DEF Invariant, TypeOK
<1> HIDE DEF pws
<1>4. /\ l \in Locals /\ l.data = doc /\ l.pws = pws /\ l.stale = {} /\ l.own = r.own
      /\ l.unsaved = r.unsaved /\ l.then = r.then /\ l.blob = r.blob /\ l.device = r.device
  BY ONLY <1>2, <1>3 DEF Locals
<1> HIDE DEF l
<1>5. ThreadFits("visit", l)
  BY <1>3, <1>4 DEF ThreadFits, Labels
<1>6. pc'[w] = "visit" /\ loc'[w] = l
  BY <1>1 DEF Goto, Invariant, TypeOK
<1>7. \A d \in doc.devices \ Lacking : secret[d] # None
  BY <1>2 DEF Invariant, Started
<1>8. Changed(doc, doc) = {} /\ l.then = "visit"
  BY <1>0, <1>2, <1>4 DEF Changed, Saving
<1>9. doc' = doc /\ secret' = secret /\ Lacking' = Lacking
  BY <1>1 DEF disk, Lacking
<1>10. Saving(w)'
  BY <1>0, <1>2, <1>3, <1>4, <1>6, <1>7, <1>8, <1>9 DEF Saving, Holding
<1> QED
  BY <1>1, <1>2, <1>5, <1>10, MovesQuietly

\* A scan has visited a range and saves what it has found.
LEMMA VisitRangeThreads ==
  ASSUME Invariant, NEW w \in Workers, NEW g \in Ranges, VisitRange(w, g) PROVE ThreadsKept
<1> DEFINE r == loc[w]
<1>0. pc[w] = "visit" /\ UNCHANGED <<disk, serving>>
  BY DEF VisitRange
<1>1. PICK found \in SUBSET Hosts : \E seen \in [found -> Certs] :
        Goto(w, "save",
            [r EXCEPT
               !.left = @ \ {g}, !.own = @ \cup HostItems(found),
               !.data.hosts = @ \cup found,
               !.data.certs = [h \in Hosts |-> IF h \in found THEN seen[h] ELSE r.data.certs[h]],
               !.unsaved = {d \in r.data.devices : r.pws[d] # None}])
  BY DEF VisitRange
<1>2. PICK seen \in [found -> Certs] :
        Goto(w, "save",
            [r EXCEPT
               !.left = @ \ {g}, !.own = @ \cup HostItems(found),
               !.data.hosts = @ \cup found,
               !.data.certs = [h \in Hosts |-> IF h \in found THEN seen[h] ELSE r.data.certs[h]],
               !.unsaved = {d \in r.data.devices : r.pws[d] # None}])
  BY <1>1
<1> DEFINE certs == [h \in Hosts |-> IF h \in found THEN seen[h] ELSE r.data.certs[h]]
           unsaved == {d \in r.data.devices : r.pws[d] # None}
           data == [r.data EXCEPT !.hosts = @ \cup found, !.certs = certs]
           left == r.left \ {g}
           own == r.own \cup HostItems(found)
           l == [r EXCEPT !.left = left, !.own = own, !.data = data, !.unsaved = unsaved]
<1>3. r \in Locals /\ ThreadFits("visit", r) /\ Saving(w) /\ serving = "up"
  BY <1>0, Busy
<1>4. r.data \in Document /\ r.left \subseteq Ranges
  BY <1>3, LocalFields
<1>5. certs \in [Hosts -> Certs \cup {None}]
  BY <1>4 DEF Document
<1>6. unsaved \in SUBSET Devices /\ left \in SUBSET Ranges /\ own \in SUBSET Items
  BY <1>3, <1>4, DocumentFields, LocalFields DEF HostItems, Items
<1>20. r.own \subseteq own /\ HostItems(found) \subseteq own
  OBVIOUS
<1> HIDE DEF certs, unsaved, left, own
<1>7. /\ data \in Document /\ data.devices = r.data.devices /\ data.ranges = r.data.ranges
      /\ data.hosts = r.data.hosts \cup found /\ data.certs = certs
  BY ONLY <1>4, <1>5, found \in SUBSET Hosts DEF Document
<1>8. Goto(w, "save", l)
  <2>1. l = [r EXCEPT !.left = @ \ {g}, !.own = @ \cup HostItems(found),
                      !.data.hosts = @ \cup found, !.data.certs = certs, !.unsaved = unsaved]
    BY ONLY <1>3, <1>4, <1>5, <1>6 DEF Locals, Document, left, own
  <2> QED
    BY <1>2, <2>1 DEF certs, unsaved
<1> HIDE DEF data
<1>9. /\ l \in Locals /\ l.data = data /\ l.pws = r.pws /\ l.stale = r.stale /\ l.own = own
      /\ l.unsaved = unsaved /\ l.then = r.then
  BY ONLY <1>3, <1>6, <1>7 DEF Locals
<1> HIDE DEF l
<1>10. ThreadFits("save", l)
  BY <1>3, <1>7, <1>9 DEF ThreadFits, Labels
<1>11. pc'[w] = "save" /\ loc'[w] = l
  BY <1>8 DEF Goto, Invariant, TypeOK
<1>12. Changed(r.data, data) \subseteq HostItems(found)
  <2>1. \A h \in Hosts \ found : certs[h] = r.data.certs[h]
    BY DEF certs
  <2> QED
    BY <1>1, <1>4, <1>7, <2>1 DEF Changed, HostItems, Document
<1>13. Changed(doc, data) \subseteq own \cup r.stale
  <2>1. Changed(doc, r.data) \subseteq r.own \cup r.stale
    BY <1>0, <1>3 DEF Saving, Holding
  <2>2. doc \in Document
    BY DEF Invariant, TypeOK
  <2>3. Changed(doc, data) \subseteq Changed(doc, r.data) \cup Changed(r.data, data)
    BY <1>4, <1>7, <2>2, ChangedTriangle
  <2> QED
    BY <1>12, <1>20, <2>1, <2>3
<1>14. doc' = doc /\ secret' = secret /\ Lacking' = Lacking
  BY <1>0 DEF disk, Lacking
<1>15. l.unsaved \subseteq {d \in data.devices : r.pws[d] # None}
  BY <1>7, <1>9 DEF unsaved
<1>17. \A d \in Devices :
         r.pws[d] # None /\ secret[d] # None /\ <<"password", d>> \notin own \cup r.stale
           => secret[d].pw = r.pws[d]
  BY <1>0, <1>3, <1>20 DEF Saving, Holding
<1>16. Saving(w)'
  BY <1>0, <1>3, <1>7, <1>9, <1>11, <1>13, <1>14, <1>15, <1>17 DEF Saving, Holding
<1> QED
  BY <1>0, <1>3, <1>8, <1>10, <1>16, MovesQuietly

\* A thread moves on and what it has saved is stale for the others.
LEMMA MovesStaling ==
  ASSUME Invariant, NEW w \in Workers, NEW label, NEW l, NEW items \in SUBSET Items,
         GotoStaling(w, label, l, items), ThreadFits(label, l), Saving(w)',
         serving = "up", serving' = "up",
         doc' \in Document, Changed(doc, doc') \subseteq items,
         \A d \in Devices : secret[d] # None => secret'[d] # None,
         \A d \in Devices : secret'[d] # None =>
           \/ secret[d] # None /\ secret'[d].pw = secret[d].pw
           \/ <<"password", d>> \in items,
         usedKeys' = usedKeys, legacy' = legacy
  PROVE  ThreadsKept
<1>1. ThreadTypes'
  BY ThreadMovesStaling, TypeParts DEF Invariant
<1>2. ASSUME NEW v \in Workers, v # w PROVE Saving(v)'
  <2>1. pc'[v] = pc[v] /\ loc'[v] = WithStale(items)[v]
    BY <1>2 DEF GotoStaling, WithStale, Invariant, TypeOK
  <2> QED
    BY <2>1, SavingWaits
<1> QED
  BY <1>1, <1>2 DEF ThreadsKept

\* The password a request stores, and what it holds then.
LEMMA PutThreads ==
  ASSUME Invariant, NEW w \in Workers, PutSecret(w)
  PROVE  /\ ThreadsKept
         /\ loc[w].device \in Devices /\ loc[w].blob \in Blob /\ loc[w].blob.key \in usedKeys
         /\ serving = "up"
<1> DEFINE r == loc[w]
           d == r.device
           rest == r.unsaved \ {d}
           l == [r EXCEPT !.unsaved = rest, !.device = None, !.blob = None]
           kept == secret[d] # None /\ secret[d].pw = r.blob.pw
           items == IF kept THEN {} ELSE {<<"password", d>>}
<1>0. /\ pc[w] = "put" /\ secret' = [secret EXCEPT ![d] = r.blob]
      /\ GotoStaling(w, "save", l, items)
      /\ doc' = doc /\ usedKeys' = usedKeys /\ serving' = serving /\ legacy' = legacy
  BY DEF PutSecret
<1>1. r \in Locals /\ ThreadFits("put", r) /\ Saving(w) /\ serving = "up"
  BY <1>0, Busy
<1>2. /\ d \in Devices /\ r.blob \in Blob /\ d \in r.unsaved /\ r.blob.pw = r.pws[d]
      /\ r.blob.key \in usedKeys
  BY <1>0, <1>1 DEF ThreadFits, Saving
<1>3. rest \in SUBSET Devices
  BY <1>1, LocalFields
<1> HIDE DEF rest
<1>4. /\ l \in Locals /\ l.unsaved = rest /\ l.data = r.data /\ l.pws = r.pws /\ l.own = r.own
      /\ l.stale = r.stale /\ l.then = r.then
  BY ONLY <1>1, <1>3 DEF Locals
<1> HIDE DEF l
<1>5. ThreadFits("save", l)
  BY <1>1, <1>4 DEF ThreadFits, Labels
<1>6. pc'[w] = "save" /\ loc'[w] = l
  BY <1>0 DEF GotoStaling, WithStale, Invariant, TypeOK
<1>7. /\ secret'[d] = r.blob /\ r.blob # None
      /\ \A e \in Devices : e # d => secret'[e] = secret[e]
  BY <1>0, <1>2, BlobAssumption DEF Invariant, TypeOK
<1>8. Saving(w)'
  <2>1. /\ \A e \in r.data.devices \ Lacking : secret[e] = None => e \in r.unsaved
        /\ r.unsaved \subseteq {e \in r.data.devices : r.pws[e] # None}
        /\ Changed(doc, r.data) \subseteq r.own \cup r.stale
        /\ \A e \in Devices :
             r.pws[e] # None /\ secret[e] # None /\ <<"password", e>> \notin r.own \cup r.stale
               => secret[e].pw = r.pws[e]
    BY <1>0, <1>1 DEF Saving, Holding
  <2>2. r.data.devices \subseteq Devices
    BY <1>1, LocalFields, DocumentFields
  <2>3. \A e \in r.data.devices \ Lacking : secret'[e] = None => e \in rest
    BY <1>7, <2>1, <2>2 DEF rest
  <2>4. rest \subseteq {e \in r.data.devices : r.pws[e] # None}
    BY <2>1 DEF rest
  <2>5. \A e \in Devices :
          r.pws[e] # None /\ secret'[e] # None /\ <<"password", e>> \notin r.own \cup r.stale
            => secret'[e].pw = r.pws[e]
    BY <1>2, <1>7, <2>1
  <2>6. Lacking' = Lacking
    BY <1>0 DEF Lacking
  <2> QED
    BY <1>0, <1>4, <1>6, <2>1, <2>3, <2>4, <2>5, <2>6 DEF Saving, Holding
<1>9. items \in SUBSET Items
  BY <1>2 DEF Items
<1>10. /\ \A e \in Devices : secret[e] # None => secret'[e] # None
       /\ \A e \in Devices : secret'[e] # None =>
            \/ secret[e] # None /\ secret'[e].pw = secret[e].pw
            \/ <<"password", e>> \in items
  BY <1>7
<1>11. Changed(doc, doc') = {} /\ doc' \in Document
  BY <1>0 DEF Changed, Invariant, TypeOK
<1> HIDE DEF items
<1>12. ThreadsKept
  BY <1>0, <1>1, <1>5, <1>8, <1>9, <1>10, <1>11, MovesStaling
<1> QED
  BY <1>1, <1>2, <1>12

\* A document that is saved has a password for each of its devices, but for those
\* that had none in the old file.
LEMMA SaveThreads ==
  ASSUME Invariant, NEW w \in Workers, SaveDocument(w)
  PROVE  /\ ThreadsKept
         /\ doc' \in Document /\ \A d \in doc'.devices \ Lacking : secret[d] # None
         /\ serving = "up"
         /\ Changed(doc, doc') \subseteq loc[w].own \cup loc[w].stale
<1> DEFINE r == loc[w]
           l == IF r.then = "idle" THEN NoLocals ELSE r
           items == Changed(doc, doc')
<1>0. /\ pc[w] = "save" /\ Saved(w) /\ doc' = r.data
      /\ GotoStaling(w, r.then, l, items)
      /\ secret' = secret /\ usedKeys' = usedKeys /\ serving' = serving /\ legacy' = legacy
  BY DEF SaveDocument
<1>1. r \in Locals /\ ThreadFits("save", r) /\ Saving(w) /\ serving = "up"
  BY <1>0, Busy
<1>2. doc' \in Document /\ doc \in Document /\ r.then \in {"idle", "visit"}
  BY <1>0, <1>1, LocalFields DEF Invariant, TypeOK
<1>3. items \in SUBSET Items
  BY <1>2, ChangedItems
<1>4. ThreadFits(r.then, l)
  BY <1>1, <1>2, NoLocalsFit DEF ThreadFits, Labels
<1>5. pc'[w] = r.then /\ loc'[w] = l
  BY <1>0 DEF GotoStaling, WithStale, Invariant, TypeOK
<1>6. /\ \A d \in r.data.devices \ Lacking : secret[d] # None
      /\ r.unsaved = {}
      /\ items \subseteq r.own \cup r.stale
      /\ \A d \in Devices :
           r.pws[d] # None /\ secret[d] # None /\ <<"password", d>> \notin r.own \cup r.stale
             => secret[d].pw = r.pws[d]
  BY <1>0, <1>1 DEF Saving, Holding, Saved
<1>7. Saving(w)'
  <2>1. CASE r.then = "idle"
    BY <1>5, <2>1, SavingEnds
  <2>2. CASE r.then = "visit"
    <3>1. Changed(doc', r.data) = {}
      BY <1>0 DEF Changed
    <3>2. l = r /\ Lacking' = Lacking
      BY <1>0, <2>2 DEF Lacking
    <3> QED
      BY <1>0, <1>5, <1>6, <2>2, <3>1, <3>2 DEF Saving, Holding
  <2> QED
    BY <1>2, <2>1, <2>2
<1> HIDE DEF items, l
<1>8. ThreadsKept
  BY <1>0, <1>1, <1>2, <1>3, <1>4, <1>7, MovesStaling DEF items
<1> QED
  BY <1>0, <1>1, <1>2, <1>6, <1>8 DEF items

\* A refresh renews a certificate that is there.
LEMMA UpdateThreads ==
  ASSUME Invariant, NEW w \in Workers, NEW h \in Hosts, UpdateMonitored(w, h)
  PROVE  /\ ThreadsKept
         /\ doc' \in Document /\ doc'.devices = doc.devices
         /\ serving = "up" /\ loc[w].own = {<<"cert", h>>}
         /\ Changed(doc, doc') \subseteq {<<"cert", h>>}
         /\ Changed(doc, doc') # {} => doc.certs[h] # None /\ doc'.certs[h] # None
<1> DEFINE items == Changed(doc, doc')
<1>0. /\ pc[w] = "connect" /\ loc[w].own = {<<"cert", h>>}
      /\ GotoStaling(w, "idle", NoLocals, items)
      /\ secret' = secret /\ usedKeys' = usedKeys /\ serving' = serving /\ legacy' = legacy
  BY DEF UpdateMonitored
<1>1. serving = "up"
  BY <1>0, Busy
<1>2. PICK c \in IF StillMonitored(h) THEN Certs \cup {doc.certs[h]} ELSE {doc.certs[h]} :
        doc' = [doc EXCEPT !.certs[h] = c]
  BY DEF UpdateMonitored
<1>3. doc \in Document /\ doc.certs[h] \in Certs \cup {None}
  BY DEF Invariant, TypeOK, Document
<1>4. c \in Certs \cup {None} /\ (c # doc.certs[h] => doc.certs[h] # None /\ c # None)
  BY <1>2, <1>3, NoneAssumption DEF StillMonitored
<1>5. /\ doc' \in Document /\ doc'.devices = doc.devices /\ doc'.hosts = doc.hosts
      /\ doc'.ranges = doc.ranges /\ doc'.certs = [doc.certs EXCEPT ![h] = c]
  BY <1>2, <1>3, <1>4 DEF Document
<1>6. items \subseteq {<<"cert", h>>} /\ (items # {} => c # doc.certs[h]) /\ doc'.certs[h] = c
  BY <1>3, <1>5 DEF Changed, Document
<1>7. items \in SUBSET Items
  BY <1>3, <1>5, ChangedItems
<1>8. pc'[w] = "idle" /\ loc'[w] = NoLocals
  BY <1>0 DEF GotoStaling, WithStale, Invariant, TypeOK
<1>9. Saving(w)'
  BY <1>8, SavingEnds
<1>10. ThreadsKept
  <2> HIDE DEF items
  <2> QED
    BY <1>0, <1>1, <1>5, <1>7, <1>9, NoLocalsFit, MovesStaling DEF items
<1> QED
  BY <1>0, <1>1, <1>4, <1>5, <1>6, <1>10

(***************************************************************************)
(* Passwords, keys, the rotation and the backup                            *)
(***************************************************************************)

StateInvariant ==
  /\ StateTypes
  /\ Started /\ KeysOK /\ Rotating /\ BackingUp
  /\ SecretsReadable /\ BackupRestorable

\* The two halves of the invariant: what is kept, and what the threads hold.
LEMMA InvariantParts ==
  Invariant <=> StateInvariant /\ ThreadTypes /\ \A w \in Workers : Saving(w)
BY TypeParts DEF Invariant, StateInvariant

\* Steps that store nothing, or only a document whose devices all have passwords
\* that can have one.
LEMMA DocumentState ==
  ASSUME Invariant, doc' \in Document, scanning' \in BOOLEAN,
         doc' = doc \/ serving # "down",
         \A d \in doc'.devices \ Lacking : secret[d] # None,
         UNCHANGED <<secret, keyFile, legacy, usedKeys, serving, vault, rotation, backup, history>>
  PROVE  StateInvariant'
<1>0. StateInvariant
  BY InvariantParts
<1>1. StateTypes'
  BY <1>0 DEF StateInvariant, StateTypes, history
<1>2. Unexposed' = Unexposed /\ Unexcepted' = Unexcepted
  BY DEF Unexposed, Unexcepted, history
<1>3. Started'
  BY <1>0 DEF StateInvariant, Started, Lacking
<1>4. KeysOK' /\ Rotating'
  BY <1>0, <1>2 DEF StateInvariant, KeysOK, Rotating, history
<1>5. BackingUp' /\ SecretsReadable' /\ BackupRestorable'
  BY <1>0, <1>2
     DEF StateInvariant, BackingUp, SecretsReadable, BackupRestorable, Restored, history
<1> QED
  BY <1>1, <1>3, <1>4, <1>5 DEF StateInvariant

\* The keys of the passwords in neither history, in a server that is up with a vault.
LEMMA UpKeys ==
  ASSUME StateInvariant, vault.key # None
  PROVE  /\ vault.key \in usedKeys /\ None \notin usedKeys
         /\ vault.key \in {keyFile.key, vault.pending}
         /\ keyFile.pending \in {None, vault.pending}
         /\ \A d \in Unexcepted : d \in Devices /\ secret[d] \in Blob /\ secret[d].key \in usedKeys
                                   /\ secret[d].key \in {keyFile.key, keyFile.pending}
<1>1. vault.key \in usedKeys
  BY DEF StateInvariant, KeysOK
<1>2. None \notin usedKeys
  BY NoneAssumption DEF StateInvariant, StateTypes
<1> QED
  BY <1>1, <1>2
     DEF StateInvariant, StateTypes, KeysOK, Unexposed, Unexcepted, SecretsReadable

\* A password is stored.
LEMMA PutState ==
  ASSUME Invariant, NEW w \in Workers, PutSecret(w) PROVE StateInvariant'
<1> DEFINE d == loc[w].device
           blob == loc[w].blob
<1>0. StateInvariant
  BY InvariantParts
<1>1. d \in Devices /\ blob \in Blob /\ blob.key \in usedKeys /\ serving = "up" /\ blob # None
  BY PutThreads, BlobAssumption
<1>2. /\ secret' = [secret EXCEPT ![d] = blob]
      /\ exposed' = Noted(exposed, d, PastRotation(blob.key))
      /\ memoryOnly' = Noted(memoryOnly, d, InMemoryOnly(blob.key))
      /\ UNCHANGED <<doc, keyFile, legacy, usedKeys, serving, vault, scanning, rotation, backup>>
  BY DEF PutSecret
<1> HIDE DEF d, blob
<1>3. /\ secret'[d] = blob
      /\ \A e \in Devices : e # d => secret'[e] = secret[e]
      /\ \A e \in Devices : secret[e] # None => secret'[e] # None
  BY <1>0, <1>1, <1>2 DEF StateInvariant, StateTypes
<1>4. StateTypes'
  BY <1>0, <1>1, <1>2 DEF StateInvariant, StateTypes, Noted
<1>5. Started'
  <2>1. \A e \in doc.devices : e \in Devices
    BY <1>0, DocumentFields DEF StateInvariant, StateTypes
  <2>2. Lacking' = Lacking
    BY <1>2 DEF Lacking
  <2> QED
    BY <1>0, <1>2, <1>3, <2>1, <2>2 DEF StateInvariant, Started
<1>6. /\ \A e \in Unexposed' : e # d => e \in Unexposed /\ secret'[e] = secret[e]
      /\ d \in Unexposed' => rotation.at = "idle" /\ secret'[d].key = vault.key
  BY <1>1, <1>2, <1>3 DEF Unexposed, Noted, PastRotation
<1>7. /\ \A e \in Unexcepted' : e \in Unexposed'
      /\ \A e \in Unexcepted' : e # d => e \in Unexcepted /\ secret'[e] = secret[e]
      /\ d \in Unexcepted' => /\ secret'[d].key = vault.key /\ vault.key # None
                              /\ vault.key = vault.pending => vault.key = keyFile.pending
                              /\ vault.key \in {keyFile.key, keyFile.pending}
  <2>1. /\ \A e \in Unexcepted' : e \in Unexposed'
        /\ \A e \in Unexcepted' : e # d => e \in Unexcepted /\ secret'[e] = secret[e]
    BY <1>1, <1>2, <1>6 DEF Unexcepted, Noted
  <2>2. ASSUME d \in Unexcepted'
        PROVE  /\ secret'[d].key = vault.key /\ vault.key # None
               /\ vault.key = vault.pending => vault.key = keyFile.pending
    <3>1. secret'[d].key = vault.key /\ blob.key = vault.key
      BY <1>3, <1>6, <2>1, <2>2
    <3>2. vault.key # None
      BY <1>0, <1>1, <3>1, NoneAssumption DEF StateInvariant, StateTypes
    <3> QED
      BY <1>1, <1>2, <2>2, <3>1, <3>2 DEF Unexcepted, Noted, InMemoryOnly
  <2> QED
    BY <1>0, <2>1, <2>2, UpKeys
<1>8. KeysOK'
  <2>1. \A e \in Devices : secret'[e] # None => secret'[e].key \in usedKeys
    BY <1>0, <1>1, <1>3 DEF StateInvariant, KeysOK
  <2>2. vault.pending # keyFile.pending => \A e \in Unexcepted' : secret'[e].key # vault.pending
    BY <1>0, <1>7 DEF StateInvariant, KeysOK
  <2>3. vault.key # None /\ vault.key = vault.pending =>
          \A e \in Unexposed' : secret'[e].key = vault.pending
    BY <1>0, <1>6 DEF StateInvariant, KeysOK
  <2>4. keyFile.key # None /\ keyFile.key = keyFile.pending =>
          \A e \in Unexposed' : secret'[e].key = keyFile.pending
    <3>1. d \in Unexposed' => vault.key # None
      BY <1>0, <1>1, <1>3, <1>6, NoneAssumption DEF StateInvariant, StateTypes
    <3> QED
      BY <1>0, <1>6, <3>1, UpKeys DEF StateInvariant, KeysOK
  <2> QED
    BY <1>0, <1>2, <2>1, <2>2, <2>3, <2>4 DEF StateInvariant, KeysOK
<1>9. Rotating'
  <2>1. rotation.at # "idle" => d \in exposed' /\ exposed \subseteq exposed'
    BY <1>1, <1>2 DEF Noted, PastRotation
  <2>2. rotation \in Rotation /\ \A e \in rotation.todo : e \in Devices
    BY <1>0 DEF StateInvariant, StateTypes, Rotation
  <2>3. rotation.at \in {"next", "convert"} => \A e \in Unexposed' :
           \/ secret'[e].key = vault.pending
           \/ e \in rotation.todo
           \/ rotation.at = "convert" /\ e = rotation.device
    BY <1>0, <1>6 DEF StateInvariant, Rotating
  <2>4. rotation.at = "convert" =>
           /\ rotation.device \in Devices /\ rotation.blob \in Blob
           /\ secret'[rotation.device] # None
           /\ (rotation.device \in exposed' \/ secret'[rotation.device] = rotation.blob)
    BY <1>0, <1>3, <2>1 DEF StateInvariant, Rotating
  <2>5. \A e \in rotation.todo : secret'[e] # None
    BY <1>0, <1>3, <2>2 DEF StateInvariant, Rotating
  <2> QED
    BY <1>0, <1>2, <2>3, <2>4, <2>5 DEF StateInvariant, Rotating
<1>10. BackingUp'
  BY <1>0, <1>2, <1>7 DEF StateInvariant, BackingUp
<1>11. SecretsReadable'
  <2>1. ASSUME NEW e \in Unexcepted' PROVE secret'[e].key \in {keyFile.key, keyFile.pending}
    BY <1>0, <1>7, <2>1 DEF StateInvariant, SecretsReadable, Unexcepted, Unexposed
  <2> QED
    BY <1>2, <2>1 DEF SecretsReadable, Unexcepted, Unexposed
<1>12. BackupRestorable'
  BY <1>0, <1>2 DEF StateInvariant, BackupRestorable, Restored
<1> QED
  BY <1>4, <1>5, <1>8, <1>9, <1>10, <1>11, <1>12 DEF StateInvariant

\* Before the server is up no thread is at work.
LEMMA IdleThreads ==
  ASSUME Invariant, serving # "up", UNCHANGED threads PROVE ThreadsKept
<1>1. \A v \in Workers : pc[v] = "idle"
  BY DEF Invariant, TypeOK
<1>2. \A v \in Workers : Saving(v)
  BY DEF Invariant
<1>3. ThreadTypes
  BY TypeParts DEF Invariant
<1> QED
  BY <1>1, <1>2, <1>3 DEF ThreadsKept, ThreadTypes, Saving, Holding, threads

\* Steps of the rotation and the backup that leave documents and passwords alone.
LEMMA WaitingThreads ==
  ASSUME Invariant, UNCHANGED <<threads, doc, secret, legacy, serving>>,
         usedKeys \subseteq usedKeys'
  PROVE  ThreadsKept
<1>1. ThreadTypes'
  <2>1. ThreadTypes
    BY TypeParts DEF Invariant
  <2> QED
    BY <2>1 DEF ThreadTypes, threads
<1>2. ASSUME NEW v \in Workers PROVE Saving(v)'
  BY SavingStays DEF threads
<1> QED
  BY <1>1, <1>2 DEF ThreadsKept

\* The old file is taken into the document, and its passwords are still to come.
LEMMA OpenDatabaseState ==
  ASSUME Invariant, OpenDatabase PROVE StateInvariant'
<1>0. StateInvariant
  BY InvariantParts
<1>1. /\ serving = "down" /\ serving' = "database"
      /\ UNCHANGED <<secret, keyFile, usedKeys, vault, rotation, backup, history, scanning>>
  BY DEF OpenDatabase, threads
<1>2. /\ doc' \in Document /\ legacy' \in Legacy
      /\ legacy'.left # "file"
      /\ \A d \in doc'.devices \ Lacking' : secret[d] # None
  <2>1. CASE legacy.left = "file"
    <3>1. /\ doc' = [EmptyState EXCEPT !.hosts = Hosts, !.devices = legacy.devices]
          /\ legacy' = [legacy EXCEPT !.left = "state"]
      BY <2>1 DEF OpenDatabase
    <3>2. EmptyState \in Document /\ legacy \in Legacy /\ legacy.devices \subseteq Devices
      BY <1>0 DEF EmptyState, Document, StateInvariant, StateTypes, Legacy
    <3>3. doc' \in Document /\ doc'.devices = legacy.devices
      BY ONLY <3>1, <3>2 DEF Document
    <3>4. legacy' \in Legacy /\ legacy'.left = "state" /\ legacy'.devices = legacy.devices
      BY ONLY <3>1, <3>2 DEF Legacy
    <3> QED
      BY <3>3, <3>4 DEF Lacking
  <2>2. CASE legacy.left # "file"
    <3>1. doc' = doc /\ legacy' = legacy
      BY <2>2 DEF OpenDatabase
    <3> QED
      BY <1>0, <2>2, <3>1 DEF StateInvariant, StateTypes, Started, Lacking
  <2> QED
    BY <2>1, <2>2
<1>3. StateTypes'
  BY <1>0, <1>1, <1>2 DEF StateInvariant, StateTypes, history
<1>4. Unexposed' = Unexposed /\ Unexcepted' = Unexcepted
  BY <1>1 DEF Unexposed, Unexcepted, history
<1>5. Started'
  BY <1>0, <1>1, <1>2 DEF StateInvariant, Started
<1>6. KeysOK' /\ Rotating'
  BY <1>0, <1>1, <1>4 DEF StateInvariant, KeysOK, Rotating, history
<1>7. BackingUp' /\ SecretsReadable' /\ BackupRestorable'
  BY <1>0, <1>1, <1>4
     DEF StateInvariant, BackingUp, SecretsReadable, BackupRestorable, Restored, history
<1> QED
  BY <1>3, <1>5, <1>6, <1>7 DEF StateInvariant

\* A server comes up without a vault.
LEMMA WithoutVaultState ==
  ASSUME Invariant, StartWithoutVault PROVE StateInvariant'
<1>0. StateInvariant
  BY InvariantParts
<1>1. /\ serving = "database" /\ serving' = "up"
      /\ UNCHANGED <<disk, vault, threads, rotation, backup, history>>
  BY DEF StartWithoutVault
<1>2. vault.key = None
  BY <1>0, <1>1 DEF StateInvariant, Started
<1>3. StateTypes'
  BY <1>0, <1>1 DEF StateInvariant, StateTypes, disk, threads, history
<1>4. Unexposed' = Unexposed /\ Unexcepted' = Unexcepted /\ Lacking' = Lacking
  BY <1>1 DEF Unexposed, Unexcepted, Lacking, history, disk
<1>5. Started'
  BY <1>0, <1>1, <1>2, <1>4 DEF StateInvariant, Started, disk
<1>6. KeysOK' /\ Rotating'
  BY <1>0, <1>1, <1>4 DEF StateInvariant, KeysOK, Rotating, disk, history
<1>7. BackingUp' /\ SecretsReadable' /\ BackupRestorable'
  BY <1>0, <1>1, <1>4
     DEF StateInvariant, BackingUp, SecretsReadable, BackupRestorable, Restored, history, disk
<1> QED
  BY <1>3, <1>5, <1>6, <1>7 DEF StateInvariant

\* The master key is made or loaded: what is in memory is what is on disk.
LEMMA KeysState ==
  ASSUME Invariant, MakeKeys \/ LoadKeys
  PROVE  StateInvariant' /\ usedKeys \subseteq usedKeys'
<1>0. StateInvariant
  BY InvariantParts
<1>1. /\ serving = "database" /\ serving' = "vault"
      /\ UNCHANGED <<doc, secret, legacy, rotation, backup, history, scanning>>
  BY DEF MakeKeys, LoadKeys, threads, disk
<1>2. /\ keyFile' \in KeyPair /\ vault' = keyFile' /\ keyFile'.key \in usedKeys'
      /\ keyFile'.pending \in usedKeys' \cup {None}
      /\ usedKeys \subseteq usedKeys' /\ usedKeys' \in SUBSET Keys
      /\ \/ keyFile' = keyFile
         \/ keyFile.key = None /\ keyFile'.key \notin usedKeys /\ keyFile'.pending = None
  <2>1. CASE MakeKeys
    <3>1. PICK k \in Keys \ usedKeys :
            /\ keyFile' = [keyFile EXCEPT !.key = k]
            /\ vault' = [key |-> k, pending |-> None]
            /\ usedKeys' = usedKeys \cup {k}
      BY <2>1 DEF MakeKeys
    <3>2. keyFile.key = None /\ keyFile.pending = None /\ keyFile \in KeyPair
      BY <1>0, <2>1 DEF MakeKeys, StateInvariant, StateTypes, Started
    <3> QED
      BY <1>0, <3>1, <3>2 DEF KeyPair, StateInvariant, StateTypes
  <2>2. CASE LoadKeys
    BY <1>0, <2>2 DEF LoadKeys, disk, StateInvariant, StateTypes, KeysOK
  <2> QED
    BY <2>1, <2>2
<1>3. StateTypes'
  BY <1>0, <1>1, <1>2 DEF StateInvariant, StateTypes, history
<1>4. /\ Unexposed' = Unexposed /\ Unexcepted' = Unexcepted /\ Lacking' = Lacking
      /\ None \notin Keys
  BY <1>1, NoneAssumption DEF Unexposed, Unexcepted, Lacking, history
<1>5. Started'
  <2>1. rotation.at = "idle" /\ backup.at \notin {"database", "keys"}
    BY <1>0, <1>1 DEF StateInvariant, Started
  <2> QED
    BY <1>0, <1>1, <1>2, <1>3, <1>4, <2>1 DEF StateInvariant, StateTypes, Started
<1>6. \A d \in Unexcepted : d \in Devices /\ secret[d].key \in usedKeys
                             /\ secret[d].key \in {keyFile.key, keyFile.pending}
  BY <1>0 DEF StateInvariant, KeysOK, SecretsReadable, Unexcepted, Unexposed
<1>7. keyFile.key = None => Unexcepted = {} /\ keyFile.pending = None
  BY <1>0, <1>4, <1>6 DEF StateInvariant, Started, StateTypes
<1>8. KeysOK'
  BY <1>0, <1>1, <1>2, <1>4, <1>6, <1>7 DEF StateInvariant, KeysOK
<1>9. Rotating' /\ BackingUp'
  BY <1>0, <1>1 DEF StateInvariant, StateTypes, Rotating, BackingUp, Started, Rotation, Backup
<1>10. SecretsReadable'
  BY <1>1, <1>2, <1>4, <1>6, <1>7 DEF SecretsReadable, Unexcepted, Unexposed, history
<1>11. BackupRestorable'
  BY <1>0, <1>1 DEF StateInvariant, BackupRestorable, Restored
<1> QED
  BY <1>2, <1>3, <1>5, <1>8, <1>9, <1>10, <1>11 DEF StateInvariant

\* The old passwords are taken over, with the key that is on disk.
LEMMA MigrateState ==
  ASSUME Invariant, MigrateSecrets PROVE StateInvariant'
<1>0. StateInvariant
  BY InvariantParts
<1>1. /\ serving = "vault" /\ serving' \in {"up", "down"}
      /\ vault' = IF serving' = "up" THEN vault ELSE NoKeys
      /\ UNCHANGED <<doc, keyFile, usedKeys, rotation, backup, history, scanning>>
  BY DEF MigrateSecrets, threads
<1>2. /\ vault = keyFile /\ vault.key \in usedKeys /\ usedKeys \subseteq Keys /\ None \notin Keys
      /\ keyFile \in KeyPair
  BY <1>0, <1>1, NoneAssumption DEF StateInvariant, StateTypes, Started, KeysOK
<1>3. /\ legacy' \in Legacy /\ legacy'.left = "none"
      /\ secret' \in [Devices -> Blob \cup {None}]
      /\ \A d \in Devices : secret[d] # None => secret'[d] = secret[d]
      /\ \A d \in Devices : secret[d] = None => secret'[d] = None \/ secret'[d].key = vault.key
      /\ \A d \in doc.devices \ Lacking' : secret'[d] # None
  <2>1. CASE legacy.left = "state"
    <3> DEFINE given == legacy.devices \ legacy.bare
    <3>1. PICK p \in [given -> Passwords] :
            secret' = [d \in Devices |->
              IF d \in given /\ secret[d] = None
                THEN [pw |-> p[d], key |-> vault.key] ELSE secret[d]]
      BY <2>1 DEF MigrateSecrets
    <3>2. \A d \in given : d \in Devices /\ [pw |-> p[d], key |-> vault.key] \in Blob
      BY <1>0, <1>2 DEF StateInvariant, StateTypes, Blob, Legacy
    <3>3. \A d \in given : [pw |-> p[d], key |-> vault.key] # None
      BY <3>2, BlobAssumption
    <3>4. \A d \in Devices : secret[d] \in Blob \cup {None}
      BY <1>0 DEF StateInvariant, StateTypes
    <3>5. /\ legacy' \in Legacy /\ legacy'.left = "none" /\ legacy'.bare = legacy.bare
      <4>1. legacy' = [legacy EXCEPT !.left = "none"]
        BY <2>1 DEF MigrateSecrets
      <4>2. legacy \in Legacy
        BY <1>0 DEF StateInvariant, StateTypes
      <4> QED
        BY ONLY <4>1, <4>2 DEF Legacy
    <3>6. \A d \in doc.devices \ legacy.devices : secret[d] # None
      BY <1>0, <2>1 DEF StateInvariant, Started, Lacking
    <3>7. doc.devices \subseteq Devices
      BY <1>0, DocumentFields DEF StateInvariant, StateTypes
    <3>8. \A d \in doc.devices \ legacy.bare : secret'[d] # None
      BY <3>1, <3>2, <3>3, <3>6, <3>7
    <3>9. /\ secret' \in [Devices -> Blob \cup {None}]
          /\ \A d \in Devices : secret[d] # None => secret'[d] = secret[d]
          /\ \A d \in Devices : secret[d] = None => secret'[d] = None \/ secret'[d].key = vault.key
      BY <3>1, <3>2, <3>4
    <3> QED
      BY <3>5, <3>8, <3>9 DEF Lacking
  <2>2. CASE legacy.left # "state"
    <3>1. secret' = secret /\ legacy' = legacy /\ legacy.left = "none"
      BY <1>0, <1>1, <2>2 DEF MigrateSecrets, StateInvariant, StateTypes, Started, Legacy
    <3> QED
      BY <1>0, <2>2, <3>1 DEF StateInvariant, StateTypes, Started, Lacking
  <2> QED
    BY <2>1, <2>2
<1>4. StateTypes'
  BY <1>0, <1>1, <1>3 DEF StateInvariant, StateTypes, NoKeys, KeyPair, history
<1>5. NoKeys.key = None /\ NoKeys.pending = None
  BY DEF NoKeys
<1>6. rotation.at = "idle" /\ backup.at \notin {"database", "keys"}
  BY <1>0, <1>1 DEF StateInvariant, StateTypes, Started, Rotation
<1>7. Started'
  BY <1>0, <1>1, <1>2, <1>3, <1>5, <1>6, NoneAssumption DEF StateInvariant, Started
<1>8. /\ \A d \in Unexposed' :
           secret'[d].key = vault.key \/ (d \in Unexposed /\ secret'[d] = secret[d])
      /\ \A d \in Unexcepted' :
           secret'[d].key = vault.key \/ (d \in Unexcepted /\ secret'[d] = secret[d])
  BY <1>1, <1>3 DEF Unexposed, Unexcepted, history
<1>9. \A d \in Unexcepted : d \in Devices /\ secret[d].key \in usedKeys
                             /\ secret[d].key \in {keyFile.key, keyFile.pending}
  BY <1>0 DEF StateInvariant, KeysOK, SecretsReadable, Unexcepted, Unexposed
<1>10. KeysOK'
  <2>1. \A d \in Devices : secret'[d] # None => secret'[d].key \in usedKeys
    BY <1>0, <1>2, <1>3 DEF StateInvariant, KeysOK
  <2>2. vault'.pending # keyFile.pending => \A d \in Unexcepted' : secret'[d].key # vault'.pending
    BY <1>1, <1>2, <1>5, <1>8, <1>9
  <2>3. vault'.key # None /\ vault'.key = vault'.pending =>
          \A d \in Unexposed' : secret'[d].key = vault'.pending
    BY <1>0, <1>1, <1>2, <1>5, <1>8 DEF StateInvariant, KeysOK
  <2>4. keyFile.key # None /\ keyFile.key = keyFile.pending =>
          \A d \in Unexposed' : secret'[d].key = keyFile.pending
    BY <1>0, <1>2, <1>8 DEF StateInvariant, KeysOK
  <2> QED
    BY <1>0, <1>1, <1>2, <1>5, <2>1, <2>2, <2>3, <2>4 DEF StateInvariant, KeysOK
<1>11. Rotating'
  <2>1. rotation.todo \subseteq Devices
    BY <1>0 DEF StateInvariant, StateTypes, Rotation
  <2> QED
    BY <1>0, <1>1, <1>3, <1>6, <2>1 DEF StateInvariant, Rotating
<1>12. BackingUp' /\ BackupRestorable'
  BY <1>0, <1>1, <1>6 DEF StateInvariant, BackingUp, BackupRestorable, Restored
<1>13. SecretsReadable'
  <2>1. ASSUME NEW d \in Unexcepted' PROVE secret'[d].key \in {keyFile.key, keyFile.pending}
    BY <1>2, <1>8, <1>9, <2>1
  <2> QED
    BY <1>1, <2>1 DEF SecretsReadable, Unexcepted, Unexposed
<1> QED
  BY <1>4, <1>7, <1>10, <1>11, <1>12, <1>13 DEF StateInvariant

\* A rotation begins, with a new key or with the one it finds in memory.
LEMMA BeginState ==
  ASSUME Invariant, BeginRotation
  PROVE  StateInvariant' /\ usedKeys \subseteq usedKeys'
<1>0. StateInvariant
  BY InvariantParts
<1>1. /\ serving = "up" /\ vault.key # None /\ rotation.at = "idle"
      /\ UNCHANGED <<doc, secret, legacy, serving, scanning, backup, history>>
  BY DEF BeginRotation, HasVault, threads
<1>2. /\ rotation \in Rotation /\ keyFile \in KeyPair /\ vault \in KeyPair
      /\ None \notin Keys /\ usedKeys \subseteq Keys
  BY <1>0, NoneAssumption DEF StateInvariant, StateTypes
<1>3. Unexposed' = Unexposed /\ Unexcepted' = Unexcepted /\ Lacking' = Lacking
  BY <1>1 DEF Unexposed, Unexcepted, Lacking, history
<1>4. /\ rotation' \in Rotation /\ rotation'.at \in {"idle", "list"}
      /\ rotation'.todo = rotation.todo
  BY <1>1, <1>2 DEF BeginRotation, RotationAt, Rotation
<1>5. /\ vault'.key = vault.key /\ keyFile'.key = keyFile.key
      /\ vault' \in KeyPair /\ keyFile' \in KeyPair
      /\ usedKeys \subseteq usedKeys' /\ usedKeys' \in SUBSET Keys
      /\ vault'.pending \in usedKeys' \ {None}
      /\ \/ UNCHANGED <<vault, keyFile, usedKeys>>
         \/ /\ vault.pending = None /\ vault'.pending \notin usedKeys
            /\ keyFile'.pending \in {keyFile.pending, vault'.pending}
  <2>1. CASE vault.pending # None /\ UNCHANGED <<vault, keyFile, usedKeys>>
    BY <1>0, <1>1, <1>2, <2>1 DEF StateInvariant, KeysOK
  <2>2. ASSUME NEW k \in Keys \ usedKeys, vault.pending = None,
               vault' = [vault EXCEPT !.pending = k], usedKeys' = usedKeys \cup {k},
               keyFile' = [keyFile EXCEPT !.pending = k] \/ keyFile' = keyFile
        PROVE  /\ vault'.key = vault.key /\ keyFile'.key = keyFile.key
               /\ vault' \in KeyPair /\ keyFile' \in KeyPair
               /\ vault'.pending = k /\ keyFile'.pending \in {keyFile.pending, k}
    BY <1>2, <2>2 DEF KeyPair
  <2> QED
    BY <1>2, <2>1, <2>2 DEF BeginRotation
<1>6. StateTypes'
  BY <1>0, <1>1, <1>4, <1>5 DEF StateInvariant, StateTypes, history
<1>7. /\ vault.key \in usedKeys /\ None \notin usedKeys
      /\ vault.key \in {keyFile.key, vault.pending}
      /\ keyFile.pending \in {None, vault.pending}
      /\ \A d \in Unexcepted : secret[d].key \in usedKeys
                                /\ secret[d].key \in {keyFile.key, keyFile.pending}
  BY <1>0, <1>1, UpKeys
<1>8. Started'
  <2>1. keyFile.key # None
    BY <1>0, <1>1 DEF StateInvariant, Started
  <2> QED
    BY <1>0, <1>1, <1>3, <1>5, <2>1 DEF StateInvariant, Started
<1>9. KeysOK'
  <2>1. CASE UNCHANGED <<vault, keyFile, usedKeys>>
    BY <1>0, <1>1, <1>3, <2>1 DEF StateInvariant, KeysOK
  <2>2. CASE /\ vault.pending = None /\ vault'.pending \notin usedKeys
             /\ keyFile'.pending \in {keyFile.pending, vault'.pending}
    <3>1. keyFile.pending = None /\ keyFile.key = vault.key
      BY <1>7, <2>2
    <3>2. \A d \in Unexcepted : secret[d].key \in usedKeys
      BY <1>7
    <3>3. keyFile'.key \in usedKeys /\ keyFile'.pending \in {None, vault'.pending}
      BY <1>5, <1>7, <2>2, <3>1
    <3> QED
      BY <1>0, <1>1, <1>3, <1>5, <1>7, <2>2, <3>2, <3>3 DEF StateInvariant, KeysOK
  <2> QED
    BY <1>5, <2>1, <2>2
<1>10. Rotating'
  BY <1>0, <1>1, <1>3, <1>4, <1>5 DEF StateInvariant, Rotating
<1>11. BackingUp'
  <2>1. vault.key \in {backup.package, vault.pending} => vault'.key \in {backup.package, vault'.pending}
    BY <1>2, <1>5, <1>7
  <2>2. ASSUME NEW k \in Keys, k \in {backup.package, keyFile.pending}
        PROVE  k \in {backup.package, keyFile'.pending}
    BY <1>2, <1>5, <1>7, <2>2
  <2>3. /\ \A d \in Devices : backup.needs[d] \in Keys \cup {None}
        /\ \A d \in Unexcepted : secret[d].key \in Keys
    BY <1>0, <1>2, <1>7 DEF StateInvariant, StateTypes, Backup
  <2> QED
    BY <1>0, <1>1, <1>3, <2>1, <2>2, <2>3 DEF StateInvariant, BackingUp
<1>12. SecretsReadable'
  <2>1. ASSUME NEW d \in Unexcepted PROVE secret[d].key \in {keyFile'.key, keyFile'.pending}
    BY <1>5, <1>7, <2>1
  <2> QED
    BY <1>1, <2>1 DEF SecretsReadable, Unexcepted, Unexposed, history
<1>13. BackupRestorable'
  BY <1>0, <1>1 DEF StateInvariant, BackupRestorable, Restored
<1> QED
  BY <1>5, <1>6, <1>8, <1>9, <1>10, <1>11, <1>12, <1>13 DEF StateInvariant

\* What is known of a rotation that is under way.
LEMMA RotationKnows ==
  ASSUME StateInvariant, rotation.at # "idle"
  PROVE  /\ serving = "up" /\ vault.key # None /\ rotation \in Rotation
         /\ rotation.at \in {"list", "next", "convert", "master", "unlink"}
         /\ keyFile \in KeyPair /\ vault \in KeyPair /\ usedKeys \subseteq Keys /\ None \notin Keys
         /\ vault.pending \in usedKeys /\ vault.key \in usedKeys
         /\ \A d \in rotation.todo : d \in Devices /\ secret[d] \in Blob
<1>1. StateTypes /\ serving = "up" /\ vault.key # None /\ vault.pending # None
  BY DEF StateInvariant, Started, Rotating
<1>2. \A d \in rotation.todo : d \in Devices /\ secret[d] # None
  BY <1>1 DEF StateInvariant, StateTypes, Rotating, Rotation
<1> QED
  BY <1>1, <1>2, UpKeys, NoneAssumption DEF StateInvariant, StateTypes, KeysOK, Rotation

\* A rotation that ends, or fails, before it touches the key files.
LEMMA EndRotationState ==
  ASSUME StateInvariant, rotation' = NoRotation,
         UNCHANGED <<disk, serving, vault, scanning, backup, history>>
  PROVE  StateInvariant'
<1>1. NoRotation \in Rotation /\ NoRotation.at = "idle" /\ NoRotation.todo = {}
  BY DEF NoRotation, Rotation
<1>2. Unexposed' = Unexposed /\ Unexcepted' = Unexcepted /\ Lacking' = Lacking
  BY DEF Unexposed, Unexcepted, Lacking, disk, history
<1>3. StateTypes' /\ Started'
  BY <1>1, <1>2 DEF StateInvariant, StateTypes, Started, disk, history
<1>4. KeysOK' /\ Rotating'
  BY <1>1, <1>2 DEF StateInvariant, KeysOK, Rotating, disk
<1>5. BackingUp' /\ SecretsReadable' /\ BackupRestorable'
  BY <1>2 DEF StateInvariant, BackingUp, SecretsReadable, BackupRestorable, Restored, disk,
                   history
<1> QED
  BY <1>3, <1>4, <1>5 DEF StateInvariant

\* A step of a rotation that touches neither passwords nor keys keeps the state
\* invariant if it keeps Rotating.
LEMMA RotationStepState ==
  ASSUME StateInvariant, rotation.at # "idle", rotation' \in Rotation, Rotating',
         UNCHANGED <<disk, serving, vault, scanning, backup, history>>
  PROVE  StateInvariant'
<1>1. serving = "up" /\ vault.key # None
  BY RotationKnows
<1>2. Unexposed' = Unexposed /\ Unexcepted' = Unexcepted /\ Lacking' = Lacking
  BY DEF Unexposed, Unexcepted, Lacking, disk, history
<1>3. StateTypes' /\ Started'
  BY <1>1, <1>2 DEF StateInvariant, StateTypes, Started, disk, history
<1>4. KeysOK'
  BY <1>2 DEF StateInvariant, KeysOK, disk
<1>5. BackingUp' /\ SecretsReadable' /\ BackupRestorable'
  BY <1>2 DEF StateInvariant, BackingUp, SecretsReadable, BackupRestorable, Restored, disk,
                   history
<1> QED
  BY <1>3, <1>4, <1>5 DEF StateInvariant

\* The list of the passwords to convert is made, and the next one is read.
LEMMA ListState ==
  ASSUME Invariant, ListSecrets PROVE StateInvariant'
<1> DEFINE todo == {d \in Devices : secret[d] # None /\ secret[d].key # vault.pending}
<1>0. StateInvariant
  BY InvariantParts
<1>1. /\ rotation.at = "list" /\ rotation' = [rotation EXCEPT !.at = "next", !.todo = todo]
      /\ UNCHANGED <<disk, serving, vault, scanning, backup, history>>
  BY DEF ListSecrets, threads
<1>2. rotation \in Rotation /\ todo \in SUBSET Devices
  BY <1>0 DEF StateInvariant, StateTypes
<1>3. /\ \A d \in todo : secret[d] # None
      /\ \A d \in Unexposed : secret[d].key = vault.pending \/ d \in todo
  BY DEF Unexposed
<1>4. Unexposed' = Unexposed
  BY <1>1 DEF Unexposed, disk, history
<1>5. vault.pending # None
  BY <1>0, <1>1 DEF StateInvariant, Rotating
<1> HIDE DEF todo
<1>6. rotation' \in Rotation /\ rotation'.at = "next" /\ rotation'.todo = todo
  BY ONLY <1>1, <1>2 DEF Rotation
<1>7. Rotating'
  BY <1>1, <1>3, <1>4, <1>5, <1>6 DEF Rotating, disk
<1> QED
  BY <1>0, <1>1, <1>6, <1>7, RotationStepState

\* The next password is read, or the rotation ends.
LEMMA DecryptState ==
  ASSUME Invariant, DecryptNext PROVE StateInvariant'
<1>0. StateInvariant
  BY InvariantParts
<1>1. /\ rotation.at = "next"
      /\ UNCHANGED <<disk, serving, vault, scanning, backup, history>>
  BY DEF DecryptNext, threads
<1>2. CASE rotation' = NoRotation
  BY <1>0, <1>1, <1>2, EndRotationState
<1>3. ASSUME NEW d \in rotation.todo,
             rotation' = [rotation EXCEPT !.at = "convert", !.todo = @ \ {d},
                                          !.device = d, !.blob = secret[d]]
      PROVE  StateInvariant'
  <2> DEFINE rest == rotation.todo \ {d}
             blob == secret[d]
  <2>1. /\ rotation \in Rotation /\ d \in Devices /\ blob \in Blob
        /\ \A e \in rest : secret[e] # None
        /\ \A e \in Unexposed : secret[e].key = vault.pending \/ e \in rest \/ e = d
        /\ vault.pending # None
    BY <1>0, <1>1, RotationKnows DEF StateInvariant, Rotating
  <2>2. rest \in SUBSET Devices
    BY <2>1 DEF Rotation
  <2>3. rotation' = [rotation EXCEPT !.at = "convert", !.todo = rest, !.device = d, !.blob = blob]
    BY <1>3
  <2>4. blob # None /\ blob = secret[d]
    BY <2>1, BlobAssumption
  <2> HIDE DEF rest, blob
  <2>5. /\ rotation' \in Rotation /\ rotation'.at = "convert" /\ rotation'.todo = rest
        /\ rotation'.device = d /\ rotation'.blob = blob
    BY ONLY <2>1, <2>2, <2>3 DEF Rotation
  <2>6. Unexposed' = Unexposed
    BY <1>1 DEF Unexposed, disk, history
  <2>7. Rotating'
    BY <1>1, <2>1, <2>4, <2>5, <2>6 DEF Rotating, disk
  <2> QED
    BY <1>0, <1>1, <2>5, <2>7, RotationStepState
<1> QED
  BY <1>2, <1>3 DEF DecryptNext

\* What the conversion of a password changes: it is the password that was read,
\* with the new key, or one that a request has saved meanwhile and that is lost.
LEMMA ConvertedSecret ==
  ASSUME StateInvariant, ConvertSecret
  PROVE  LET d == rotation.device IN
         /\ d \in Devices
         /\ \A e \in Devices : e # d => secret'[e] = secret[e]
         /\ secret[d] # None /\ secret'[d] \in Blob
         /\ d \notin exposed => secret'[d].pw = secret[d].pw
         /\ d \notin exposed => secret'[d].key = vault.pending
         /\ exposed' = exposed /\ memoryOnly' \in {memoryOnly, memoryOnly \cup {d}}
         /\ d \notin exposed \cup memoryOnly' => keyFile.pending = vault.pending
         /\ secret' \in [Devices -> Blob \cup {None}]
         /\ \/ loc' = loc /\ secret'[d].pw = secret[d].pw
            \/ loc' = WithStale({<<"password", d>>})
<1> DEFINE d == rotation.device
           blob == rotation.blob
           new == [blob EXCEPT !.key = vault.pending]
<1>1. /\ rotation.at = "convert" /\ d \in Devices /\ blob \in Blob /\ secret[d] # None
      /\ d \in exposed \/ secret[d] = blob
  BY DEF ConvertSecret, StateInvariant, Rotating
<1>2. vault.pending \in Keys /\ secret \in [Devices -> Blob \cup {None}]
  BY <1>1, RotationKnows DEF StateInvariant, StateTypes
<1>3. new \in Blob /\ new.pw = blob.pw /\ new.key = vault.pending
  BY <1>1, <1>2 DEF Blob
<1>4. CASE secret[d].key = blob.key
  <2>1. /\ secret' = [secret EXCEPT ![d] = new]
        /\ exposed' = exposed
        /\ memoryOnly' = IF InMemoryOnly(vault.pending) THEN memoryOnly \cup {d} ELSE memoryOnly
        /\ loc' = IF secret[d] = blob THEN loc ELSE WithStale({<<"password", d>>})
    BY <1>4 DEF ConvertSecret
  <2> HIDE DEF new
  <2>2. secret'[d] = new /\ \A e \in Devices : e # d => secret'[e] = secret[e]
    BY <1>1, <1>2, <2>1
  <2>3. secret' \in [Devices -> Blob \cup {None}]
    BY <1>2, <1>3, <2>1
  <2>4. d \notin memoryOnly' => keyFile.pending = vault.pending
    BY <2>1 DEF InMemoryOnly
  <2> HIDE DEF d, blob
  <2>5. /\ exposed' = exposed /\ memoryOnly' \in {memoryOnly, memoryOnly \cup {d}}
        /\ \/ loc' = loc /\ secret'[d].pw = secret[d].pw
           \/ loc' = WithStale({<<"password", d>>})
    BY <1>3, <2>1, <2>2
  <2> QED
    BY <1>1, <1>3, <2>2, <2>3, <2>4, <2>5 DEF d
<1>5. CASE secret[d].key # blob.key
  <2>1. UNCHANGED <<secret, history, loc>>
    BY <1>5 DEF ConvertSecret, history
  <2>2. d \in exposed /\ secret[d] \in Blob
    BY <1>1, <1>2, <1>5
  <2> HIDE DEF d, blob, new
  <2> QED
    BY <1>1, <1>2, <2>1, <2>2 DEF d, history
<1> QED
  BY <1>4, <1>5

\* A password is converted: it needs the pending key now, which is on disk, or it is
\* in a history.
LEMMA ConvertState ==
  ASSUME Invariant, ConvertSecret PROVE StateInvariant'
<1> DEFINE d == rotation.device
<1>0. StateInvariant
  BY InvariantParts
<1>1. /\ rotation.at = "convert"
      /\ rotation' = [rotation EXCEPT !.at = "next", !.device = None, !.blob = None]
      /\ UNCHANGED <<doc, keyFile, legacy, usedKeys, serving, vault, pc, scanning, backup>>
  BY DEF ConvertSecret
<1>2. /\ serving = "up" /\ rotation \in Rotation /\ vault.pending \in usedKeys
      /\ \A e \in rotation.todo : e \in Devices /\ secret[e] # None
  BY <1>0, <1>1, RotationKnows, BlobAssumption
<1>3. /\ d \in Devices
      /\ \A e \in Devices : e # d => secret'[e] = secret[e]
      /\ secret[d] # None /\ secret'[d] \in Blob /\ secret'[d] # None
      /\ d \notin exposed => secret'[d].key = vault.pending
      /\ exposed' = exposed /\ memoryOnly' \in {memoryOnly, memoryOnly \cup {d}}
      /\ d \notin exposed \cup memoryOnly' => keyFile.pending = vault.pending
      /\ secret' \in [Devices -> Blob \cup {None}]
  BY <1>0, ConvertedSecret, BlobAssumption
<1>4. rotation' \in Rotation /\ rotation'.at = "next" /\ rotation'.todo = rotation.todo
  BY ONLY <1>1, <1>2 DEF Rotation
<1>5. StateTypes'
  BY <1>0, <1>1, <1>3, <1>4 DEF StateInvariant, StateTypes
<1> HIDE DEF d
<1>6. \A e \in Devices : secret[e] # None => secret'[e] # None
  BY <1>3
<1>7. Started'
  <2>1. \A e \in doc.devices : e \in Devices
    BY <1>0, DocumentFields DEF StateInvariant, StateTypes
  <2>2. Lacking' = Lacking
    BY <1>1 DEF Lacking
  <2>3. vault.key # None
    BY <1>0, <1>1, RotationKnows
  <2> QED
    BY <1>0, <1>1, <1>2, <1>6, <2>1, <2>2, <2>3 DEF StateInvariant, Started
<1>8. /\ \A e \in Unexposed' :
           \/ e # d /\ e \in Unexposed /\ secret'[e] = secret[e]
           \/ e = d /\ secret'[e].key = vault.pending
      /\ \A e \in Unexcepted' :
           \/ e # d /\ e \in Unexcepted /\ secret'[e] = secret[e]
           \/ e = d /\ secret'[e].key = vault.pending /\ keyFile.pending = vault.pending
  BY <1>3 DEF Unexposed, Unexcepted
<1>9. KeysOK'
  <2>1. \A e \in Devices : secret'[e] # None => secret'[e].key \in usedKeys
    <3>1. secret'[d].key \in usedKeys
      <4>1. CASE d \notin exposed
        BY <1>2, <1>3, <4>1
      <4>2. CASE d \in exposed
        <5>1. secret'[d] = secret[d] \/ secret'[d].key = vault.pending
          <6>1. rotation.blob \in Blob
            BY <1>0, <1>1 DEF StateInvariant, Rotating
          <6> QED
            BY <1>0, <1>3, <6>1 DEF ConvertSecret, Blob, d, StateInvariant, StateTypes
        <5> QED
          BY <1>0, <1>2, <1>3, <5>1 DEF StateInvariant, KeysOK
      <4> QED
        BY <4>1, <4>2
    <3> QED
      BY <1>0, <1>3, <3>1 DEF StateInvariant, KeysOK
  <2>2. vault.pending # keyFile.pending => \A e \in Unexcepted' : secret'[e].key # vault.pending
    BY <1>0, <1>8 DEF StateInvariant, KeysOK
  <2>3. vault.key # None /\ vault.key = vault.pending =>
          \A e \in Unexposed' : secret'[e].key = vault.pending
    BY <1>0, <1>8 DEF StateInvariant, KeysOK
  <2>4. keyFile.key # None /\ keyFile.key = keyFile.pending =>
          \A e \in Unexposed' : secret'[e].key = keyFile.pending
    <3>1. keyFile.pending \in {None, vault.pending}
      BY <1>0, <1>1, RotationKnows, UpKeys
    <3> QED
      BY <1>0, <1>8, <3>1 DEF StateInvariant, KeysOK
  <2> QED
    BY <1>0, <1>1, <2>1, <2>2, <2>3, <2>4 DEF StateInvariant, KeysOK
<1>10. Rotating'
  <2>1. \A e \in Unexposed : secret[e].key = vault.pending \/ e \in rotation.todo \/ e = d
    BY <1>0, <1>1 DEF StateInvariant, Rotating, d
  <2>2. \A e \in Unexposed' : secret'[e].key = vault.pending \/ e \in rotation.todo
    BY <1>8, <2>1
  <2>3. vault.pending # None
    BY <1>0, <1>1 DEF StateInvariant, Rotating
  <2> QED
    BY <1>1, <1>2, <1>4, <1>6, <2>2, <2>3 DEF Rotating
<1>11. BackingUp'
  BY <1>0, <1>1, <1>8 DEF StateInvariant, BackingUp
<1>12. SecretsReadable'
  <2>1. \A e \in Unexcepted : secret[e].key \in {keyFile.key, keyFile.pending}
    BY <1>0 DEF StateInvariant, SecretsReadable, Unexcepted, Unexposed
  <2>2. \A e \in Unexcepted' : secret'[e].key \in {keyFile.key, keyFile.pending}
    BY <1>8, <2>1
  <2> QED
    BY <1>1, <2>2 DEF SecretsReadable, Unexcepted, Unexposed
<1>13. BackupRestorable'
  BY <1>0, <1>1 DEF StateInvariant, BackupRestorable, Restored
<1> QED
  BY <1>5, <1>7, <1>9, <1>10, <1>11, <1>12, <1>13 DEF StateInvariant

\* All passwords are converted; the new key becomes the key in memory ...
LEMMA ActivateState ==
  ASSUME Invariant, ActivatePending PROVE StateInvariant'
<1>0. StateInvariant
  BY InvariantParts
<1>1. /\ rotation.at = "next" /\ rotation.todo = {}
      /\ vault' = [vault EXCEPT !.key = vault.pending]
      /\ rotation' = [rotation EXCEPT !.at = "master"]
      /\ UNCHANGED <<doc, secret, keyFile, legacy, usedKeys, serving, scanning, backup, history>>
  BY DEF ActivatePending, RotationAt, threads, disk
<1>2. /\ rotation \in Rotation /\ vault \in KeyPair /\ vault.pending \in usedKeys
      /\ usedKeys \subseteq Keys /\ None \notin Keys /\ serving = "up" /\ vault.key # None
      /\ \A d \in Unexposed : secret[d].key = vault.pending
  BY <1>0, <1>1, RotationKnows DEF StateInvariant, Rotating
<1>3. /\ vault' \in KeyPair /\ vault'.key = vault.pending /\ vault'.pending = vault.pending
      /\ rotation' \in Rotation /\ rotation'.at = "master" /\ rotation'.todo = {}
  BY <1>1, <1>2 DEF Rotation, KeyPair
<1>4. /\ Unexposed' = Unexposed /\ Unexcepted' = Unexcepted /\ Unexcepted \subseteq Unexposed
      /\ Lacking' = Lacking
  BY <1>1 DEF Unexposed, Unexcepted, Lacking, history
<1>5. StateTypes' /\ Started'
  BY <1>0, <1>1, <1>2, <1>3, <1>4 DEF StateInvariant, StateTypes, Started, history
<1>6. KeysOK' /\ Rotating'
  BY <1>0, <1>1, <1>2, <1>3, <1>4 DEF StateInvariant, KeysOK, Rotating
<1>7. BackingUp'
  BY <1>0, <1>1, <1>3, <1>4 DEF StateInvariant, BackingUp
<1>8. SecretsReadable' /\ BackupRestorable'
  BY <1>0, <1>1 DEF StateInvariant, SecretsReadable, BackupRestorable, Restored, history
<1> QED
  BY <1>5, <1>6, <1>7, <1>8 DEF StateInvariant

\* ... and then the key on disk; a failure leaves both files as they are.
LEMMA WriteState ==
  ASSUME Invariant, WriteMaster PROVE StateInvariant'
<1>0. StateInvariant
  BY InvariantParts
<1>1. /\ rotation.at = "master"
      /\ UNCHANGED <<doc, secret, legacy, usedKeys, serving, vault, scanning, backup, history>>
  BY DEF WriteMaster, threads
<1>2. CASE keyFile' = keyFile /\ rotation' = NoRotation
  BY <1>0, <1>1, <1>2, EndRotationState DEF disk
<1>3. CASE keyFile' = [keyFile EXCEPT !.key = vault.key] /\ RotationAt("unlink")
  <2>1. /\ rotation \in Rotation /\ keyFile \in KeyPair /\ vault \in KeyPair
        /\ vault.key = vault.pending /\ vault.pending \in usedKeys
        /\ usedKeys \subseteq Keys /\ None \notin Keys /\ serving = "up" /\ vault.key # None
        /\ \A d \in rotation.todo : secret[d] # None
    BY <1>0, <1>1, RotationKnows DEF StateInvariant, Rotating
  <2>2. /\ keyFile' \in KeyPair /\ keyFile'.key = vault.key /\ keyFile'.pending = keyFile.pending
        /\ rotation' \in Rotation /\ rotation'.at = "unlink" /\ rotation'.todo = rotation.todo
    BY <1>3, <2>1 DEF Rotation, KeyPair, RotationAt
  <2>3. /\ Unexposed' = Unexposed /\ \A d \in Unexposed : secret[d].key = vault.key
        /\ Unexcepted' = Unexcepted /\ Unexcepted \subseteq Unexposed /\ Lacking' = Lacking
    BY <1>0, <1>1, <2>1 DEF Unexposed, Unexcepted, Lacking, history, StateInvariant, KeysOK
  <2>4. StateTypes' /\ Started'
    BY <1>0, <1>1, <2>1, <2>2, <2>3 DEF StateInvariant, StateTypes, Started, history
  <2>5. KeysOK' /\ Rotating'
    BY <1>0, <1>1, <2>1, <2>2, <2>3 DEF StateInvariant, KeysOK, Rotating
  <2>6. BackingUp' /\ BackupRestorable'
    BY <1>0, <1>1, <2>2, <2>3 DEF StateInvariant, BackingUp, BackupRestorable, Restored
  <2>7. SecretsReadable'
    BY <1>1, <2>2, <2>3 DEF SecretsReadable, Unexcepted, Unexposed, history
  <2> QED
    BY <2>4, <2>5, <2>6, <2>7 DEF StateInvariant
<1> QED
  BY <1>2, <1>3 DEF WriteMaster

\* The old key is forgotten: no password that is not exposed needs it.
LEMMA ForgetState ==
  ASSUME Invariant, ForgetPending PROVE StateInvariant'
<1>0. StateInvariant
  BY InvariantParts
<1>1. /\ rotation.at = "unlink"
      /\ keyFile' = [keyFile EXCEPT !.pending = None]
      /\ vault' = [vault EXCEPT !.pending = None]
      /\ rotation' = NoRotation
      /\ UNCHANGED <<doc, secret, legacy, usedKeys, serving, scanning, exposed>>
      /\ memoryOnly' = {}
  BY DEF ForgetPending, threads
<1>2. /\ keyFile \in KeyPair /\ vault \in KeyPair /\ vault.key \in usedKeys
      /\ usedKeys \subseteq Keys /\ None \notin Keys /\ serving = "up" /\ vault.key # None
      /\ keyFile.key = vault.key /\ vault.key = vault.pending
  BY <1>0, <1>1, RotationKnows DEF StateInvariant, Rotating
<1>3. /\ keyFile' \in KeyPair /\ keyFile'.key = vault.key /\ keyFile'.pending = None
      /\ vault' \in KeyPair /\ vault'.key = vault.key /\ vault'.pending = None
  BY <1>1, <1>2 DEF KeyPair
<1>4. NoRotation \in Rotation /\ NoRotation.at = "idle" /\ NoRotation.todo = {}
  BY DEF NoRotation, Rotation
<1>5. /\ backup' \in Backup /\ backup'.at = backup.at /\ backup'.needs = backup.needs
      /\ backup'.package = backup.package /\ backup'.pending = backup.pending
      /\ backup'.excepted = backup.excepted
      /\ backup'.rotated = (backup.at \in {"database", "keys"} \/ backup.rotated)
  <2> DEFINE ended == backup.at \in {"database", "keys"} \/ backup.rotated
  <2>1. backup \in Backup /\ ended \in BOOLEAN
    BY <1>0 DEF StateInvariant, StateTypes, Backup
  <2>2. backup' = [backup EXCEPT !.rotated = ended]
    BY DEF ForgetPending
  <2> HIDE DEF ended
  <2>3. /\ backup' \in Backup /\ backup'.at = backup.at /\ backup'.needs = backup.needs
        /\ backup'.package = backup.package /\ backup'.pending = backup.pending
        /\ backup'.rotated = ended /\ backup'.excepted = backup.excepted
    BY ONLY <2>1, <2>2 DEF Backup
  <2> QED
    BY <2>3 DEF ended
<1>6. /\ Unexposed' = Unexposed /\ Unexcepted' = Unexposed /\ Lacking' = Lacking
      /\ \A d \in Unexposed : secret[d].key = vault.key
  BY <1>0, <1>1, <1>2 DEF Unexposed, Unexcepted, Lacking, StateInvariant, KeysOK
<1>7. StateTypes' /\ Started'
  BY <1>0, <1>1, <1>2, <1>3, <1>4, <1>5, <1>6 DEF StateInvariant, StateTypes, Started
<1>8. KeysOK' /\ Rotating'
  BY <1>0, <1>1, <1>2, <1>3, <1>4, <1>6 DEF StateInvariant, KeysOK, Rotating
<1>9. BackingUp' /\ BackupRestorable'
  BY <1>0, <1>5 DEF StateInvariant, BackingUp, BackupRestorable, Restored
<1>10. SecretsReadable'
  BY <1>1, <1>3, <1>6 DEF SecretsReadable, Unexcepted, Unexposed
<1> QED
  BY <1>7, <1>8, <1>9, <1>10 DEF StateInvariant

\* A rotation fails between two of its steps.
LEMMA AbortState ==
  ASSUME Invariant, AbortRotation PROVE StateInvariant'
<1>1. StateInvariant
  BY InvariantParts
<1> QED
  BY <1>1, EndRotationState DEF AbortRotation, threads

\* A backup begins, copies the database, copies the key files, and is dropped.
LEMMA BackupState ==
  ASSUME Invariant, BackUp PROVE StateInvariant'
<1>0. StateInvariant
  BY InvariantParts
<1>1. UNCHANGED <<disk, serving, vault, scanning, rotation, history>>
  BY DEF BackUp, StartBackup, CopyDatabase, CopyKeys, DropBackup, threads
<1>2. /\ backup \in Backup /\ NoBackup \in Backup /\ keyFile \in KeyPair /\ vault \in KeyPair
      /\ None \notin Keys /\ usedKeys \subseteq Keys
  BY <1>0, NoneAssumption DEF StateInvariant, StateTypes, Backup, NoBackup
<1>3. Unexposed' = Unexposed /\ Unexcepted' = Unexcepted /\ Lacking' = Lacking
  BY <1>1 DEF Unexposed, Unexcepted, Lacking, disk, history
<1>4. /\ backup' \in Backup
      /\ backup'.at \in {"database", "keys"} => serving = "up" /\ vault.key # None
      /\ BackingUp' /\ BackupRestorable'
  <2>1. CASE StartBackup
    <3>1. vault.key \in Keys \cup {None}
      BY <1>2 DEF KeyPair
    <3>2. backup' \in Backup /\ backup'.at = "database" /\ backup'.package = vault.key
      <4>1. backup' = [NoBackup EXCEPT !.at = "database", !.package = vault.key]
        BY <2>1 DEF StartBackup
      <4> QED
        BY ONLY <1>2, <3>1, <4>1 DEF Backup
    <3>3. serving = "up" /\ vault.key # None
      BY <2>1 DEF StartBackup, HasVault
    <3>4. \A d \in Unexcepted : secret[d].key \in {vault.key, keyFile.pending}
      <4>1. CASE vault.key = keyFile.key
        BY <1>0, <3>3, <4>1, UpKeys
      <4>2. CASE vault.key = vault.pending
        BY <1>0, <3>3, <4>2, UpKeys DEF StateInvariant, KeysOK, Unexcepted
      <4> QED
        BY <1>0, <3>3, <4>1, <4>2, UpKeys
    <3> QED
      BY <1>1, <1>3, <3>2, <3>3, <3>4 DEF BackingUp, BackupRestorable, disk
  <2>2. CASE CopyDatabase
    <3> DEFINE needs == [d \in Devices |-> IF secret[d] = None THEN None ELSE secret[d].key]
               excepted == exposed \cup memoryOnly
    <3>1. backup.at = "database" /\ serving = "up" /\ vault.key # None
      BY <1>0, <2>2 DEF CopyDatabase, StateInvariant, Started
    <3>2. \A d \in Devices \ excepted : needs[d] # None =>
            d \in Unexcepted /\ needs[d] = secret[d].key
      BY DEF Unexcepted, Unexposed
    <3>3. needs \in [Devices -> Keys \cup {None}] /\ excepted \in SUBSET Devices
      BY <1>0 DEF StateInvariant, StateTypes, Blob
    <3>4. ~backup.rotated => \A d \in Devices \ excepted :
            needs[d] \in {None, backup.package, keyFile.pending}
      BY <1>0, <3>1, <3>2 DEF StateInvariant, BackingUp
    <3>5. backup' = [backup EXCEPT !.at = "keys", !.needs = needs, !.excepted = excepted]
      BY <2>2 DEF CopyDatabase
    <3> HIDE DEF needs, excepted
    <3>6. /\ backup' \in Backup /\ backup'.at = "keys" /\ backup'.needs = needs
          /\ backup'.package = backup.package /\ backup'.rotated = backup.rotated
          /\ backup'.excepted = excepted
      BY ONLY <1>2, <3>3, <3>5 DEF Backup
    <3> QED
      BY <1>1, <3>1, <3>4, <3>6 DEF BackingUp, BackupRestorable, disk
  <2>3. CASE CopyKeys
    <3>1. backup.at = "keys" /\ keyFile.pending \in Keys \cup {None}
      BY <1>2, <2>3 DEF CopyKeys, KeyPair
    <3>2. backup' = [backup EXCEPT !.at = "made", !.pending = keyFile.pending]
      BY <2>3 DEF CopyKeys
    <3>3. /\ backup' \in Backup /\ backup'.at = "made" /\ backup'.needs = backup.needs
          /\ backup'.package = backup.package /\ backup'.rotated = backup.rotated
          /\ backup'.pending = keyFile.pending /\ backup'.excepted = backup.excepted
      BY ONLY <1>2, <3>1, <3>2 DEF Backup
    <3>4. ~backup.rotated => \A d \in Devices \ backup.excepted :
            backup.needs[d] \in {None, backup.package, keyFile.pending}
      BY <1>0, <3>1 DEF StateInvariant, BackingUp
    <3> QED
      BY <3>3, <3>4 DEF BackingUp, BackupRestorable, Restored
  <2>4. CASE DropBackup
    <3>1. backup' = NoBackup /\ NoBackup.at = "none"
      BY <2>4 DEF DropBackup, NoBackup
    <3> QED
      BY <1>2, <3>1 DEF BackingUp, BackupRestorable
  <2> QED
    BY <2>1, <2>2, <2>3, <2>4 DEF BackUp
<1>5. StateTypes' /\ Started'
  BY <1>0, <1>1, <1>3, <1>4 DEF StateInvariant, StateTypes, Started, disk, history
<1>6. KeysOK' /\ Rotating' /\ SecretsReadable'
  BY <1>0, <1>1, <1>3 DEF StateInvariant, KeysOK, Rotating, SecretsReadable, disk, history
<1> QED
  BY <1>4, <1>5, <1>6 DEF StateInvariant

\* The process stops: what is in memory is gone, whatever was under way.
LEMMA CrashState ==
  ASSUME Invariant, Crash PROVE StateInvariant'
<1>0. StateInvariant
  BY InvariantParts
<1>1. /\ serving' = "down" /\ vault' = NoKeys /\ scanning' = FALSE
      /\ rotation' = NoRotation /\ backup' = IF backup.at = "made" THEN backup ELSE NoBackup
      /\ UNCHANGED <<doc, secret, keyFile, legacy, usedKeys, history>>
  BY DEF Crash, disk
<1>2. /\ NoRotation \in Rotation /\ NoRotation.at = "idle" /\ NoRotation.todo = {}
      /\ NoBackup \in Backup /\ NoBackup.at = "none"
      /\ NoKeys \in KeyPair /\ NoKeys.key = None /\ NoKeys.pending = None
  BY DEF NoRotation, Rotation, NoBackup, Backup, NoKeys, KeyPair
<1>3. /\ Unexposed' = Unexposed /\ Unexcepted' = Unexcepted /\ Lacking' = Lacking
      /\ \A d \in Unexcepted : secret[d].key # None
  BY <1>0, <1>1, NoneAssumption
     DEF Unexposed, Unexcepted, Lacking, history, StateInvariant, StateTypes, KeysOK
<1>4. StateTypes' /\ Started'
  BY <1>0, <1>1, <1>2, <1>3 DEF StateInvariant, StateTypes, Started, history
<1>5. KeysOK' /\ Rotating'
  BY <1>0, <1>1, <1>2, <1>3 DEF StateInvariant, KeysOK, Rotating
<1>6. BackingUp' /\ BackupRestorable' /\ SecretsReadable'
  BY <1>0, <1>1, <1>2 DEF StateInvariant, BackingUp, BackupRestorable, Restored, SecretsReadable,
                             history
<1> QED
  BY <1>4, <1>5, <1>6 DEF StateInvariant

\* After a crash no request is left.
LEMMA CrashThreads ==
  ASSUME Invariant, Crash PROVE ThreadsKept
<1>1. pc' = [w \in Workers |-> "idle"] /\ loc' = [w \in Workers |-> NoLocals]
  BY DEF Crash
<1>2. ThreadTypes'
  BY <1>1, NoLocalsFit DEF ThreadTypes, ThreadFits
<1> QED
  BY <1>1, <1>2, SavingEnds DEF ThreadsKept

\* A conversion: a password it loses is stale for the requests that hold it.
LEMMA ConvertThreads ==
  ASSUME Invariant, ConvertSecret PROVE ThreadsKept
<1> DEFINE d == rotation.device
<1>0. StateInvariant /\ ThreadTypes /\ \A w \in Workers : Saving(w)
  BY InvariantParts
<1>1. UNCHANGED <<doc, usedKeys, legacy, serving, pc>>
  BY DEF ConvertSecret
<1>2. /\ d \in Devices /\ secret[d] # None
      /\ \A e \in Devices : e # d => secret'[e] = secret[e]
      /\ secret'[d] # None
      /\ \/ loc' = loc /\ secret'[d].pw = secret[d].pw
         \/ loc' = WithStale({<<"password", d>>})
  BY <1>0, ConvertedSecret, BlobAssumption
<1> HIDE DEF d
<1>3. PICK items \in SUBSET Items :
        /\ \A v \in Workers : loc'[v] = WithStale(items)[v]
        /\ \A e \in Devices : secret'[e] # None =>
             \/ secret[e] # None /\ secret'[e].pw = secret[e].pw
             \/ <<"password", e>> \in items
  <2>1. CASE loc' = loc /\ secret'[d].pw = secret[d].pw
    <3>1. ASSUME NEW v \in Workers PROVE loc'[v] = WithStale({})[v]
      <4>1. loc[v] \in Locals
        BY <1>0 DEF ThreadTypes
      <4>2. [loc[v] EXCEPT !.stale = @ \cup ({} \ loc[v].own)] = loc[v]
        BY ONLY <4>1 DEF Locals
      <4> QED
        BY <2>1, <4>2 DEF WithStale
    <3>2. {} \in SUBSET Items
      OBVIOUS
    <3>3. \A e \in Devices : secret'[e] # None => secret[e] # None /\ secret'[e].pw = secret[e].pw
      BY <1>2, <2>1
    <3> QED
      BY <3>1, <3>2, <3>3
  <2>2. CASE loc' = WithStale({<<"password", d>>})
    <3>1. {<<"password", d>>} \in SUBSET Items
      BY <1>2 DEF Items
    <3>2. \A e \in Devices : secret'[e] # None =>
             \/ secret[e] # None /\ secret'[e].pw = secret[e].pw
             \/ <<"password", e>> \in {<<"password", d>>}
      BY <1>2
    <3> QED
      BY <2>2, <3>1, <3>2
  <2> QED
    BY <1>2, <2>1, <2>2
<1>4. doc' \in Document /\ Changed(doc, doc') \subseteq items
  BY <1>0, <1>1 DEF StateInvariant, StateTypes, Changed
<1>5. \A e \in Devices : secret[e] # None => secret'[e] # None
  BY <1>2
<1>6. ASSUME NEW v \in Workers PROVE Saving(v)'
  BY <1>1, <1>3, <1>4, <1>5, SavingWaits
<1>7. ThreadTypes'
  <2>1. ASSUME NEW v \in Workers PROVE loc'[v] \in Locals /\ ThreadFits(pc'[v], loc'[v])
    <3>1. ThreadFits(pc[v], loc[v])
      BY <1>0 DEF ThreadTypes
    <3> QED
      BY <1>0, <1>1, <1>3, <3>1, StaledLocals DEF ThreadFits
  <2>2. loc' = [v \in Workers |-> loc'[v]]
    BY <1>0, <1>2 DEF WithStale, ThreadTypes
  <2>3. loc' \in [Workers -> Locals]
    BY <2>1, <2>2
  <2> QED
    BY <1>0, <1>1, <2>1, <2>3 DEF ThreadTypes
<1> QED
  BY <1>6, <1>7 DEF ThreadsKept

(***************************************************************************)
(* The invariant                                                           *)
(***************************************************************************)

\* A step keeps the invariant if it keeps both of its halves.
LEMMA StepKeeps == StateInvariant' /\ ThreadsKept => Invariant'
BY DEF Invariant, StateInvariant, ThreadsKept, TypeOK, StateTypes, ThreadTypes, ThreadFits

\* A step of a thread that stores nothing.
LEMMA QuietStep ==
  ASSUME Invariant, ThreadsKept, scanning' \in BOOLEAN,
         UNCHANGED <<disk, serving, vault, rotation, backup, history>>
  PROVE  Invariant'
<1>1. doc' \in Document /\ doc' = doc /\ \A d \in doc'.devices \ Lacking : secret[d] # None
  BY DEF Invariant, TypeOK, Started, disk
<1>2. StateInvariant'
  BY <1>1, DocumentState DEF disk
<1> QED
  BY <1>2, StepKeeps

\* A request on the document.
LEMMA DocumentStep ==
  ASSUME Invariant, NEW w \in Workers, ChangeDocument(w) PROVE Invariant'
<1>0. StateInvariant /\ scanning \in BOOLEAN
  BY InvariantParts DEF StateInvariant, StateTypes
<1>1. ASSUME Changes(w) PROVE Invariant'
  <2>1. /\ ThreadTypes' /\ Saving(w)'
        /\ \A v \in Workers : v # w => pc'[v] = pc[v] /\ loc'[v] = loc[v]
        /\ UNCHANGED <<disk, serving, vault, scanning, rotation, backup, history>>
    BY <1>1, ChangesEnter
  <2>2. ASSUME NEW v \in Workers PROVE Saving(v)'
    BY <2>1, SavingStays DEF disk
  <2> QED
    BY <1>0, <2>1, <2>2, QuietStep DEF ThreadsKept
<1>2. ASSUME NEW h \in Hosts, AddHost(w, h) \/ RemoveHost(w, h) PROVE Invariant'
  BY <1>1, <1>2, HostChanges DEF Invariant
<1>3. ASSUME NEW h \in Hosts, RefreshHost(w, h) PROVE Invariant'
  BY <1>0, <1>3, RefreshThreads, QuietStep DEF RefreshHost
<1>4. ASSUME NEW h \in Hosts, UpdateMonitored(w, h) PROVE Invariant'
  <2>1. /\ ThreadsKept /\ doc' \in Document /\ doc'.devices = doc.devices /\ serving = "up"
        /\ UNCHANGED <<secret, keyFile, legacy, usedKeys, serving, vault, scanning, rotation,
                       backup, history>>
    BY <1>4, UpdateThreads DEF UpdateMonitored
  <2>2. \A d \in doc'.devices \ Lacking : secret[d] # None
    BY <1>0, <2>1 DEF StateInvariant, Started
  <2> QED
    BY <1>0, <2>1, <2>2, DocumentState, StepKeeps
<1>5. ASSUME NEW g \in Ranges, AddRange(w, g) \/ RemoveRange(w, g) PROVE Invariant'
  BY <1>1, <1>5, RangeChanges DEF Invariant
<1>6. ASSUME NEW d \in Devices,
             \/ RemoveUploadDevice(w, d)
             \/ \E p \in Passwords : AddUploadDevice(w, d, p)
             \/ \E p \in Passwords \cup {None} : UpdateUploadDevice(w, d, p)
      PROVE  Invariant'
  BY <1>1, <1>6, DeviceChanges DEF Invariant
<1>7. CASE EncryptPassword(w)
  BY <1>0, <1>7, EncryptThreads, QuietStep DEF EncryptPassword
<1>8. CASE PutSecret(w)
  BY <1>8, PutThreads, PutState, StepKeeps
<1>9. CASE SaveDocument(w)
  <2>1. /\ ThreadsKept /\ doc' \in Document /\ serving = "up"
        /\ \A d \in doc'.devices \ Lacking : secret[d] # None
        /\ UNCHANGED <<secret, keyFile, legacy, usedKeys, serving, vault, scanning, rotation,
                       backup, history>>
    BY <1>9, SaveThreads DEF SaveDocument
  <2> QED
    BY <1>0, <2>1, DocumentState, StepKeeps
<1> QED
  BY <1>2, <1>3, <1>4, <1>5, <1>6, <1>7, <1>8, <1>9 DEF ChangeDocument

\* A step of a scan, or a request that fails.
LEMMA ScanStep ==
  ASSUME Invariant, NEW w \in Workers, Scan(w) \/ Abort(w) PROVE Invariant'
<1>0. scanning \in BOOLEAN
  BY DEF Invariant, TypeOK
<1>1. CASE StartScan(w)
  BY <1>0, <1>1, StartScanThreads, QuietStep DEF StartScan
<1>2. CASE BeginScan(w)
  BY <1>0, <1>2, BeginScanThreads, QuietStep DEF BeginScan
<1>3. ASSUME NEW g \in Ranges, VisitRange(w, g) PROVE Invariant'
  BY <1>0, <1>3, VisitRangeThreads, QuietStep DEF VisitRange
<1>4. CASE EndScan(w)
  <2>1. /\ pc[w] # "idle" /\ Return(w) /\ scanning' \in BOOLEAN
        /\ UNCHANGED <<disk, serving, vault, rotation, backup, history>>
    BY <1>4 DEF EndScan
  <2> QED
    BY <2>1, Busy, ReturnThreads, QuietStep
<1>5. CASE Abort(w)
  <2>1. /\ pc[w] # "idle" /\ Return(w) /\ scanning' \in BOOLEAN
        /\ UNCHANGED <<disk, serving, vault, rotation, backup, history>>
    BY <1>0, <1>5 DEF Abort
  <2> QED
    BY <2>1, Busy, ReturnThreads, QuietStep
<1> QED
  BY <1>1, <1>2, <1>3, <1>4, <1>5 DEF Scan

\* A step of the rotation: no thread moves, and only a conversion stores a password.
LEMMA RotateStep ==
  ASSUME Invariant, Rotate PROVE Invariant'
<1>1. CASE ConvertSecret
  BY <1>1, ConvertThreads, ConvertState, StepKeeps
<1>2. CASE ~ConvertSecret
  <2>1. StateInvariant' /\ usedKeys \subseteq usedKeys'
    BY <1>2, BeginState, ListState, DecryptState, ActivateState, WriteState, ForgetState,
       AbortState
       DEF Rotate, ListSecrets, DecryptNext, ActivatePending, WriteMaster, ForgetPending,
           AbortRotation, disk
  <2>2. UNCHANGED <<threads, doc, secret, legacy, serving>>
    BY <1>2 DEF Rotate, BeginRotation, ListSecrets, DecryptNext, ActivatePending, WriteMaster,
                ForgetPending, AbortRotation, disk
  <2> QED
    BY <2>1, <2>2, WaitingThreads, StepKeeps
<1> QED
  BY <1>1, <1>2

\* A step of the start: no thread is at work yet.
LEMMA StartStep ==
  ASSUME Invariant, Start PROVE Invariant'
<1>1. serving # "up" /\ UNCHANGED threads
  BY DEF Start, OpenDatabase, StartWithoutVault, MakeKeys, LoadKeys, MigrateSecrets
<1>2. ThreadsKept
  BY <1>1, IdleThreads
<1>3. StateInvariant'
  BY OpenDatabaseState, WithoutVaultState, KeysState, MigrateState DEF Start
<1> QED
  BY <1>2, <1>3, StepKeeps

\* The invariant holds at the first start.
LEMMA InvariantInit == Init => Invariant
<1> SUFFICES ASSUME Init PROVE Invariant
  OBVIOUS
<1>1. /\ EmptyState \in Document /\ EmptyState.devices = {} /\ NoKeys \in KeyPair
      /\ NoKeys.key = None /\ NoKeys.pending = None
      /\ NoRotation \in Rotation /\ NoRotation.at = "idle" /\ NoRotation.todo = {}
      /\ NoBackup \in Backup /\ NoBackup.at = "none"
  BY DEF EmptyState, Document, NoKeys, KeyPair, NoRotation, Rotation, NoBackup, Backup
<1>2. StateTypes /\ ThreadTypes
  BY <1>1, NoLocalsFit DEF Init, StateTypes, ThreadTypes, ThreadFits
<1>3. Unexposed = {} /\ Unexcepted = {}
  BY DEF Init, Unexposed, Unexcepted
<1>4. Started /\ KeysOK /\ Rotating /\ BackingUp
  BY <1>1, <1>3 DEF Init, Started, KeysOK, Rotating, BackingUp
<1>5. SecretsReadable /\ BackupRestorable
  BY <1>1 DEF Init, SecretsReadable, BackupRestorable
<1>6. \A w \in Workers : Saving(w)
  BY DEF Init, Saving, Holding, NoLocals
<1> QED
  BY <1>2, <1>4, <1>5, <1>6, TypeParts DEF Invariant

\* Every step keeps it.
LEMMA InvariantStep == Invariant /\ [Next]_vars => Invariant'
<1> SUFFICES ASSUME Invariant, [Next]_vars PROVE Invariant'
  OBVIOUS
<1>1. CASE Start
  BY <1>1, StartStep
<1>2. CASE Rotate
  BY <1>2, RotateStep
<1>3. CASE BackUp
  <2>1. UNCHANGED <<threads, doc, secret, legacy, serving, usedKeys>>
    BY <1>3 DEF BackUp, StartBackup, CopyDatabase, CopyKeys, DropBackup, disk
  <2> QED
    BY <1>3, <2>1, BackupState, WaitingThreads, StepKeeps
<1>4. CASE Crash
  BY <1>4, CrashState, CrashThreads, StepKeeps
<1>5. ASSUME NEW w \in Workers, ChangeDocument(w) \/ Scan(w) \/ Abort(w) PROVE Invariant'
  BY <1>5, DocumentStep, ScanStep
<1>6. CASE UNCHANGED vars
  <2>1. UNCHANGED threads /\ UNCHANGED <<disk, serving, vault, rotation, backup, history>>
    BY <1>6 DEF vars
  <2>2. scanning' \in BOOLEAN
    BY <2>1 DEF threads, Invariant, TypeOK
  <2>3. ThreadsKept
    BY <2>1, WaitingThreads DEF disk
  <2> QED
    BY <2>1, <2>2, <2>3, QuietStep
<1> QED
  BY <1>1, <1>2, <1>3, <1>4, <1>5, <1>6 DEF Next

\* So it always holds.
LEMMA InvariantHolds == Spec => []Invariant
BY InvariantInit, InvariantStep, PTL DEF Spec

(***************************************************************************)
(* The theorems                                                            *)
(***************************************************************************)

\* Documents, passwords, keys and locals keep their types.
THEOREM ServerTypeCorrect == Spec => []TypeOK
<1>1. Invariant => TypeOK
  BY DEF Invariant
<1> QED
  BY <1>1, InvariantHolds, PTL

\* A server that serves with a vault has a password for every device in its document
\* that has one at all, whatever requests, rotations, failures and crashes came
\* before, starts without a vault and the takeover of an old file among them.
THEOREM PasswordIsKept == Spec => []PasswordKept
<1>1. Invariant => PasswordKept
  BY DEF Invariant, Started, PasswordKept, Lacking, HasVault
<1> QED
  BY <1>1, InvariantHolds, PTL

\* At every moment of a rotation, and so after a crash at any of them, a password can
\* be decrypted with a key on disk that was neither saved past a rotation nor saved
\* or converted under a pending key that is in no file.
THEOREM SecretsStayReadable == Spec => []SecretsReadable
<1>1. Invariant => SecretsReadable
  BY DEF Invariant
<1> QED
  BY <1>1, InvariantHolds, PTL

\* A backup opens the passwords in its database that were in neither history then, at
\* whatever moment of a rotation it was made, unless the rotation ended while it was.
THEOREM BackupsRestorable == Spec => []BackupRestorable
<1>1. Invariant => BackupRestorable
  BY DEF Invariant
<1> QED
  BY <1>1, InvariantHolds, PTL

\* What a step changes in the document is the part of a request that saves, or was
\* changed by another since it read, or is a certificate that is refreshed.
LEMMA DocumentOverlap ==
  ASSUME Invariant, Next, serving = "up", NEW item \in Changed(doc, doc')
  PROVE  \E w \in Workers :
           /\ pc'[w] # pc[w]
           /\ \/ pc[w] = "save" /\ item \in loc[w].own \cup loc[w].stale
              \/ /\ pc[w] = "connect" /\ item \in loc[w].own
                 /\ doc.certs[item[2]] # None /\ doc'.certs[item[2]] # None
<1>1. CASE UNCHANGED doc
  BY <1>1 DEF Changed
<1>2. ASSUME NEW w \in Workers, SaveDocument(w)
      PROVE  pc'[w] # pc[w] /\ pc[w] = "save" /\ item \in loc[w].own \cup loc[w].stale
  <2>1. pc[w] = "save" /\ pc' = [pc EXCEPT ![w] = loc[w].then]
    BY <1>2 DEF SaveDocument, GotoStaling
  <2>2. pc \in [Workers -> Labels] /\ loc[w].then \in {"idle", "visit"}
    BY LocalFields DEF Invariant, TypeOK
  <2> QED
    BY <1>2, <2>1, <2>2, SaveThreads
<1>3. ASSUME NEW w \in Workers, NEW h \in Hosts, UpdateMonitored(w, h)
      PROVE  /\ pc'[w] # pc[w] /\ pc[w] = "connect" /\ item \in loc[w].own
             /\ doc.certs[item[2]] # None /\ doc'.certs[item[2]] # None
  <2>1. /\ loc[w].own = {<<"cert", h>>} /\ item = <<"cert", h>>
        /\ doc.certs[h] # None /\ doc'.certs[h] # None
    BY <1>3, UpdateThreads
  <2>2. pc[w] = "connect" /\ pc' = [pc EXCEPT ![w] = "idle"] /\ pc \in [Workers -> Labels]
    BY <1>3 DEF UpdateMonitored, GotoStaling, Invariant, TypeOK
  <2> QED
    BY <2>1, <2>2
<1>4. Start => UNCHANGED doc
  BY DEF Start, OpenDatabase, StartWithoutVault, MakeKeys, LoadKeys, MigrateSecrets, disk
<1>5. Rotate \/ BackUp \/ Crash => UNCHANGED doc
  BY DEF Rotate, BeginRotation, ListSecrets, DecryptNext, ConvertSecret, ActivatePending,
         WriteMaster, ForgetPending, AbortRotation, BackUp, StartBackup, CopyDatabase,
         CopyKeys, DropBackup, Crash, disk
<1>6. ASSUME NEW w \in Workers, Scan(w) \/ Abort(w) PROVE UNCHANGED doc
  BY <1>6 DEF Scan, StartScan, BeginScan, VisitRange, EndScan, Abort, disk
<1>7. ASSUME NEW w \in Workers, ChangeDocument(w), ~SaveDocument(w),
             ~\E h \in Hosts : UpdateMonitored(w, h)
      PROVE  UNCHANGED doc
  BY <1>7 DEF ChangeDocument, AddHost, RemoveHost, RefreshHost, AddRange, RemoveRange,
              AddUploadDevice, RemoveUploadDevice, UpdateUploadDevice, LoadAndChange,
              EncryptPassword, PutSecret, disk
<1> QED
  BY <1>1, <1>2, <1>3, <1>4, <1>5, <1>6, <1>7 DEF Next

\* A password changes when a request stores it whose own it is, or for which it is
\* stale, or when it was saved past a rotation.
LEMMA PasswordOverlap ==
  ASSUME Invariant, Next, serving = "up", NEW d \in Devices,
         secret[d] # None, secret'[d].pw # secret[d].pw
  PROVE  \/ d \in exposed
         \/ \E w \in Workers : /\ pc[w] = "put" /\ pc'[w] = "save"
                               /\ <<"password", d>> \in loc[w].own \cup loc[w].stale
<1>1. secret' # secret
  OBVIOUS
<1>2. ASSUME NEW w \in Workers, PutSecret(w)
      PROVE  /\ pc[w] = "put" /\ pc'[w] = "save"
             /\ <<"password", d>> \in loc[w].own \cup loc[w].stale
  <2>1. pc[w] = "put" /\ secret' = [secret EXCEPT ![loc[w].device] = loc[w].blob]
    BY <1>2 DEF PutSecret
  <2>2. secret \in [Devices -> Blob \cup {None}]
    BY DEF Invariant, TypeOK
  <2>3. d = loc[w].device /\ secret'[d] = loc[w].blob
    BY <2>1, <2>2
  <2>4. /\ d \in loc[w].unsaved /\ loc[w].blob.pw = loc[w].pws[d]
        /\ loc[w].unsaved \subseteq {e \in loc[w].data.devices : loc[w].pws[e] # None}
        /\ loc[w].pws[d] # None /\ <<"password", d>> \notin loc[w].own \cup loc[w].stale
             => secret[d].pw = loc[w].pws[d]
    BY <2>1, <2>3 DEF Invariant, Saving, Holding
  <2>5. pc'[w] = "save"
    BY <1>2 DEF PutSecret, GotoStaling, Invariant, TypeOK
  <2> QED
    BY <2>1, <2>3, <2>4, <2>5
<1>3. CASE ConvertSecret
  BY <1>3, InvariantParts, ConvertedSecret
<1>4. ~Start
  BY <1>1 DEF Start, OpenDatabase, StartWithoutVault, MakeKeys, LoadKeys, MigrateSecrets, disk
<1>5. Rotate => ConvertSecret
  BY <1>1 DEF Rotate, BeginRotation, ListSecrets, DecryptNext, ActivatePending,
              WriteMaster, ForgetPending, AbortRotation, disk
<1>6. ~BackUp /\ ~Crash
  BY <1>1 DEF BackUp, StartBackup, CopyDatabase, CopyKeys, DropBackup, Crash, disk
<1>7. ASSUME NEW w \in Workers PROVE ~Scan(w) /\ ~Abort(w)
  BY <1>1 DEF Scan, StartScan, BeginScan, VisitRange, EndScan, Abort, disk
<1>8. ASSUME NEW w \in Workers, ChangeDocument(w) PROVE PutSecret(w)
  BY <1>1, <1>8 DEF ChangeDocument, AddHost, RemoveHost, RefreshHost, UpdateMonitored,
              AddRange, RemoveRange, AddUploadDevice, RemoveUploadDevice,
              UpdateUploadDevice, LoadAndChange, EncryptPassword, SaveDocument, disk
<1> QED
  BY <1>2, <1>3, <1>4, <1>5, <1>6, <1>7, <1>8 DEF Next

\* What a request saves overwrites only what it is about or what others have changed
\* since it read; a refresh brings back no certificate; and no password is lost to a
\* rotation but one that was saved past it.
THEOREM OnlyOverlapsLose == Spec => OnlyOverlapLoses
<1>1. Invariant /\ [Next]_vars =>
        [serving = "up" =>
           /\ \A item \in Changed(doc, doc') : \E w \in Workers :
                /\ pc'[w] # pc[w]
                /\ \/ pc[w] = "save" /\ item \in loc[w].own \cup loc[w].stale
                   \/ /\ pc[w] = "connect" /\ item \in loc[w].own
                      /\ doc.certs[item[2]] # None /\ doc'.certs[item[2]] # None
           /\ \A d \in Devices :
                secret[d] # None /\ secret'[d].pw # secret[d].pw =>
                  \/ d \in exposed
                  \/ \E w \in Workers : /\ pc[w] = "put" /\ pc'[w] = "save"
                                        /\ <<"password", d>> \in loc[w].own \cup loc[w].stale]_vars
  BY DocumentOverlap, PasswordOverlap
<1> QED
  BY <1>1, InvariantHolds, PTL DEF Spec, OnlyOverlapLoses
=============================================================================
