----------------------------- MODULE DeviceSet -----------------------------
(***************************************************************************)
(* The device-mapper storage driver's DeviceSet: thin devices in a kernel  *)
(* pool, a metadata file for each, and a transaction file that lets a      *)
(* restarted daemon undo what it was doing when it stopped.                *)
(*                                                                         *)
(* The steps of an operation are separated where a crash leaves something  *)
(* different behind, and where the global lock is given up.  Each device   *)
(* has at most one operation at a time: the layer store serialises its own *)
(* calls and forgets a device it has deleted, which from then on only the  *)
(* deletion worker touches.  "base" is the device with the empty hash.     *)
(***************************************************************************)
EXTENDS Naturals, FiniteSets, Functions

CONSTANTS
  Hash,        \* devices of layers and containers
  MaxDeviceID, \* maxDeviceID
  Ops,         \* "crashadd", "crashdelete", "crashbase": when the daemon may die;
               \* "fails": a write or a kernel call may fail; "closefails": also
               \* closeTransaction of a deletion; "leak": a mount may leak
  MaxCrashes, MaxAdds,  \* bounds: stops of the daemon, devices added
  MaxTransactions  \* bound: no deletion or start begins after that many

Base == "base"
Dev == Hash \cup {Base}
DeviceId == 0..MaxDeviceID
NoHash == "none"
NoId == MaxDeviceID + 1

VARIABLES
  pool, ptid,     \* kernel: owner of each thin device, transaction id of the pool
  active,         \* kernel: the thin device behind each active device, or NoId
  mounted, leak,  \* devices mounted by the driver, or kept open elsewhere
  sched,          \* kernel: active devices with a deferred removal
  files,          \* metadata files
  trans,          \* the transaction file
  setmeta,        \* NextDeviceID in the deviceset file
  Devices, idmap, NextDeviceID, TransactionID, nrDeletedDevices, \* the DeviceSet
  OpenTransactionID,
  lock, ilock,    \* its lock, and the locks of the devices
  up,             \* the daemon: "down", "boot" or "ready"
  th,             \* the operation on each device
  user,           \* the layer store's view of each device
  deferred,       \* the options deferredRemove and deferredDelete are set
  crashes, adds

kernel == <<pool, ptid, active, mounted, leak, sched>>
disk == <<files, trans, setmeta>>
memory == <<Devices, idmap, NextDeviceID, TransactionID, OpenTransactionID, nrDeletedDevices>>
locks == <<lock, ilock>>
env == <<up, user, deferred, crashes, adds>>
vars == <<kernel, disk, memory, locks, th, env>>

Info == [id : DeviceId, init : BOOLEAN, deleted : BOOLEAN]
NoTransaction == [tid |-> 0, hash |-> NoHash, id |-> NoId]
Idle == [pc |-> "idle", id |-> NoId, par |-> NoHash, sync |-> FALSE]
Add(f, x, y) == [z \in DOMAIN f \cup {x} |-> IF z = x THEN y ELSE f[z]]
Del(f, x) == Restrict(f, DOMAIN f \ {x})
Busy(h) == h \in mounted \cup leak
Creating == {"add", "create", "register", "close"}
Deleting == {"del", "deact", "sleep", "deltrans", "deldev", "unreg", "delclose", "delfail"}
Setup == {"setup", "mkfs", "init", "uuid"}

TypeOK ==
  /\ DOMAIN pool \subseteq DeviceId /\ Range(pool) \subseteq Dev /\ ptid \in Nat
  /\ active \in [Dev -> DeviceId \cup {NoId}]
  /\ mounted \subseteq Dev /\ leak \subseteq Dev /\ sched \subseteq Dev
  /\ DOMAIN files \subseteq Dev /\ Range(files) \subseteq Info
  /\ trans \in [tid : Nat, hash : Dev \cup {NoHash}, id : DeviceId \cup {NoId}]
  /\ setmeta \in DeviceId
  /\ DOMAIN Devices \subseteq Dev /\ Range(Devices) \subseteq Info
  /\ idmap \subseteq DeviceId /\ NextDeviceID \in DeviceId
  /\ {TransactionID, OpenTransactionID} \subseteq Nat
  /\ nrDeletedDevices \in 0..Cardinality(Dev)
  /\ lock \in Dev \cup {NoHash} /\ ilock \in [Dev -> Dev \cup {NoHash}]
  /\ up \in {"down", "boot", "ready"}
  /\ th \in [Dev -> [pc : {"idle"} \cup Creating \cup Deleting \cup Setup,
                     id : DeviceId \cup {NoId}, par : Dev \cup {NoHash}, sync : BOOLEAN]]
  /\ user \in [Hash -> {"new", "have", "gone"}]
  /\ deferred \in BOOLEAN
  /\ crashes \in 0..MaxCrashes /\ adds \in 0..MaxAdds

Init ==
  /\ pool = <<>> /\ ptid = 0 /\ active = [h \in Dev |-> NoId]
  /\ mounted = {} /\ leak = {} /\ sched = {}
  /\ files = <<>> /\ trans = NoTransaction /\ setmeta = 0
  /\ Devices = <<>> /\ idmap = {} /\ NextDeviceID = 0
  /\ TransactionID = 0 /\ OpenTransactionID = 0 /\ nrDeletedDevices = 0
  /\ lock = NoHash /\ ilock = [h \in Dev |-> NoHash]
  /\ up = "down" /\ th = [h \in Dev |-> Idle]
  /\ user = [h \in Hash |-> "new"]
  /\ deferred \in BOOLEAN
  /\ crashes = 0 /\ adds = 0

----------------------------------------------------------------------------
\* Shared pieces of the operations

Goto(h, pc) == th' = [th EXCEPT ![h].pc = pc]
Fails == "fails" \in Ops
Unlock(h) == lock' = NoHash /\ ilock' = [g \in Dev |-> IF ilock[g] = h THEN NoHash ELSE ilock[g]]

\* An operation ends: the locks are released, and the layer store or the
\* start of the daemon goes on with the result.
Return(h, view) ==
  /\ Unlock(h)
  /\ th' = [th EXCEPT ![h] = Idle]
  /\ IF h = Base
     THEN up' = (IF view = "have" THEN "ready" ELSE "down") /\ UNCHANGED user
     ELSE user' = [user EXCEPT ![h] = view] /\ UNCHANGED up
  /\ UNCHANGED <<deferred, crashes, adds>>

\* getNextFreeDeviceID: the first free id after NextDeviceID, wrapping around.
After(n, i) == (n + i) % (MaxDeviceID + 1)
NextFree(used, n) ==
  LET steps == {i \in 1..(MaxDeviceID + 1) : After(n, i) \notin used}
  IN  After(n, CHOOSE i \in steps : \A j \in steps : i <= j)

openTransaction(h, id) ==
  /\ OpenTransactionID' = TransactionID + 1
  /\ trans' = [tid |-> TransactionID + 1, hash |-> h, id |-> id]

\* updatePoolTransactionID
closeTransaction ==
  /\ ptid' = OpenTransactionID
  /\ TransactionID' = OpenTransactionID

----------------------------------------------------------------------------
\* createRegisterDevice for the base device, AddDevice and
\* createRegisterSnapDevice for any other

AddDevice(h, p) ==
  /\ up = "ready" /\ th[h].pc = "idle" /\ user[h] = "new" /\ adds < MaxAdds
  /\ p \in DOMAIN Devices /\ (p \in Hash => user[p] = "have")
  /\ ~Devices[p].deleted
  /\ th' = [th EXCEPT ![h] = [Idle EXCEPT !.pc = "add", !.par = p]]
  /\ adds' = adds + 1
  /\ UNCHANGED <<kernel, disk, memory, locks, up, user, deferred, crashes>>

\* Under the locks: refuse a hash that exists, find an id, open the
\* transaction.
AddLock(h) ==
  /\ th[h].pc = "add" /\ lock = NoHash
  /\ th[h].par /= NoHash => ilock[th[h].par] = NoHash
  /\ \/ /\ h \in DOMAIN Devices \/ idmap = DeviceId
        /\ Return(h, "gone")
        /\ UNCHANGED <<kernel, disk, memory>>
     \/ /\ h \notin DOMAIN Devices /\ idmap /= DeviceId
        /\ LET id == NextFree(idmap, NextDeviceID)
           IN  /\ NextDeviceID' = id
               /\ \/ /\ idmap' = idmap \cup {id}
                     /\ openTransaction(h, id)
                     /\ th' = [th EXCEPT ![h].pc = "create", ![h].id = id]
                     /\ lock' = h
                     /\ ilock' = [g \in Dev |-> IF g = th[h].par THEN h ELSE ilock[g]]
                     /\ UNCHANGED env
                  \/ /\ Fails
                     /\ OpenTransactionID' = TransactionID + 1
                     /\ Return(h, "gone")
                     /\ UNCHANGED <<idmap, trans>>
        /\ UNCHANGED <<kernel, files, setmeta, Devices, TransactionID, nrDeletedDevices>>

\* One turn of the loop around CreateSnapDevice (or CreateDevice): a thin
\* device with that id exists, the kernel refuses, or it is made.
CreateDevice(h) ==
  /\ th[h].pc = "create"
  /\ LET id == th[h].id
     IN  \/ /\ id \in DOMAIN pool
            /\ IF idmap = DeviceId
               THEN Return(h, "gone") /\ UNCHANGED <<idmap, NextDeviceID, trans>>
               ELSE LET new == NextFree(idmap, NextDeviceID)
                    IN  /\ idmap' = idmap \cup {new} /\ NextDeviceID' = new
                        /\ th' = [th EXCEPT ![h].id = new]
                        /\ trans' = [trans EXCEPT !.id = new]
                        /\ UNCHANGED <<locks, env>>
            /\ UNCHANGED pool
         \/ /\ id \notin DOMAIN pool
            /\ pool' = Add(pool, id, h)
            /\ Goto(h, "register")
            /\ UNCHANGED <<idmap, NextDeviceID, trans, locks, env>>
         \/ /\ id \notin DOMAIN pool /\ Fails
            /\ idmap' = idmap \ {id}
            /\ Return(h, "gone")
            /\ UNCHANGED <<pool, NextDeviceID, trans>>
  /\ UNCHANGED <<ptid, active, mounted, leak, sched, files, setmeta, Devices,
                 TransactionID, OpenTransactionID, nrDeletedDevices>>

registerDevice(h) ==
  /\ th[h].pc = "register"
  /\ LET id == th[h].id
         info == [id |-> id, init |-> FALSE, deleted |-> FALSE]
     IN  \/ /\ Devices' = Add(Devices, h, info)
            /\ files' = Add(files, h, info)
            /\ Goto(h, "close")
            /\ UNCHANGED <<pool, idmap, locks, env>>
         \/ /\ Fails
            /\ pool' = Del(pool, id)
            /\ idmap' = idmap \ {id}
            /\ Return(h, "gone")
            /\ UNCHANGED <<Devices, files>>
  /\ UNCHANGED <<ptid, active, mounted, leak, sched, trans, setmeta, NextDeviceID,
                 TransactionID, OpenTransactionID, nrDeletedDevices>>

AddClose(h) ==
  /\ th[h].pc = "close"
  /\ \/ /\ closeTransaction
        /\ IF h = Base THEN Goto(h, "mkfs") /\ UNCHANGED <<locks, env>>
           ELSE Return(h, "have")
        /\ UNCHANGED <<pool, files, Devices, idmap>>
     \/ /\ Fails
        /\ Devices' = Del(Devices, h) /\ files' = Del(files, h)
        /\ pool' = Del(pool, th[h].id)
        /\ idmap' = idmap \ {th[h].id}
        /\ Return(h, "gone")
        /\ UNCHANGED <<ptid, TransactionID>>
  /\ UNCHANGED <<active, mounted, leak, sched, trans, setmeta, NextDeviceID,
                 OpenTransactionID, nrDeletedDevices>>

----------------------------------------------------------------------------
\* Driver.Remove: nothing to do for a device that is not known.
Remove(h) ==
  /\ ptid < MaxTransactions
  /\ up = "ready" /\ th[h].pc = "idle" /\ user[h] = "have" /\ h \notin mounted
  /\ \A g \in Hash : th[g].pc \in Creating => th[g].par /= h
  /\ IF h \in DOMAIN Devices
     THEN Goto(h, "del") /\ UNCHANGED user
     ELSE user' = [user EXCEPT ![h] = "gone"] /\ UNCHANGED th
  /\ UNCHANGED <<kernel, disk, memory, locks, up, deferred, crashes, adds>>

\* cleanupDeletedDevices, on the ticker of the deletion worker
DeletionWorker(h) ==
  /\ ptid < MaxTransactions
  /\ up = "ready" /\ deferred /\ nrDeletedDevices > 0
  /\ th[h].pc = "idle" /\ h \in DOMAIN Devices /\ Devices[h].deleted
  /\ Goto(h, "del")
  /\ UNCHANGED <<kernel, disk, memory, locks, env>>

DeleteLock(h) ==
  /\ th[h].pc = "del" /\ lock = NoHash /\ ilock[h] = NoHash
  /\ lock' = h /\ ilock' = [ilock EXCEPT ![h] = h]
  /\ Goto(h, "deact")
  /\ UNCHANGED <<kernel, disk, memory, env>>

\* deactivateDevice: with deferred removal a device in use goes later;
\* without, it is tried again and again, the global lock free in between.
deactivateDevice(h) ==
  /\ th[h].pc = "deact"
  /\ \/ /\ active[h] = NoId \/ ~Busy(h)
        /\ active' = [active EXCEPT ![h] = NoId] /\ sched' = sched \ {h}
        /\ Goto(h, "deltrans") /\ UNCHANGED <<locks, env>>
     \/ /\ active[h] /= NoId /\ Busy(h) /\ deferred
        /\ sched' = sched \cup {h} /\ UNCHANGED active
        /\ Goto(h, "deltrans") /\ UNCHANGED <<locks, env>>
     \/ /\ active[h] /= NoId /\ Busy(h) /\ ~deferred
        /\ UNCHANGED <<active, sched>>
        /\ \/ lock' = NoHash /\ Goto(h, "sleep") /\ UNCHANGED <<ilock, env>>
           \/ Return(h, "have")
  /\ UNCHANGED <<pool, ptid, mounted, leak, disk, memory>>

Wake(h) ==
  /\ th[h].pc = "sleep" /\ lock = NoHash
  /\ lock' = h
  /\ Goto(h, "deact")
  /\ UNCHANGED <<kernel, disk, memory, ilock, env>>

DeleteOpen(h) ==
  /\ th[h].pc = "deltrans"
  /\ \/ /\ openTransaction(h, Devices[h].id)
        /\ Goto(h, "deldev")
        /\ UNCHANGED <<locks, env>>
     \/ /\ Fails
        /\ OpenTransactionID' = TransactionID + 1
        /\ Return(h, IF h = Base THEN "gone" ELSE user[h])
        /\ UNCHANGED trans
  /\ UNCHANGED <<kernel, files, setmeta, Devices, idmap, NextDeviceID, TransactionID, nrDeletedDevices>>

\* A mutant of markForDeferredDeletion: a device that is marked counts again.
markForDeferredDeletionAgain(h) ==
  /\ Devices' = [Devices EXCEPT ![h].deleted = TRUE]
  /\ files' = Add(files, h, Devices'[h])
  /\ nrDeletedDevices' = nrDeletedDevices + 1

markForDeferredDeletion(h) ==
  /\ Devices' = [Devices EXCEPT ![h].deleted = TRUE]
  /\ files' = Add(files, h, Devices'[h])
  /\ nrDeletedDevices' = nrDeletedDevices + (IF Devices[h].deleted THEN 0 ELSE 1)

\* deleteTransaction: the kernel deletes the thin device with the id, does
\* not find it, or finds it active.
DeleteDevice(h) ==
  /\ th[h].pc = "deldev"
  /\ LET id == Devices[h].id
         busy == id \in Range(active)
     IN  \/ /\ id \in DOMAIN pool /\ ~busy
            /\ pool' = Del(pool, id)
            /\ Goto(h, "unreg")
            /\ UNCHANGED <<files, Devices, nrDeletedDevices>>
         \/ /\ id \notin DOMAIN pool \/ (busy /\ (~deferred \/ th[h].sync))
            /\ Goto(h, "delfail")
            /\ UNCHANGED <<pool, files, Devices, nrDeletedDevices>>
         \/ /\ id \in DOMAIN pool /\ busy /\ deferred /\ ~th[h].sync
            /\ markForDeferredDeletion(h)
            /\ Goto(h, "delclose")
            /\ UNCHANGED pool
  /\ UNCHANGED <<ptid, active, mounted, leak, sched, trans, setmeta, idmap, NextDeviceID,
                 TransactionID, OpenTransactionID, locks, env>>

\* A mutant of unregisterDevice: the id stays marked.
unregisterKeepsId(h) ==
  /\ th[h].pc = "unreg"
  /\ Devices' = Del(Devices, h)
  /\ files' = Del(files, h)
  /\ nrDeletedDevices' = nrDeletedDevices - (IF Devices[h].deleted THEN 1 ELSE 0)
  /\ Goto(h, "delclose")
  /\ UNCHANGED <<kernel, trans, setmeta, idmap, NextDeviceID, TransactionID, OpenTransactionID, locks, env>>

\* A mutant of unregisterDevice: every device is counted as deleted before.
unregisterCounts(h) ==
  /\ th[h].pc = "unreg"
  /\ Devices' = Del(Devices, h)
  /\ files' = Del(files, h)
  /\ nrDeletedDevices' = nrDeletedDevices - 1
  /\ idmap' = idmap \ {Devices[h].id}
  /\ Goto(h, "delclose")
  /\ UNCHANGED <<kernel, trans, setmeta, NextDeviceID, TransactionID, OpenTransactionID, locks, env>>

unregisterDevice(h) ==
  /\ th[h].pc = "unreg"
  /\ Devices' = Del(Devices, h)
  /\ files' = Del(files, h)
  /\ nrDeletedDevices' = nrDeletedDevices - (IF Devices[h].deleted THEN 1 ELSE 0)
  /\ idmap' = idmap \ {Devices[h].id}
  /\ Goto(h, "delclose")
  /\ UNCHANGED <<kernel, trans, setmeta, NextDeviceID, TransactionID, OpenTransactionID, locks, env>>

\* The deferred closeTransaction, whose error is dropped.
DeleteClose(h) ==
  /\ th[h].pc \in {"delclose", "delfail"}
  /\ \/ closeTransaction
     \/ "closefails" \in Ops /\ UNCHANGED <<ptid, TransactionID>>
  /\ IF h = Base /\ th[h].pc = "delclose"
     THEN /\ th' = [th EXCEPT ![h] = [Idle EXCEPT !.pc = "add"]]
          /\ Unlock(h) /\ UNCHANGED env
     ELSE Return(h, IF th[h].pc = "delclose" \/ h = Base THEN "gone" ELSE user[h])
  /\ UNCHANGED <<pool, active, mounted, leak, sched, disk, Devices, idmap, NextDeviceID,
                 OpenTransactionID, nrDeletedDevices>>

----------------------------------------------------------------------------
\* MountDevice and activateDeviceIfNeeded, canceldeferredRemoval included
MountDevice(h) ==
  /\ up = "ready" /\ th[h].pc = "idle" /\ user[h] = "have" /\ h \notin mounted
  /\ h \in DOMAIN Devices /\ ~Devices[h].deleted
  /\ lock = NoHash /\ ilock[h] = NoHash
  /\ active[h] /= NoId \/ Devices[h].id \in DOMAIN pool
  /\ active' = [active EXCEPT ![h] = IF @ = NoId THEN Devices[h].id ELSE @]
  /\ sched' = sched \ {h}
  /\ mounted' = mounted \cup {h}
  /\ UNCHANGED <<pool, ptid, leak, disk, memory, locks, th, env>>

\* UnmountDevice: MNT_DETACH always works, but the device may still be in
\* use in another mount namespace.
UnmountDevice(h) ==
  /\ up = "ready" /\ th[h].pc = "idle" /\ h \in mounted
  /\ lock = NoHash /\ ilock[h] = NoHash
  /\ mounted' = mounted \ {h}
  /\ \/ /\ h \notin leak
        /\ active' = [active EXCEPT ![h] = NoId]
        /\ UNCHANGED <<leak, sched>>
     \/ /\ h \in leak \/ "leak" \in Ops
        /\ leak' = leak \cup {h}
        /\ sched' = IF deferred THEN sched \cup {h} ELSE sched
        /\ UNCHANGED active
  /\ UNCHANGED <<pool, ptid, disk, memory, locks, th, env>>

\* The last user of a leaked mount is gone.
Release(h) ==
  /\ h \in leak
  /\ leak' = leak \ {h}
  /\ IF h \in sched /\ h \notin mounted
     THEN active' = [active EXCEPT ![h] = NoId] /\ sched' = sched \ {h}
     ELSE UNCHANGED <<active, sched>>
  /\ UNCHANGED <<pool, ptid, mounted, disk, memory, locks, th, env>>

----------------------------------------------------------------------------
\* A mutant of RolledBack: the transaction the pool saw last is undone too.
RolledBackAlso == trans.tid >= ptid

\* processPendingTransaction: a transaction the pool has not seen is undone.
RolledBack == trans.tid > ptid

\* A mutant of rollbackTransaction: the file of the device undone stays.
rollbackTransactionKeepsFile ==
  /\ pool' = IF trans.id \in Range(active) THEN pool ELSE Del(pool, trans.id)
  /\ idmap' = {files[h].id : h \in DOMAIN files} \ {trans.id}
  /\ trans' = NoTransaction
  /\ UNCHANGED files

\* The thin device is deleted, unless it is active, then its file and the
\* transaction file are removed.
rollbackTransaction ==
  /\ pool' = IF trans.id \in Range(active) THEN pool ELSE Del(pool, trans.id)
  /\ files' = Del(files, trans.hash)
  /\ idmap' = {files[h].id : h \in DOMAIN files} \ {trans.id}
  /\ trans' = NoTransaction

\* initMetaData and loadDeviceSetMetaData.  The files are loaded before the
\* transaction is undone.
initMetaData ==
  /\ ptid < MaxTransactions
  /\ up = "down" /\ up' = "boot"
  /\ TransactionID' = ptid
  /\ OpenTransactionID' = IF trans = NoTransaction \/ RolledBack THEN ptid ELSE trans.tid
  /\ Devices' = files
  /\ nrDeletedDevices' = Cardinality({h \in DOMAIN files : files[h].deleted})
  /\ IF RolledBack
     THEN rollbackTransaction
     ELSE /\ idmap' = {files[h].id : h \in DOMAIN files}
          /\ UNCHANGED <<pool, files, trans>>
  /\ NextDeviceID' = setmeta
  /\ th' = [th EXCEPT ![Base] = [Idle EXCEPT !.pc = "setup"]]
  /\ UNCHANGED <<ptid, active, mounted, leak, sched, setmeta, locks, user, deferred, crashes, adds>>

\* setupBaseImage: take the base device, or delete what there is of it and
\* make it anew.
setupBaseImage ==
  /\ th[Base].pc = "setup"
  /\ IF Base \in DOMAIN Devices /\ Devices[Base].init /\ ~Devices[Base].deleted
     THEN Return(Base, "have")
     ELSE /\ th' = [th EXCEPT ![Base].pc = IF Base \in DOMAIN Devices THEN "del" ELSE "add",
                              ![Base].sync = TRUE]
          /\ UNCHANGED <<locks, env>>
  /\ UNCHANGED <<kernel, disk, memory>>

\* createBaseImage after the device is registered: the deviceset file is
\* saved with the filesystem, then the device as initialized, then the UUID.
createBaseImage ==
  /\ \/ /\ th[Base].pc = "mkfs"
        /\ \/ /\ setmeta' = NextDeviceID
              /\ Goto(Base, "init") /\ UNCHANGED <<locks, env>>
           \/ Fails /\ Return(Base, "gone") /\ UNCHANGED setmeta
        /\ UNCHANGED <<files, Devices>>
     \/ /\ th[Base].pc = "init"
        /\ Devices' = [Devices EXCEPT ![Base].init = TRUE]
        /\ files' = Add(files, Base, Devices'[Base])
        /\ Goto(Base, "uuid")
        /\ UNCHANGED <<setmeta, locks, env>>
     \/ /\ th[Base].pc = "uuid"
        /\ setmeta' = NextDeviceID
        /\ Return(Base, "have")
        /\ UNCHANGED <<files, Devices>>
  /\ UNCHANGED <<kernel, trans, idmap, NextDeviceID, TransactionID, OpenTransactionID, nrDeletedDevices>>

Forget ==
  /\ Devices' = <<>> /\ idmap' = {} /\ nrDeletedDevices' = 0
  /\ NextDeviceID' = 0 /\ TransactionID' = 0 /\ OpenTransactionID' = 0
  /\ lock' = NoHash /\ ilock' = [h \in Dev |-> NoHash]
  /\ th' = [h \in Dev |-> Idle]
  /\ up' = "down"

\* Shutdown saves NextDeviceID and deactivates what is not in use.
Shutdown ==
  /\ up = "ready" /\ \A h \in Dev : th[h].pc = "idle"
  /\ crashes < MaxCrashes /\ crashes' = crashes + 1
  /\ setmeta' = NextDeviceID
  /\ mounted' = {}
  /\ active' = [h \in Dev |-> IF h \in leak THEN active[h] ELSE NoId]
  /\ sched' = IF deferred THEN {h \in leak : active[h] /= NoId} ELSE {}
  /\ Forget
  /\ UNCHANGED <<pool, ptid, leak, files, trans, user, deferred, adds>>

\* The daemon dies.  The layer store has no record yet of a device that was
\* being added, and still has the record of one that was being deleted.
Crash ==
  /\ up /= "down" /\ crashes < MaxCrashes
  /\ \A h \in Hash : th[h].pc \in Deleting => "crashdelete" \in Ops
  /\ \A h \in Hash : th[h].pc \in Creating => "crashadd" \in Ops
  /\ th[Base].pc /= "idle" => "crashbase" \in Ops
  /\ crashes' = crashes + 1
  /\ user' = [h \in Hash |-> IF th[h].pc \in Creating THEN "gone" ELSE user[h]]
  /\ Forget
  /\ UNCHANGED <<kernel, disk, deferred, adds>>

Next ==
  \/ \E h \in Hash, p \in Dev : AddDevice(h, p)
  \/ \E h \in Dev : \/ AddLock(h) \/ CreateDevice(h) \/ registerDevice(h) \/ AddClose(h)
                    \/ DeleteLock(h) \/ deactivateDevice(h) \/ Wake(h) \/ DeleteOpen(h)
                    \/ DeleteDevice(h) \/ unregisterDevice(h) \/ DeleteClose(h)
  \/ \E h \in Hash : \/ Remove(h) \/ DeletionWorker(h)
                     \/ MountDevice(h) \/ UnmountDevice(h) \/ Release(h)
  \/ initMetaData \/ setupBaseImage \/ createBaseImage
  \/ Shutdown \/ Crash

Spec == Init /\ [][Next]_vars

----------------------------------------------------------------------------
AtRest == up = "ready" /\ \A h \in Dev : th[h].pc \in {"idle", "add", "del", "sleep"}

\* Whatever failed and whenever the daemon died while adding devices: when
\* no transaction is under way, every metadata file belongs to a thin device
\* made for it, and every thin device has its file, so none is leaked.
PoolMatchesFiles ==
  AtRest => /\ \A h \in DOMAIN files : files[h].id \in DOMAIN pool /\ pool[files[h].id] = h
            /\ \A id \in DOMAIN pool : pool[id] \in DOMAIN files /\ files[pool[id]].id = id

\* No id is handed out twice: the ids of the devices on record are marked,
\* and no others are, but for one that is being deleted.
IdsMarked == AtRest => idmap = {files[h].id : h \in DOMAIN files}

\* The deletion worker looks for work only when nrDeletedDevices is not 0.
DeletedCounted ==
  AtRest => nrDeletedDevices = Cardinality({h \in DOMAIN Devices : Devices[h].deleted})

\* A mounted device shows its own contents, also after a restart.
MountedIsOwn == \A h \in mounted : active[h] \in DOMAIN pool /\ pool[active[h]] = h

\* Removing "a non-existing device" is "a no-op"
\* (daemon/graphdriver/devmapper/driver.go, Remove).
RemoveIsNoOp ==
  [][\A h \in Hash : th[h].pc = "deldev" /\ h \notin Range(pool) => pool' = pool]_vars
=============================================================================
