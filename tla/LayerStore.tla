---------------------------- MODULE LayerStore ----------------------------
(***************************************************************************)
(* layer/layer_store.go: read-only layers, each counting who relies on it  *)
(* (child layers, writable layers, references handed out, operations in    *)
(* progress), kept in layerMap, on disk (filestore.go) and in the graph    *)
(* driver, and deleted when the last one lets go.                          *)
(*                                                                         *)
(* An operation runs on behalf of a process.  hold[p] is the layer whose   *)
(* count process p stands for: the parent it looked up, or the layer it is *)
(* releasing.  Sections under layerL are steps, except releaseLayer, whose *)
(* loop keeps layerL over several.  The daemon may die between any two     *)
(* steps and load what is on disk.  Contents, sizes and descriptors are    *)
(* left out, and so are the driver's directories of writable layers.       *)
(***************************************************************************)
EXTENDS Naturals, FiniteSets

CONSTANTS
  ChainID, Parent,   \* the layers and each one's parent, NoLayer for a base
  TooDeep,           \* the layers whose parent has maxLayerDepth ancestors
  NoLayer,
  Proc, Handle,      \* concurrent operations; referencedCacheLayer objects
  Name, RW,          \* mount names; referencedRWLayer objects
  CacheID,           \* driver IDs
  None,
  Failures           \* which calls to the disk and the driver may fail

ASSUME LayerAssumption ==
  /\ NoLayer \notin ChainID /\ None \notin ChainID /\ None # NoLayer
  /\ None \notin CacheID /\ None \notin Name /\ None \notin Proc
  /\ Parent \in [ChainID -> ChainID \cup {NoLayer}]
  /\ \A l \in TooDeep : l \in ChainID /\ Parent[l] # NoLayer
  /\ IsFiniteSet(ChainID) /\ IsFiniteSet(Name) /\ IsFiniteSet(Handle) /\ IsFiniteSet(Proc)

VARIABLES
  \* layerStore
  cacheID,        \* layerMap: the driver ID of each layer present, else None
  referenceCount,
  references,     \* the layer each reference is to
  mounts,         \* the parent of each mount; NoLayer: mounted on nothing
  rwReferences,   \* the mount each writable reference is to
  layerL, mountL, \* who holds the locks
  \* on disk and in the driver
  layerDB, mountDB, driver,
  halfRemoved,    \* history: layers whose directory deleteLayer has removed, not their metadata
  \* operations
  pc, hold, layer, cache, name

storeVars == <<cacheID, referenceCount, references>>
mountVars == <<mounts, rwReferences, mountL, mountDB, name>>
diskVars == <<layerDB, driver, halfRemoved>>
opVars == <<pc, hold, layer, cache>>
vars == <<storeVars, mountVars, layerL, diskVars, opVars>>

PC == {"idle", "create", "apply", "commit", "cleanup", "mount", "mountParent",
       "release", "remove", "forget"}

TypeOK ==
  /\ cacheID \in [ChainID -> CacheID \cup {None}]
  /\ referenceCount \in [ChainID -> Nat]
  /\ references \in [Handle -> ChainID \cup {None}]
  /\ mounts \in [Name -> ChainID \cup {NoLayer, None}]
  /\ rwReferences \in [RW -> Name \cup {None}]
  /\ layerL \in Proc \cup {None} /\ mountL \in Proc \cup {None}
  /\ layerDB \in [ChainID -> CacheID \cup {None}]
  /\ mountDB \in [Name -> ChainID \cup {NoLayer, None}]
  /\ driver \subseteq CacheID
  /\ halfRemoved \subseteq ChainID
  /\ pc \in [Proc -> PC]
  /\ hold \in [Proc -> ChainID \cup {NoLayer}]
  /\ layer \in [Proc -> ChainID \cup {None}]
  /\ cache \in [Proc -> CacheID \cup {None}]
  /\ name \in [Proc -> Name \cup {None}]

Init ==
  /\ cacheID = [l \in ChainID |-> None]
  /\ referenceCount = [l \in ChainID |-> 0]
  /\ references = [h \in Handle |-> None]
  /\ mounts = [n \in Name |-> None]
  /\ rwReferences = [w \in RW |-> None]
  /\ layerL = None /\ mountL = None
  /\ layerDB = [l \in ChainID |-> None]
  /\ mountDB = [n \in Name |-> None]
  /\ driver = {} /\ halfRemoved = {}
  /\ pc = [p \in Proc |-> "idle"]
  /\ hold = [p \in Proc |-> NoLayer]
  /\ layer = [p \in Proc |-> None]
  /\ cache = [p \in Proc |-> None]
  /\ name = [p \in Proc |-> None]

Present(l) == cacheID[l] # None
Fails(f) == f \in Failures

\* getWithoutLock: one more relies on l.
Retain(l) == referenceCount' = [referenceCount EXCEPT ![l] = @ + 1]

Goto(p, s) == pc' = [pc EXCEPT ![p] = s]

\* An operation ends, letting go of the locks it holds.
Done(p) ==
  /\ pc' = [pc EXCEPT ![p] = "idle"]
  /\ hold' = [hold EXCEPT ![p] = NoLayer]
  /\ layer' = [layer EXCEPT ![p] = None]
  /\ cache' = [cache EXCEPT ![p] = None]
  /\ name' = [name EXCEPT ![p] = None]
  /\ layerL' = IF layerL = p THEN None ELSE layerL
  /\ mountL' = IF mountL = p THEN None ELSE mountL

\* The deferred release of the parent after an error.
Abort(p) ==
  IF hold[p] = NoLayer
    THEN Done(p)
    ELSE Goto(p, "release") /\ UNCHANGED <<hold, layer, cache, name, layerL, mountL>>

-----------------------------------------------------------------------------
(* Get and Register *)

Get(l, h) ==
  /\ layerL = None /\ Present(l)
  /\ references[h] = None
  /\ references' = [references EXCEPT ![h] = l]
  /\ Retain(l)
  /\ UNCHANGED <<cacheID, mountVars, layerL, diskVars, opVars>>

\* registerWithDescriptor, up to the depth test.
Register(p, l) ==
  /\ pc[p] = "idle"
  /\ layer' = [layer EXCEPT ![p] = l]
  /\ hold' = [hold EXCEPT ![p] = Parent[l]]
  /\ IF Parent[l] = NoLayer THEN UNCHANGED referenceCount
                            ELSE layerL = None /\ Present(Parent[l]) /\ Retain(Parent[l])
  /\ Goto(p, IF l \in TooDeep THEN "release" ELSE "create")
  /\ UNCHANGED <<cacheID, references, mountVars, layerL, diskVars, cache>>

\* stringid.GenerateRandomID: a driver ID that nothing has.
Unused(c) == c \notin driver /\ \A l \in ChainID : cacheID[l] # c /\ layerDB[l] # c

\* driver.Create, then StartTransaction; the clean-up is deferred only after both.
Create(p, c) ==
  /\ pc[p] = "create"
  /\ \/ /\ Unused(c)
        /\ driver' = driver \cup {c}
        /\ cache' = [cache EXCEPT ![p] = c]
        /\ Goto(p, "apply")
        /\ UNCHANGED <<hold, layer, name, layerL, mountL>>
     \/ Fails("create") /\ Abort(p) /\ UNCHANGED driver
     \/ Fails("transaction") /\ Unused(c) /\ driver' = driver \cup {c} /\ Abort(p)
  /\ UNCHANGED <<storeVars, mounts, rwReferences, mountDB, layerDB, halfRemoved>>

\* applyTar and storeLayer.
Apply(p) ==
  /\ pc[p] = "apply"
  /\ Goto(p, "commit") \/ (Fails("apply") /\ Goto(p, "cleanup"))
  /\ UNCHANGED <<storeVars, mountVars, layerL, diskVars, hold, layer, cache>>

\* A mutant of Commit: the existing layer is returned without being counted.
CommitUnretained(p, h) ==
  /\ pc[p] = "commit" /\ layerL = None
  /\ LET l == layer[p] IN
     \/ /\ Present(l) /\ references[h] = None
        /\ references' = [references EXCEPT ![h] = l]
        /\ Goto(p, "cleanup")
        /\ UNCHANGED <<cacheID, referenceCount, layerDB, hold, layer, cache, name, layerL, mountL>>
     \/ /\ ~Present(l) /\ Fails("commit")
        /\ Goto(p, "cleanup")
        /\ UNCHANGED <<storeVars, layerDB, hold, layer, cache, name, layerL, mountL>>
     \/ /\ ~Present(l) /\ references[h] = None
        /\ layerDB' = [layerDB EXCEPT ![l] = cache[p]]
        /\ cacheID' = [cacheID EXCEPT ![l] = cache[p]]
        /\ referenceCount' = [referenceCount EXCEPT ![l] = 1]
        /\ references' = [references EXCEPT ![h] = l]
        /\ Done(p)
  /\ UNCHANGED <<mounts, rwReferences, mountDB, driver, halfRemoved>>

\* The section under layerL: another registration may have come first.  The
\* parent's count is now the new layer's.
Commit(p, h) ==
  /\ pc[p] = "commit" /\ layerL = None
  /\ LET l == layer[p] IN
     \/ /\ Present(l) /\ references[h] = None
        /\ references' = [references EXCEPT ![h] = l]
        /\ Retain(l)
        /\ Goto(p, "cleanup")
        /\ UNCHANGED <<cacheID, layerDB, hold, layer, cache, name, layerL, mountL>>
     \/ /\ ~Present(l) /\ Fails("commit")
        /\ Goto(p, "cleanup")
        /\ UNCHANGED <<storeVars, layerDB, hold, layer, cache, name, layerL, mountL>>
     \/ /\ ~Present(l) /\ references[h] = None
        /\ layerDB' = [layerDB EXCEPT ![l] = cache[p]]
        /\ cacheID' = [cacheID EXCEPT ![l] = cache[p]]
        /\ referenceCount' = [referenceCount EXCEPT ![l] = 1]
        /\ references' = [references EXCEPT ![h] = l]
        /\ Done(p)
  /\ UNCHANGED <<mounts, rwReferences, mountDB, driver, halfRemoved>>

\* A mutant of Cleanup: it removes the layer found instead of the one made.
CleanupOfExisting(p) ==
  /\ pc[p] = "cleanup"
  /\ \/ driver' = driver \ {cacheID[layer[p]]}
     \/ Fails("driverRemove") /\ UNCHANGED driver
  /\ Abort(p)
  /\ UNCHANGED <<storeVars, mounts, rwReferences, mountDB, layerDB, halfRemoved>>

\* driver.Remove and tx.Cancel; an error is only logged.
Cleanup(p) ==
  /\ pc[p] = "cleanup"
  /\ \/ driver' = driver \ {cache[p]}
     \/ Fails("driverRemove") /\ UNCHANGED driver
  /\ Abort(p)
  /\ UNCHANGED <<storeVars, mounts, rwReferences, mountDB, layerDB, halfRemoved>>

-----------------------------------------------------------------------------
(* Release *)

\* The count the reference stood for is now the process's to give back.
Release(p, h) ==
  /\ pc[p] = "idle" /\ layerL = None
  /\ references[h] # None
  /\ references' = [references EXCEPT ![h] = None]
  /\ hold' = [hold EXCEPT ![p] = references[h]]
  /\ layerL' = p
  /\ Goto(p, "release")
  /\ UNCHANGED <<cacheID, referenceCount, mountVars, diskVars, layer, cache>>

\* releaseLayer: the loop's first part.
ReleaseLayer(p) ==
  /\ pc[p] = "release" /\ layerL \in {None, p}
  /\ LET l == hold[p] IN
     /\ referenceCount' = [referenceCount EXCEPT ![l] = @ - 1]
     /\ IF referenceCount[l] # 1
          THEN Done(p)
          ELSE /\ Goto(p, "remove")
               /\ layerL' = p
               /\ layer' = [layer EXCEPT ![p] = l]
               /\ hold' = [hold EXCEPT ![p] = NoLayer]
               /\ UNCHANGED <<cache, name, mountL>>
  /\ UNCHANGED <<cacheID, references, mounts, rwReferences, mountDB, diskVars>>

\* deleteLayer: the driver's directory goes first.
DriverRemove(p) ==
  /\ pc[p] = "remove"
  /\ \/ /\ driver' = driver \ {cacheID[layer[p]]}
        /\ halfRemoved' = halfRemoved \cup {layer[p]}
        /\ Goto(p, "forget")
        /\ UNCHANGED <<hold, layer, cache, name, layerL, mountL>>
     \/ Fails("driverRemove") /\ Done(p) /\ UNCHANGED <<driver, halfRemoved>>
  /\ UNCHANGED <<storeVars, mounts, rwReferences, mountDB, layerDB>>

\* A mutant of StoreRemove: the metadata stays on disk.
StoreRemoveInMemory(p) ==
  /\ pc[p] = "forget"
  /\ LET l == layer[p] IN
     \/ /\ UNCHANGED layerDB
        /\ halfRemoved' = halfRemoved \ {l}
        /\ cacheID' = [cacheID EXCEPT ![l] = None]
        /\ IF Parent[l] = NoLayer
             THEN Done(p)
             ELSE /\ hold' = [hold EXCEPT ![p] = Parent[l]]
                  /\ layer' = [layer EXCEPT ![p] = None]
                  /\ Goto(p, "release")
                  /\ UNCHANGED <<cache, name, layerL, mountL>>
     \/ Fails("storeRemove") /\ Done(p) /\ UNCHANGED <<layerDB, cacheID, halfRemoved>>
  /\ UNCHANGED <<referenceCount, references, mounts, rwReferences, mountDB, driver>>

\* Then the metadata and the entry of layerMap; on to the parent.
StoreRemove(p) ==
  /\ pc[p] = "forget"
  /\ LET l == layer[p] IN
     \/ /\ layerDB' = [layerDB EXCEPT ![l] = None]
        /\ halfRemoved' = halfRemoved \ {l}
        /\ cacheID' = [cacheID EXCEPT ![l] = None]
        /\ IF Parent[l] = NoLayer
             THEN Done(p)
             ELSE /\ hold' = [hold EXCEPT ![p] = Parent[l]]
                  /\ layer' = [layer EXCEPT ![p] = None]
                  /\ Goto(p, "release")
                  /\ UNCHANGED <<cache, name, layerL, mountL>>
     \/ Fails("storeRemove") /\ Done(p) /\ UNCHANGED <<layerDB, cacheID, halfRemoved>>
  /\ UNCHANGED <<referenceCount, references, mounts, rwReferences, mountDB, driver>>

-----------------------------------------------------------------------------
(* Writable layers, all under mountL *)

CreateRWLayer(p, n, l) ==
  /\ pc[p] = "idle" /\ mountL = None
  /\ mounts[n] = None
  /\ IF l = NoLayer THEN UNCHANGED referenceCount
                    ELSE layerL = None /\ Present(l) /\ Retain(l)
  /\ mountL' = p
  /\ name' = [name EXCEPT ![p] = n]
  /\ hold' = [hold EXCEPT ![p] = l]
  /\ Goto(p, "mount")
  /\ UNCHANGED <<cacheID, references, mounts, rwReferences, mountDB, layerL, diskVars, layer, cache>>

\* initMount and CreateReadWrite, then SetMountID.
MakeMount(p) ==
  /\ pc[p] = "mount"
  /\ \/ /\ mountDB' = [mountDB EXCEPT ![name[p]] = NoLayer]
        /\ Goto(p, "mountParent")
        /\ UNCHANGED <<hold, layer, cache, name, layerL, mountL>>
     \/ Fails("mount") /\ Abort(p) /\ UNCHANGED mountDB
  /\ UNCHANGED <<storeVars, mounts, rwReferences, diskVars>>

\* SetInitID and SetMountParent, the entry of mounts and the caller's reference.
SaveMount(p, w) ==
  /\ pc[p] = "mountParent"
  /\ \/ /\ rwReferences[w] = None
        /\ mountDB' = [mountDB EXCEPT ![name[p]] = hold[p]]
        /\ mounts' = [mounts EXCEPT ![name[p]] = hold[p]]
        /\ rwReferences' = [rwReferences EXCEPT ![w] = name[p]]
        /\ Done(p)
     \/ Fails("saveMount") /\ Abort(p) /\ UNCHANGED <<mountDB, mounts, rwReferences>>
  /\ UNCHANGED <<storeVars, diskVars>>

GetRWLayer(n, w) ==
  /\ mountL = None /\ mounts[n] # None
  /\ rwReferences[w] = None
  /\ rwReferences' = [rwReferences EXCEPT ![w] = n]
  /\ UNCHANGED <<storeVars, mounts, mountL, mountDB, name, layerL, diskVars, opVars>>

\* The last reference removes the mount; if that fails, it is taken again.
ReleaseRWLayer(p, w) ==
  /\ pc[p] = "idle" /\ mountL = None
  /\ rwReferences[w] # None
  /\ rwReferences' = [rwReferences EXCEPT ![w] = None]
  /\ LET n == rwReferences[w] IN
     IF \E v \in RW \ {w} : rwReferences[v] = n
       THEN UNCHANGED <<mounts, mountDB, mountL, hold, pc>>
       ELSE /\ mounts' = [mounts EXCEPT ![n] = None]
            /\ mountDB' = [mountDB EXCEPT ![n] = None]
            /\ IF mounts[n] = NoLayer
                 THEN UNCHANGED <<mountL, hold, pc>>
                 ELSE mountL' = p /\ hold' = [hold EXCEPT ![p] = mounts[n]] /\ Goto(p, "release")
  /\ UNCHANGED <<storeVars, name, layerL, diskVars, layer, cache>>

-----------------------------------------------------------------------------
(* The daemon dies and NewStoreFromGraphDriver loads what is on disk *)

Loaded == {l \in ChainID : layerDB[l] # None}
LoadedMounts == {n \in Name : mountDB[n] # None}

\* A mutant of RestoredCount: loadMount does not count its parent.
RestoredCountOfLayers(l) == Cardinality({c \in Loaded : Parent[c] = l})

\* What the restored counts are: child layers and mounts.
RestoredCount(l) ==
  Cardinality({c \in Loaded : Parent[c] = l}) + Cardinality({n \in LoadedMounts : mountDB[n] = l})

Restart ==
  /\ Fails("crash")
  /\ cacheID' = layerDB
  /\ referenceCount' = [l \in ChainID |-> IF l \in Loaded THEN RestoredCount(l) ELSE 0]
  /\ references' = [h \in Handle |-> None]
  /\ mounts' = mountDB
  /\ rwReferences' = [w \in RW |-> None]
  /\ layerL' = None /\ mountL' = None
  /\ pc' = [p \in Proc |-> "idle"]
  /\ hold' = [p \in Proc |-> NoLayer]
  /\ layer' = [p \in Proc |-> None]
  /\ cache' = [p \in Proc |-> None]
  /\ name' = [p \in Proc |-> None]
  /\ UNCHANGED <<diskVars, mountDB>>

-----------------------------------------------------------------------------
Next ==
  \/ \E l \in ChainID, h \in Handle : Get(l, h)
  \/ \E p \in Proc, l \in ChainID : Register(p, l)
  \/ \E p \in Proc, c \in CacheID : Create(p, c)
  \/ \E p \in Proc : Apply(p) \/ Cleanup(p) \/ ReleaseLayer(p) \/ DriverRemove(p) \/ StoreRemove(p)
  \/ \E p \in Proc, h \in Handle : Commit(p, h) \/ Release(p, h)
  \/ \E p \in Proc, n \in Name, l \in ChainID \cup {NoLayer} : CreateRWLayer(p, n, l)
  \/ \E p \in Proc : MakeMount(p)
  \/ \E p \in Proc, w \in RW : SaveMount(p, w) \/ ReleaseRWLayer(p, w)
  \/ \E n \in Name, w \in RW : GetRWLayer(n, w)
  \/ Restart

Spec == Init /\ [][Next]_vars

-----------------------------------------------------------------------------
(* Properties *)

\* How many rely on layer l: its children, the mounts on it, the references
\* handed out and the operations in progress.
Children(l) == {c \in ChainID : Present(c) /\ Parent[c] = l}
Users(f, l) == {x \in DOMAIN f : f[x] = l}
Relying(l) ==
  Cardinality(Children(l)) + Cardinality(Users(mounts, l))
    + Cardinality(Users(references, l)) + Cardinality(Users(hold, l))

\* The count of a present layer is exactly the number that rely on it, after
\* any interleaving, error path and restart; so releaseLayer never meets a
\* count of 0 ("layer not retained") nor a count that drops to 0 while
\* references are left ("cannot delete referenced layer"), and whatever is
\* relied on is present.
CountExact == \A l \in ChainID :
  Relying(l) = IF Present(l) THEN referenceCount[l] ELSE 0

\* A layer that is present has its data in the driver, in a directory of its
\* own, down the whole chain: no registration's clean-up and no release takes
\* the data of a layer that something can still reach.  The exception is a
\* layer whose deletion stopped half way, which Get still hands out.
DataPresent == \A l \in ChainID : Present(l) =>
  /\ cacheID[l] \in driver \/ l \in halfRemoved
  /\ \A m \in ChainID \ {l} : cacheID[m] # cacheID[l]
  /\ Parent[l] # NoLayer => Present(Parent[l])

\* What a restart would load is what the store has: a crash at any point
\* neither loses nor brings back a layer, nor loses a mount or its parent.
DiskAgrees ==
  /\ layerDB = cacheID
  /\ \A n \in Name : mounts[n] # None => mountDB[n] = mounts[n]

\* The promises of the layer store together: exact counts, data where a layer
\* is present, and a disk that would restore the same store.
LayersSafe == CountExact /\ DataPresent /\ DiskAgrees
===========================================================================
