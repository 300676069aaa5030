-------------------------- MODULE LayerStoreProofs --------------------------
(***************************************************************************)
(* LayerStore for any set of layers, operations, references and mounts:    *)
(* reference counts are exact, no present layer loses its data or its      *)
(* parent, and disk and memory agree, whatever fails and whenever the      *)
(* daemon dies.  LayerCounting has the invariant and the counting; here    *)
(* every step is shown to keep the invariant.                              *)
(***************************************************************************)
EXTENDS LayerCounting

-----------------------------------------------------------------------------
(* Every step keeps the invariant *)

\* The step Get of the store keeps the invariant.
LEMMA GetStep ==
  ASSUME IInv, NEW m \in ChainID, NEW h \in Handle, Get(m, h)
  PROVE  IInv'
<1> USE LayerAssumption DEF IInv
<1>1. TypeOK'
  BY DEF TypeOK, PC, Get, Retain, mountVars, diskVars, opVars
<1>2. Shape'
  BY DEF Shape, ShapeOf, Building, Present, TypeOK, Get, Retain, mountVars, diskVars, opVars
<1>3. OwnCache'
  BY DEF OwnCache, Building, TypeOK, Get, Retain, mountVars, diskVars, opVars
<1>4. MountsOK'
  BY DEF MountsOK, TypeOK, Get, Retain, mountVars, diskVars, opVars
<1>5. CountExact'
  BY CountRetainReference, Zenon DEF Get, mountVars, diskVars, opVars
<1>6. DataPresent'
  BY DEF DataPresent, Present, Get, Retain, mountVars, diskVars, opVars
<1>7. DiskAgrees'
  BY DEF DiskAgrees, Get, Retain, mountVars, diskVars, opVars
<1> QED
  BY <1>1, <1>2, <1>3, <1>4, <1>5, <1>6, <1>7, Zenon

\* The step Register of the store keeps the invariant.
LEMMA RegisterStep ==
  ASSUME IInv, NEW p \in Proc, NEW m \in ChainID, Register(p, m)
  PROVE  IInv'
<1> USE LayerAssumption DEF IInv
<1>1. TypeOK'
  BY DEF TypeOK, PC, Register, Retain, Goto, mountVars, diskVars
<1>2. Shape'
  BY DEF Shape, ShapeOf, Building, Present, TypeOK, Register, Retain, Goto, mountVars, diskVars
<1>3. OwnCache'
  BY DEF OwnCache, Building, TypeOK, Register, Retain, Goto, mountVars, diskVars
<1>4. MountsOK'
  BY DEF MountsOK, TypeOK, Register, Retain, Goto, mountVars, diskVars
<1>5. CountExact'
  <2>1. hold[p] = NoLayer
    BY DEF Register, Shape, ShapeOf
  <2>2. CASE Parent[m] = NoLayer
    BY <2>1, <2>2, CountUnchanged, Zenon DEF Register, mountVars
  <2>3. CASE Parent[m] # NoLayer
    <3> DEFINE v == Parent[m]
    <3>1. v \in ChainID /\ Present(v) /\ Retain(v) /\ hold' = [hold EXCEPT ![p] = v]
      BY <2>3, LayerAssumption DEF Register
    <3>2. cacheID' = cacheID /\ mounts' = mounts /\ references' = references
      BY DEF Register, mountVars
    <3> HIDE DEF v
    <3> QED
      BY <2>1, <3>1, <3>2, CountRetainHold, Zenon
  <2> QED
    BY <2>2, <2>3, Zenon
<1>6. DataPresent'
  BY DEF DataPresent, Present, Register, Retain, Goto, mountVars, diskVars
<1>7. DiskAgrees'
  BY DEF DiskAgrees, Register, Retain, Goto, mountVars, diskVars
<1> QED
  BY <1>1, <1>2, <1>3, <1>4, <1>5, <1>6, <1>7, Zenon

\* The step Create of the store keeps the invariant.
LEMMA CreateStep ==
  ASSUME IInv, NEW p \in Proc, NEW c \in CacheID, Create(p, c)
  PROVE  IInv'
<1> USE LayerAssumption DEF IInv
<1>1. TypeOK'
  BY DEF TypeOK, PC, Create, Abort, Done, Goto, Unused, storeVars
<1>2. Shape'
  BY DEF Shape, ShapeOf, Building, Present, TypeOK, Create, Abort, Done, Goto, Unused, storeVars
<1>3. OwnCache'
  BY DEF OwnCache, Building, TypeOK, Create, Abort, Done, Goto, Unused, storeVars
<1>4. MountsOK'
  BY DEF MountsOK, TypeOK, Create, Abort, Done, Goto, Unused, storeVars
<1>5. CountExact'
  <2>1. \/ hold' = hold
        \/ hold[p] = NoLayer /\ hold' = [hold EXCEPT ![p] = NoLayer]
    BY DEF Create, Abort, Done
  <2> QED
    BY <2>1, CountUnchanged DEF Create, storeVars
<1>6. DataPresent'
  BY DEF DataPresent, Present, Create, Abort, Done, Goto, Unused, storeVars
<1>7. DiskAgrees'
  BY DEF DiskAgrees, Create, Abort, Done, Goto, Unused, storeVars
<1> QED
  BY <1>1, <1>2, <1>3, <1>4, <1>5, <1>6, <1>7, Zenon

\* The step Apply of the store keeps the invariant.
LEMMA ApplyStep ==
  ASSUME IInv, NEW p \in Proc, Apply(p)
  PROVE  IInv'
<1> USE LayerAssumption DEF IInv
<1>1. TypeOK'
  BY DEF TypeOK, PC, Apply, Goto, storeVars, mountVars, diskVars
<1>2. Shape'
  BY DEF Shape, ShapeOf, Building, Present, TypeOK, Apply, Goto, storeVars, mountVars, diskVars
<1>3. OwnCache'
  BY DEF OwnCache, Building, TypeOK, Apply, Goto, storeVars, mountVars, diskVars
<1>4. MountsOK'
  BY DEF MountsOK, TypeOK, Apply, Goto, storeVars, mountVars, diskVars
<1>5. CountExact'
  BY CountUnchanged DEF Apply, storeVars, mountVars
<1>6. DataPresent'
  BY DEF DataPresent, Present, Apply, Goto, storeVars, mountVars, diskVars
<1>7. DiskAgrees'
  BY DEF DiskAgrees, Apply, Goto, storeVars, mountVars, diskVars
<1> QED
  BY <1>1, <1>2, <1>3, <1>4, <1>5, <1>6, <1>7, Zenon

\* The step Cleanup of the store keeps the invariant.
LEMMA CleanupStep ==
  ASSUME IInv, NEW p \in Proc, Cleanup(p)
  PROVE  IInv'
<1> USE LayerAssumption DEF IInv
<1>1. TypeOK'
  BY DEF TypeOK, PC, Cleanup, Abort, Done, Goto, storeVars
<1>2. Shape'
  BY DEF Shape, ShapeOf, Building, Present, TypeOK, Cleanup, Abort, Done, Goto, storeVars
<1>3. OwnCache'
  BY DEF OwnCache, Building, TypeOK, Cleanup, Abort, Done, Goto, storeVars
<1>4. MountsOK'
  BY DEF MountsOK, TypeOK, Cleanup, Abort, Done, Goto, storeVars
<1>5. CountExact'
  <2>1. \/ hold' = hold
        \/ hold[p] = NoLayer /\ hold' = [hold EXCEPT ![p] = NoLayer]
    BY DEF Cleanup, Abort, Done
  <2> QED
    BY <2>1, CountUnchanged DEF Cleanup, storeVars
<1>6. DataPresent'
  BY DEF DataPresent, Present, OwnCache, Building, Cleanup, Abort, Done, Goto, storeVars
<1>7. DiskAgrees'
  BY DEF DiskAgrees, Cleanup, Abort, Done, Goto, storeVars
<1> QED
  BY <1>1, <1>2, <1>3, <1>4, <1>5, <1>6, <1>7, Zenon

\* The step Release of the store keeps the invariant.
LEMMA ReleaseStep ==
  ASSUME IInv, NEW p \in Proc, NEW h \in Handle, Release(p, h)
  PROVE  IInv'
<1> USE LayerAssumption DEF IInv
<1>1. TypeOK'
  BY DEF TypeOK, PC, Release, Goto, mountVars, diskVars
<1>2. Shape'
  BY DEF Shape, ShapeOf, Building, Present, TypeOK, Release, Goto, mountVars, diskVars
<1>3. OwnCache'
  BY DEF OwnCache, Building, TypeOK, Release, Goto, mountVars, diskVars
<1>4. MountsOK'
  BY DEF MountsOK, TypeOK, Release, Goto, mountVars, diskVars
<1>5. CountExact'
  <2> DEFINE m == references[h]
  <2>1. /\ m \in ChainID /\ hold[p] = NoLayer /\ hold' = [hold EXCEPT ![p] = m]
        /\ references' = [references EXCEPT ![h] = None]
    BY DEF Release, Shape, ShapeOf, TypeOK
  <2>2. /\ cacheID' = cacheID /\ mounts' = mounts /\ referenceCount' = referenceCount
        /\ references[h] = m
    BY DEF Release, mountVars
  <2> HIDE DEF m
  <2> QED
    BY <2>1, <2>2, CountReferenceToHold, Zenon
<1>6. DataPresent'
  BY DEF DataPresent, Present, Release, Goto, mountVars, diskVars
<1>7. DiskAgrees'
  BY DEF DiskAgrees, Release, Goto, mountVars, diskVars
<1> QED
  BY <1>1, <1>2, <1>3, <1>4, <1>5, <1>6, <1>7, Zenon

\* The step ReleaseLayer of the store keeps the invariant.
LEMMA ReleaseLayerStep ==
  ASSUME IInv, NEW p \in Proc, ReleaseLayer(p)
  PROVE  IInv'
<1> USE LayerAssumption DEF IInv
<1>0. /\ hold[p] \in ChainID /\ Present(hold[p]) /\ referenceCount[hold[p]] - 1 \in Nat
      /\ referenceCount[hold[p]] = 1 => referenceCount'[hold[p]] = 0
  <2>1. hold[p] \in ChainID
    BY DEF ReleaseLayer, Shape, ShapeOf, TypeOK
  <2>2. Present(hold[p]) /\ referenceCount[hold[p]] > 0 /\ referenceCount[hold[p]] \in Nat
    BY <2>1, ReliedOn DEF TypeOK
  <2> QED
    BY <2>1, <2>2 DEF ReleaseLayer, TypeOK
<1>1. TypeOK'
  BY <1>0 DEF TypeOK, PC, ReleaseLayer, Done, Goto, diskVars
<1>2. Shape'
  <2>1. \A q \in Proc \ {p} : pc[q] \notin {"remove", "forget"}
    BY DEF Shape, ShapeOf, ReleaseLayer
  <2>2. \A q \in Proc \ {p} : pc'[q] = pc[q] /\ hold'[q] = hold[q] /\ layer'[q] = layer[q] /\ name'[q] = name[q]
    BY DEF ReleaseLayer, Done, Goto, TypeOK
  <2>3. \/ pc'[p] = "idle" /\ hold'[p] = NoLayer
        \/ /\ pc'[p] = "remove" /\ hold'[p] = NoLayer /\ layerL' = p /\ layer'[p] = hold[p]
           /\ referenceCount[hold[p]] = 1
    BY DEF ReleaseLayer, Done, Goto, TypeOK
  <2>4. cacheID' = cacheID
    BY DEF ReleaseLayer
  <2> QED
    BY <1>0, <2>1, <2>2, <2>3, <2>4, SMTT(60) DEF Shape, ShapeOf, Building, Present, TypeOK
<1>3. OwnCache'
  BY DEF OwnCache, Building, TypeOK, ReleaseLayer, Done, Goto, diskVars
<1>4. MountsOK'
  BY DEF MountsOK, TypeOK, ReleaseLayer, Done, Goto, diskVars
<1>5. CountExact'
  <2> DEFINE m == hold[p]
  <2>1. /\ m \in ChainID /\ hold[p] = m /\ hold' = [hold EXCEPT ![p] = NoLayer]
        /\ referenceCount' = [referenceCount EXCEPT ![m] = @ - 1]
    BY DEF ReleaseLayer, Done, Shape, ShapeOf, TypeOK
  <2>2. cacheID' = cacheID /\ mounts' = mounts /\ references' = references
    BY DEF ReleaseLayer
  <2> HIDE DEF m
  <2> QED
    BY <2>1, <2>2, CountGivenBack, Zenon
<1>6. DataPresent'
  BY DEF DataPresent, Present, ReleaseLayer, Done, Goto, diskVars
<1>7. DiskAgrees'
  BY DEF DiskAgrees, ReleaseLayer, Done, Goto, diskVars
<1> QED
  BY <1>1, <1>2, <1>3, <1>4, <1>5, <1>6, <1>7, Zenon

\* The step DriverRemove of the store keeps the invariant.
LEMMA DriverRemoveStep ==
  ASSUME IInv, NEW p \in Proc, DriverRemove(p)
  PROVE  IInv'
<1> USE LayerAssumption DEF IInv
<1>1. TypeOK'
  BY DEF TypeOK, PC, Shape, ShapeOf, DriverRemove, Done, Goto, storeVars
<1>2. Shape'
  BY DEF Shape, ShapeOf, Building, Present, TypeOK, DriverRemove, Done, Goto, storeVars
<1>3. OwnCache'
  BY DEF OwnCache, Building, Shape, ShapeOf, TypeOK, DriverRemove, Done, Goto, storeVars
<1>4. MountsOK'
  BY DEF MountsOK, TypeOK, DriverRemove, Done, Goto, storeVars
<1>5. CountExact'
  <2>1. hold[p] = NoLayer /\ (hold' = hold \/ hold' = [hold EXCEPT ![p] = NoLayer])
    BY DEF DriverRemove, Done, Shape, ShapeOf
  <2> QED
    BY <2>1, CountUnchanged, Zenon DEF DriverRemove, storeVars
<1>6. DataPresent'
  BY DEF DataPresent, Present, Shape, ShapeOf, DriverRemove, Done, Goto, storeVars
<1>7. DiskAgrees'
  BY DEF DiskAgrees, DriverRemove, Done, Goto, storeVars
<1> QED
  BY <1>1, <1>2, <1>3, <1>4, <1>5, <1>6, <1>7, Zenon

\* The step GetRWLayer of the store keeps the invariant.
LEMMA GetRWLayerStep ==
  ASSUME IInv, NEW n \in Name, NEW w \in RW, GetRWLayer(n, w)
  PROVE  IInv'
<1> USE LayerAssumption DEF IInv
<1>1. TypeOK'
  BY DEF TypeOK, PC, GetRWLayer, storeVars, diskVars, opVars
<1>2. Shape'
  BY DEF Shape, ShapeOf, Building, Present, TypeOK, GetRWLayer, storeVars, diskVars, opVars
<1>3. OwnCache'
  BY DEF OwnCache, Building, TypeOK, GetRWLayer, storeVars, diskVars, opVars
<1>4. MountsOK'
  BY DEF MountsOK, TypeOK, GetRWLayer, storeVars, diskVars, opVars
<1>5. CountExact'
  BY CountUnchanged DEF GetRWLayer, storeVars, opVars
<1>6. DataPresent'
  BY DEF DataPresent, Present, GetRWLayer, storeVars, diskVars, opVars
<1>7. DiskAgrees'
  BY DEF DiskAgrees, GetRWLayer, storeVars, diskVars, opVars
<1> QED
  BY <1>1, <1>2, <1>3, <1>4, <1>5, <1>6, <1>7, Zenon

\* The step CreateRWLayer of the store keeps the invariant.
LEMMA CreateRWLayerStep ==
  ASSUME IInv, NEW p \in Proc, NEW n \in Name, NEW m \in ChainID \cup {NoLayer}, CreateRWLayer(p, n, m)
  PROVE  IInv'
<1> USE LayerAssumption DEF IInv
<1>1. TypeOK'
  BY DEF TypeOK, PC, CreateRWLayer, Retain, Goto, diskVars
<1>2. Shape'
  BY DEF Shape, ShapeOf, Building, Present, TypeOK, CreateRWLayer, Retain, Goto, diskVars
<1>3. OwnCache'
  BY DEF OwnCache, Building, TypeOK, CreateRWLayer, Retain, Goto, diskVars
<1>4. MountsOK'
  BY DEF MountsOK, TypeOK, CreateRWLayer, Retain, Goto, diskVars
<1>5. CountExact'
  <2>1. hold[p] = NoLayer
    BY DEF CreateRWLayer, Shape, ShapeOf
  <2>2. CASE m = NoLayer
    BY <2>1, <2>2, CountUnchanged, Zenon DEF CreateRWLayer
  <2>3. CASE m # NoLayer
    BY <2>1, <2>3, CountRetainHold, Zenon DEF CreateRWLayer
  <2> QED
    BY <2>2, <2>3, Zenon
<1>6. DataPresent'
  BY DEF DataPresent, Present, CreateRWLayer, Retain, Goto, diskVars
<1>7. DiskAgrees'
  BY DEF DiskAgrees, CreateRWLayer, Retain, Goto, diskVars
<1> QED
  BY <1>1, <1>2, <1>3, <1>4, <1>5, <1>6, <1>7, Zenon

\* The step MakeMount of the store keeps the invariant.
LEMMA MakeMountStep ==
  ASSUME IInv, NEW p \in Proc, MakeMount(p)
  PROVE  IInv'
<1> USE LayerAssumption DEF IInv
<1>1. TypeOK'
  BY DEF TypeOK, PC, MakeMount, Abort, Done, Goto, storeVars, diskVars
<1>2. Shape'
  BY DEF Shape, ShapeOf, Building, Present, TypeOK, MakeMount, Abort, Done, Goto, storeVars, diskVars
<1>3. OwnCache'
  BY DEF OwnCache, Building, TypeOK, MakeMount, Abort, Done, Goto, storeVars, diskVars
<1>4. MountsOK'
  BY SMTT(60) DEF MountsOK, Shape, ShapeOf, TypeOK, MakeMount, Abort, Done, Goto, storeVars, diskVars
<1>5. CountExact'
  <2>1. \/ hold' = hold
        \/ hold[p] = NoLayer /\ hold' = [hold EXCEPT ![p] = NoLayer]
    BY DEF MakeMount, Abort, Done
  <2> QED
    BY <2>1, CountUnchanged DEF MakeMount, storeVars
<1>6. DataPresent'
  BY SMTT(60) DEF DataPresent, Present, MakeMount, Abort, Done, Goto, storeVars, diskVars
<1>7. DiskAgrees'
  BY SMTT(60) DEF DiskAgrees, MountsOK, Shape, ShapeOf, TypeOK, MakeMount, Abort, Done, Goto, storeVars, diskVars
<1> QED
  BY <1>1, <1>2, <1>3, <1>4, <1>5, <1>6, <1>7, Zenon

\* Commit finds the layer that another registration made.
LEMMA CommitFoundStep ==
  ASSUME IInv, NEW p \in Proc, NEW h \in Handle, NEW m \in ChainID,
         pc[p] = "commit", layerL = None, Present(m), references[h] = None,
         references' = [references EXCEPT ![h] = m], Retain(m), Goto(p, "cleanup"),
         UNCHANGED <<cacheID, layerDB, hold, layer, cache, mountVars, layerL, driver, halfRemoved>>
  PROVE  IInv'
<1> USE DEF IInv, mountVars
<1>1. TypeOK'
  BY SMTT(60) DEF TypeOK, PC, Retain, Goto
<1>2. Shape'
  BY LayerAssumption DEF Shape, ShapeOf, Building, Present, TypeOK, Goto
<1>3. OwnCache'
  BY DEF OwnCache, Building, TypeOK, Goto
<1>4. MountsOK'
  BY DEF MountsOK, TypeOK, Goto
<1>5. CountExact'
  BY CountRetainReference, Zenon
<1>6. DataPresent' /\ DiskAgrees'
  BY DEF DataPresent, DiskAgrees, Present
<1> QED
  BY <1>1, <1>2, <1>3, <1>4, <1>5, <1>6, Zenon

\* The transaction does not commit.
LEMMA CommitFailsStep ==
  ASSUME IInv, NEW p \in Proc, pc[p] = "commit", Goto(p, "cleanup"),
         UNCHANGED <<storeVars, layerDB, hold, layer, cache, mountVars, layerL, driver, halfRemoved>>
  PROVE  IInv'
<1> USE DEF IInv, mountVars, storeVars
<1>1. TypeOK'
  BY DEF TypeOK, PC, Goto
<1>2. Shape'
  BY DEF Shape, ShapeOf, Building, Present, TypeOK, Goto
<1>3. OwnCache'
  BY DEF OwnCache, Building, TypeOK, Goto
<1>4. MountsOK'
  BY DEF MountsOK, TypeOK, Goto
<1>5. CountExact'
  BY CountUnchanged, Zenon
<1>6. DataPresent' /\ DiskAgrees'
  BY DEF DataPresent, DiskAgrees, Present
<1> QED
  BY <1>1, <1>2, <1>3, <1>4, <1>5, <1>6, Zenon

\* The layer is made: m, with the data in c.
LEMMA CommitNewStep ==
  ASSUME IInv, NEW p \in Proc, NEW h \in Handle, NEW m \in ChainID, NEW c \in CacheID,
         pc[p] = "commit", layerL = None, layer[p] = m, cache[p] = c,
         ~Present(m), references[h] = None,
         layerDB' = [layerDB EXCEPT ![m] = c], cacheID' = [cacheID EXCEPT ![m] = c],
         referenceCount' = [referenceCount EXCEPT ![m] = 1],
         references' = [references EXCEPT ![h] = m],
         Done(p), UNCHANGED <<mounts, rwReferences, mountDB, driver, halfRemoved>>
  PROVE  IInv'
<1> USE DEF IInv
<1>1. /\ hold[p] = Parent[m] /\ c \in driver
      /\ \A l \in ChainID : cacheID[l] # c
      /\ \A q \in Proc \ {p} : pc[q] \in Building => cache[q] # c
  BY DEF Shape, ShapeOf, OwnCache, Building
<1>2. TypeOK'
  BY SMTT(60) DEF TypeOK, PC, Done
<1>3. Shape'
  BY LayerAssumption, SMTT(60) DEF Shape, ShapeOf, Building, TypeOK, Done
<1>4. OwnCache'
  BY <1>1, SMTT(60) DEF OwnCache, Building, TypeOK, Done
<1>5. MountsOK'
  BY LayerAssumption DEF MountsOK, TypeOK, Done
<1>6. CountExact'
  BY <1>1, CountNewLayer, Zenon DEF Done
<1>7. DataPresent'
  <2>1. Parent[m] # NoLayer => Present(Parent[m])
    BY <1>1, ReliedOn, LayerAssumption, Zenon
  <2> QED
    BY <1>1, <2>1, LayerAssumption DEF DataPresent, Present, TypeOK
<1>8. DiskAgrees'
  BY Zenon DEF DiskAgrees
<1> QED
  BY <1>2, <1>3, <1>4, <1>5, <1>6, <1>7, <1>8, Zenon

\* The step Commit of the store keeps the invariant.
LEMMA CommitStep ==
  ASSUME IInv, NEW p \in Proc, NEW h \in Handle, Commit(p, h)
  PROVE  IInv'
<1>1. layer[p] \in ChainID /\ cache[p] \in CacheID
  BY Zenon DEF IInv, Commit, Shape, ShapeOf, OwnCache, Building, TypeOK
<1> QED
  BY <1>1, CommitFoundStep, CommitFailsStep, CommitNewStep, SMTT(60) DEF Commit, mountVars

\* A layer disappears, and its parent, if any, is next.
LEMMA RemovedStep ==
  ASSUME IInv, NEW p \in Proc, NEW m \in ChainID, NEW v \in ChainID \cup {NoLayer},
         pc[p] = "forget", layer[p] = m, v = Parent[m],
         layerDB' = [layerDB EXCEPT ![m] = None], halfRemoved' = halfRemoved \ {m},
         cacheID' = [cacheID EXCEPT ![m] = None],
         hold' = [hold EXCEPT ![p] = v], layer' = [layer EXCEPT ![p] = None],
         pc' = [pc EXCEPT ![p] = IF v = NoLayer THEN "idle" ELSE "release"],
         \/ UNCHANGED <<cache, name, layerL, mountL>>
         \/ Done(p),
         UNCHANGED <<referenceCount, references, mounts, rwReferences, mountDB, driver>>
  PROVE  IInv'
<1> USE DEF IInv
<1>1. Present(m) /\ referenceCount[m] = 0 /\ hold[p] = NoLayer /\ layerL = p
  BY Zenon DEF Shape, ShapeOf
<1>2. \A q \in Proc \ {p} : /\ pc'[q] = pc[q] /\ hold'[q] = hold[q] /\ layer'[q] = layer[q]
                            /\ cache'[q] = cache[q] /\ name'[q] = name[q] /\ (mountL = q => mountL' = q)
                            /\ pc[q] \notin {"remove", "forget"}
  <2> SUFFICES ASSUME NEW q \in Proc \ {p}
               PROVE  /\ pc'[q] = pc[q] /\ hold'[q] = hold[q] /\ layer'[q] = layer[q]
                      /\ cache'[q] = cache[q] /\ name'[q] = name[q] /\ (mountL = q => mountL' = q)
                      /\ pc[q] \notin {"remove", "forget"}
    OBVIOUS
  <2>1. pc'[q] = pc[q] /\ hold'[q] = hold[q] /\ layer'[q] = layer[q]
    BY SMTT(60) DEF TypeOK
  <2>2. cache'[q] = cache[q] /\ name'[q] = name[q] /\ (mountL = q => mountL' = q)
    BY SMTT(60) DEF Done, TypeOK
  <2>3. pc[q] \notin {"remove", "forget"}
    BY <1>1, ZenonT(60) DEF Shape, ShapeOf
  <2> QED
    BY <2>1, <2>2, <2>3
<1>3. pc'[p] \in {"idle", "release"} /\ hold'[p] = v /\ (pc'[p] = "idle" <=> v = NoLayer)
  BY DEF TypeOK
<1>4. TypeOK'
  BY LayerAssumption, SMTT(60) DEF TypeOK, PC, Done
<1>5. Shape'
  <2>1. ShapeOf(p)'
    BY <1>3, Zenon DEF ShapeOf, Building
  <2>2. ASSUME NEW q \in Proc \ {p} PROVE ShapeOf(q)'
    <3>1. ShapeOf(q)
      BY Zenon DEF Shape
    <3> QED
      BY <1>2, <3>1, Zenon DEF ShapeOf, Building
  <2> QED
    BY <2>1, <2>2, Zenon DEF Shape
<1>6. OwnCache'
  <2>1. \A l \in ChainID : cacheID'[l] \in {cacheID[l], None}
    BY DEF TypeOK
  <2> QED
    BY <1>2, <1>3, <2>1, LayerAssumption, SMTT(60) DEF OwnCache, Building, TypeOK
<1>7. MountsOK'
  BY <1>2, <1>3 DEF MountsOK
<1>8. CountExact'
  BY <1>1, CountOldLayer, Zenon
<1>9. DataPresent' /\ DiskAgrees'
  <2>1. \A c \in ChainID : Present(c) => Parent[c] # m
    BY <1>1, Childless, Zenon
  <2> QED
    BY <2>1 DEF DataPresent, DiskAgrees, Present, TypeOK
<1> QED
  BY <1>4, <1>5, <1>6, <1>7, <1>8, <1>9, Zenon

\* store.Remove fails.
LEMMA KeptStep ==
  ASSUME IInv, NEW p \in Proc, pc[p] = "forget", Done(p),
         UNCHANGED <<storeVars, mounts, rwReferences, mountDB, diskVars>>
  PROVE  IInv'
<1> USE DEF IInv, storeVars, diskVars
<1>1. TypeOK'
  BY SMTT(60) DEF TypeOK, PC, Done
<1>2. Shape'
  BY DEF Shape, ShapeOf, Building, Present, TypeOK, Done
<1>3. OwnCache'
  BY DEF OwnCache, Building, TypeOK, Done
<1>4. MountsOK'
  BY DEF MountsOK, TypeOK, Done
<1>5. CountExact'
  <2>1. hold[p] = NoLayer
    BY DEF Shape, ShapeOf
  <2> QED
    BY <2>1, CountUnchanged, Zenon DEF Done
<1>6. DataPresent' /\ DiskAgrees'
  BY DEF DataPresent, DiskAgrees, Present
<1> QED
  BY <1>1, <1>2, <1>3, <1>4, <1>5, <1>6, Zenon

\* The step StoreRemove of the store keeps the invariant.
LEMMA StoreRemoveStep ==
  ASSUME IInv, NEW p \in Proc, StoreRemove(p)
  PROVE  IInv'
<1>1. layer[p] \in ChainID /\ Parent[layer[p]] \in ChainID \cup {NoLayer} /\ pc[p] = "forget"
  BY LayerAssumption DEF IInv, StoreRemove, Shape, ShapeOf
<1>2. CASE Fails("storeRemove") /\ Done(p) /\ UNCHANGED <<layerDB, cacheID, halfRemoved>>
  BY <1>1, <1>2, KeptStep DEF StoreRemove, storeVars, diskVars
<1>3. CASE /\ layerDB' = [layerDB EXCEPT ![layer[p]] = None]
           /\ halfRemoved' = halfRemoved \ {layer[p]}
           /\ cacheID' = [cacheID EXCEPT ![layer[p]] = None]
           /\ IF Parent[layer[p]] = NoLayer
                THEN Done(p)
                ELSE /\ hold' = [hold EXCEPT ![p] = Parent[layer[p]]]
                     /\ layer' = [layer EXCEPT ![p] = None]
                     /\ Goto(p, "release")
                     /\ UNCHANGED <<cache, name, layerL, mountL>>
  <2>1. /\ hold' = [hold EXCEPT ![p] = Parent[layer[p]]]
        /\ layer' = [layer EXCEPT ![p] = None]
        /\ pc' = [pc EXCEPT ![p] = IF Parent[layer[p]] = NoLayer THEN "idle" ELSE "release"]
        /\ UNCHANGED <<cache, name, layerL, mountL>> \/ Done(p)
    BY <1>3 DEF Done, Goto
  <2>2. UNCHANGED <<referenceCount, references, mounts, rwReferences, mountDB, driver>>
    BY Zenon DEF StoreRemove
  <2> QED
    BY <1>1, <1>3, <2>1, <2>2, RemovedStep, Zenon
<1> QED
  BY <1>2, <1>3, SMTT(60) DEF StoreRemove

\* The step SaveMount of the store keeps the invariant.
LEMMA SaveMountStep ==
  ASSUME IInv, NEW p \in Proc, NEW w \in RW, SaveMount(p, w)
  PROVE  IInv'
<1> USE LayerAssumption DEF IInv
<1> DEFINE n == name[p]
           m == hold[p]
<1>0. n \in Name /\ mounts[n] = None /\ mountL = p /\ m \in ChainID \cup {NoLayer}
  BY SMTT(60) DEF SaveMount, Shape, ShapeOf, MountsOK, TypeOK
<1>1. TypeOK'
  BY <1>0, SMTT(60) DEF TypeOK, PC, SaveMount, Abort, Done, Goto, storeVars, diskVars
<1>2. Shape'
  BY <1>0, SMTT(60) DEF Shape, ShapeOf, Building, Present, TypeOK, SaveMount, Abort, Done, Goto, storeVars, diskVars
<1>3. OwnCache'
  BY <1>0, SMTT(60) DEF OwnCache, Building, TypeOK, SaveMount, Abort, Done, Goto, storeVars, diskVars
<1>4. MountsOK'
  BY <1>0, SMTT(60) DEF MountsOK, Shape, ShapeOf, TypeOK, SaveMount, Abort, Done, Goto, storeVars, diskVars
<1>5. CountExact'
  <2>1. cacheID' = cacheID /\ references' = references /\ referenceCount' = referenceCount
    BY Zenon DEF SaveMount, storeVars
  <2>2. CASE mounts' = [mounts EXCEPT ![n] = m] /\ Done(p)
    <3>1. hold[p] = m /\ hold' = [hold EXCEPT ![p] = NoLayer]
      BY <2>2 DEF Done
    <3> HIDE DEF m, n
    <3> QED
      BY <1>0, <2>1, <2>2, <3>1, CountHoldToMount, Zenon
  <2>3. CASE Abort(p) /\ mounts' = mounts
    BY <2>1, <2>3, CountUnchanged DEF Abort, Done
  <2> QED
    BY <2>2, <2>3, Zenon DEF SaveMount
<1>6. DataPresent'
  BY Zenon DEF DataPresent, Present, SaveMount, storeVars, diskVars
<1>7. DiskAgrees'
  BY <1>0 DEF DiskAgrees, TypeOK, SaveMount, storeVars, diskVars
<1> QED
  BY <1>1, <1>2, <1>3, <1>4, <1>5, <1>6, <1>7, Zenon

\* The step ReleaseRWLayer of the store keeps the invariant.
LEMMA ReleaseRWLayerStep ==
  ASSUME IInv, NEW p \in Proc, NEW w \in RW, ReleaseRWLayer(p, w)
  PROVE  IInv'
<1> USE LayerAssumption DEF IInv
<1> DEFINE n == rwReferences[w]
           m == mounts[n]
<1>0. /\ n \in Name /\ m \in ChainID \cup {NoLayer} /\ pc[p] = "idle" /\ hold[p] = NoLayer
      /\ mountL = None
  BY SMTT(60) DEF ReleaseRWLayer, Shape, ShapeOf, MountsOK, TypeOK
<1>1. TypeOK'
  BY <1>0, SMTT(60) DEF TypeOK, PC, ReleaseRWLayer, Goto, storeVars, diskVars
<1>2. Shape'
  BY <1>0, SMTT(60) DEF Shape, ShapeOf, Building, Present, TypeOK, ReleaseRWLayer, Goto, storeVars, diskVars
<1>3. OwnCache'
  BY <1>0, SMTT(60) DEF OwnCache, Building, TypeOK, ReleaseRWLayer, Goto, storeVars, diskVars
<1>4. MountsOK'
  BY <1>0 DEF MountsOK, TypeOK, ReleaseRWLayer, Goto, storeVars, diskVars
<1>5. CountExact'
  <2>1. cacheID' = cacheID /\ references' = references /\ referenceCount' = referenceCount
    BY DEF ReleaseRWLayer, storeVars
  <2>2. CASE mounts' = mounts /\ hold' = hold
    BY <2>1, <2>2, CountUnchanged
  <2>3. CASE mounts' = [mounts EXCEPT ![n] = None] /\ hold' = [hold EXCEPT ![p] = m]
    <3>1. mounts[n] = m
      OBVIOUS
    <3> HIDE DEF m, n
    <3> QED
      BY <1>0, <2>1, <2>3, <3>1, CountMountToHold, Zenon
  <2>4. \/ mounts' = mounts /\ hold' = hold
        \/ mounts' = [mounts EXCEPT ![n] = None] /\ hold' = [hold EXCEPT ![p] = m]
    BY <1>0 DEF ReleaseRWLayer, TypeOK
  <2> QED
    BY <2>2, <2>3, <2>4, Zenon
<1>6. DataPresent'
  BY Zenon DEF DataPresent, Present, ReleaseRWLayer, storeVars, diskVars
<1>7. DiskAgrees'
  BY <1>0 DEF DiskAgrees, TypeOK, ReleaseRWLayer, storeVars, diskVars
<1> QED
  BY <1>1, <1>2, <1>3, <1>4, <1>5, <1>6, <1>7, Zenon

\* The step Restart of the store keeps the invariant.
LEMMA RestartStep ==
  ASSUME IInv, Restart
  PROVE  IInv'
<1> USE LayerAssumption DEF IInv
<1>1. TypeOK'
  <2>1. \A l \in ChainID : l \in Loaded => RestoredCount(l) \in Nat
    <3> SUFFICES ASSUME NEW l \in ChainID PROVE RestoredCount(l) \in Nat
      OBVIOUS
    <3>1. {c \in Loaded : Parent[c] = l} \subseteq ChainID /\ {n \in LoadedMounts : mountDB[n] = l} \subseteq Name
      BY DEF Loaded, LoadedMounts
    <3>2. /\ Cardinality({c \in Loaded : Parent[c] = l}) \in Nat
          /\ Cardinality({n \in LoadedMounts : mountDB[n] = l}) \in Nat
      BY <3>1, FS_Subset, FS_CardinalityType, SMTT(60)
    <3> QED
      BY <3>2 DEF RestoredCount
  <2> QED
    BY <2>1, SMTT(60) DEF TypeOK, PC, Restart, diskVars
<1>2. Shape' /\ OwnCache'
  BY Zenon DEF Shape, ShapeOf, OwnCache, Building, Restart
<1>3. MountsOK' /\ DiskAgrees'
  BY Zenon DEF MountsOK, DiskAgrees, Restart, diskVars
<1>4. CountExact'
  BY CountRestart, SMTT(60)
<1>5. DataPresent'
  BY DEF DataPresent, Present, DiskAgrees, Restart, diskVars
<1> QED
  BY <1>1, <1>2, <1>3, <1>4, <1>5, Zenon

\* The initial state satisfies the inductive invariant.
LEMMA InitIInv ==
  ASSUME Init
  PROVE  IInv
<1> USE LayerAssumption
<1>1. TypeOK
  BY DEF Init, TypeOK, PC
<1>2. Shape /\ OwnCache /\ MountsOK /\ DataPresent /\ DiskAgrees
  BY DEF Init, Shape, ShapeOf, OwnCache, Building, MountsOK, DataPresent, DiskAgrees, Present
<1>3. CountExact
  <2> SUFFICES ASSUME NEW l \in ChainID PROVE Relying(l) = 0
    BY DEF Init, CountExact, Present
  <2>1. Children(l) = {} /\ Users(mounts, l) = {} /\ Users(references, l) = {} /\ Users(hold, l) = {}
    BY DEF Init, Children, Users, Present
  <2>2. Cardinality({}) = 0
    BY FS_EmptySet
  <2> QED
    BY <2>1, <2>2 DEF Relying
<1> QED
  BY <1>1, <1>2, <1>3 DEF IInv

\* Every step preserves the inductive invariant.
LEMMA NextIInv ==
  ASSUME IInv, [Next]_vars
  PROVE  IInv'
<1>1. CASE UNCHANGED vars
  <2>1. UNCHANGED <<cacheID, referenceCount, references, mounts, rwReferences, layerL, mountL, layerDB,
                    mountDB, driver, halfRemoved, pc, hold, layer, cache, name>>
    BY <1>1 DEF vars, storeVars, mountVars, diskVars, opVars
  <2>2. CountExact'
    BY <2>1, CountUnchanged, SMTT(60) DEF IInv
  <2>3. TypeOK'
    BY <2>1 DEF IInv, TypeOK
  <2>4. OwnCache' /\ MountsOK'
    BY <2>1, Zenon DEF IInv, OwnCache, MountsOK
  <2>5. Shape'
    BY <2>1, Zenon DEF IInv, Shape, ShapeOf, Present
  <2>6. DataPresent' /\ DiskAgrees'
    BY <2>1, Zenon DEF IInv, DataPresent, DiskAgrees, Present
  <2> QED
    BY <2>2, <2>3, <2>4, <2>5, <2>6 DEF IInv
<1>2. CASE Next
  BY <1>2, GetStep, RegisterStep, CreateStep, ApplyStep, CleanupStep, ReleaseStep, ReleaseLayerStep,
     DriverRemoveStep, StoreRemoveStep, CommitStep, CreateRWLayerStep, MakeMountStep, SaveMountStep,
     GetRWLayerStep, ReleaseRWLayerStep, RestartStep, SMTT(60) DEF Next
<1> QED
  BY <1>1, <1>2, Zenon

-----------------------------------------------------------------------------
(* Theorems *)

\* The inductive invariant holds in every reachable state of the layer store,
\* for any chain of layers, number of operations, failures and restarts.
THEOREM LayerInvariant == Spec => []IInv
  BY InitIInv, NextIInv, PTL DEF Spec

\* Every field of the store, of its operations and of the disk keeps its range;
\* in particular the count of references never goes below zero
\* (layer_store.go: releaseLayer's check; ro_layer.go).
THEOREM LayerTypeOK == Spec => []TypeOK
<1>1. IInv => TypeOK
  BY DEF IInv
<1> QED
  BY <1>1, LayerInvariant, PTL

\* Every present layer's referenceCount is exactly the number of children,
\* mounts, references and operations in progress that rely on it
\* (layer_store.go: getWithoutLock, releaseLayer, loadLayer, loadMount).
THEOREM LayerCountExact == Spec => []CountExact
<1>1. IInv => CountExact
  BY DEF IInv
<1> QED
  BY <1>1, LayerInvariant, PTL

\* Every present layer has its data, in a directory no other layer has, and
\* its parent is present; but for one whose deletion stopped half way
\* (layer_store.go: registerWithDescriptor's clean-up, deleteLayer).
THEOREM LayerDataPresent == Spec => []DataPresent
<1>1. IInv => DataPresent
  BY DEF IInv
<1> QED
  BY <1>1, LayerInvariant, PTL

\* A daemon that dies at any point loads the layers and the mounts it had
\* (layer_store.go: NewStoreFromGraphDriver; filestore.go).
THEOREM LayerDiskAgrees == Spec => []DiskAgrees
<1>1. IInv => DiskAgrees
  BY DEF IInv
<1> QED
  BY <1>1, LayerInvariant, PTL

\* The promises of the layer store together (layer_store.go).
THEOREM LayerSafe == Spec => []LayersSafe
  BY LayerCountExact, LayerDataPresent, LayerDiskAgrees, PTL DEF LayersSafe
=============================================================================
