---------------------------- MODULE LayerCounting ----------------------------
(***************************************************************************)
(* The inductive invariant of LayerStore, and how each kind of step keeps   *)
(* the reference counts exact.                                             *)
(***************************************************************************)
EXTENDS LayerStore, FiniteSetTheorems, TLAPS

\* What an operation has in hand at each of its steps.
Building == {"apply", "commit", "cleanup"}
ShapeOf(p) ==
  /\ pc[p] \in {"idle", "remove", "forget"} => hold[p] = NoLayer
  /\ pc[p] = "release" => hold[p] # NoLayer
  /\ pc[p] \in Building \cup {"create"} => layer[p] \in ChainID /\ hold[p] = Parent[layer[p]]
  /\ pc[p] \in {"remove", "forget"} =>
       layerL = p /\ layer[p] \in ChainID /\ Present(layer[p]) /\ referenceCount[layer[p]] = 0
  /\ pc[p] \in {"mount", "mountParent"} => name[p] \in Name
Shape == \A p \in Proc : ShapeOf(p)

\* A directory being filled is its registration's alone.
OwnCache ==
  \A p \in Proc : pc[p] \in Building =>
    /\ cache[p] \in driver
    /\ \A l \in ChainID : cacheID[l] # cache[p]
    /\ \A q \in Proc \ {p} : pc[q] \in Building => cache[q] # cache[p]

\* Mounts: the operation that makes one has mountL; references are to mounts
\* that exist; a parent on disk is a parent in memory.
MountsOK ==
  /\ \A p \in Proc : pc[p] \in {"mount", "mountParent"} => mountL = p /\ mounts[name[p]] = None
  /\ \A w \in RW : rwReferences[w] # None => mounts[rwReferences[w]] # None
  /\ \A n \in Name : mountDB[n] \in ChainID => mounts[n] = mountDB[n]

\* The inductive invariant: that a parent is present when its child is
\* committed follows from the count its registration holds.
IInv ==
  /\ TypeOK
  /\ Shape
  /\ OwnCache
  /\ MountsOK
  /\ CountExact
  /\ DataPresent
  /\ DiskAgrees

-----------------------------------------------------------------------------
(* Counting *)

\* Two finite sets that differ in y at most.
LEMMA DifferInOne ==
  ASSUME NEW A, IsFiniteSet(A), NEW B, NEW y, A \ {y} = B \ {y}
  PROVE  /\ IsFiniteSet(B)
         /\ Cardinality(A) \in Nat
         /\ Cardinality(B) \in Nat
         /\ y \notin A /\ y \in B => Cardinality(B) = Cardinality(A) + 1
         /\ y \in A /\ y \notin B => Cardinality(A) = Cardinality(B) + 1
         /\ (y \in A <=> y \in B) => Cardinality(A) = Cardinality(B)
<1>1. B \subseteq A \cup {y}
  OBVIOUS
<1>2. IsFiniteSet(B) /\ Cardinality(A) \in Nat /\ Cardinality(B) \in Nat
  <2>1. IsFiniteSet(A \cup {y})
    BY FS_AddElement
  <2> QED
    BY <1>1, <2>1, FS_Subset, FS_CardinalityType
<1>3. ASSUME y \notin A, y \in B PROVE Cardinality(B) = Cardinality(A) + 1
  <2>1. B = A \cup {y}
    BY <1>3
  <2> QED
    BY <1>3, <2>1, FS_AddElement
<1>4. ASSUME y \in A, y \notin B PROVE Cardinality(A) = Cardinality(B) + 1
  <2>1. A = B \cup {y}
    BY <1>4
  <2> QED
    BY <1>2, <1>4, <2>1, FS_AddElement
<1>5. ASSUME y \in A <=> y \in B PROVE Cardinality(A) = Cardinality(B)
  <2>1. A = B
    BY <1>5
  <2> QED
    BY <2>1
<1> QED
  BY <1>2, <1>3, <1>4, <1>5

\* What is counted is finite.
LEMMA CountedFinite ==
  ASSUME TypeOK, NEW l \in ChainID
  PROVE  /\ IsFiniteSet(Children(l)) /\ IsFiniteSet(Users(mounts, l))
         /\ IsFiniteSet(Users(references, l)) /\ IsFiniteSet(Users(hold, l))
<1>1. /\ Children(l) \subseteq ChainID /\ Users(mounts, l) \subseteq Name
      /\ Users(references, l) \subseteq Handle /\ Users(hold, l) \subseteq Proc
  BY DEF Children, Users, TypeOK
<1> QED
  BY <1>1, FS_Subset, LayerAssumption

\* The users of a layer when an entry of hold, references or mounts changes.
LEMMA HoldUpdate ==
  ASSUME TypeOK, NEW p \in Proc, NEW v, hold' = [hold EXCEPT ![p] = v], NEW l \in ChainID
  PROVE  /\ Cardinality(Users(hold', l)) \in Nat
         /\ hold[p] # l /\ v = l => Cardinality(Users(hold', l)) = Cardinality(Users(hold, l)) + 1
         /\ hold[p] = l /\ v # l => Cardinality(Users(hold, l)) = Cardinality(Users(hold', l)) + 1
         /\ (hold[p] = l <=> v = l) => Cardinality(Users(hold, l)) = Cardinality(Users(hold', l))
<1>1. /\ Users(hold, l) \ {p} = Users(hold', l) \ {p}
      /\ p \in Users(hold, l) <=> hold[p] = l
      /\ p \in Users(hold', l) <=> v = l
  BY DEF Users, TypeOK
<1>2. IsFiniteSet(Users(hold, l))
  BY CountedFinite
<1> QED
  BY <1>1, <1>2, DifferInOne, Zenon

\* Handing out or dropping one reference changes a layer's count of
\* references by one.
LEMMA ReferencesUpdate ==
  ASSUME TypeOK, NEW h \in Handle, NEW v, references' = [references EXCEPT ![h] = v], NEW l \in ChainID
  PROVE  /\ Cardinality(Users(references', l)) \in Nat
         /\ references[h] # l /\ v = l => Cardinality(Users(references', l)) = Cardinality(Users(references, l)) + 1
         /\ references[h] = l /\ v # l => Cardinality(Users(references, l)) = Cardinality(Users(references', l)) + 1
         /\ (references[h] = l <=> v = l) => Cardinality(Users(references, l)) = Cardinality(Users(references', l))
<1>1. /\ Users(references, l) \ {h} = Users(references', l) \ {h}
      /\ h \in Users(references, l) <=> references[h] = l
      /\ h \in Users(references', l) <=> v = l
  BY DEF Users, TypeOK
<1>2. IsFiniteSet(Users(references, l))
  BY CountedFinite
<1> QED
  BY <1>1, <1>2, DifferInOne, Zenon

\* Adding or removing one mount changes a layer's count of mounts by one.
LEMMA MountsUpdate ==
  ASSUME TypeOK, NEW n \in Name, NEW v, mounts' = [mounts EXCEPT ![n] = v], NEW l \in ChainID
  PROVE  /\ Cardinality(Users(mounts', l)) \in Nat
         /\ mounts[n] # l /\ v = l => Cardinality(Users(mounts', l)) = Cardinality(Users(mounts, l)) + 1
         /\ mounts[n] = l /\ v # l => Cardinality(Users(mounts, l)) = Cardinality(Users(mounts', l)) + 1
         /\ (mounts[n] = l <=> v = l) => Cardinality(Users(mounts, l)) = Cardinality(Users(mounts', l))
<1>1. /\ Users(mounts, l) \ {n} = Users(mounts', l) \ {n}
      /\ n \in Users(mounts, l) <=> mounts[n] = l
      /\ n \in Users(mounts', l) <=> v = l
  BY DEF Users, TypeOK
<1>2. IsFiniteSet(Users(mounts, l))
  BY CountedFinite
<1> QED
  BY <1>1, <1>2, DifferInOne, Zenon

\* The counts are numbers.
LEMMA CountsNat ==
  ASSUME TypeOK, NEW l \in ChainID
  PROVE  /\ Cardinality(Children(l)) \in Nat
         /\ Cardinality(Users(mounts, l)) \in Nat
         /\ Cardinality(Users(references, l)) \in Nat
         /\ Cardinality(Users(hold, l)) \in Nat
  BY CountedFinite, FS_CardinalityType

\* What relies on a layer keeps it present with a positive count.
LEMMA ReliedOn ==
  ASSUME TypeOK, CountExact, NEW l \in ChainID
  PROVE  /\ \A p \in Proc : hold[p] = l => Present(l) /\ referenceCount[l] > 0
         /\ \A n \in Name : mounts[n] = l => Present(l) /\ referenceCount[l] > 0
         /\ \A c \in ChainID : Present(c) /\ Parent[c] = l => Present(l) /\ referenceCount[l] > 0
<1>1. /\ IsFiniteSet(Children(l)) /\ IsFiniteSet(Users(mounts, l))
      /\ IsFiniteSet(Users(references, l)) /\ IsFiniteSet(Users(hold, l))
  BY CountedFinite
<1>2. \A p \in Proc : hold[p] = l => p \in Users(hold, l)
  BY DEF Users, TypeOK
<1>3. \A n \in Name : mounts[n] = l => n \in Users(mounts, l)
  BY DEF Users, TypeOK
<1>4. \A c \in ChainID : Present(c) /\ Parent[c] = l => c \in Children(l)
  BY DEF Children
<1>5. /\ Cardinality(Children(l)) \in Nat
      /\ Cardinality(Users(mounts, l)) \in Nat
      /\ Cardinality(Users(references, l)) \in Nat
      /\ Cardinality(Users(hold, l)) \in Nat
  BY CountsNat
<1>6. /\ Users(hold, l) # {} => Cardinality(Users(hold, l)) # 0
      /\ Users(mounts, l) # {} => Cardinality(Users(mounts, l)) # 0
      /\ Children(l) # {} => Cardinality(Children(l)) # 0
  BY <1>1, FS_EmptySet
<1>7. /\ Relying(l) = Cardinality(Children(l)) + Cardinality(Users(mounts, l))
                        + Cardinality(Users(references, l)) + Cardinality(Users(hold, l))
      /\ Relying(l) = IF Present(l) THEN referenceCount[l] ELSE 0
  BY DEF Relying, CountExact
<1>8. Relying(l) # 0 => Present(l) /\ referenceCount[l] > 0
  BY <1>7 DEF TypeOK
<1> QED
  BY <1>2, <1>3, <1>4, <1>5, <1>6, <1>7, <1>8

\* A layer that nobody relies on is no present layer's parent: deleteLayer
\* leaves no orphan.
LEMMA Childless ==
  ASSUME TypeOK, CountExact, NEW m \in ChainID, referenceCount[m] = 0
  PROVE  \A c \in ChainID : Present(c) => Parent[c] # m
<1>1. \A c \in ChainID : Present(c) /\ Parent[c] = m => referenceCount[m] > 0
  BY ReliedOn
<1> QED
  BY <1>1

\* CountExact, part by part, now and in the next state.
LEMMA CountNow ==
  ASSUME CountExact, NEW l \in ChainID
  PROVE  Cardinality(Children(l)) + Cardinality(Users(mounts, l))
           + Cardinality(Users(references, l)) + Cardinality(Users(hold, l))
         = IF Present(l) THEN referenceCount[l] ELSE 0
  BY DEF CountExact, Relying

\* CountExact in the next state, from its four parts.
LEMMA CountNext ==
  ASSUME \A l \in ChainID :
           Cardinality(Children(l)') + Cardinality(Users(mounts', l))
             + Cardinality(Users(references', l)) + Cardinality(Users(hold', l))
           = IF Present(l)' THEN referenceCount'[l] ELSE 0
  PROVE  CountExact'
  BY DEF CountExact, Relying, Users


\* A step changes the users of l and its count by the same amount.
Balanced(l) ==
  /\ Cardinality(Users(mounts', l)) \in Nat
  /\ Cardinality(Users(references', l)) \in Nat
  /\ Cardinality(Users(hold', l)) \in Nat
  /\ referenceCount'[l] \in Nat
  /\ Cardinality(Users(mounts', l)) + Cardinality(Users(references', l))
       + Cardinality(Users(hold', l)) + (IF Present(l) THEN referenceCount[l] ELSE 0)
     = Cardinality(Users(mounts, l)) + Cardinality(Users(references, l))
         + Cardinality(Users(hold, l)) + (IF Present(l) THEN referenceCount'[l] ELSE 0)

\* That is enough in a step that neither adds nor removes a layer.
LEMMA CountMoves ==
  ASSUME TypeOK, CountExact, cacheID' = cacheID, \A l \in ChainID : Balanced(l)
  PROVE  CountExact'
<1> SUFFICES ASSUME NEW l \in ChainID
             PROVE  Cardinality(Children(l)') + Cardinality(Users(mounts', l))
                      + Cardinality(Users(references', l)) + Cardinality(Users(hold', l))
                    = IF Present(l)' THEN referenceCount'[l] ELSE 0
  BY CountNext
<1>1. Children(l)' = Children(l) /\ (Present(l)' <=> Present(l))
  BY DEF Children, Present
<1>2. referenceCount[l] \in Nat
  BY DEF TypeOK
<1> QED
  BY <1>1, <1>2, CountNow, CountsNat DEF Balanced

\* A step that is none of the counts' business.
LEMMA CountUnchanged ==
  ASSUME TypeOK, CountExact,
         cacheID' = cacheID, mounts' = mounts, references' = references, referenceCount' = referenceCount,
         \/ hold' = hold
         \/ \E p \in Proc : hold[p] = NoLayer /\ hold' = [hold EXCEPT ![p] = NoLayer]
  PROVE  CountExact'
<1>1. hold' = hold
  BY DEF TypeOK
<1>2. \A l \in ChainID : referenceCount[l] \in Nat
  BY DEF TypeOK
<1>3. \A l \in ChainID : Balanced(l)
  BY <1>1, <1>2, CountsNat DEF Balanced
<1> QED
  BY <1>3, CountMoves

\* One more user, by a reference or by an operation, and the count says so.
LEMMA CountRetainReference ==
  ASSUME TypeOK, CountExact, NEW m \in ChainID, NEW h \in Handle,
         cacheID' = cacheID, mounts' = mounts, hold' = hold,
         Present(m), Retain(m), references[h] = None, references' = [references EXCEPT ![h] = m]
  PROVE  CountExact'
<1> SUFFICES ASSUME NEW l \in ChainID PROVE Balanced(l)
  BY CountMoves
<1>1. /\ referenceCount[l] \in Nat
      /\ l = m => referenceCount'[l] = referenceCount[l] + 1
      /\ l # m => referenceCount'[l] = referenceCount[l]
      /\ references[h] # l
  BY LayerAssumption DEF Retain, TypeOK
<1>2. /\ Cardinality(Users(references', l)) \in Nat
      /\ m = l => Cardinality(Users(references', l)) = Cardinality(Users(references, l)) + 1
      /\ m # l => Cardinality(Users(references, l)) = Cardinality(Users(references', l))
  BY <1>1, ReferencesUpdate, ZenonT(60)
<1> QED
  BY <1>1, <1>2, CountsNat DEF Balanced

\* Retaining a layer for an operation (registerWithDescriptor's and
\* CreateRWLayer's lookup of the parent) keeps the counts exact.
LEMMA CountRetainHold ==
  ASSUME TypeOK, CountExact, NEW m \in ChainID, NEW p \in Proc,
         cacheID' = cacheID, mounts' = mounts, references' = references,
         Present(m), Retain(m), hold[p] = NoLayer, hold' = [hold EXCEPT ![p] = m]
  PROVE  CountExact'
<1> SUFFICES ASSUME NEW l \in ChainID PROVE Balanced(l)
  BY CountMoves
<1>1. /\ referenceCount[l] \in Nat
      /\ l = m => referenceCount'[l] = referenceCount[l] + 1
      /\ l # m => referenceCount'[l] = referenceCount[l]
      /\ hold[p] # l
  BY LayerAssumption DEF Retain, TypeOK
<1>2. /\ Cardinality(Users(hold', l)) \in Nat
      /\ m = l => Cardinality(Users(hold', l)) = Cardinality(Users(hold, l)) + 1
      /\ m # l => Cardinality(Users(hold, l)) = Cardinality(Users(hold', l))
  BY <1>1, HoldUpdate, ZenonT(60)
<1> QED
  BY <1>1, <1>2, CountsNat DEF Balanced

\* One user less: the operation that holds the layer gives its count back.
LEMMA CountGivenBack ==
  ASSUME TypeOK, CountExact, NEW p \in Proc, NEW m \in ChainID,
         cacheID' = cacheID, mounts' = mounts, references' = references,
         hold[p] = m, hold' = [hold EXCEPT ![p] = NoLayer],
         referenceCount' = [referenceCount EXCEPT ![m] = @ - 1]
  PROVE  CountExact'
<1> SUFFICES ASSUME NEW l \in ChainID PROVE Balanced(l)
  BY CountMoves
<1>1. Present(m) /\ referenceCount[m] > 0
  BY ReliedOn
<1>2. /\ referenceCount[l] \in Nat /\ referenceCount'[l] \in Nat
      /\ l = m => referenceCount[l] = referenceCount'[l] + 1
      /\ l # m => referenceCount'[l] = referenceCount[l]
      /\ NoLayer # l
  BY <1>1, LayerAssumption DEF TypeOK
<1>3. /\ Cardinality(Users(hold', l)) \in Nat
      /\ m = l => Cardinality(Users(hold, l)) = Cardinality(Users(hold', l)) + 1
      /\ m # l => Cardinality(Users(hold, l)) = Cardinality(Users(hold', l))
  BY <1>2, HoldUpdate, ZenonT(60)
<1> QED
  BY <1>1, <1>2, <1>3, CountsNat DEF Balanced

\* A count passes from a reference or a mount to the operation that removes
\* it, and from the operation that makes a mount to the mount.
LEMMA CountReferenceToHold ==
  ASSUME TypeOK, CountExact, NEW p \in Proc, NEW h \in Handle, NEW m \in ChainID,
         cacheID' = cacheID, mounts' = mounts, referenceCount' = referenceCount,
         hold[p] = NoLayer, hold' = [hold EXCEPT ![p] = m],
         references[h] = m, references' = [references EXCEPT ![h] = None]
  PROVE  CountExact'
<1> SUFFICES ASSUME NEW l \in ChainID PROVE Balanced(l)
  BY CountMoves
<1>1. referenceCount[l] \in Nat /\ NoLayer # l /\ None # l
  BY LayerAssumption DEF TypeOK
<1>2. /\ Cardinality(Users(hold', l)) \in Nat
      /\ m = l => Cardinality(Users(hold', l)) = Cardinality(Users(hold, l)) + 1
      /\ m # l => Cardinality(Users(hold, l)) = Cardinality(Users(hold', l))
  BY <1>1, HoldUpdate, ZenonT(60)
<1>3. /\ Cardinality(Users(references', l)) \in Nat
      /\ m = l => Cardinality(Users(references, l)) = Cardinality(Users(references', l)) + 1
      /\ m # l => Cardinality(Users(references, l)) = Cardinality(Users(references', l))
  BY <1>1, ReferencesUpdate, ZenonT(60)
<1> QED
  BY <1>1, <1>2, <1>3, CountsNat DEF Balanced

\* ReleaseRWLayer passes the mount's count to the operation that releases it.
LEMMA CountMountToHold ==
  ASSUME TypeOK, CountExact, NEW p \in Proc, NEW n \in Name, NEW m,
         cacheID' = cacheID, references' = references, referenceCount' = referenceCount,
         hold[p] = NoLayer, hold' = [hold EXCEPT ![p] = m],
         mounts[n] = m, mounts' = [mounts EXCEPT ![n] = None]
  PROVE  CountExact'
<1> SUFFICES ASSUME NEW l \in ChainID PROVE Balanced(l)
  BY CountMoves
<1>1. referenceCount[l] \in Nat /\ NoLayer # l /\ None # l
  BY LayerAssumption DEF TypeOK
<1>2. /\ Cardinality(Users(hold', l)) \in Nat
      /\ m = l => Cardinality(Users(hold', l)) = Cardinality(Users(hold, l)) + 1
      /\ m # l => Cardinality(Users(hold, l)) = Cardinality(Users(hold', l))
  BY <1>1, HoldUpdate, ZenonT(60)
<1>3. /\ Cardinality(Users(mounts', l)) \in Nat
      /\ m = l => Cardinality(Users(mounts, l)) = Cardinality(Users(mounts', l)) + 1
      /\ m # l => Cardinality(Users(mounts, l)) = Cardinality(Users(mounts', l))
  BY <1>1, MountsUpdate, Zenon
<1> QED
  BY <1>1, <1>2, <1>3, CountsNat DEF Balanced

\* saveMount passes the operation's count to the mount.
LEMMA CountHoldToMount ==
  ASSUME TypeOK, CountExact, NEW p \in Proc, NEW n \in Name, NEW m,
         cacheID' = cacheID, references' = references, referenceCount' = referenceCount,
         hold[p] = m, hold' = [hold EXCEPT ![p] = NoLayer],
         mounts[n] = None, mounts' = [mounts EXCEPT ![n] = m]
  PROVE  CountExact'
<1> SUFFICES ASSUME NEW l \in ChainID PROVE Balanced(l)
  BY CountMoves
<1>1. referenceCount[l] \in Nat /\ NoLayer # l /\ None # l
  BY LayerAssumption DEF TypeOK
<1>2. /\ Cardinality(Users(hold', l)) \in Nat
      /\ m = l => Cardinality(Users(hold, l)) = Cardinality(Users(hold', l)) + 1
      /\ m # l => Cardinality(Users(hold, l)) = Cardinality(Users(hold', l))
  BY <1>1, HoldUpdate, ZenonT(60)
<1>3. /\ Cardinality(Users(mounts', l)) \in Nat
      /\ m = l => Cardinality(Users(mounts', l)) = Cardinality(Users(mounts, l)) + 1
      /\ m # l => Cardinality(Users(mounts, l)) = Cardinality(Users(mounts', l))
  BY <1>1, MountsUpdate, Zenon
<1> QED
  BY <1>1, <1>2, <1>3, CountsNat DEF Balanced

\* The users of a layer when an operation lets go of what it holds.
LEMMA HoldDropped ==
  ASSUME TypeOK, NEW p \in Proc, hold' = [hold EXCEPT ![p] = NoLayer], NEW l \in ChainID
  PROVE  /\ Cardinality(Users(hold', l)) \in Nat
         /\ hold[p] = l => Cardinality(Users(hold, l)) = Cardinality(Users(hold', l)) + 1
         /\ hold[p] # l => Cardinality(Users(hold, l)) = Cardinality(Users(hold', l))
<1>1. NoLayer # l
  BY LayerAssumption
<1> QED
  BY <1>1, HoldUpdate, ZenonT(60)

\* A layer appears: the count its registration held on the parent is now its
\* own, and one reference to it is handed out.
LEMMA CountNewLayer ==
  ASSUME TypeOK, CountExact, NEW p \in Proc, NEW h \in Handle, NEW m \in ChainID, NEW c \in CacheID,
         ~Present(m), hold[p] = Parent[m], references[h] = None,
         cacheID' = [cacheID EXCEPT ![m] = c], mounts' = mounts,
         referenceCount' = [referenceCount EXCEPT ![m] = 1],
         references' = [references EXCEPT ![h] = m], hold' = [hold EXCEPT ![p] = NoLayer]
  PROVE  CountExact'
<1> SUFFICES ASSUME NEW l \in ChainID
             PROVE  Cardinality(Children(l)') + Cardinality(Users(mounts', l))
                      + Cardinality(Users(references', l)) + Cardinality(Users(hold', l))
                    = IF Present(l)' THEN referenceCount'[l] ELSE 0
  BY CountNext, Zenon
<1>1. /\ referenceCount[l] \in Nat /\ NoLayer # l /\ None # l /\ c # None
      /\ l = m => Present(l)' /\ referenceCount'[l] = 1
      /\ l # m => (Present(l)' <=> Present(l)) /\ referenceCount'[l] = referenceCount[l]
  BY LayerAssumption DEF TypeOK, Present
<1>2. hold[p] # m
  BY ReliedOn
<1>3. /\ Cardinality(Users(hold', l)) \in Nat
      /\ hold[p] = l => Cardinality(Users(hold, l)) = Cardinality(Users(hold', l)) + 1
      /\ hold[p] # l => Cardinality(Users(hold, l)) = Cardinality(Users(hold', l))
  BY HoldDropped, Zenon
<1>4. /\ Cardinality(Users(references', l)) \in Nat
      /\ m = l => Cardinality(Users(references', l)) = Cardinality(Users(references, l)) + 1
      /\ m # l => Cardinality(Users(references, l)) = Cardinality(Users(references', l))
  BY <1>1, ReferencesUpdate, ZenonT(60)
<1>5. /\ Cardinality(Children(l)') \in Nat
      /\ hold[p] = l => Cardinality(Children(l)') = Cardinality(Children(l)) + 1
      /\ hold[p] # l => Cardinality(Children(l)) = Cardinality(Children(l)')
  <2>1. /\ Children(l) \ {m} = Children(l)' \ {m}
        /\ m \notin Children(l)
        /\ m \in Children(l)' <=> hold[p] = l
    BY <1>1 DEF Children, Present, TypeOK
  <2> QED
    BY <2>1, CountedFinite, DifferInOne
<1>6. Cardinality(Children(l)) + Cardinality(Users(mounts, l))
        + Cardinality(Users(references, l)) + Cardinality(Users(hold, l))
      = IF Present(l) THEN referenceCount[l] ELSE 0
  BY CountNow
<1>7. CASE l = m
  BY <1>1, <1>2, <1>3, <1>4, <1>5, <1>6, <1>7, CountsNat
<1>8. CASE l # m
  BY <1>1, <1>3, <1>4, <1>5, <1>6, <1>8, CountsNat
<1> QED
  BY <1>7, <1>8

\* A layer that nothing relies on disappears: the operation that removes it
\* holds what its count on the parent stood for.
LEMMA CountOldLayer ==
  ASSUME TypeOK, CountExact, NEW p \in Proc, NEW m \in ChainID, NEW v, v = Parent[m],
         Present(m), referenceCount[m] = 0, hold[p] = NoLayer,
         cacheID' = [cacheID EXCEPT ![m] = None], mounts' = mounts,
         referenceCount' = referenceCount, references' = references,
         hold' = [hold EXCEPT ![p] = v]
  PROVE  CountExact'
<1> SUFFICES ASSUME NEW l \in ChainID
             PROVE  Cardinality(Children(l)') + Cardinality(Users(mounts', l))
                      + Cardinality(Users(references', l)) + Cardinality(Users(hold', l))
                    = IF Present(l)' THEN referenceCount'[l] ELSE 0
  BY CountNext, Zenon
<1>1. /\ referenceCount[l] \in Nat /\ NoLayer # l
      /\ l = m => ~Present(l)'
      /\ l # m => (Present(l)' <=> Present(l))
  BY LayerAssumption DEF TypeOK, Present
<1>2. Parent[m] # m
  BY ReliedOn DEF TypeOK
<1>3. /\ Cardinality(Users(hold', l)) \in Nat
      /\ v = l => Cardinality(Users(hold', l)) = Cardinality(Users(hold, l)) + 1
      /\ v # l => Cardinality(Users(hold, l)) = Cardinality(Users(hold', l))
  BY <1>1, HoldUpdate, ZenonT(60)
<1>4. /\ Cardinality(Children(l)') \in Nat
      /\ Parent[m] = l => Cardinality(Children(l)) = Cardinality(Children(l)') + 1
      /\ Parent[m] # l => Cardinality(Children(l)) = Cardinality(Children(l)')
  <2>1. /\ Children(l) \ {m} = Children(l)' \ {m}
        /\ m \in Children(l) <=> Parent[m] = l
        /\ m \notin Children(l)'
    BY <1>1 DEF Children, Present, TypeOK
  <2> QED
    BY <2>1, CountedFinite, DifferInOne
<1>5. Cardinality(Children(l)) + Cardinality(Users(mounts, l))
        + Cardinality(Users(references, l)) + Cardinality(Users(hold, l))
      = IF Present(l) THEN referenceCount[l] ELSE 0
  BY CountNow
<1>6. CASE l = m
  BY <1>1, <1>2, <1>3, <1>4, <1>5, <1>6, CountsNat
<1>7. CASE l # m
  BY <1>1, <1>3, <1>4, <1>5, <1>7, CountsNat
<1> QED
  BY <1>6, <1>7

\* What is loaded is counted: child layers and mounts, and nothing else is left.
LEMMA CountRestart ==
  ASSUME IInv, Restart
  PROVE  CountExact'
<1> USE DEF IInv
<1> SUFFICES ASSUME NEW l \in ChainID
             PROVE  Cardinality(Children(l)') + Cardinality(Users(mounts', l))
                      + Cardinality(Users(references', l)) + Cardinality(Users(hold', l))
                    = IF Present(l)' THEN referenceCount'[l] ELSE 0
  BY CountNext
<1>1. /\ cacheID' = cacheID /\ layerDB = cacheID
      /\ Present(l)' <=> Present(l)
      /\ l \in Loaded <=> Present(l)
  BY DEF Restart, DiskAgrees, Present, Loaded
<1>2. Children(l)' = Children(l) /\ {c \in Loaded : Parent[c] = l} = Children(l)
  BY <1>1 DEF Children, Present, Loaded
<1>3. Users(references', l) = {} /\ Users(hold', l) = {}
  BY LayerAssumption DEF Restart, Users
<1>4. /\ Users(mounts', l) = Users(mounts, l)
      /\ {n \in LoadedMounts : mountDB[n] = l} = Users(mounts, l)
  <2>1. \A n \in Name : mountDB[n] = l <=> mounts[n] = l
    BY LayerAssumption DEF MountsOK, DiskAgrees, TypeOK
  <2> QED
    BY <2>1, LayerAssumption DEF Restart, Users, LoadedMounts, TypeOK
<1>5. Cardinality(Users(references', l)) = 0 /\ Cardinality(Users(hold', l)) = 0
  BY <1>3, FS_EmptySet
<1>6. referenceCount'[l] = IF Present(l) THEN Cardinality(Children(l)) + Cardinality(Users(mounts, l)) ELSE 0
  BY <1>1, <1>2, <1>4 DEF Restart, RestoredCount
<1>7. ~Present(l) => Cardinality(Children(l)) = 0 /\ Cardinality(Users(mounts, l)) = 0
  BY CountNow, CountsNat
<1> QED
  BY <1>1, <1>2, <1>4, <1>5, <1>6, <1>7, CountsNat
=============================================================================
