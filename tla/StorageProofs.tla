--------------------------- MODULE StorageProofs ----------------------------
(***************************************************************************)
(* Volumes, networks and images, each for any value of its parameters.  The *)
(* parts share no state; each of the theorems is about one of them, but for *)
(* the last, which puts together what no step does.                        *)
(***************************************************************************)
EXTENDS Storage, TLAPS

-----------------------------------------------------------------------------
(* volume/store and the mount points: volumes that are referred to exist,  *)
(* and running containers refer to the volumes they have mounted.  A step  *)
(* changes the store (StoreStep) and one container (OthersKept);           *)
(* VolCombine puts the two together.                                       *)

\* Where a container's request is, and what the request works on.
VolShape(c) ==
  /\ pc[c] \in {"from", "binds", "refrom", "rebinds"} => conf[c] \in HostConfig
  /\ pc[c] \in {"from", "refrom"} /\ todo[c] # {} => conf[c].from \in Container
  /\ pc[c] \in {"binds", "rebinds"} => todo[c] \subseteq Mounts(conf[c].binds)
  /\ pc[c] \in {"undo", "removing", "purging", "starting"} => todo[c] \subseteq Mounts(mounts[c])
  /\ doomed[c] # None => pc[c] \in {"undo", "purging"} /\ doomed[c] \in Mounts(mounts[c])

VolShapes == TypeOK /\ ReferencedExists /\ \A c \in Container : VolShape(c)

\* Without a second registration of its mount points a container refers to
\* the volume of every point that has one.
VolRefs(c) ==
  /\ pc[c] \notin {"refrom", "rebinds"}
  /\ pc[c] \in {"none", "from", "binds"} => mounts[c] = NoMounts
  /\ pc[c] \in {"from", "binds"} =>
       \A d \in Mounts(pending[c]) : pending[c][d].volume => c \in refs[pending[c][d].name]
  /\ pc[c] \in {"anon", "created", "starting", "running"} =>
       \A d \in Mounts(mounts[c]) : mounts[c][d].volume => c \in refs[mounts[c][d].name]
  /\ pc[c] = "starting" => \A d \in Mounts(mounts[c]) : d \in todo[c] \/ mounts[c][d].volume
  /\ pc[c] = "running" => \A d \in Mounts(mounts[c]) : mounts[c][d].volume

VolInv == VolShapes /\ \A c \in Container : VolRefs(c)

-----------------------------------------------------------------------------
(* The store's operations *)

\* The types in groups.
VolStoreTypes ==
  /\ volumes \in [Driver -> SUBSET Name]
  /\ names \in [Name -> Driver \cup {None}]
  /\ refs \in [Name -> SUBSET Container]
  /\ active \in [Volume -> Int]
  /\ mounted \in SUBSET Volume
VolPointTypes ==
  /\ mounts \in [Container -> [Dest -> MountPoint \cup {None}]]
  /\ pending \in [Container -> [Dest -> MountPoint \cup {None}]]
VolRequestTypes ==
  /\ conf \in [Container -> HostConfig \cup {None}]
  /\ todo \in [Container -> SUBSET Dest]
  /\ pc \in [Container -> {"none", "from", "binds", "anon", "undo", "created", "refrom", "rebinds", "starting",
                           "running", "removing", "purging", "gone"}]
  /\ doomed \in [Container -> Dest \cup {None}]
  /\ held \in [Caller -> Volume \cup {None}]
VolCountTypes == restarts \in 0..MaxRestarts /\ starts \in 0..MaxStarts

\* The type invariant is the four groups.
LEMMA VolTypes == TypeOK <=> VolStoreTypes /\ VolPointTypes /\ VolRequestTypes /\ VolCountTypes
BY DEF TypeOK, VolStoreTypes, VolPointTypes, VolRequestTypes, VolCountTypes

\* A volume that something refers to stays.
VolumesKept == \A n \in Name, d \in Driver : n \in volumes[d] /\ refs[n] # {} => n \in volumes'[d]

\* What every step does to the store: only references of the containers in R go.
StoreStep(R) ==
  /\ VolStoreTypes'
  /\ ReferencedExists'
  /\ \A n \in Name : refs[n] \ R \subseteq refs'[n]
  /\ VolumesKept

\* A volume is created in a driver.
LEMMA VolCreateDrivers ==
  ASSUME VolParameters, TypeOK, NEW n \in Name, NEW d \in Driver \cup {None}
  PROVE  CreateDrivers(n, d) \subseteq Driver
BY DEF VolParameters, TypeOK, CreateDrivers

\* CreateWithRef: the volume exists and the reference is kept.
LEMMA CreateWithRefStore ==
  ASSUME VolParameters, VolShapes, NEW n \in Name, NEW d, NEW ref \in SUBSET Container,
         CreateWithRef(n, d, ref)
  PROVE  d \in Driver /\ StoreStep({}) /\ ref \subseteq refs'[n]
<1>1. VolStoreTypes /\ ReferencedExists /\ d \in Driver
  BY Zenon, VolTypes DEF VolShapes, CreateWithRef
<1>2. names' = [names EXCEPT ![n] = d] /\ refs' = [refs EXCEPT ![n] = @ \cup (ref \ {None})] /\ volumes' = [volumes EXCEPT ![d] = @ \cup {n}]
  BY DEF CreateWithRef, setNamed, RootCreate
<1>3. None \notin ref
  BY DEF VolParameters
<1>4. active' \in [Volume -> Int] /\ mounted' \in SUBSET Volume
  <2>1. CASE n \in volumes[d]
    BY <2>1, <1>1 DEF CreateWithRef, RootCreate, VolStoreTypes
  <2>2. CASE n \notin volumes[d]
    BY <2>2, <1>1 DEF CreateWithRef, RootCreate, VolStoreTypes
  <2>3. QED
    BY <2>1, <2>2
<1>5. VolStoreTypes'
  BY <1>1, <1>2, <1>4 DEF VolStoreTypes
<1>6. ReferencedExists'
  <2> SUFFICES ASSUME NEW k \in Name, refs'[k] # {} PROVE \E e \in Driver : k \in volumes'[e]
    BY DEF ReferencedExists
  <2>1. CASE k = n
    <3>1. n \in volumes'[d]
      BY <1>1, <1>2 DEF VolStoreTypes
    <3>2. QED
      BY <3>1, <2>1, <1>1
  <2>2. CASE k # n
    <3>1. refs'[k] = refs[k]
      BY <2>2, <1>2, <1>1 DEF VolStoreTypes
    <3>2. PICK e \in Driver : k \in volumes[e]
      BY <3>1, <1>1 DEF ReferencedExists
    <3>3. k \in volumes'[e]
      BY <3>2, <1>2, <1>1 DEF VolStoreTypes
    <3>4. QED
      BY <3>3
  <2>3. QED
    BY <2>1, <2>2
<1>7. (\A k \in Name : refs[k] \ {} \subseteq refs'[k]) /\ ref \subseteq refs'[n]
  BY <1>1, <1>2, <1>3 DEF VolStoreTypes
<1>8. VolumesKept
  BY <1>1, <1>2 DEF VolumesKept, VolStoreTypes
<1>9. QED
  BY <1>1, <1>5, <1>6, <1>7, <1>8 DEF StoreStep

\* setNamed adds a reference to a volume that exists.
LEMMA SetNamedStore ==
  ASSUME VolParameters, VolShapes, NEW n \in Name, NEW d \in Driver, NEW ref \in SUBSET Container,
         n \in volumes[d],
         setNamed(n, d, ref), volumes' = volumes, active' \in [Volume -> Int], mounted' \in SUBSET Volume
  PROVE  StoreStep({}) /\ ref \subseteq refs'[n]
<1>1. VolStoreTypes /\ ReferencedExists
  BY VolTypes DEF VolShapes
<1>2. names' = [names EXCEPT ![n] = d] /\ refs' = [refs EXCEPT ![n] = @ \cup (ref \ {None})] /\ None \notin ref
  BY DEF setNamed, VolParameters
<1>3. VolStoreTypes'
  BY <1>1, <1>2 DEF VolStoreTypes
<1>4. ReferencedExists'
  BY <1>1, <1>2 DEF VolStoreTypes, ReferencedExists
<1>5. (\A k \in Name : refs[k] \ {} \subseteq refs'[k]) /\ ref \subseteq refs'[n]
  BY <1>1, <1>2 DEF VolStoreTypes
<1>6. QED
  BY <1>3, <1>4, <1>5 DEF StoreStep, VolumesKept

\* GetWithRef: likewise.
LEMMA GetWithRefStore ==
  ASSUME VolParameters, VolShapes, NEW n \in Name, NEW d \in Driver, NEW ref \in SUBSET Container,
         GetWithRef(n, d, ref)
  PROVE  StoreStep({}) /\ ref \subseteq refs'[n]
<1>1. active' \in [Volume -> Int] /\ mounted' \in SUBSET Volume /\ volumes' = volumes
  BY Zenon, VolTypes DEF VolShapes, VolStoreTypes, GetWithRef
<1>2. n \in volumes[d] /\ setNamed(n, d, ref)
  BY Zenon DEF GetWithRef
<1>3. QED
  BY Zenon, <1>1, <1>2, SetNamedStore

\* Remove takes a volume that nothing refers to.
LEMMA RemoveStore ==
  ASSUME VolParameters, VolShapes, NEW n \in Name, NEW d \in Driver, Remove(n, d)
  PROVE  StoreStep({})
<1>1. VolStoreTypes /\ ReferencedExists
  BY VolTypes DEF VolShapes
<1>2. CASE refs[n] # {}
  <2>1. UNCHANGED storeVars
    BY <1>2 DEF Remove
  <2>2. QED
    BY <2>1, <1>1 DEF StoreStep, VolumesKept, storeVars, VolStoreTypes, ReferencedExists
<1>3. CASE refs[n] = {}
  <2>1. volumes' = [volumes EXCEPT ![d] = @ \ {n}] /\ names' = [names EXCEPT ![n] = None] /\ refs' = [refs EXCEPT ![n] = {}]
    BY <1>3 DEF Remove, RootRemove, purge
  <2>2. active' = active /\ mounted' = mounted
    BY Zenon, <1>3 DEF Remove, RootRemove
  <2>3. VolStoreTypes'
    BY <1>1, <2>1, <2>2 DEF VolStoreTypes
  <2>4. ReferencedExists'
    BY <1>1, <2>1 DEF VolStoreTypes, ReferencedExists
  <2>5. \A k \in Name : refs[k] \ {} \subseteq refs'[k]
    BY Zenon, <1>1, <2>1, <1>3 DEF VolStoreTypes
  <2>6. VolumesKept
    BY <1>1, <2>1, <1>3 DEF VolumesKept, VolStoreTypes
  <2>7. QED
    BY Zenon, <2>3, <2>4, <2>5, <2>6 DEF StoreStep
<1>4. QED
  BY Zenon, <1>2, <1>3

\* Unmounting a container's volumes changes no reference.
LEMMA UnmountVolumesStore ==
  ASSUME VolParameters, VolShapes, NEW c \in Container, UnmountVolumes(c)
  PROVE  StoreStep({})
<1>1. VolStoreTypes /\ ReferencedExists
  BY VolTypes DEF VolShapes
<1>2. \A v \in Volume : Cardinality(Uses(c, v)) \in Nat
  <2> TAKE v \in Volume
  <2>1. Uses(c, v) \subseteq Dest
    BY DEF Uses, Mounts
  <2>2. QED
    BY Zenon, <2>1 DEF VolParameters
<1>3. active' \in [Volume -> Int]
  BY <1>1, <1>2 DEF UnmountVolumes, VolStoreTypes
<1>4. mounted' \in SUBSET Volume
  BY <1>1 DEF UnmountVolumes, VolStoreTypes
<1>5. volumes' = volumes /\ names' = names /\ refs' = refs
  BY DEF UnmountVolumes
<1>6. QED
  BY Zenon, <1>1, <1>3, <1>4, <1>5 DEF StoreStep, VolumesKept, VolStoreTypes, ReferencedExists

\* A step that only drops references of c.
LEMMA DropStore ==
  ASSUME VolShapes, NEW c \in Container, volumes' = volumes, names' = names, active' = active,
         mounted' = mounted,
         NEW S, refs' = [n \in Name |-> IF n \in S THEN refs[n] \ {c} ELSE refs[n]]
  PROVE  StoreStep({c})
<1>1. VolStoreTypes /\ ReferencedExists
  BY Zenon, VolTypes DEF VolShapes
<1>2. VolStoreTypes'
  BY Zenon, <1>1 DEF VolStoreTypes
<1>3. ReferencedExists'
  BY Zenon, <1>1 DEF VolStoreTypes, ReferencedExists
<1>4. QED
  BY Zenon, <1>1, <1>2, <1>3 DEF StoreStep, VolumesKept, VolStoreTypes

\* A step that does not touch the store.
LEMMA SameStore ==
  ASSUME VolShapes, UNCHANGED storeVars
  PROVE  StoreStep({})
BY Zenon, VolTypes DEF VolShapes, StoreStep, VolumesKept, storeVars, VolStoreTypes, ReferencedExists

\* A step that drops no reference is one that may.
LEMMA StoreStepAny ==
  ASSUME NEW R, StoreStep({}) PROVE StoreStep(R)
BY Zenon DEF StoreStep

-----------------------------------------------------------------------------
(* The steps of a container's requests *)

\* A step of c leaves the requests of the other containers alone.
OthersKept(c) ==
  \A e \in Container \ {c} :
    /\ pc'[e] = pc[e]
    /\ mounts'[e] = mounts[e]
    /\ pending'[e] = pending[e]
    /\ conf'[e] = conf[e]
    /\ todo'[e] = todo[e]
    /\ doomed'[e] = doomed[e]

\* The other containers keep their shape
LEMMA OthersShape ==
  ASSUME VolShapes, NEW c, OthersKept(c), NEW e \in Container \ {c}
  PROVE  VolShape(e)'
BY DEF VolShapes, OthersKept, VolShape, Mounts

\* and their references.
LEMMA OthersRefs ==
  ASSUME VolShapes, NEW c, OthersKept(c), StoreStep({c}), NEW e \in Container \ {c}, VolRefs(e)
  PROVE  VolRefs(e)'
<1>1. VolPointTypes
  BY VolTypes DEF VolShapes
<1>2. \A n \in Name : e \in refs[n] => e \in refs'[n]
  BY DEF StoreStep
<1>3. /\ pc'[e] = pc[e]
      /\ mounts'[e] = mounts[e]
      /\ pending'[e] = pending[e]
      /\ todo'[e] = todo[e]
  BY Zenon DEF OthersKept
<1>4. \A d \in Mounts(pending[e]) : pending[e][d].name \in Name
  BY <1>1 DEF VolPointTypes, MountPoint, Mounts
<1>5. \A d \in Mounts(mounts[e]) : mounts[e][d].name \in Name
  BY <1>1 DEF VolPointTypes, MountPoint, Mounts
<1>6. QED
  BY <1>2, <1>3, <1>4, <1>5 DEF VolRefs, Mounts

\* What every step of the system keeps.
VolStepOK == VolShapes' /\ (VolInv => VolInv') /\ VolumesKept

\* A step of one container, from what it does to the store and to the container.
LEMMA VolCombine ==
  ASSUME VolShapes, NEW c \in Container, StoreStep({c}), OthersKept(c), VolPointTypes',
         VolRequestTypes', VolCountTypes',
         VolShape(c)', VolRefs(c) => VolRefs(c)'
  PROVE  VolStepOK
<1>1. TypeOK' /\ ReferencedExists'
  BY Zenon DEF StoreStep, TypeOK, VolStoreTypes, VolPointTypes, VolRequestTypes, VolCountTypes
<1>2. \A e \in Container : VolShape(e)'
  BY Zenon, OthersShape
<1>3. VolShapes'
  BY Zenon, <1>1, <1>2 DEF VolShapes
<1>4. ASSUME VolInv, NEW e \in Container PROVE VolRefs(e)'
  <2>1. VolRefs(e) /\ VolRefs(c)
    BY Zenon, <1>4 DEF VolInv
  <2>2. QED
    BY Zenon, <2>1, OthersRefs
<1>5. QED
  BY Zenon, <1>3, <1>4 DEF VolInv, VolStepOK, StoreStep

\* One more mount point in a container's map.
LEMMA PutPoint ==
  ASSUME NEW f \in [Container -> [Dest -> MountPoint \cup {None}]], NEW c \in Container,
         NEW d \in Dest, NEW m \in MountPoint
  PROVE  [f EXCEPT ![c][d] = m] \in [Container -> [Dest -> MountPoint \cup {None}]]
OBVIOUS

\* ContainerCreate begins with no mount points.
LEMMA ContainerCreateKeeps ==
  ASSUME VolParameters, VolShapes, NEW c \in Container, NEW hc \in Configs, ContainerCreate(c, hc)
  PROVE  VolStepOK
<1>t. VolPointTypes /\ VolRequestTypes /\ VolCountTypes /\ VolShape(c)
  BY Zenon, VolTypes DEF VolShapes
<1>1. StoreStep({c})
  BY Zenon, SameStore, StoreStepAny DEF ContainerCreate
<1>2. OthersKept(c)
  BY Zenon, <1>t DEF OthersKept, VolPointTypes, VolRequestTypes, ContainerCreate, Go, Registered,
     storeVars
<1>3. VolPointTypes'
  BY Zenon, <1>t DEF VolPointTypes, ContainerCreate, Go, Registered, storeVars, NoMounts
<1>4. VolRequestTypes' /\ VolCountTypes'
  BY Zenon, <1>t DEF VolRequestTypes, VolCountTypes, VolPointTypes, VolParameters, Mounts,
     ContainerCreate, Go, Registered, storeVars
<1>5. VolShape(c)'
  BY <1>t DEF VolShape, VolRequestTypes, VolPointTypes, VolParameters, Mounts, HostConfig,
     ContainerCreate, Go, Registered, storeVars
<1>6. ASSUME VolRefs(c) PROVE VolRefs(c)'
  BY <1>t, <1>6 DEF VolRefs, VolRequestTypes, VolPointTypes, Mounts, NoMounts, VolParameters,
     ContainerCreate, Go, Registered, storeVars
<1>7. QED
  BY Zenon, <1>1, <1>2, <1>3, <1>4, <1>5, <1>6, VolCombine

\* registerMountPoints goes on from VolumesFrom to the binds.
LEMMA RegisterBindsKeeps ==
  ASSUME VolParameters, VolShapes, NEW c \in Container, RegisterBinds(c)
  PROVE  VolStepOK
<1>t. VolPointTypes /\ VolRequestTypes /\ VolCountTypes /\ VolShape(c)
  BY Zenon, VolTypes DEF VolShapes
<1>1. StoreStep({c})
  BY Zenon, SameStore, StoreStepAny DEF RegisterBinds
<1>2. OthersKept(c)
  BY Zenon, <1>t DEF OthersKept, VolPointTypes, VolRequestTypes, RegisterBinds, Go, storeVars
<1>3. VolPointTypes'
  BY Zenon, <1>t DEF VolPointTypes, RegisterBinds, Go, storeVars, NoMounts
<1>4. VolRequestTypes' /\ VolCountTypes'
  BY Zenon, <1>t DEF VolRequestTypes, VolCountTypes, VolPointTypes, VolParameters, Mounts,
     RegisterBinds, Go, storeVars
<1>5. VolShape(c)'
  BY Zenon, <1>t DEF VolShape, VolRequestTypes, VolPointTypes, VolParameters, Mounts, HostConfig,
     RegisterBinds, Go, storeVars
<1>6. ASSUME VolRefs(c) PROVE VolRefs(c)'
  BY Zenon, <1>t, <1>6 DEF VolRefs, VolRequestTypes, VolPointTypes, Mounts, NoMounts,
     VolParameters, RegisterBinds, Go, storeVars
<1>7. QED
  BY Zenon, <1>1, <1>2, <1>3, <1>4, <1>5, <1>6, VolCombine

\* The container is created.
LEMMA CreateDoneKeeps ==
  ASSUME VolParameters, VolShapes, NEW c \in Container, CreateDone(c)
  PROVE  VolStepOK
<1>t. VolPointTypes /\ VolRequestTypes /\ VolCountTypes /\ VolShape(c)
  BY Zenon, VolTypes DEF VolShapes
<1>1. StoreStep({c})
  BY Zenon, SameStore, StoreStepAny DEF CreateDone
<1>2. OthersKept(c)
  BY Zenon, <1>t DEF OthersKept, VolPointTypes, VolRequestTypes, CreateDone, Go, storeVars
<1>3. VolPointTypes'
  BY Zenon, <1>t DEF VolPointTypes, CreateDone, Go, storeVars, NoMounts
<1>4. VolRequestTypes' /\ VolCountTypes'
  BY Zenon, <1>t DEF VolRequestTypes, VolCountTypes, VolPointTypes, VolParameters, Mounts,
     CreateDone, Go, storeVars
<1>5. VolShape(c)'
  BY <1>t DEF VolShape, VolRequestTypes, VolPointTypes, VolParameters, Mounts, HostConfig,
     CreateDone, Go, storeVars
<1>6. ASSUME VolRefs(c) PROVE VolRefs(c)'
  BY Zenon, <1>t, <1>6 DEF VolRefs, VolRequestTypes, VolPointTypes, Mounts, NoMounts,
     VolParameters, CreateDone, Go, storeVars
<1>7. QED
  BY Zenon, <1>1, <1>2, <1>3, <1>4, <1>5, <1>6, VolCombine

\* removeMountPoints is done.
LEMMA RemoveMountPointsDoneKeeps ==
  ASSUME VolParameters, VolShapes, NEW c \in Container, removeMountPointsDone(c)
  PROVE  VolStepOK
<1>t. VolPointTypes /\ VolRequestTypes /\ VolCountTypes /\ VolShape(c)
  BY Zenon, VolTypes DEF VolShapes
<1>1. StoreStep({c})
  BY Zenon, SameStore, StoreStepAny DEF removeMountPointsDone
<1>2. OthersKept(c)
  BY Zenon, <1>t DEF OthersKept, VolPointTypes, VolRequestTypes, removeMountPointsDone, Go,
     storeVars
<1>3. VolPointTypes'
  BY Zenon, <1>t DEF VolPointTypes, removeMountPointsDone, Go, storeVars, NoMounts
<1>4. VolRequestTypes' /\ VolCountTypes'
  BY Zenon, <1>t DEF VolRequestTypes, VolCountTypes, VolPointTypes, VolParameters, Mounts,
     removeMountPointsDone, Go, storeVars
<1>5. VolShape(c)'
  BY <1>t DEF VolShape, VolRequestTypes, VolPointTypes, VolParameters, Mounts, HostConfig,
     removeMountPointsDone, Go, storeVars
<1>6. ASSUME VolRefs(c) PROVE VolRefs(c)'
  BY Zenon, <1>t, <1>6 DEF VolRefs, VolRequestTypes, VolPointTypes, Mounts, NoMounts,
     VolParameters, removeMountPointsDone, Go, storeVars
<1>7. QED
  BY <1>1, <1>2, <1>3, <1>4, <1>5, <1>6, VolCombine

\* A start sets up every mount point.
LEMMA ContainerStartKeeps ==
  ASSUME VolParameters, VolShapes, NEW c \in Container, ContainerStart(c)
  PROVE  VolStepOK
<1>t. VolPointTypes /\ VolRequestTypes /\ VolCountTypes /\ VolShape(c)
  BY VolTypes DEF VolShapes
<1>1. StoreStep({c})
  BY Zenon, SameStore, StoreStepAny DEF ContainerStart
<1>2. OthersKept(c)
  BY Zenon, <1>t DEF OthersKept, VolPointTypes, VolRequestTypes, ContainerStart, Go, storeVars
<1>3. VolPointTypes'
  BY Zenon, <1>t DEF VolPointTypes, ContainerStart, Go, storeVars, NoMounts
<1>4. VolRequestTypes' /\ VolCountTypes'
  BY <1>t DEF VolRequestTypes, VolCountTypes, VolPointTypes, VolParameters, Mounts, ContainerStart,
     Go, storeVars
<1>5. VolShape(c)'
  BY <1>t DEF VolShape, VolRequestTypes, VolPointTypes, VolParameters, Mounts, HostConfig,
     ContainerStart, Go, storeVars
<1>6. ASSUME VolRefs(c) PROVE VolRefs(c)'
  BY Zenon, <1>t, <1>6 DEF VolRefs, VolRequestTypes, VolPointTypes, Mounts, NoMounts,
     VolParameters, ContainerStart, Go, storeVars
<1>7. QED
  BY Zenon, <1>1, <1>2, <1>3, <1>4, <1>5, <1>6, VolCombine

\* It runs once every mount point has its volume.
LEMMA StartedKeeps ==
  ASSUME VolParameters, VolShapes, NEW c \in Container, Started(c)
  PROVE  VolStepOK
<1>t. VolPointTypes /\ VolRequestTypes /\ VolCountTypes /\ VolShape(c)
  BY VolTypes DEF VolShapes
<1>1. StoreStep({c})
  BY Zenon, SameStore, StoreStepAny DEF Started
<1>2. OthersKept(c)
  BY Zenon, <1>t DEF OthersKept, VolPointTypes, VolRequestTypes, Started, Go, storeVars
<1>3. VolPointTypes'
  BY Zenon, <1>t DEF VolPointTypes, Started, Go, storeVars, NoMounts
<1>4. VolRequestTypes' /\ VolCountTypes'
  BY Zenon, <1>t DEF VolRequestTypes, VolCountTypes, VolPointTypes, VolParameters, Mounts, Started,
     Go, storeVars
<1>5. VolShape(c)'
  BY <1>t DEF VolShape, VolRequestTypes, VolPointTypes, VolParameters, Mounts, HostConfig, Started,
     Go, storeVars
<1>6. ASSUME VolRefs(c) PROVE VolRefs(c)'
  BY Zenon, <1>t, <1>6 DEF VolRefs, VolRequestTypes, VolPointTypes, Mounts, NoMounts,
     VolParameters, Started, Go, storeVars
<1>7. QED
  BY Zenon, <1>1, <1>2, <1>3, <1>4, <1>5, <1>6, VolCombine

\* A removal begins with the mount points.
LEMMA ContainerRmKeeps ==
  ASSUME VolParameters, VolShapes, NEW c \in Container, NEW rm \in BOOLEAN, ContainerRm(c, rm)
  PROVE  VolStepOK
<1>t. VolPointTypes /\ VolRequestTypes /\ VolCountTypes /\ VolShape(c)
  BY Zenon, VolTypes DEF VolShapes
<1>1. StoreStep({c})
  BY Zenon, SameStore, StoreStepAny DEF ContainerRm
<1>2. OthersKept(c)
  BY Zenon, <1>t DEF OthersKept, VolPointTypes, VolRequestTypes, ContainerRm, Go, storeVars
<1>3. VolPointTypes'
  BY Zenon, <1>t DEF VolPointTypes, ContainerRm, Go, storeVars, NoMounts
<1>4. VolRequestTypes' /\ VolCountTypes'
  BY Zenon, <1>t DEF VolRequestTypes, VolCountTypes, VolPointTypes, VolParameters, Mounts,
     ContainerRm, Go, storeVars
<1>5. VolShape(c)'
  BY <1>t DEF VolShape, VolRequestTypes, VolPointTypes, VolParameters, Mounts, HostConfig,
     ContainerRm, Go, storeVars
<1>6. ASSUME VolRefs(c) PROVE VolRefs(c)'
  BY Zenon, <1>t, <1>6 DEF VolRefs, VolRequestTypes, VolPointTypes, Mounts, NoMounts,
     VolParameters, ContainerRm, Go, storeVars
<1>7. QED
  BY Zenon, <1>1, <1>2, <1>3, <1>4, <1>5, <1>6, VolCombine

\* A start that fails unmounts.
LEMMA StartFailsKeeps ==
  ASSUME VolParameters, VolShapes, NEW c \in Container, StartFails(c)
  PROVE  VolStepOK
<1>t. VolPointTypes /\ VolRequestTypes /\ VolCountTypes /\ VolShape(c)
  BY VolTypes DEF VolShapes
<1>1. StoreStep({c})
  BY Zenon, UnmountVolumesStore, StoreStepAny DEF StartFails
<1>2. OthersKept(c)
  BY Zenon, <1>t DEF OthersKept, VolPointTypes, VolRequestTypes, StartFails, Go, UnmountVolumes
<1>3. VolPointTypes'
  BY Zenon, <1>t DEF VolPointTypes, StartFails, Go, UnmountVolumes, NoMounts
<1>4. VolRequestTypes' /\ VolCountTypes'
  BY Zenon, <1>t DEF VolRequestTypes, VolCountTypes, VolPointTypes, VolParameters, Mounts,
     StartFails, Go, UnmountVolumes
<1>5. VolShape(c)'
  BY Zenon, <1>t DEF VolShape, VolRequestTypes, VolPointTypes, VolParameters, Mounts, HostConfig,
     StartFails, Go, UnmountVolumes
<1>6. ASSUME VolRefs(c) PROVE VolRefs(c)'
  BY Zenon, <1>t, <1>6 DEF VolRefs, VolRequestTypes, VolPointTypes, Mounts, NoMounts,
     VolParameters, StartFails, Go, UnmountVolumes
<1>7. QED
  BY <1>1, <1>2, <1>3, <1>4, <1>5, <1>6, VolCombine

\* An exit unmounts.
LEMMA ExitKeeps ==
  ASSUME VolParameters, VolShapes, NEW c \in Container, Exit(c)
  PROVE  VolStepOK
<1>t. VolPointTypes /\ VolRequestTypes /\ VolCountTypes /\ VolShape(c)
  BY VolTypes DEF VolShapes
<1>1. StoreStep({c})
  BY Zenon, UnmountVolumesStore, StoreStepAny DEF Exit
<1>2. OthersKept(c)
  BY Zenon, <1>t DEF OthersKept, VolPointTypes, VolRequestTypes, Exit, Go, UnmountVolumes
<1>3. VolPointTypes'
  BY Zenon, <1>t DEF VolPointTypes, Exit, Go, UnmountVolumes, NoMounts
<1>4. VolRequestTypes' /\ VolCountTypes'
  BY Zenon, <1>t DEF VolRequestTypes, VolCountTypes, VolPointTypes, VolParameters, Mounts, Exit,
     Go, UnmountVolumes
<1>5. VolShape(c)'
  BY Zenon, <1>t DEF VolShape, VolRequestTypes, VolPointTypes, VolParameters, Mounts, HostConfig,
     Exit, Go, UnmountVolumes
<1>6. ASSUME VolRefs(c) PROVE VolRefs(c)'
  BY Zenon, <1>t, <1>6 DEF VolRefs, VolRequestTypes, VolPointTypes, Mounts, NoMounts,
     VolParameters, Exit, Go, UnmountVolumes
<1>7. QED
  BY Zenon, <1>1, <1>2, <1>3, <1>4, <1>5, <1>6, VolCombine

\* A volume that is removed with its container: other references keep it.
LEMMA RemoveVolumeKeeps ==
  ASSUME VolParameters, VolShapes, NEW c \in Container, removeVolume(c)
  PROVE  VolStepOK
<1>t. VolPointTypes /\ VolRequestTypes /\ VolCountTypes /\ VolShape(c)
  BY Zenon, VolTypes DEF VolShapes
<1>1. StoreStep({c})
  <2>1. doomed[c] \in Mounts(mounts[c]) /\ doomed[c] \in Dest
    BY Zenon, <1>t DEF VolShape, removeVolume, Mounts
  <2>2. mounts[c][doomed[c]] \in MountPoint
    BY <2>1, <1>t DEF Mounts, VolPointTypes
  <2>3. mounts[c][doomed[c]].name \in Name /\ mounts[c][doomed[c]].driver \in Driver
    BY Zenon, <2>2 DEF MountPoint
  <2>4. QED
    BY Zenon, <2>3, RemoveStore, StoreStepAny DEF removeVolume
<1>2. OthersKept(c)
  BY Zenon, <1>t DEF OthersKept, VolPointTypes, VolRequestTypes, removeVolume
<1>3. VolPointTypes'
  BY Zenon, <1>t DEF VolPointTypes, removeVolume, NoMounts
<1>4. VolRequestTypes' /\ VolCountTypes'
  BY Zenon, <1>t DEF VolRequestTypes, VolCountTypes, VolPointTypes, VolParameters, Mounts,
     removeVolume
<1>5. VolShape(c)'
  BY Zenon, <1>t DEF VolShape, VolRequestTypes, VolPointTypes, VolParameters, Mounts, HostConfig,
     removeVolume
<1>6. ASSUME VolRefs(c) PROVE VolRefs(c)'
  <2>1. pc'[c] = pc[c] /\ pc[c] \in {"undo", "purging"}
    BY Zenon, <1>t DEF removeVolume, VolShape
  <2>2. QED
    BY Zenon, <2>1 DEF VolRefs
<1>7. QED
  BY <1>1, <1>2, <1>3, <1>4, <1>5, <1>6, VolCombine

\* A loop of registerMountPoints adds the point m at d, with its reference.
TookPoint(c, d, m) ==
  /\ pc[c] \in {"from", "binds", "refrom", "rebinds"}
  /\ StoreStep({})
  /\ m.volume => c \in refs'[m.name]
  /\ pending' = [pending EXCEPT ![c][d] = m]
  /\ todo' = [todo EXCEPT ![c] = @ \ {d}]
  /\ UNCHANGED <<mounts, conf, pc, doomed, held, restarts, starts>>

\* A mount point is registered together with its reference.
LEMMA TookPointKeeps ==
  ASSUME VolParameters, VolShapes, NEW c \in Container, NEW d \in Dest, NEW m \in MountPoint,
         TookPoint(c, d, m)
  PROVE  VolStepOK
<1>t. VolPointTypes /\ VolRequestTypes /\ VolCountTypes /\ VolShape(c)
  BY Zenon, VolTypes DEF VolShapes
<1>1. StoreStep({c})
  BY Zenon, StoreStepAny DEF TookPoint
<1>2. OthersKept(c)
  BY Zenon, <1>t DEF OthersKept, VolPointTypes, VolRequestTypes, TookPoint
<1>3. VolPointTypes'
  BY Zenon, <1>t, PutPoint DEF VolPointTypes, TookPoint
<1>4. VolRequestTypes' /\ VolCountTypes'
  BY Zenon, <1>t DEF VolRequestTypes, VolCountTypes, VolPointTypes, VolParameters, Mounts, TookPoint
<1>5. VolShape(c)'
  BY Zenon, <1>t DEF VolShape, VolRequestTypes, VolPointTypes, VolParameters, Mounts, HostConfig,
     TookPoint
<1>6. ASSUME VolRefs(c) PROVE VolRefs(c)'
  <2>1. /\ pc[c] \in {"from", "binds"}
        /\ \A e \in Mounts(pending[c]) : pending[c][e].volume => c \in refs[pending[c][e].name]
    BY Zenon, <1>6 DEF VolRefs, TookPoint
  <2>2. \A e \in Dest : pending'[c][e] = IF e = d THEN m ELSE pending[c][e]
    BY Zenon, <1>t DEF TookPoint, VolPointTypes
  <2>3. ASSUME NEW e \in Mounts(pending'[c]), pending'[c][e].volume PROVE c \in refs'[pending'[c][e].name]
    <3>1. CASE e = d
      BY <2>2, <2>3, <3>1 DEF TookPoint, Mounts
    <3>2. CASE e # d
      <4>1. pending'[c][e] = pending[c][e] /\ e \in Mounts(pending[c])
        BY Zenon, <2>2, <3>2 DEF Mounts
      <4>2. c \in refs[pending[c][e].name] /\ pending[c][e].name \in Name
        BY <4>1, <2>1, <2>3, <1>t DEF VolPointTypes, MountPoint, Mounts
      <4>3. QED
        BY Zenon, <4>1, <4>2 DEF TookPoint, StoreStep
    <3>3. QED
      BY Zenon, <3>1, <3>2
  <2>4. pc'[c] = pc[c] /\ mounts'[c] = mounts[c]
    BY Zenon DEF TookPoint
  <2>5. QED
    BY Zenon, <2>1, <2>3, <2>4, <1>6 DEF VolRefs
<1>7. QED
  BY Zenon, <1>1, <1>2, <1>3, <1>4, <1>5, <1>6, VolCombine

\* A registration that fails gives back what it took.
LEMMA RegisterErrorKeeps ==
  ASSUME VolParameters, VolShapes, NEW c \in Container, pc[c] \in {"from", "binds", "refrom",
         "rebinds"}, RegisterError(c)
  PROVE  VolStepOK
<1>t. VolPointTypes /\ VolRequestTypes /\ VolCountTypes /\ VolShape(c)
  BY Zenon, VolTypes DEF VolShapes
<1>1. StoreStep({c})
  <2>1. refs' = [n \in Name |-> IF n \in {k \in Name : \E e \in Mounts(pending[c]) : pending[c][e].volume /\ pending[c][e].name = k}
                              THEN refs[n] \ {c} ELSE refs[n]]
    BY Zenon DEF RegisterError
  <2>2. QED
    BY Zenon, <2>1, DropStore DEF RegisterError
<1>2. OthersKept(c)
  BY Zenon, <1>t DEF OthersKept, VolPointTypes, VolRequestTypes, RegisterError, Go
<1>3. VolPointTypes'
  BY Zenon, <1>t DEF VolPointTypes, RegisterError, Go, NoMounts
<1>4. VolRequestTypes' /\ VolCountTypes'
  BY Zenon, <1>t DEF VolRequestTypes, VolCountTypes, VolPointTypes, VolParameters, Mounts,
     RegisterError, Go
<1>5. VolShape(c)'
  BY <1>t DEF VolShape, VolRequestTypes, VolPointTypes, VolParameters, Mounts, HostConfig,
     RegisterError, Go
<1>6. ASSUME VolRefs(c) PROVE VolRefs(c)'
  <2>1. pc[c] \in {"from", "binds"}
    BY Zenon, <1>6 DEF VolRefs
  <2>2. pc'[c] = "gone"
    BY Zenon, <2>1, <1>t DEF RegisterError, Go, VolRequestTypes
  <2>3. QED
    BY Zenon, <2>2 DEF VolRefs
<1>7. QED
  BY Zenon, <1>1, <1>2, <1>3, <1>4, <1>5, <1>6, VolCombine

\* A mount point of another container, from VolumesFrom.
LEMMA RegisterFromKeeps ==
  ASSUME VolParameters, VolShapes, NEW c \in Container, NEW d \in Dest, RegisterFrom(c, d)
  PROVE  VolStepOK
<1>t. VolPointTypes /\ VolRequestTypes /\ VolCountTypes /\ VolShape(c)
  BY Zenon, VolTypes DEF VolShapes
<1>p. pc[c] \in {"from", "refrom"} /\ d \in todo[c]
  BY Zenon DEF RegisterFrom
<1>f. conf[c].from \in Container
  BY Zenon, <1>t, <1>p DEF VolShape
<1> DEFINE m == mounts[conf[c].from][d]
<1>m. m \in MountPoint \cup {None}
  BY Zenon, <1>t, <1>f DEF VolPointTypes
<1>1. CASE m = None /\ UNCHANGED <<pending, storeVars, mounts, conf, pc, doomed, held, restarts, starts>> /\ todo' = [todo EXCEPT ![c] = @ \ {d}]
  <2>1. StoreStep({c})
    BY Zenon, <1>1, SameStore, StoreStepAny
  <2>2. OthersKept(c)
    BY Zenon, <1>1, <1>t DEF OthersKept, VolRequestTypes
  <2>3. VolPointTypes' /\ VolRequestTypes' /\ VolCountTypes'
    BY Zenon, <1>1, <1>t DEF VolPointTypes, VolRequestTypes, VolCountTypes
  <2>4. VolShape(c)'
    BY Zenon, <1>1, <1>t, <1>p DEF VolShape, VolRequestTypes, Mounts
  <2>5. VolRefs(c) => VolRefs(c)'
    BY Zenon, <1>1, <1>p DEF VolRefs, Mounts, storeVars
  <2>6. QED
    BY Zenon, <2>1, <2>2, <2>3, <2>4, <2>5, VolCombine
<1>2. CASE /\ m # None
           /\ pending' = [pending EXCEPT ![c][d] = [m EXCEPT !.volume = FALSE]]
           /\ UNCHANGED storeVars
           /\ todo' = [todo EXCEPT ![c] = @ \ {d}]
           /\ UNCHANGED <<mounts, conf, pc, doomed, held, restarts, starts>>
  <2> DEFINE p == [m EXCEPT !.volume = FALSE]
  <2>1. p \in MountPoint /\ ~p.volume
    BY Zenon, <1>2, <1>m DEF MountPoint
  <2>2. StoreStep({})
    BY Zenon, <1>2, SameStore
  <2>3. pending' = [pending EXCEPT ![c][d] = p]
    BY Zenon, <1>2
  <2> HIDE DEF p
  <2>4. TookPoint(c, d, p)
    BY Zenon, <1>2, <1>p, <2>1, <2>2, <2>3 DEF TookPoint
  <2>5. QED
    BY Zenon, <2>1, <2>4, TookPointKeeps
<1>3. CASE /\ m # None
           /\ GetWithRef(m.name, m.driver, {c})
           /\ pending' = [pending EXCEPT ![c][d] = [m EXCEPT !.volume = TRUE]]
           /\ todo' = [todo EXCEPT ![c] = @ \ {d}]
           /\ UNCHANGED <<mounts, conf, pc, doomed, held, restarts, starts>>
  <2> DEFINE p == [m EXCEPT !.volume = TRUE]
  <2>1. p \in MountPoint /\ p.name = m.name /\ m.name \in Name /\ m.driver \in Driver
    BY Zenon, <1>3, <1>m DEF MountPoint
  <2>2. StoreStep({}) /\ c \in refs'[m.name]
    BY Zenon, <1>3, <2>1, GetWithRefStore
  <2>3. pending' = [pending EXCEPT ![c][d] = p]
    BY Zenon, <1>3
  <2> HIDE DEF p
  <2>4. TookPoint(c, d, p)
    BY Zenon, <1>3, <1>p, <2>1, <2>2, <2>3 DEF TookPoint
  <2>5. QED
    BY Zenon, <2>1, <2>4, TookPointKeeps
<1>4. CASE RegisterError(c)
  BY Zenon, <1>4, <1>p, RegisterErrorKeeps
<1>5. QED
  BY Zenon, <1>1, <1>2, <1>3, <1>4 DEF RegisterFrom

\* A bind or a named volume.
LEMMA RegisterBindKeeps ==
  ASSUME VolParameters, VolShapes, NEW c \in Container, NEW d \in Dest, RegisterBind(c, d)
  PROVE  VolStepOK
<1>t. VolPointTypes /\ VolRequestTypes /\ VolCountTypes /\ VolShape(c)
  BY VolTypes DEF VolShapes
<1>p. pc[c] \in {"binds", "rebinds"} /\ d \in todo[c]
  BY Zenon DEF RegisterBind
<1> DEFINE n == conf[c].binds[d][1]
           es == CreateDrivers(n, conf[c].binds[d][2])
<1>n. n \in Name
  <2>1. conf[c] \in HostConfig /\ conf[c].binds[d] # None
    BY Zenon, <1>t, <1>p DEF VolShape, Mounts
  <2>2. conf[c].binds[d] \in Volume
    BY Zenon, <2>1 DEF HostConfig
  <2>3. QED
    BY Zenon, <2>2 DEF Volume
<1>1. ASSUME NEW e \in es,
             CreateWithRef(n, e, {c}),
             pending' = [pending EXCEPT ![c][d] = [name |-> n, driver |-> e, named |-> TRUE, source |-> TRUE, volume |-> TRUE]],
             todo' = [todo EXCEPT ![c] = @ \ {d}],
             UNCHANGED <<mounts, conf, pc, doomed, held, restarts, starts>>
      PROVE  VolStepOK
  <2> DEFINE p == [name |-> n, driver |-> e, named |-> TRUE, source |-> TRUE, volume |-> TRUE]
  <2>1. e \in Driver /\ StoreStep({}) /\ c \in refs'[n]
    BY Zenon, <1>1, <1>n, CreateWithRefStore
  <2>2. p \in MountPoint /\ p.name = n
    BY Zenon, <1>n, <2>1 DEF MountPoint
  <2>3. pending' = [pending EXCEPT ![c][d] = p]
    BY Zenon, <1>1
  <2> HIDE DEF p, n, es
  <2>4. TookPoint(c, d, p)
    BY Zenon, <1>1, <1>p, <2>1, <2>2, <2>3 DEF TookPoint
  <2>5. QED
    BY Zenon, <2>2, <2>4, TookPointKeeps
<1>2. CASE RegisterError(c)
  BY Zenon, <1>2, <1>p, RegisterErrorKeeps
<1>3. QED
  BY Zenon, <1>1, <1>2 DEF RegisterBind

\* The pending mount points become the container's.
LEMMA InstallMountPointsKeeps ==
  ASSUME VolParameters, VolShapes, NEW c \in Container, InstallMountPoints(c)
  PROVE  VolStepOK
<1>t. VolPointTypes /\ VolRequestTypes /\ VolCountTypes /\ VolShape(c)
  BY VolTypes DEF VolShapes
<1>1. StoreStep({c})
  <2>1. PICK S : refs' = [n \in Name |-> IF n \in S THEN refs[n] \ {c} ELSE refs[n]]
    <3> DEFINE stale == {d \in Mounts(pending[c]) :
                     /\ pending[c][d].source \/ pending[c][d].driver = DefaultDriver
                     /\ mounts[c][d] /= None
                     /\ mounts[c][d].volume}
               S == {n \in Name : \E d \in stale : mounts[c][d].name = n}
    <3>1. refs' = [n \in Name |-> IF n \in S THEN refs[n] \ {c} ELSE refs[n]]
      BY Zenon DEF InstallMountPoints
    <3>2. QED
      BY Zenon, <3>1
  <2>2. QED
    BY Zenon, <2>1, DropStore DEF InstallMountPoints
<1>2. OthersKept(c)
  BY Zenon, <1>t DEF OthersKept, VolPointTypes, VolRequestTypes, InstallMountPoints, Go
<1>3. VolPointTypes'
  BY Zenon, <1>t DEF VolPointTypes, InstallMountPoints, Go, NoMounts
<1>4. VolRequestTypes' /\ VolCountTypes'
  <2>1. CASE pc[c] = "binds"
    <3>1. todo' = [todo EXCEPT ![c] = {d \in conf[c].anon : pending[c][d] = None}] /\ Go(c, "anon")
      BY Zenon, <2>1 DEF InstallMountPoints
    <3>2. conf[c].anon \subseteq Dest
      BY Zenon, <1>t, <2>1 DEF VolShape, HostConfig
    <3>3. QED
      BY Zenon, <3>1, <3>2, <1>t DEF InstallMountPoints, Go, VolRequestTypes, VolCountTypes
  <2>2. CASE pc[c] # "binds"
    <3>1. todo' = [todo EXCEPT ![c] = Mounts(pending[c])] /\ Go(c, "starting")
      BY Zenon, <2>2 DEF InstallMountPoints
    <3>2. QED
      BY Zenon, <3>1, <1>t DEF InstallMountPoints, Go, VolRequestTypes, VolCountTypes, Mounts
  <2>3. QED
    BY Zenon, <2>1, <2>2
<1>5. VolShape(c)'
  BY <1>t DEF VolShape, VolRequestTypes, VolPointTypes, VolParameters, Mounts, HostConfig,
     InstallMountPoints, Go
<1>6. ASSUME VolRefs(c) PROVE VolRefs(c)'
  <2>1. pc[c] = "binds" /\ mounts[c] = NoMounts /\ \A d \in Mounts(pending[c]) : pending[c][d].volume => c \in refs[pending[c][d].name]
    BY Zenon, <1>6 DEF VolRefs, InstallMountPoints
  <2>2. refs' = refs
    <3>1. \A d \in Dest : mounts[c][d] = None
      BY Zenon, <2>1 DEF NoMounts
    <3>2. refs' = [n \in Name |-> refs[n]]
      BY Zenon, <3>1 DEF InstallMountPoints, Mounts
    <3>3. QED
      BY Zenon, <3>2, VolTypes DEF VolShapes, VolStoreTypes
  <2>3. mounts'[c] = pending[c] /\ pc'[c] = "anon"
    BY Zenon, <1>t, <2>1 DEF InstallMountPoints, Go, VolPointTypes, VolRequestTypes
  <2>4. QED
    BY Zenon, <2>1, <2>2, <2>3 DEF VolRefs
<1>7. QED
  BY Zenon, <1>1, <1>2, <1>3, <1>4, <1>5, <1>6, VolCombine

\* A start with a host configuration registers anew; the store is kept, the references may not be.
LEMMA ContainerStartHostConfigKeeps ==
  ASSUME VolParameters, VolShapes, NEW c \in Container, NEW hc \in Configs,
         ContainerStartHostConfig(c, hc)
  PROVE  VolShapes' /\ VolumesKept
<1>t. VolPointTypes /\ VolRequestTypes /\ VolCountTypes /\ VolShape(c)
  BY Zenon, VolTypes DEF VolShapes
<1>1. StoreStep({c})
  BY Zenon, SameStore, StoreStepAny DEF ContainerStartHostConfig
<1>2. OthersKept(c)
  BY Zenon, <1>t DEF OthersKept, VolPointTypes, VolRequestTypes, ContainerStartHostConfig, Go,
     storeVars
<1>3. VolPointTypes'
  BY Zenon, <1>t DEF VolPointTypes, ContainerStartHostConfig, Go, storeVars, NoMounts
<1>4. VolRequestTypes' /\ VolCountTypes'
  <2>1. hc \in HostConfig
    BY Zenon DEF VolParameters
  <2>2. conf' \in [Container -> HostConfig \cup {None}] /\ todo' \in [Container -> SUBSET Dest]
    BY <2>1, <1>t DEF VolRequestTypes, ContainerStartHostConfig
  <2>3. pc' \in [Container -> {"none", "from", "binds", "anon", "undo", "created", "refrom", "rebinds", "starting",
                             "running", "removing", "purging", "gone"}]
    BY <1>t DEF VolRequestTypes, ContainerStartHostConfig, Go
  <2>4. VolCountTypes'
    BY <1>t DEF VolCountTypes, VolParameters, ContainerStartHostConfig
  <2>5. QED
    BY Zenon, <2>2, <2>3, <2>4, <1>t DEF VolRequestTypes, ContainerStartHostConfig
<1>5. VolShape(c)'
  <2>1. hc \in HostConfig
    BY Zenon DEF VolParameters
  <2>2. pc'[c] = "refrom" /\ conf'[c] = hc /\ todo'[c] = {} /\ doomed'[c] = doomed[c]
    BY Zenon, <1>t DEF VolRequestTypes, ContainerStartHostConfig, Go
  <2>3. doomed[c] = None
    BY Zenon, <1>t DEF VolShape, ContainerStartHostConfig
  <2>4. QED
    BY Zenon, <2>1, <2>2, <2>3 DEF VolShape
<1>6. TypeOK' /\ ReferencedExists' /\ VolumesKept
  BY Zenon, <1>1, <1>3, <1>4 DEF StoreStep, TypeOK, VolStoreTypes, VolPointTypes, VolRequestTypes,
     VolCountTypes
<1>7. \A e \in Container : VolShape(e)'
  BY Zenon, <1>2, <1>5, OthersShape
<1>8. QED
  BY Zenon, <1>6, <1>7 DEF VolShapes

\* createContainerPlatformSpecificSettings: an anonymous volume and its reference.
LEMMA CreateAnonymousKeeps ==
  ASSUME VolParameters, VolShapes, NEW c \in Container, NEW d \in Dest, CreateAnonymous(c, d)
  PROVE  VolStepOK
<1>t. VolPointTypes /\ VolRequestTypes /\ VolCountTypes /\ VolShape(c)
  BY Zenon, VolTypes DEF VolShapes
<1>0. PICK e \in CreateDrivers(AnonName[c], None) :
        /\ CreateWithRef(AnonName[c], e, {c})
        /\ \/ /\ mounts' = [mounts EXCEPT ![c][d] = [name |-> AnonName[c], driver |-> e, named |-> FALSE, source |-> FALSE, volume |-> TRUE]]
              /\ todo' = [todo EXCEPT ![c] = @ \ {d}]
              /\ UNCHANGED pc
           \/ /\ todo' = [todo EXCEPT ![c] = Mounts(mounts[c])]
              /\ Go(c, "undo")
              /\ UNCHANGED mounts
  BY Zenon DEF CreateAnonymous
<1> DEFINE p == [name |-> AnonName[c], driver |-> e, named |-> FALSE, source |-> FALSE, volume |-> TRUE]
<1>a. AnonName[c] \in Name
  BY Zenon DEF VolParameters
<1>s. e \in Driver /\ StoreStep({}) /\ c \in refs'[AnonName[c]]
  BY <1>0, <1>a, CreateWithRefStore
<1>m. p \in MountPoint /\ p.name = AnonName[c]
  BY Zenon, <1>a, <1>s DEF MountPoint
<1>c. /\ pc[c] = "anon" /\ d \in todo[c]
      /\ \/ mounts' = [mounts EXCEPT ![c][d] = p] /\ todo' = [todo EXCEPT ![c] = @ \ {d}] /\ pc' = pc
         \/ todo' = [todo EXCEPT ![c] = Mounts(mounts[c])] /\ pc' = [pc EXCEPT ![c] = "undo"] /\ mounts' = mounts
      /\ UNCHANGED <<pending, conf, doomed, held, restarts, starts>>
  BY Zenon, <1>0 DEF CreateAnonymous, Go
<1> HIDE DEF p
<1>1. StoreStep({c})
  BY Zenon, <1>s, StoreStepAny
<1>2. OthersKept(c)
  BY Zenon, <1>c, <1>t DEF OthersKept, VolPointTypes, VolRequestTypes
<1>3. VolPointTypes'
  <2>1. [mounts EXCEPT ![c][d] = p] \in [Container -> [Dest -> MountPoint \cup {None}]]
    BY Zenon, <1>t, <1>m, PutPoint DEF VolPointTypes
  <2>2. QED
    BY Zenon, <2>1, <1>c, <1>t DEF VolPointTypes
<1>4. VolRequestTypes' /\ VolCountTypes'
  BY <1>c, <1>t DEF VolRequestTypes, VolCountTypes, Mounts
<1>5. VolShape(c)'
  BY <1>c, <1>t DEF VolShape, VolRequestTypes
<1>6. ASSUME VolRefs(c) PROVE VolRefs(c)'
  <2>1. CASE mounts' = [mounts EXCEPT ![c][d] = p] /\ pc' = pc
    <3>1. \A k \in Dest : mounts'[c][k] = IF k = d THEN p ELSE mounts[c][k]
      BY Zenon, <2>1, <1>t DEF VolPointTypes
    <3>2. ASSUME NEW k \in Mounts(mounts'[c]), mounts'[c][k].volume PROVE c \in refs'[mounts'[c][k].name]
      <4>1. CASE k = d
        BY Zenon, <3>1, <4>1, <1>m, <1>s
      <4>2. CASE k # d
        <5>1. mounts'[c][k] = mounts[c][k] /\ k \in Mounts(mounts[c])
          BY Zenon, <3>1, <4>2 DEF Mounts
        <5>2. c \in refs[mounts[c][k].name]
          BY Zenon, <5>1, <3>2, <1>6, <1>c DEF VolRefs
        <5>3. k \in Dest /\ mounts[c][k] \in MountPoint
          BY Zenon, <5>1, <1>t DEF VolPointTypes, Mounts
        <5>4. mounts[c][k].name \in Name
          BY Zenon, <5>3 DEF MountPoint
        <5>5. QED
          BY Zenon, <5>1, <5>2, <5>4, <1>s DEF StoreStep
      <4>3. QED
        BY Zenon, <4>1, <4>2
    <3>3. QED
      BY Zenon, <3>2, <2>1, <1>c DEF VolRefs
  <2>2. CASE pc' = [pc EXCEPT ![c] = "undo"]
    BY Zenon, <2>2, <1>t DEF VolRefs, VolRequestTypes
  <2>3. QED
    BY Zenon, <2>1, <2>2, <1>c
<1>7. QED
  BY Zenon, <1>1, <1>2, <1>3, <1>4, <1>5, <1>6, VolCombine

\* removeMountPoints dereferences one volume.
LEMMA RemoveMountPointKeeps ==
  ASSUME VolParameters, VolShapes, NEW c \in Container, NEW d \in Dest, removeMountPoint(c, d)
  PROVE  VolStepOK
<1>t. VolPointTypes /\ VolRequestTypes /\ VolCountTypes /\ VolShape(c)
  BY VolTypes DEF VolShapes
<1>1. StoreStep({c})
  <2>1. CASE mounts[c][d].volume
    <3>1. refs' = [refs EXCEPT ![mounts[c][d].name] = @ \ {c}] /\ UNCHANGED <<volumes, names, active, mounted>>
      BY Zenon, <2>1 DEF removeMountPoint, Dereference
    <3>2. refs' = [n \in Name |-> IF n \in {mounts[c][d].name} THEN refs[n] \ {c} ELSE refs[n]]
      BY Zenon, <3>1, VolTypes DEF VolShapes, VolStoreTypes
    <3>3. QED
      BY Zenon, <3>1, <3>2, DropStore
  <2>2. CASE ~mounts[c][d].volume
    BY Zenon, <2>2, SameStore, StoreStepAny DEF removeMountPoint
  <2>3. QED
    BY Zenon, <2>1, <2>2
<1>2. OthersKept(c)
  BY Zenon, <1>t DEF OthersKept, VolPointTypes, VolRequestTypes, removeMountPoint
<1>3. VolPointTypes'
  BY Zenon, <1>t DEF VolPointTypes, removeMountPoint, NoMounts
<1>c. /\ pc[c] \in {"undo", "removing", "purging"} /\ doomed[c] = None /\ d \in todo[c]
      /\ todo' = [todo EXCEPT ![c] = @ \ {d}]
      /\ UNCHANGED <<mounts, pending, conf, pc, held, restarts, starts>>
  BY Zenon DEF removeMountPoint
<1>d. \/ doomed' = [doomed EXCEPT ![c] = None]
      \/ doomed' = [doomed EXCEPT ![c] = d] /\ pc[c] # "removing"
      \/ doomed' = doomed
  BY Zenon DEF removeMountPoint
<1>4. VolRequestTypes' /\ VolCountTypes'
  <2>1. todo' \in [Container -> SUBSET Dest]
    BY Zenon, <1>c, <1>t DEF VolRequestTypes
  <2>2. doomed' \in [Container -> Dest \cup {None}]
    BY Zenon, <1>d, <1>t DEF VolRequestTypes
  <2>3. QED
    BY Zenon, <2>1, <2>2, <1>c, <1>t DEF VolRequestTypes, VolCountTypes
<1>5. VolShape(c)'
  <2>1. todo[c] \subseteq Mounts(mounts[c])
    BY Zenon, <1>c, <1>t DEF VolShape
  <2>2. pc'[c] = pc[c] /\ mounts'[c] = mounts[c] /\ todo'[c] \subseteq Mounts(mounts[c])
    BY Zenon, <2>1, <1>c, <1>t DEF VolRequestTypes
  <2>3. doomed'[c] = None \/ (doomed'[c] = d /\ pc[c] # "removing")
    BY Zenon, <1>c, <1>d, <1>t DEF VolRequestTypes
  <2>4. d \in Mounts(mounts[c])
    BY Zenon, <2>1, <1>c
  <2>5. QED
    BY Zenon, <2>2, <2>3, <2>4, <1>c DEF VolShape
<1>6. ASSUME VolRefs(c) PROVE VolRefs(c)'
  BY Zenon, <1>t, <1>6 DEF VolRefs, removeMountPoint
<1>7. QED
  BY Zenon, <1>1, <1>2, <1>3, <1>4, <1>5, <1>6, VolCombine

\* setupMounts gives a mount point its volume, with the reference.
LEMMA SetupMountKeeps ==
  ASSUME VolParameters, VolShapes, NEW c \in Container, NEW d \in Dest, setupMount(c, d)
  PROVE  VolStepOK
<1>t. VolPointTypes /\ VolRequestTypes /\ VolCountTypes /\ VolShape(c)
  BY Zenon, VolTypes DEF VolShapes
<1> DEFINE m == mounts[c][d]
           p == [m EXCEPT !.volume = TRUE]
<1>m. m \in MountPoint /\ pc[c] = "starting" /\ d \in todo[c] /\ m = mounts[c][d]
  BY <1>t DEF setupMount, VolShape, VolPointTypes, Mounts
<1>n. m.name \in Name /\ m.driver \in Driver /\ <<m.name, m.driver>> \in Volume
  BY Zenon, <1>m DEF MountPoint, Volume
<1>p. p \in MountPoint /\ p.volume /\ p.name = m.name
  BY Zenon, <1>m DEF MountPoint
<1>v. VolStoreTypes /\ ReferencedExists
  BY Zenon, VolTypes DEF VolShapes
<1>0. /\ UNCHANGED <<pending, conf, doomed, held, restarts, starts>>
      /\ \/ /\ mounts' = [mounts EXCEPT ![c][d] = p]
            /\ todo' = [todo EXCEPT ![c] = @ \ {d}]
            /\ pc' = pc
            /\ (m.volume /\ refs' = refs) \/ setNamed(m.name, m.driver, {c})
         \/ mounts' = mounts /\ pc' = [pc EXCEPT ![c] = "created"] /\ todo' = [todo EXCEPT ![c] = {}] /\ refs' = refs
  BY Zenon DEF setupMount, Go, UnmountVolumes
<1> HIDE DEF m, p
<1>1. StoreStep({c})
  <2>1. CASE Mount(<<m.name, m.driver>>) /\ volumes' = volumes /\ (m.volume /\ UNCHANGED <<names, refs>>)
    BY <2>1, <1>n, <1>v DEF StoreStep, VolumesKept, VolStoreTypes, ReferencedExists, Mount
  <2>2. CASE Mount(<<m.name, m.driver>>) /\ volumes' = volumes /\ m.name \in volumes[m.driver] /\ setNamed(m.name, m.driver, {c})
    <3>1. active' \in [Volume -> Int] /\ mounted' \in SUBSET Volume
      BY <2>2, <1>n, <1>v DEF VolStoreTypes, Mount
    <3>2. QED
      BY Zenon, <3>1, <2>2, <1>n, SetNamedStore, StoreStepAny
  <2>3. CASE UnmountVolumes(c)
    BY Zenon, <2>3, UnmountVolumesStore, StoreStepAny
  <2>4. QED
    BY Zenon, <2>1, <2>2, <2>3 DEF setupMount, m
<1>2. OthersKept(c)
  BY Zenon, <1>0, <1>t DEF OthersKept, VolPointTypes, VolRequestTypes
<1>3. VolPointTypes'
  <2>1. [mounts EXCEPT ![c][d] = p] \in [Container -> [Dest -> MountPoint \cup {None}]]
    BY Zenon, <1>t, <1>p, PutPoint DEF VolPointTypes
  <2>2. QED
    BY Zenon, <2>1, <1>0, <1>t DEF VolPointTypes
<1>4. VolRequestTypes' /\ VolCountTypes'
  BY Zenon, <1>0, <1>t DEF VolRequestTypes, VolCountTypes
<1>5. VolShape(c)'
  <2>1. CASE mounts' = [mounts EXCEPT ![c][d] = p] /\ todo' = [todo EXCEPT ![c] = @ \ {d}] /\ pc' = pc
    <3>1. \A k \in Dest : mounts'[c][k] = IF k = d THEN p ELSE mounts[c][k]
      BY Zenon, <2>1, <1>t DEF VolPointTypes
    <3>2. Mounts(mounts'[c]) = Mounts(mounts[c])
      BY Zenon, <3>1, <1>p, <1>m DEF Mounts, VolParameters
    <3>3. QED
      BY Zenon, <3>2, <2>1, <1>0, <1>t, <1>m DEF VolShape, VolRequestTypes
  <2>2. CASE pc' = [pc EXCEPT ![c] = "created"]
    BY Zenon, <2>2, <1>0, <1>t, <1>m DEF VolShape, VolRequestTypes
  <2>3. QED
    BY Zenon, <2>1, <2>2, <1>0
<1>6. ASSUME VolRefs(c) PROVE VolRefs(c)'
  <2>1. CASE /\ mounts' = [mounts EXCEPT ![c][d] = p]
             /\ todo' = [todo EXCEPT ![c] = @ \ {d}]
             /\ pc' = pc
             /\ (m.volume /\ refs' = refs) \/ setNamed(m.name, m.driver, {c})
    <3>1. \A k \in Dest : mounts'[c][k] = IF k = d THEN p ELSE mounts[c][k]
      BY Zenon, <2>1, <1>t DEF VolPointTypes
    <3>2. \A n \in Name : c \in refs[n] => c \in refs'[n]
      BY <2>1, <1>v, <1>n DEF setNamed, VolStoreTypes
    <3>3. c \in refs'[m.name]
      <4>1. CASE m.volume /\ refs' = refs
        <5>1. d \in Mounts(mounts[c])
          BY Zenon, <1>m DEF Mounts, VolParameters
        <5>2. QED
          BY Zenon, <4>1, <5>1, <1>m, <1>6 DEF VolRefs
      <4>2. CASE setNamed(m.name, m.driver, {c})
        BY Zenon, <4>2, <1>v, <1>n DEF setNamed, VolStoreTypes, VolParameters
      <4>3. QED
        BY Zenon, <4>1, <4>2, <2>1
    <3>4. ASSUME NEW k \in Mounts(mounts'[c])
          PROVE  /\ mounts'[c][k].volume => c \in refs'[mounts'[c][k].name]
                 /\ k \in todo'[c] \/ mounts'[c][k].volume
      <4>1. CASE k = d
        BY Zenon, <3>1, <3>3, <4>1, <1>p
      <4>2. CASE k # d
        <5>1. mounts'[c][k] = mounts[c][k] /\ k \in Mounts(mounts[c])
          BY Zenon, <3>1, <4>2 DEF Mounts
        <5>2. mounts[c][k].name \in Name
          BY Zenon, <5>1, <1>t DEF VolPointTypes, MountPoint, Mounts
        <5>3. QED
          BY Zenon, <5>1, <5>2, <3>2, <2>1, <1>t, <1>m, <1>6, <4>2 DEF VolRefs, VolRequestTypes
      <4>3. QED
        BY Zenon, <4>1, <4>2
    <3>5. QED
      BY Zenon, <3>4, <2>1, <1>m DEF VolRefs
  <2>2. CASE mounts' = mounts /\ pc' = [pc EXCEPT ![c] = "created"] /\ refs' = refs
    <3>1. pc'[c] = "created" /\ mounts'[c] = mounts[c]
      BY Zenon, <2>2, <1>t DEF VolRequestTypes
    <3>2. QED
      BY Zenon, <3>1, <2>2, <1>6, <1>m DEF VolRefs
  <2>3. QED
    BY Zenon, <2>1, <2>2, <1>0
<1>7. QED
  BY <1>1, <1>2, <1>3, <1>4, <1>5, <1>6, VolCombine

-----------------------------------------------------------------------------
(* The volume API, and a restart *)

\* Requests for volumes change no container.
LEMMA ApiKeeps ==
  ASSUME VolShapes, StoreStep({}), UNCHANGED <<mounts, pending, conf, todo, pc, doomed, restarts,
         starts>>,
         held' \in [Caller -> Volume \cup {None}]
  PROVE  VolStepOK
<1>1. VolPointTypes /\ VolRequestTypes /\ VolCountTypes
  BY Zenon, VolTypes DEF VolShapes
<1>2. VolPointTypes' /\ VolRequestTypes' /\ VolCountTypes'
  BY Zenon, <1>1 DEF VolPointTypes, VolRequestTypes, VolCountTypes
<1>3. TypeOK' /\ ReferencedExists' /\ VolumesKept
  BY Zenon, <1>2 DEF StoreStep, TypeOK, VolStoreTypes, VolPointTypes, VolRequestTypes, VolCountTypes
<1>4. \A e \in Container : VolShape(e)'
  BY Zenon DEF VolShapes, VolShape
<1>5. ASSUME VolInv, NEW e \in Container PROVE VolRefs(e)'
  <2>1. VolRefs(e)
    BY Zenon, <1>5 DEF VolInv
  <2>2. \A n \in Name : e \in refs[n] => e \in refs'[n]
    BY Zenon DEF StoreStep
  <2>3. \A d \in Mounts(pending[e]) : pending[e][d].name \in Name
    BY Zenon, <1>1 DEF VolPointTypes, MountPoint, Mounts
  <2>4. \A d \in Mounts(mounts[e]) : mounts[e][d].name \in Name
    BY <1>1 DEF VolPointTypes, MountPoint, Mounts
  <2>5. QED
    BY Zenon, <2>1, <2>2, <2>3, <2>4 DEF VolRefs
<1>6. QED
  BY Zenon, <1>3, <1>4, <1>5 DEF VolStepOK, VolShapes, VolInv

\* VolumeCreate refers to nothing.
LEMMA VolumeCreateKeeps ==
  ASSUME VolParameters, VolShapes, NEW n \in Name, NEW d \in Driver \cup {None}, VolumeCreate(n, d)
  PROVE  VolStepOK
<1>1. PICK e \in CreateDrivers(n, d) : CreateWithRef(n, e, {})
  BY Zenon DEF VolumeCreate
<1>2. StoreStep({})
  BY Zenon, <1>1, CreateWithRefStore
<1>3. held' \in [Caller -> Volume \cup {None}]
  BY Zenon, VolTypes DEF VolShapes, VolRequestTypes, VolumeCreate
<1>4. QED
  BY Zenon, <1>2, <1>3, ApiKeeps DEF VolumeCreate

\* VolumeRm looks the volume up
LEMMA VolumeRmGetKeeps ==
  ASSUME VolParameters, VolShapes, NEW u \in Caller, NEW n \in Name, VolumeRmGet(u, n)
  PROVE  VolStepOK
<1>1. VolStoreTypes /\ VolRequestTypes
  BY VolTypes DEF VolShapes
<1>2. PICK d \in IF names[n] /= None THEN {names[n]} ELSE Driver : GetWithRef(n, d, {}) /\ held' = [held EXCEPT ![u] = <<n, d>>]
  BY Zenon DEF VolumeRmGet
<1>3. d \in Driver
  BY Zenon, <1>1, <1>2 DEF VolStoreTypes
<1>4. StoreStep({})
  BY Zenon, <1>2, <1>3, GetWithRefStore
<1>5. <<n, d>> \in Volume
  BY Zenon, <1>3 DEF Volume
<1>6. held' \in [Caller -> Volume \cup {None}]
  BY Zenon, <1>1, <1>2, <1>5 DEF VolRequestTypes
<1>7. QED
  BY Zenon, <1>4, <1>6, ApiKeeps DEF VolumeRmGet

\* and removes it, if nothing refers to it by then.
LEMMA VolumeRmRemoveKeeps ==
  ASSUME VolParameters, VolShapes, NEW u \in Caller, VolumeRmRemove(u)
  PROVE  VolStepOK
<1>1. VolRequestTypes
  BY Zenon, VolTypes DEF VolShapes
<1>2. held[u] \in Volume
  BY Zenon, <1>1 DEF VolRequestTypes, VolumeRmRemove
<1>3. held[u][1] \in Name /\ held[u][2] \in Driver
  BY Zenon, <1>2 DEF Volume
<1>4. StoreStep({})
  BY Zenon, <1>3, RemoveStore DEF VolumeRmRemove
<1>5. held' \in [Caller -> Volume \cup {None}]
  BY Zenon, <1>1 DEF VolRequestTypes, VolumeRmRemove
<1>6. QED
  BY Zenon, <1>4, <1>5, ApiKeeps DEF VolumeRmRemove

\* After a restart the references are rebuilt from the mount points of the containers.
LEMMA DaemonRestartKeeps ==
  ASSUME VolParameters, VolShapes, NEW down \in SUBSET Driver, DaemonRestart(down)
  PROVE  VolStepOK
<1>t. VolStoreTypes /\ VolPointTypes /\ VolRequestTypes /\ VolCountTypes
  BY Zenon, VolTypes DEF VolShapes
<1>1. PICK ready \in SUBSET (Container \X Dest) :
        /\ \A c \in Container, d \in Dest : <<c, d>> \in ready =>
             /\ mounts[c][d] # None
             /\ mounts[c][d].name \in volumes[mounts[c][d].driver]
        /\ mounts' = [c \in Container |-> [d \in Dest |->
                        IF mounts[c][d] = None THEN None
                        ELSE [mounts[c][d] EXCEPT !.volume = <<c, d>> \in ready]]]
        /\ refs' = [n \in Name |-> {c \in Container : \E d \in Dest : <<c, d>> \in ready /\ mounts[c][d].name = n}]
        /\ names' \in [Name -> Driver \cup {None}]
  <2>1. PICK ready \in SUBSET (Container \X Dest) :
          /\ \A c \in Container, d \in Dest :
               <<c, d>> \in ready => d \in {e \in Mounts(mounts[c]) : /\ mounts[c][e].driver \notin down
                                                                      /\ mounts[c][e].name \in volumes[mounts[c][e].driver]}
          /\ mounts' = [c \in Container |-> [d \in Dest |->
                          IF mounts[c][d] = None THEN None
                          ELSE [mounts[c][d] EXCEPT !.volume = <<c, d>> \in ready]]]
          /\ refs' = [n \in Name |-> {c \in Container : \E d \in Dest : <<c, d>> \in ready /\ mounts[c][d].name = n}]
          /\ names' \in [Name -> Driver \cup {None}]
    BY Zenon DEF DaemonRestart
  <2>2. \A c \in Container, d \in Dest : <<c, d>> \in ready =>
          /\ mounts[c][d] # None
          /\ mounts[c][d].name \in volumes[mounts[c][d].driver]
    BY Zenon, <2>1 DEF Mounts
  <2>3. QED
    BY Zenon, <2>1, <2>2
<1>2. /\ volumes' = volumes
      /\ active' = [v \in Volume |-> 0]
      /\ mounted' = {}
      /\ pending' = [c \in Container |-> NoMounts]
      /\ conf' = [c \in Container |-> None]
      /\ todo' = [c \in Container |-> {}]
      /\ doomed' = [c \in Container |-> None]
      /\ held' = [u \in Caller |-> None]
      /\ starts' = starts
  BY Zenon DEF DaemonRestart
<1>3. pc' = [c \in Container |->
              IF pc[c] \in {"none", "gone", "from", "binds", "removing", "purging"}
              THEN (IF pc[c] = "none" THEN "none" ELSE "gone") ELSE "created"]
  BY Zenon DEF DaemonRestart
<1>4. restarts' \in 0..MaxRestarts
  BY <1>t DEF DaemonRestart, VolCountTypes, VolParameters
<1>5. \A c \in Container, d \in Dest : mounts[c][d] \in MountPoint \cup {None}
  BY Zenon, <1>t DEF VolPointTypes
<1>6. VolStoreTypes'
  <2>1. volumes' \in [Driver -> SUBSET Name] /\ mounted' \in SUBSET Volume /\ active' \in [Volume -> Int]
    BY <1>t, <1>2 DEF VolStoreTypes
  <2>2. refs' \in [Name -> SUBSET Container] /\ names' \in [Name -> Driver \cup {None}]
    BY Zenon, <1>1
  <2>3. QED
    BY Zenon, <2>1, <2>2 DEF VolStoreTypes
<1>7. mounts' \in [Container -> [Dest -> MountPoint \cup {None}]]
  <2>1. \A c \in Container, d \in Dest : mounts[c][d] # None => [mounts[c][d] EXCEPT !.volume = <<c, d>> \in ready] \in MountPoint
    <3> SUFFICES ASSUME NEW c \in Container, NEW d \in Dest, mounts[c][d] # None
                 PROVE  [mounts[c][d] EXCEPT !.volume = <<c, d>> \in ready] \in MountPoint
      BY Zenon
    <3>1. mounts[c][d] \in MountPoint
      BY Zenon, <1>5
    <3>2. ASSUME NEW m \in MountPoint, NEW b \in BOOLEAN PROVE [m EXCEPT !.volume = b] \in MountPoint
      BY Zenon DEF MountPoint
    <3>3. (<<c, d>> \in ready) \in BOOLEAN
      OBVIOUS
    <3>4. QED
      BY <3>1, <3>2, <3>3, Zenon
  <2>2. QED
    BY Zenon, <2>1, <1>1
<1>8. VolPointTypes'
  BY Zenon, <1>7, <1>2 DEF VolPointTypes, NoMounts
<1>9. VolRequestTypes' /\ VolCountTypes'
  <2>1. VolCountTypes'
    BY Zenon, <1>2, <1>4, <1>t DEF VolCountTypes
  <2>2. pc' \in [Container -> {"none", "from", "binds", "anon", "undo", "created", "refrom", "rebinds", "starting",
                              "running", "removing", "purging", "gone"}]
    BY Zenon, <1>3
  <2>3. QED
    BY Zenon, <2>1, <2>2, <1>2 DEF VolRequestTypes
<1>10. ReferencedExists'
  <2> SUFFICES ASSUME NEW n \in Name, refs'[n] # {} PROVE \E e \in Driver : n \in volumes'[e]
    BY Zenon DEF ReferencedExists
  <2>1. PICK c \in Container, d \in Dest : <<c, d>> \in ready /\ mounts[c][d].name = n
    BY Zenon, <1>1
  <2>2. mounts[c][d] \in MountPoint /\ mounts[c][d].name \in volumes[mounts[c][d].driver]
    BY <2>1, <1>1, <1>5
  <2>3. mounts[c][d].driver \in Driver
    BY Zenon, <2>2 DEF MountPoint
  <2>4. QED
    BY Zenon, <2>1, <2>2, <2>3, <1>2
<1>11. \A c \in Container : pc'[c] \in {"none", "gone", "created"} /\ doomed'[c] = None
  BY Zenon, <1>2, <1>3
<1>12. \A c \in Container : VolShape(c)'
  BY Zenon, <1>11 DEF VolShape
<1>13. VolShapes' /\ VolumesKept
  BY Zenon, <1>2, <1>6, <1>8, <1>9, <1>10, <1>12 DEF VolShapes, TypeOK, VolStoreTypes,
     VolPointTypes, VolRequestTypes, VolCountTypes, VolumesKept
<1>14. ASSUME VolInv, NEW c \in Container PROVE VolRefs(c)'
  <2>1. ASSUME pc'[c] = "none" PROVE mounts'[c] = NoMounts
    <3>1. pc[c] = "none"
      BY Zenon, <2>1, <1>3
    <3>2. mounts[c] = NoMounts
      BY Zenon, <3>1, <1>14 DEF VolInv, VolRefs
    <3>3. QED
      BY Zenon, <3>2, <1>1 DEF NoMounts
  <2>2. ASSUME NEW d \in Mounts(mounts'[c]), mounts'[c][d].volume PROVE c \in refs'[mounts'[c][d].name]
    <3>1. d \in Dest /\ mounts'[c][d] # None
      BY Zenon, <2>2 DEF Mounts
    <3>2. mounts[c][d] \in MountPoint /\ mounts'[c][d] = [mounts[c][d] EXCEPT !.volume = <<c, d>> \in ready]
      BY Zenon, <3>1, <1>1, <1>5
    <3>3. mounts'[c][d].name = mounts[c][d].name /\ mounts[c][d].name \in Name /\ <<c, d>> \in ready
      BY Zenon, <2>2, <3>2 DEF MountPoint
    <3>4. QED
      BY Zenon, <3>1, <3>3, <1>1
  <2>3. QED
    BY Zenon, <2>1, <2>2, <1>11 DEF VolRefs
<1>15. QED
  BY Zenon, <1>13, <1>14 DEF VolStepOK, VolInv

-----------------------------------------------------------------------------
(* The theorems *)

\* At first there are no volumes.
LEMMA VolInit ==
  ASSUME VolParameters, Init PROVE VolInv
<1>1. VolStoreTypes
  BY DEF Init, VolStoreTypes
<1>2. VolPointTypes
  BY Zenon DEF Init, VolPointTypes, NoMounts
<1>3. VolRequestTypes
  BY Zenon DEF Init, VolRequestTypes
<1>4. VolCountTypes
  BY DEF Init, VolCountTypes, VolParameters
<1>5. TypeOK
  BY Zenon, <1>1, <1>2, <1>3, <1>4, VolTypes
<1>6. ReferencedExists
  BY Zenon DEF Init, ReferencedExists
<1>7. \A c \in Container : pc[c] = "none" /\ doomed[c] = None /\ mounts[c] = NoMounts
  BY Zenon DEF Init
<1>8. \A c \in Container : VolShape(c) /\ VolRefs(c)
  BY Zenon, <1>7 DEF VolShape, VolRefs
<1>9. QED
  BY Zenon, <1>5, <1>6, <1>8 DEF VolInv, VolShapes

\* Every step keeps shapes and referenced volumes and, without a second registration, VolInv.
LEMMA VolNext ==
  ASSUME VolParameters, VolShapes, Next
  PROVE  VolShapes' /\ VolumesKept /\ ("hostconfig" \notin Ops => (VolInv => VolInv'))
<1>1. ASSUME NEW c \in Container, NEW hc \in Configs, ContainerStartHostConfig(c, hc)
      PROVE  VolShapes' /\ VolumesKept /\ ("hostconfig" \notin Ops => (VolInv => VolInv'))
  <2>1. "hostconfig" \in Ops
    BY Zenon, <1>1 DEF ContainerStartHostConfig
  <2>2. QED
    BY Zenon, <2>1, <1>1, ContainerStartHostConfigKeeps
<1>2. ASSUME VolStepOK PROVE VolShapes' /\ VolumesKept /\ ("hostconfig" \notin Ops => (VolInv => VolInv'))
  BY Zenon, <1>2 DEF VolStepOK
<1>3. \A c \in Container, hc \in Configs : ContainerCreate(c, hc) => VolStepOK
  BY Zenon, ContainerCreateKeeps
<1>4. \A c \in Container, d \in Dest :
        RegisterFrom(c, d) \/ RegisterBind(c, d) \/ CreateAnonymous(c, d) \/ removeMountPoint(c, d) \/ setupMount(c, d) => VolStepOK
  BY Zenon, RegisterFromKeeps, RegisterBindKeeps, CreateAnonymousKeeps, RemoveMountPointKeeps,
     SetupMountKeeps
<1>5. \A c \in Container, rm \in BOOLEAN : ContainerRm(c, rm) => VolStepOK
  BY Zenon, ContainerRmKeeps
<1>6. \A c \in Container : RegisterBinds(c) \/ InstallMountPoints(c) \/ CreateDone(c) \/ removeVolume(c) \/ removeMountPointsDone(c) => VolStepOK
  BY Zenon, RegisterBindsKeeps, InstallMountPointsKeeps, CreateDoneKeeps, RemoveVolumeKeeps,
     RemoveMountPointsDoneKeeps
<1>7. \A c \in Container : ContainerStart(c) \/ StartFails(c) \/ Started(c) \/ Exit(c) => VolStepOK
  BY Zenon, ContainerStartKeeps, StartFailsKeeps, StartedKeeps, ExitKeeps
<1>8. \A n \in UserName, d \in Driver \cup {None} : VolumeCreate(n, d) => VolStepOK
  BY Zenon, VolumeCreateKeeps DEF UserName
<1>9. \A u \in Caller : (\E n \in Name : VolumeRmGet(u, n)) \/ VolumeRmRemove(u) => VolStepOK
  BY Zenon, VolumeRmGetKeeps, VolumeRmRemoveKeeps
<1>10. \A down \in SUBSET Driver : DaemonRestart(down) => VolStepOK
  BY Zenon, DaemonRestartKeeps
<1>11. QED
  BY Zenon, <1>1, <1>2, <1>3, <1>4, <1>5, <1>6, <1>7, <1>8, <1>9, <1>10 DEF Next

\* Nothing is said of the rest of the world.
LEMMA VolStutter ==
  ASSUME UNCHANGED vars
  PROVE  (VolShapes => VolShapes') /\ (VolInv => VolInv')
<1>1. ASSUME NEW c PROVE (VolShape(c)' <=> VolShape(c)) /\ (VolRefs(c)' <=> VolRefs(c))
  BY Zenon DEF vars, VolShape, VolRefs
<1>2. (TypeOK' <=> TypeOK) /\ (ReferencedExists' <=> ReferencedExists)
  BY Zenon DEF vars, TypeOK, ReferencedExists
<1>3. QED
  BY Zenon, <1>1, <1>2 DEF VolShapes, VolInv

\* A volume with a reference exists in the driver that the store names for it: Remove and the
\* creation and removal of containers never leave a reference to a volume that is gone.
THEOREM VolumesReferenced ==
  ASSUME VolParameters PROVE Spec => []ReferencedExists
<1>1. Init => VolShapes
  BY Zenon, VolInit DEF VolInv
<1>2. VolShapes /\ [Next]_vars => VolShapes'
  BY Zenon, VolNext, VolStutter
<1>3. VolShapes => ReferencedExists
  BY Zenon DEF VolShapes
<1>4. QED
  BY <1>1, <1>2, <1>3, PTL DEF Spec

\* The tables of the store and of the containers keep their types.
THEOREM VolumesTyped ==
  ASSUME VolParameters PROVE Spec => []TypeOK
<1>1. Init => VolShapes
  BY VolInit DEF VolInv
<1>2. VolShapes /\ [Next]_vars => VolShapes'
  BY Zenon, VolNext, VolStutter
<1>3. VolShapes => TypeOK
  BY Zenon DEF VolShapes
<1>4. QED
  BY <1>1, <1>2, <1>3, PTL DEF Spec

\* Each mount point with a volume is covered by a reference of its container.
THEOREM VolumesInvariant ==
  ASSUME VolParameters, "hostconfig" \notin Ops PROVE Spec => []VolInv
<1>1. Init => VolInv
  BY Zenon, VolInit
<1>2. VolInv /\ [Next]_vars => VolInv'
  BY Zenon, VolNext, VolStutter DEF VolInv
<1>3. QED
  BY <1>1, <1>2, PTL DEF Spec

\* The invariant contains both properties.
LEMMA VolInvSafe == VolInv => VolumesSafe
<1> SUFFICES ASSUME VolInv PROVE VolumesSafe
  OBVIOUS
<1>1. ReferencedExists
  BY Zenon DEF VolInv, VolShapes
<1>2. RunningHoldsReferences
  BY Zenon DEF VolInv, VolRefs, RunningHoldsReferences
<1>3. QED
  BY Zenon, <1>1, <1>2 DEF VolumesSafe

\* A volume that is referred to exists, and a running container refers to every volume it has
\* mounted, for any containers, names, drivers and configurations, over restarts of the daemon;
\* registering the mount points a second time (a host configuration at start) is excluded.
THEOREM VolumesAreSafe ==
  ASSUME VolParameters, "hostconfig" \notin Ops PROVE Spec => []VolumesSafe
BY VolumesInvariant, VolInvSafe, PTL

\* A volume with a reference is not removed by any step.
LEMMA MountedStays ==
  ASSUME VolParameters, VolInv, [Next]_vars PROVE MountedNotRemovedStep
<1>1. VolumesKept
  BY Zenon, VolNext DEF VolInv, vars, VolumesKept
<1> SUFFICES ASSUME NEW c \in Container, pc[c] = "running", NEW d \in Mounts(mounts[c]),
                    mounts[c][d].name \in volumes[mounts[c][d].driver]
             PROVE  mounts[c][d].name \in volumes'[mounts[c][d].driver]
  BY Zenon DEF MountedNotRemovedStep
<1>2. mounts[c][d] \in MountPoint
  BY DEF VolInv, VolShapes, TypeOK, Mounts
<1>3. mounts[c][d].name \in Name /\ mounts[c][d].driver \in Driver
  BY Zenon, <1>2 DEF MountPoint
<1>4. c \in refs[mounts[c][d].name]
  BY Zenon DEF VolInv, VolRefs
<1>5. QED
  BY Zenon, <1>1, <1>3, <1>4 DEF VolumesKept

\* No step, and no VolumeRm racing a start, removes a volume that a running container has mounted.
THEOREM MountedVolumesStay ==
  ASSUME VolParameters, "hostconfig" \notin Ops PROVE Spec => MountedNotRemoved
<1>1. VolInv /\ [Next]_vars => MountedNotRemovedStep
  BY Zenon, MountedStays
<1>2. Spec => [][Next]_vars
  BY PTL DEF Spec
<1>3. QED
  BY <1>1, <1>2, VolumesInvariant, PTL DEF MountedNotRemoved

-----------------------------------------------------------------------------
(* daemon/container_operations.go: the networks of a container             *)

\* Labels at which a goroutine has an endpoint in hand that is not joined.
Holds == {"sandbox", "join", "rollback", "delete"}
Starting == {"next", "config", "create", "sandbox", "join", "rollback"}

\* A start or a stop is alone; requests are under way only while the container
\* runs.
NetTurns ==
  /\ op[Nets!L].pc # "idle" => ~Running /\ \A p \in Requester : op[p].pc = "idle"
  /\ ~Running => \A p \in Requester : op[p].pc = "idle"
  /\ op[Nets!L].pc # "delete"
  /\ \A p \in Requester : op[p].pc \notin {"next", "release"}

\* An endpoint is joined, or in the hands of one goroutine.
NetOwners ==
  /\ joined \subseteq eps
  /\ \A p \in Nets!Proc : op[p].pc \in Holds => op[p].key.net \in eps /\ op[p].key.net \notin joined
  /\ \A p, q \in Nets!Proc :
       op[p].pc \in Holds /\ op[q].pc \in Holds /\ op[p].key.net = op[q].key.net => p = q
  /\ \A n \in eps : n \in joined \/ \E p \in Nets!Proc : op[p].pc \in Holds /\ op[p].key.net = n

\* A joined network, and one about to be joined, has its entry.
NetEntries ==
  /\ \A n \in joined : Nets!ByName(n) \in Networks
  /\ \A p \in Nets!Proc : op[p].pc \in {"sandbox", "join"} => Nets!ByName(op[p].key.net) \in Networks

\* There is one sandbox, and what is joined is in it.
NetSandbox ==
  /\ sandbox \in {Nets!NoSandbox, SandboxID}
  /\ joined # {} => sandbox # Nets!NoSandbox
  /\ \A p \in Nets!Proc : op[p].pc = "join" => op[p].sb # Nets!NoSandbox

\* What is left to do at a start.
NetStart ==
  /\ op[Nets!L].pc \in Starting =>
       \A k \in Networks : k.net \in joined \/ k \in toConnect \/ (op[Nets!L].pc # "next" /\ k.net = op[Nets!L].key.net)
  /\ op[Nets!L].pc = "idle" /\ ~Running => eps = {}

NetInv == Nets!TypeOK /\ NetTurns /\ NetOwners /\ NetEntries /\ NetSandbox /\ NetStart

\* updateNetworkConfig makes the entry of a request, or returns.
LEMMA UpdateNetworkConfigKeeps == ASSUME Nets!NetParameters, NetInv, NEW p \in Nets!Proc, Nets!updateNetworkConfig(p) PROVE NetInv'
<1> USE DEF Nets!libnetwork, Nets!settings, Nets!Proc, Nets!ByName, Nets!NoSandbox
<1>1. Nets!TypeOK'
  BY DEF NetInv, Nets!TypeOK, Nets!updateNetworkConfig, Nets!Goto, Nets!Return, Nets!Idle,
     Nets!updateNetworkSettings, Nets!Key, Nets!AllNets, Nets!SandboxIDs
<1>2. NetTurns'
  BY DEF NetInv, NetTurns, Nets!NetParameters, Nets!TypeOK, Nets!updateNetworkConfig, Nets!Goto,
     Nets!Return, Nets!Idle, Nets!updateNetworkSettings
<1>3. NetOwners'
  BY DEF NetInv, NetTurns, NetOwners, Nets!NetParameters, Nets!TypeOK, Holds,
     Nets!updateNetworkConfig, Nets!Goto, Nets!Return, Nets!Idle, Nets!updateNetworkSettings
<1>4. NetEntries'
  BY DEF NetInv, NetTurns, NetOwners, NetEntries, NetStart, Nets!NetParameters, Nets!TypeOK, Holds,
     Nets!updateNetworkConfig, Nets!Goto, Nets!Return, Nets!Idle, Nets!updateNetworkSettings
<1>5. NetSandbox'
  BY DEF NetInv, NetTurns, NetSandbox, NetStart, Nets!NetParameters, Nets!TypeOK, Holds,
     Nets!SandboxIDs, Nets!updateNetworkConfig, Nets!Goto, Nets!Return, Nets!Idle,
     Nets!updateNetworkSettings
<1>6. NetStart'
  BY DEF NetInv, NetTurns, NetOwners, NetEntries, NetSandbox, NetStart, Nets!NetParameters,
     Nets!TypeOK, Holds, Starting, Nets!updateNetworkConfig, Nets!Goto, Nets!Return, Nets!Idle,
     Nets!updateNetworkSettings
<1>7. QED
  BY Zenon, <1>1, <1>2, <1>3, <1>4, <1>5, <1>6 DEF NetInv

\* CreateEndpoint: a new endpoint is in the hands of the goroutine that made it, and has its entry.
LEMMA CreateEndpointKeeps == ASSUME Nets!NetParameters, NetInv, NEW p \in Nets!Proc, Nets!CreateEndpoint(p) PROVE NetInv'
<1> USE DEF Nets!libnetwork, Nets!settings, Nets!Proc, Nets!ByName, Nets!NoSandbox
<1>1. Nets!TypeOK'
  BY DEF NetInv, Nets!TypeOK, Nets!CreateEndpoint, Nets!Goto, Nets!Return, Nets!Idle, Nets!Key,
     Nets!AllNets, Nets!SandboxIDs
<1>2. NetTurns'
  BY DEF NetInv, NetTurns, Nets!NetParameters, Nets!TypeOK, Nets!CreateEndpoint, Nets!Goto,
     Nets!Return, Nets!Idle
<1>3. NetOwners'
  BY DEF NetInv, NetTurns, NetOwners, Nets!NetParameters, Nets!TypeOK, Holds, Nets!CreateEndpoint,
     Nets!Goto, Nets!Return, Nets!Idle
<1>4. NetEntries'
  BY DEF NetInv, NetTurns, NetOwners, NetEntries, NetStart, Nets!NetParameters, Nets!TypeOK, Holds,
     Nets!CreateEndpoint, Nets!Goto, Nets!Return, Nets!Idle
<1>5. NetSandbox'
  BY DEF NetInv, NetTurns, NetSandbox, NetStart, Nets!NetParameters, Nets!TypeOK, Holds,
     Nets!SandboxIDs, Nets!CreateEndpoint, Nets!Goto, Nets!Return, Nets!Idle
<1>6. NetStart'
  BY DEF NetInv, NetTurns, NetOwners, NetEntries, NetSandbox, NetStart, Nets!NetParameters,
     Nets!TypeOK, Holds, Starting, Nets!CreateEndpoint, Nets!Goto, Nets!Return, Nets!Idle
<1>7. QED
  BY Zenon, <1>1, <1>2, <1>3, <1>4, <1>5, <1>6 DEF NetInv

\* NewSandbox: there is no second sandbox, so nothing joined is in another one.
LEMMA NewSandboxKeeps == ASSUME Nets!NetParameters, NetInv, NEW p \in Nets!Proc, Nets!NewSandbox(p) PROVE NetInv'
<1>1. /\ op[p].pc = "sandbox"
      /\ UNCHANGED <<nets, eps, joined, Networks, withID, Running, toConnect>>
      /\ sandbox' \in Nets!SandboxIDs \cup {Nets!NoSandbox} /\ SandboxID' \in Nets!SandboxIDs \cup {Nets!NoSandbox}
      /\ sandbox' \in {Nets!NoSandbox, SandboxID'}
  <2>1. sandbox \in Nets!SandboxIDs \cup {Nets!NoSandbox} /\ SandboxID \in Nets!SandboxIDs \cup {Nets!NoSandbox}
    BY Zenon DEF NetInv, Nets!TypeOK
  <2>2. sandbox \in {Nets!NoSandbox, SandboxID}
    BY Zenon DEF NetInv, NetSandbox
  <2>3. \/ sandbox' \in Nets!SandboxIDs /\ SandboxID' = sandbox'
        \/ UNCHANGED <<sandbox, SandboxID>>
    BY Zenon DEF Nets!NewSandbox
  <2>4. QED
    BY Zenon, <2>1, <2>2, <2>3 DEF Nets!NewSandbox
<1>2. \E l \in {"join", "rollback"}, i \in Nets!SandboxIDs \cup {Nets!NoSandbox} :
        op' = [op EXCEPT ![p] = [@ EXCEPT !.pc = l, !.sb = i]] /\ (l = "join" => i # Nets!NoSandbox)
  <2>1. CASE Nets!Goto(p, "rollback")
    <3>1. op' = [op EXCEPT ![p] = [@ EXCEPT !.pc = "rollback", !.sb = op[p].sb]]
      BY Zenon, <2>1 DEF Nets!Goto, NetInv, Nets!TypeOK
    <3>2. QED
      BY Zenon, <3>1 DEF NetInv, Nets!TypeOK
  <2>2. ASSUME NEW i \in Nets!SandboxIDs \ {SandboxID},
               op' = [op EXCEPT ![p].sb = i, ![p].pc = "join"]
        PROVE  \E l \in {"join", "rollback"}, j \in Nets!SandboxIDs \cup {Nets!NoSandbox} :
                 op' = [op EXCEPT ![p] = [@ EXCEPT !.pc = l, !.sb = j]] /\ (l = "join" => j # Nets!NoSandbox)
    <3>1. op' = [op EXCEPT ![p] = [@ EXCEPT !.pc = "join", !.sb = i]]
      BY Zenon, <2>2 DEF NetInv, Nets!TypeOK
    <3>2. i # Nets!NoSandbox
      BY DEF Nets!SandboxIDs, Nets!NoSandbox
    <3>3. QED
      BY Zenon, <3>1, <3>2
  <2>3. QED
    BY Zenon, <2>1, <2>2 DEF Nets!NewSandbox
<1>3. PICK l \in {"join", "rollback"}, i \in Nets!SandboxIDs \cup {Nets!NoSandbox} :
        op' = [op EXCEPT ![p] = [@ EXCEPT !.pc = l, !.sb = i]] /\ (l = "join" => i # Nets!NoSandbox)
  BY Zenon, <1>2
<1>4. Nets!TypeOK'
  BY Zenon, <1>1, <1>3 DEF NetInv, Nets!TypeOK
<1>5. NetTurns'
  BY <1>1, <1>3 DEF NetInv, NetTurns, Nets!NetParameters, Nets!TypeOK
<1>6. NetOwners'
  BY <1>1, <1>3 DEF NetInv, NetOwners, Nets!TypeOK, Holds
<1>7. NetEntries'
  BY <1>1, <1>3 DEF NetInv, NetEntries, Nets!TypeOK
<1>8. NetSandbox'
  <2>1. joined' # {} => sandbox' # Nets!NoSandbox
    <3>1. joined # {} => sandbox # Nets!NoSandbox
      BY Zenon DEF NetInv, NetSandbox
    <3>2. sandbox' # sandbox => sandbox' # Nets!NoSandbox
      BY Zenon DEF Nets!NewSandbox, Nets!SandboxIDs, Nets!NoSandbox
    <3>3. QED
      BY Zenon, <1>1, <3>1, <3>2
  <2>2. \A q \in Nets!Proc : op'[q].pc = "join" => op'[q].sb # Nets!NoSandbox
    BY <1>3 DEF NetInv, NetSandbox, Nets!TypeOK
  <2>3. QED
    BY Zenon, <1>1, <2>1, <2>2 DEF NetSandbox
<1>9. NetStart'
  BY <1>1, <1>3 DEF NetInv, NetTurns, NetStart, Nets!NetParameters, Nets!TypeOK, Starting, Nets!Proc
<1>10. QED
  BY Zenon, <1>4, <1>5, <1>6, <1>7, <1>8, <1>9 DEF NetInv

\* Join: the endpoint in hand becomes a joined one.
LEMMA JoinKeeps == ASSUME Nets!NetParameters, NetInv, NEW p \in Nets!Proc, Nets!Join(p) PROVE NetInv'
<1> USE DEF Nets!libnetwork, Nets!settings, Nets!Proc, Nets!ByName, Nets!NoSandbox
<1>1. Nets!TypeOK'
  BY DEF NetInv, Nets!TypeOK, Nets!Join, Nets!Goto, Nets!Idle, Nets!Key, Nets!AllNets,
     Nets!SandboxIDs
<1>2. NetTurns'
  BY DEF NetInv, NetTurns, Nets!NetParameters, Nets!TypeOK, Nets!Join, Nets!Goto, Nets!Idle
<1>3. NetOwners'
  BY DEF NetInv, NetTurns, NetOwners, Nets!NetParameters, Nets!TypeOK, Holds, Nets!Join, Nets!Goto,
     Nets!Idle
<1>4. NetEntries'
  BY DEF NetInv, NetTurns, NetOwners, NetEntries, NetStart, Nets!NetParameters, Nets!TypeOK, Holds,
     Nets!Join, Nets!Goto, Nets!Idle
<1>5. NetSandbox'
  BY DEF NetInv, NetTurns, NetSandbox, NetStart, Nets!NetParameters, Nets!TypeOK, Holds,
     Nets!SandboxIDs, Nets!Join, Nets!Goto, Nets!Idle
<1>6. NetStart'
  BY DEF NetInv, NetTurns, NetOwners, NetEntries, NetSandbox, NetStart, Nets!NetParameters,
     Nets!TypeOK, Holds, Starting, Nets!Join, Nets!Goto, Nets!Idle
<1>7. QED
  BY <1>1, <1>2, <1>3, <1>4, <1>5, <1>6 DEF NetInv

\* The deferred Delete of a failed connection takes the endpoint that was in hand.
LEMMA RollbackKeeps == ASSUME Nets!NetParameters, NetInv, NEW p \in Nets!Proc, Nets!Rollback(p) PROVE NetInv'
<1> USE DEF Nets!libnetwork, Nets!settings, Nets!Proc, Nets!ByName, Nets!NoSandbox
<1>1. Nets!TypeOK'
  BY DEF NetInv, Nets!TypeOK, Nets!Rollback, Nets!Goto, Nets!Return, Nets!Idle, Nets!Key,
     Nets!AllNets, Nets!SandboxIDs
<1>2. NetTurns'
  BY Zenon DEF NetInv, NetTurns, Nets!NetParameters, Nets!TypeOK, Nets!Rollback, Nets!Goto,
     Nets!Return, Nets!Idle
<1>3. NetOwners'
  BY DEF NetInv, NetTurns, NetOwners, Nets!NetParameters, Nets!TypeOK, Holds, Nets!Rollback,
     Nets!Goto, Nets!Return, Nets!Idle
<1>4. NetEntries'
  BY DEF NetInv, NetTurns, NetOwners, NetEntries, NetStart, Nets!NetParameters, Nets!TypeOK, Holds,
     Nets!Rollback, Nets!Goto, Nets!Return, Nets!Idle
<1>5. NetSandbox'
  BY DEF NetInv, NetTurns, NetSandbox, NetStart, Nets!NetParameters, Nets!TypeOK, Holds,
     Nets!SandboxIDs, Nets!Rollback, Nets!Goto, Nets!Return, Nets!Idle
<1>6. NetStart'
  BY DEF NetInv, NetTurns, NetOwners, NetEntries, NetSandbox, NetStart, Nets!NetParameters,
     Nets!TypeOK, Holds, Starting, Nets!Rollback, Nets!Goto, Nets!Return, Nets!Idle
<1>7. QED
  BY <1>1, <1>2, <1>3, <1>4, <1>5, <1>6 DEF NetInv

\* A start destroys a stale sandbox, with the endpoints in it.
LEMMA AllocateNetworkKeeps == ASSUME Nets!NetParameters, NetInv, Nets!allocateNetwork PROVE NetInv'
<1> USE DEF Nets!libnetwork, Nets!settings, Nets!Proc, Nets!ByName, Nets!NoSandbox
<1>1. Nets!TypeOK'
  BY DEF NetInv, Nets!TypeOK, Nets!allocateNetwork, Nets!SandboxDelete, Nets!Goto, Nets!Quiet,
     Nets!Key, Nets!AllNets, Nets!SandboxIDs
<1>2. NetTurns'
  BY DEF NetInv, NetTurns, Nets!NetParameters, Nets!TypeOK, Nets!allocateNetwork,
     Nets!SandboxDelete, Nets!Goto, Nets!Quiet
<1>3. NetOwners'
  BY DEF NetInv, NetTurns, NetOwners, Nets!NetParameters, Nets!TypeOK, Holds, Nets!allocateNetwork,
     Nets!SandboxDelete, Nets!Goto, Nets!Quiet
<1>4. NetEntries'
  BY DEF NetInv, NetTurns, NetOwners, NetEntries, NetStart, Nets!NetParameters, Nets!TypeOK, Holds,
     Nets!allocateNetwork, Nets!SandboxDelete, Nets!Goto, Nets!Quiet
<1>5. NetSandbox'
  BY DEF NetInv, NetTurns, NetSandbox, NetStart, Nets!NetParameters, Nets!TypeOK, Holds,
     Nets!SandboxIDs, Nets!allocateNetwork, Nets!SandboxDelete, Nets!Goto, Nets!Quiet
<1>6. NetStart'
  BY Zenon DEF NetInv, NetTurns, NetOwners, NetEntries, NetSandbox, NetStart, Nets!NetParameters,
     Nets!TypeOK, Holds, Starting, Nets!allocateNetwork, Nets!SandboxDelete, Nets!Goto, Nets!Quiet
<1>7. QED
  BY Zenon, <1>1, <1>2, <1>3, <1>4, <1>5, <1>6 DEF NetInv

\* A start takes the next entry, or runs when none is left.
LEMMA NextNetworkKeeps == ASSUME Nets!NetParameters, NetInv, Nets!NextNetwork PROVE NetInv'
<1>1. op[Nets!L].pc = "next" /\ UNCHANGED <<nets, sandbox, eps, joined, Networks, withID, SandboxID>>
  BY Zenon DEF Nets!NextNetwork, Nets!libnetwork, Nets!settings
<1>2. /\ op \in [Nets!Proc -> [pc : {"idle", "config", "create", "sandbox", "join", "rollback", "next", "release",
                              "delete"}, key : Nets!Key, sb : Nets!SandboxIDs \cup {Nets!NoSandbox}]]
      /\ Nets!L \in Nets!Proc
  BY Zenon DEF NetInv, Nets!TypeOK, Nets!Proc
<1>3. ASSUME toConnect = {}, Running' = TRUE, UNCHANGED toConnect, op' = [op EXCEPT ![Nets!L] = Nets!Idle] PROVE NetInv'
  <2>1. Nets!Idle \in [pc : {"idle"}, key : Nets!Key, sb : {Nets!NoSandbox}] /\ Nets!Idle.pc = "idle"
    BY Zenon DEF Nets!Idle, Nets!Key, Nets!ByName, Nets!AllNets
  <2>2. Nets!TypeOK'
    BY Zenon, <1>1, <1>2, <1>3, <2>1 DEF NetInv, Nets!TypeOK
  <2>3. NetTurns' /\ NetOwners'
    BY Zenon, <1>1, <1>2, <1>3, <2>1 DEF NetInv, NetTurns, NetOwners, Holds, Nets!Proc
  <2>4. NetEntries' /\ NetSandbox' /\ NetStart'
    BY Zenon, <1>1, <1>2, <1>3, <2>1 DEF NetInv, NetEntries, NetSandbox, NetStart, Starting
  <2>5. QED
    BY Zenon, <2>2, <2>3, <2>4 DEF NetInv
<1>4. ASSUME NEW k \in toConnect, UNCHANGED Running, toConnect' = toConnect \ {k},
             op' = [op EXCEPT ![Nets!L] = [@ EXCEPT !.key = k, !.pc = "config"]]
      PROVE  NetInv'
  <2>1. k \in Nets!Key
    BY Zenon DEF NetInv, Nets!TypeOK
  <2>2. Nets!TypeOK'
    BY Zenon, <1>1, <1>2, <1>4, <2>1 DEF NetInv, Nets!TypeOK
  <2>3. NetTurns' /\ NetOwners'
    BY <1>1, <1>2, <1>4 DEF NetInv, NetTurns, NetOwners, Nets!NetParameters, Holds, Nets!Proc
  <2>4. NetEntries' /\ NetSandbox'
    BY <1>1, <1>2, <1>4 DEF NetInv, NetEntries, NetSandbox
  <2>5. NetStart'
    BY <1>1, <1>2, <1>4 DEF NetInv, NetStart, NetTurns, Starting
  <2>6. QED
    BY Zenon, <2>2, <2>3, <2>4, <2>5 DEF NetInv
<1>5. CASE toConnect = {}
  BY <1>3, <1>5 DEF Nets!NextNetwork, Nets!Goto
<1>6. CASE toConnect # {}
  <2>1. PICK k \in toConnect : op' = [op EXCEPT ![Nets!L].key = k, ![Nets!L].pc = "config"] /\ toConnect' = toConnect \ {k} /\ UNCHANGED Running
    BY Zenon, <1>6 DEF Nets!NextNetwork
  <2>2. op' = [op EXCEPT ![Nets!L] = [@ EXCEPT !.key = k, !.pc = "config"]]
    BY Zenon, <1>2, <2>1
  <2>3. QED
    BY Zenon, <1>4, <2>1, <2>2
<1>7. QED
  BY Zenon, <1>5, <1>6

\* An exit is handled when nothing else is under way.
LEMMA StateExitKeeps == ASSUME Nets!NetParameters, NetInv, Nets!StateExit PROVE NetInv'
<1> USE DEF Nets!libnetwork, Nets!settings, Nets!Proc, Nets!ByName, Nets!NoSandbox
<1>1. Nets!TypeOK'
  <2>1. op' = [op EXCEPT ![Nets!L] = [op[Nets!L] EXCEPT !.pc = "release"]] /\ Running' = FALSE
    BY DEF Nets!StateExit, Nets!Goto
  <2>2. op' \in [Nets!Proc -> [pc : {"idle", "config", "create", "sandbox", "join", "rollback", "next", "release",
                                   "delete"}, key : Nets!Key, sb : Nets!SandboxIDs \cup {Nets!NoSandbox}]]
    BY <2>1 DEF NetInv, Nets!TypeOK
  <2>3. UNCHANGED <<nets, sandbox, eps, joined, Networks, withID, SandboxID, toConnect>>
    BY Zenon DEF Nets!StateExit
  <2>4. QED
    BY Zenon, <2>1, <2>2, <2>3 DEF NetInv, Nets!TypeOK
<1>2. NetTurns'
  BY DEF NetInv, NetTurns, Nets!NetParameters, Nets!TypeOK, Nets!StateExit, Nets!Goto, Nets!Quiet
<1>3. NetOwners'
  BY DEF NetInv, NetTurns, NetOwners, Nets!NetParameters, Nets!TypeOK, Holds, Nets!StateExit,
     Nets!Goto, Nets!Quiet
<1>4. NetEntries'
  BY DEF NetInv, NetTurns, NetOwners, NetEntries, NetStart, Nets!NetParameters, Nets!TypeOK, Holds,
     Nets!StateExit, Nets!Goto, Nets!Quiet
<1>5. NetSandbox'
  BY DEF NetInv, NetTurns, NetSandbox, NetStart, Nets!NetParameters, Nets!TypeOK, Holds,
     Nets!SandboxIDs, Nets!StateExit, Nets!Goto, Nets!Quiet
<1>6. NetStart'
  BY DEF NetInv, NetTurns, NetOwners, NetEntries, NetSandbox, NetStart, Nets!NetParameters,
     Nets!TypeOK, Holds, Starting, Nets!StateExit, Nets!Goto, Nets!Quiet
<1>7. QED
  BY <1>1, <1>2, <1>3, <1>4, <1>5, <1>6 DEF NetInv

\* releaseNetwork deletes the sandbox, and so every endpoint that joined it.
LEMMA ReleaseNetworkKeeps == ASSUME Nets!NetParameters, NetInv, Nets!releaseNetwork PROVE NetInv'
<1> USE DEF Nets!libnetwork, Nets!settings, Nets!Proc, Nets!ByName, Nets!NoSandbox
<1>1. Nets!TypeOK'
  BY DEF NetInv, Nets!TypeOK, Nets!releaseNetwork, Nets!SandboxDelete, Nets!Goto, Nets!Idle,
     Nets!Key, Nets!AllNets, Nets!SandboxIDs
<1>2. NetTurns'
  BY Zenon DEF NetInv, NetTurns, Nets!NetParameters, Nets!TypeOK, Nets!releaseNetwork,
     Nets!SandboxDelete, Nets!Goto, Nets!Idle
<1>3. NetOwners'
  BY DEF NetInv, NetTurns, NetOwners, Nets!NetParameters, Nets!TypeOK, Holds, Nets!releaseNetwork,
     Nets!SandboxDelete, Nets!Goto, Nets!Idle
<1>4. NetEntries'
  BY Zenon DEF NetInv, NetTurns, NetOwners, NetEntries, NetStart, Nets!NetParameters, Nets!TypeOK,
     Holds, Nets!releaseNetwork, Nets!SandboxDelete, Nets!Goto, Nets!Idle
<1>5. NetSandbox'
  BY Zenon DEF NetInv, NetTurns, NetSandbox, NetStart, Nets!NetParameters, Nets!TypeOK, Holds,
     Nets!SandboxIDs, Nets!releaseNetwork, Nets!SandboxDelete, Nets!Goto, Nets!Idle
<1>6. NetStart'
  BY Zenon DEF NetInv, NetTurns, NetOwners, NetEntries, NetSandbox, NetStart, Nets!NetParameters,
     Nets!TypeOK, Holds, Starting, Nets!releaseNetwork, Nets!SandboxDelete, Nets!Goto, Nets!Idle
<1>7. QED
  BY <1>1, <1>2, <1>3, <1>4, <1>5, <1>6 DEF NetInv

\* A request to connect stores an entry, or goes on to connect a running container.
LEMMA ConnectToNetworkKeeps == ASSUME Nets!NetParameters, NetInv, NEW p \in Requester, NEW k \in Nets!Key, Nets!ConnectToNetwork(p, k) PROVE NetInv'
<1> USE DEF Nets!libnetwork, Nets!settings, Nets!Proc, Nets!ByName, Nets!NoSandbox
<1>1. Nets!TypeOK'
  BY DEF NetInv, Nets!TypeOK, Nets!ConnectToNetwork, Nets!Called, Nets!updateNetworkSettings,
     Nets!Key, Nets!AllNets, Nets!SandboxIDs
<1>2. NetTurns'
  BY DEF NetInv, NetTurns, Nets!NetParameters, Nets!TypeOK, Nets!ConnectToNetwork, Nets!Called,
     Nets!updateNetworkSettings
<1>3. NetOwners'
  BY DEF NetInv, NetTurns, NetOwners, Nets!NetParameters, Nets!TypeOK, Holds,
     Nets!ConnectToNetwork, Nets!Called, Nets!updateNetworkSettings
<1>4. NetEntries'
  BY DEF NetInv, NetTurns, NetOwners, NetEntries, NetStart, Nets!NetParameters, Nets!TypeOK, Holds,
     Nets!ConnectToNetwork, Nets!Called, Nets!updateNetworkSettings
<1>5. NetSandbox'
  BY DEF NetInv, NetTurns, NetSandbox, NetStart, Nets!NetParameters, Nets!TypeOK, Holds,
     Nets!SandboxIDs, Nets!ConnectToNetwork, Nets!Called, Nets!updateNetworkSettings
<1>6. NetStart'
  BY DEF NetInv, NetTurns, NetOwners, NetEntries, NetSandbox, NetStart, Nets!NetParameters,
     Nets!TypeOK, Holds, Starting, Nets!ConnectToNetwork, Nets!Called, Nets!updateNetworkSettings
<1>7. QED
  BY Zenon, <1>1, <1>2, <1>3, <1>4, <1>5, <1>6 DEF NetInv

\* A request to disconnect drops the entry, or takes a joined endpoint in hand.
LEMMA DisconnectFromNetworkKeeps == ASSUME Nets!NetParameters, NetInv, NEW p \in Requester, NEW n \in Nets!AllNets, Nets!DisconnectFromNetwork(p, n) PROVE NetInv'
<1> USE DEF Nets!libnetwork, Nets!settings, Nets!Proc, Nets!ByName, Nets!NoSandbox
<1>1. Nets!TypeOK'
  BY DEF NetInv, Nets!TypeOK, Nets!DisconnectFromNetwork, Nets!Called, Nets!Key, Nets!AllNets,
     Nets!SandboxIDs
<1>2. NetTurns'
  BY DEF NetInv, NetTurns, Nets!NetParameters, Nets!TypeOK, Nets!DisconnectFromNetwork, Nets!Called
<1>3. NetOwners'
  BY DEF NetInv, NetTurns, NetOwners, Nets!NetParameters, Nets!TypeOK, Holds,
     Nets!DisconnectFromNetwork, Nets!Called
<1>4. NetEntries'
  BY DEF NetInv, NetTurns, NetOwners, NetEntries, NetStart, Nets!NetParameters, Nets!TypeOK, Holds,
     Nets!DisconnectFromNetwork, Nets!Called
<1>5. NetSandbox'
  BY DEF NetInv, NetTurns, NetSandbox, NetStart, Nets!NetParameters, Nets!TypeOK, Holds,
     Nets!SandboxIDs, Nets!DisconnectFromNetwork, Nets!Called
<1>6. NetStart'
  BY DEF NetInv, NetTurns, NetOwners, NetEntries, NetSandbox, NetStart, Nets!NetParameters,
     Nets!TypeOK, Holds, Starting, Nets!DisconnectFromNetwork, Nets!Called
<1>7. QED
  BY Zenon, <1>1, <1>2, <1>3, <1>4, <1>5, <1>6 DEF NetInv

\* The endpoint that left is deleted, with its entry.
LEMMA EndpointDeleteKeeps == ASSUME Nets!NetParameters, NetInv, NEW p \in Requester, Nets!EndpointDelete(p) PROVE NetInv'
<1> USE DEF Nets!libnetwork, Nets!settings, Nets!Proc, Nets!ByName, Nets!NoSandbox
<1>1. Nets!TypeOK'
  BY Zenon DEF NetInv, Nets!TypeOK, Nets!EndpointDelete, Nets!Goto, Nets!Idle, Nets!Key,
     Nets!AllNets, Nets!SandboxIDs
<1>2. NetTurns'
  BY Zenon DEF NetInv, NetTurns, Nets!NetParameters, Nets!TypeOK, Nets!EndpointDelete, Nets!Goto,
     Nets!Idle
<1>3. NetOwners'
  BY DEF NetInv, NetTurns, NetOwners, Nets!NetParameters, Nets!TypeOK, Holds, Nets!EndpointDelete,
     Nets!Goto, Nets!Idle
<1>4. NetEntries'
  BY DEF NetInv, NetTurns, NetOwners, NetEntries, NetStart, Nets!NetParameters, Nets!TypeOK, Holds,
     Nets!EndpointDelete, Nets!Goto, Nets!Idle
<1>5. NetSandbox'
  BY Zenon DEF NetInv, NetTurns, NetSandbox, NetStart, Nets!NetParameters, Nets!TypeOK, Holds,
     Nets!SandboxIDs, Nets!EndpointDelete, Nets!Goto, Nets!Idle
<1>6. NetStart'
  BY Zenon DEF NetInv, NetTurns, NetOwners, NetEntries, NetSandbox, NetStart, Nets!NetParameters,
     Nets!TypeOK, Holds, Starting, Nets!EndpointDelete, Nets!Goto, Nets!Idle
<1>7. QED
  BY Zenon, <1>1, <1>2, <1>3, <1>4, <1>5, <1>6 DEF NetInv

\* A new network has no endpoint of the container.
LEMMA CreateNetworkKeeps == ASSUME Nets!NetParameters, NetInv, NEW n \in Net, Nets!createNetwork(n) PROVE NetInv'
<1> USE DEF Nets!libnetwork, Nets!settings, Nets!Proc, Nets!ByName, Nets!NoSandbox
<1>1. Nets!TypeOK'
  BY Zenon DEF NetInv, Nets!TypeOK, Nets!createNetwork, Nets!Key, Nets!AllNets, Nets!SandboxIDs
<1>2. NetTurns'
  BY Zenon DEF NetInv, NetTurns, Nets!NetParameters, Nets!TypeOK, Nets!createNetwork
<1>3. NetOwners'
  BY Zenon DEF NetInv, NetTurns, NetOwners, Nets!NetParameters, Nets!TypeOK, Holds,
     Nets!createNetwork
<1>4. NetEntries'
  BY Zenon DEF NetInv, NetTurns, NetOwners, NetEntries, NetStart, Nets!NetParameters, Nets!TypeOK,
     Holds, Nets!createNetwork
<1>5. NetSandbox'
  BY Zenon DEF NetInv, NetTurns, NetSandbox, NetStart, Nets!NetParameters, Nets!TypeOK, Holds,
     Nets!SandboxIDs, Nets!createNetwork
<1>6. NetStart'
  BY Zenon DEF NetInv, NetTurns, NetOwners, NetEntries, NetSandbox, NetStart, Nets!NetParameters,
     Nets!TypeOK, Holds, Starting, Nets!createNetwork
<1>7. QED
  BY Zenon, <1>1, <1>2, <1>3, <1>4, <1>5, <1>6 DEF NetInv

\* A network with an endpoint is not deleted.
LEMMA DeleteNetworkKeeps == ASSUME Nets!NetParameters, NetInv, NEW n \in Net, Nets!deleteNetwork(n) PROVE NetInv'
<1> USE DEF Nets!libnetwork, Nets!settings, Nets!Proc, Nets!ByName, Nets!NoSandbox
<1>1. Nets!TypeOK'
  BY Zenon DEF NetInv, Nets!TypeOK, Nets!deleteNetwork, Nets!Key, Nets!AllNets, Nets!SandboxIDs
<1>2. NetTurns'
  BY Zenon DEF NetInv, NetTurns, Nets!NetParameters, Nets!TypeOK, Nets!deleteNetwork
<1>3. NetOwners'
  BY Zenon DEF NetInv, NetTurns, NetOwners, Nets!NetParameters, Nets!TypeOK, Holds,
     Nets!deleteNetwork
<1>4. NetEntries'
  BY Zenon DEF NetInv, NetTurns, NetOwners, NetEntries, NetStart, Nets!NetParameters, Nets!TypeOK,
     Holds, Nets!deleteNetwork
<1>5. NetSandbox'
  BY Zenon DEF NetInv, NetTurns, NetSandbox, NetStart, Nets!NetParameters, Nets!TypeOK, Holds,
     Nets!SandboxIDs, Nets!deleteNetwork
<1>6. NetStart'
  BY Zenon DEF NetInv, NetTurns, NetOwners, NetEntries, NetSandbox, NetStart, Nets!NetParameters,
     Nets!TypeOK, Holds, Starting, Nets!deleteNetwork
<1>7. QED
  BY Zenon, <1>1, <1>2, <1>3, <1>4, <1>5, <1>6 DEF NetInv

\* Every step keeps the invariant.
LEMMA NetInvStep == ASSUME Nets!NetParameters, NetInv, [Nets!Next]_(Nets!vars) PROVE NetInv'
<1>1. CASE UNCHANGED Nets!vars
  BY Zenon, <1>1 DEF Nets!vars, NetInv, Nets!TypeOK, NetTurns, NetOwners, NetEntries, NetSandbox,
     NetStart
<1>2. ASSUME NEW p \in Nets!Proc, Nets!connectToNetwork(p) PROVE NetInv'
  BY Zenon, <1>2, UpdateNetworkConfigKeeps, CreateEndpointKeeps, NewSandboxKeeps, JoinKeeps,
     RollbackKeeps
     DEF Nets!connectToNetwork
<1>3. CASE Nets!allocateNetwork \/ Nets!NextNetwork \/ Nets!StateExit \/ Nets!releaseNetwork
  BY Zenon, <1>3, AllocateNetworkKeeps, NextNetworkKeeps, StateExitKeeps, ReleaseNetworkKeeps
<1>4. ASSUME NEW p \in Requester,
             \/ \E k \in Nets!Key : Nets!ConnectToNetwork(p, k)
             \/ \E n \in Nets!AllNets : Nets!DisconnectFromNetwork(p, n)
             \/ Nets!EndpointDelete(p)
      PROVE  NetInv'
  BY Zenon, <1>4, ConnectToNetworkKeeps, DisconnectFromNetworkKeeps, EndpointDeleteKeeps
<1>5. ASSUME NEW n \in Net, Nets!createNetwork(n) \/ Nets!deleteNetwork(n) PROVE NetInv'
  BY Zenon, <1>5, CreateNetworkKeeps, DeleteNetworkKeeps
<1>6. QED
  BY Zenon, <1>1, <1>2, <1>3, <1>4, <1>5 DEF Nets!Next

\* A new container has no endpoint and no sandbox.
LEMMA NetInvInit == ASSUME Nets!NetParameters, Nets!Init PROVE NetInv
<1>1. Nets!Idle \in [pc : {"idle"}, key : Nets!Key, sb : {Nets!NoSandbox}] /\ Nets!Idle.pc = "idle"
  BY Zenon DEF Nets!Idle, Nets!Key, Nets!ByName, Nets!AllNets
<1>2. \A p \in Nets!Proc : op[p].pc = "idle"
  BY Zenon, <1>1 DEF Nets!Init
<1>3. Nets!TypeOK
  <2>1. Nets!ByName(Bridge) \in Nets!Key
    BY Zenon DEF Nets!Key, Nets!ByName, Nets!AllNets
  <2>2. op \in [Nets!Proc -> [pc : {"idle", "config", "create", "sandbox", "join", "rollback", "next", "release",
                              "delete"}, key : Nets!Key, sb : Nets!SandboxIDs \cup {Nets!NoSandbox}]]
    BY Zenon, <1>1 DEF Nets!Init
  <2>3. QED
    BY Zenon, <2>1, <2>2 DEF Nets!Init, Nets!TypeOK
<1>4. NetTurns /\ NetOwners /\ NetEntries /\ NetSandbox /\ NetStart
  BY Zenon, <1>2 DEF Nets!Init, NetTurns, NetOwners, NetEntries, NetSandbox, NetStart, Holds,
     Starting, Nets!Proc
<1>5. QED
  BY Zenon, <1>3, <1>4 DEF NetInv

\* Every endpoint of a container is joined or in the hands of one goroutine, and what is
\* joined has its entry and is in the one sandbox.
THEOREM NetworksInvariant == ASSUME Nets!NetParameters PROVE Nets!Spec => []NetInv
<1>1. Nets!Init => NetInv
  BY Zenon, NetInvInit
<1>2. NetInv /\ [Nets!Next]_(Nets!vars) => NetInv'
  BY Zenon, NetInvStep
<1>3. QED
  BY <1>1, <1>2, PTL DEF Nets!Spec

\* connectToNetwork and its rollback, releaseNetwork and disconnectFromNetwork keep the
\* settings and libnetwork in step, for any networks and any number of requests that do not
\* overlap a start or a stop: a joined network has its entry, a stopped container no endpoint.
THEOREM NetworksAreSafe == ASSUME Nets!NetParameters PROVE Nets!Spec => []NetworksSafe
<1>1. ASSUME NetInv PROVE NetworksSafe
  BY Zenon, <1>1 DEF NetInv, NetEntries, NetStart, NetworksSafe, Nets!NetworksSafe,
     Nets!JoinedIsKnown, Nets!StoppedHasNoEndpoint, Nets!Quiet, Nets!Proc
<1>2. QED
  BY <1>1, NetworksInvariant, PTL

\* allocateNetwork connects every entry of the settings before the container runs.
THEOREM NetworksStart == ASSUME Nets!NetParameters PROVE Nets!Spec => Nets!StartConnectsAll
<1>1. ASSUME NetInv, [Nets!Next]_(Nets!vars) PROVE [Nets!StartConnectsAllStep]_(Nets!vars)
  <2> SUFFICES ASSUME ~Running, Running' PROVE \A k \in Networks : k.net \in joined
    BY Zenon DEF Nets!StartConnectsAllStep
  <2>1. Nets!NextNetwork /\ toConnect = {}
    BY Zenon, <1>1 DEF Nets!Next, Nets!vars, Nets!connectToNetwork, Nets!updateNetworkConfig,
       Nets!CreateEndpoint, Nets!NewSandbox, Nets!Join, Nets!Rollback,
       Nets!allocateNetwork, Nets!NextNetwork, Nets!StateExit, Nets!releaseNetwork, Nets!ConnectToNetwork, Nets!DisconnectFromNetwork,
       Nets!EndpointDelete, Nets!createNetwork, Nets!deleteNetwork
  <2>2. QED
    BY Zenon, <1>1, <2>1 DEF Nets!NextNetwork, NetInv, NetStart, Starting
<1>2. QED
  BY <1>1, NetworksInvariant, PTL DEF Nets!Spec, Nets!StartConnectsAll

-----------------------------------------------------------------------------
(* image, reference and daemon/image_delete.go: images and their names     *)

\* A request that is under way has its image, and one that takes a name away
\* has the name.
ImgReq ==
  {x \in [step : Imgs!Steps, id : Id \cup {None}, ref : Ref \cup {None}, force : BOOLEAN, prune : BOOLEAN,
          refs : SUBSET Ref, up : Id \cup {None}] :
     /\ x.step # "idle" => x.id \in Id
     /\ x.step = "untag" => x.ref \in Ref}

ImgFiles ==
  /\ content \subseteq Id /\ images \subseteq Id
  /\ parent \in [Id -> Id \cup {None}]
  /\ children \in [Id -> SUBSET Id]
ImgTables ==
  /\ repos \in [Ref -> Id \cup {None}]
  /\ cache \in [Id -> SUBSET Ref]
  /\ saved \in [Ref -> Id \cup {None}]
ImgCounts ==
  /\ cont \in [User -> [id : Id \cup {None}, running : BOOLEAN]]
  /\ requests \in 0..MaxRequests
  /\ crashes \in 0..MaxCrashes
ImgTypes == ImgFiles /\ ImgTables /\ ImgCounts /\ req \in [Client -> ImgReq] /\ disturbed \in BOOLEAN

\* While nothing was disturbed a deletion is alone.
ImgAlone ==
  ~disturbed => \A p, q \in Client : req[p].step \in Imgs!Deleting /\ p # q => req[q].step = "idle"

\* The parents on record, those of configurations that are gone included.
ImgParents ==
  \A i \in Id : parent[i] # None => i \in content /\ parent[i] \in images /\ i \in children[parent[i]]

\* Without a second Create of an image, what is in the maps is on disk, and an
\* image is entered by the request that wrote its configuration.
ImgOnDisk ==
  "recreate" \notin Ops =>
    /\ images \subseteq content
    /\ \A p \in Client : req[p].step = "create" => req[p].id \in content /\ req[p].id \notin images
    /\ \A p, q \in Client : req[p].step = "create" /\ req[q].step = "create" /\ req[p].id = req[q].id => p = q

\* Who names an image has it, and who deletes one has taken its names.
ImgNamed ==
  ~disturbed =>
    /\ \A r \in Ref : repos[r] # None => repos[r] \in images
    /\ \A p \in Client : req[p].step \in {"parent", "tag"} => req[p].id \in images
    /\ \A p \in Client : req[p].step = "strip" => cache[req[p].id] \subseteq req[p].refs
    /\ \A p \in Client : req[p].step = "delete" => cache[req[p].id] = {}

\* Who deletes an image has found no container that runs it.
ImgUnused ==
  ~disturbed => \A p \in Client : req[p].step \in {"strip", "delete"} => Imgs!Running(req[p].id) = {}

\* A step of p changes the request of p alone.
ImgBy(p) == Imgs!Overlap(p) /\ \E x \in ImgReq : req' = [req EXCEPT ![p] = x]

\* A request that ends leaves the idle record.
LEMMA ImgIdle == Imgs!Idle \in ImgReq
BY DEF ImgReq, Imgs!Idle, Imgs!Steps, Imgs!Deleting
\* A request goes on to another label.
LEMMA ImgStepped ==
  ASSUME NEW q \in ImgReq, q.step # "idle", NEW l \in Imgs!Steps \ {"untag"}
  PROVE  [q EXCEPT !.step = l] \in ImgReq /\ [q EXCEPT !.step = l, !.ref = None] \in ImgReq
BY DEF ImgReq
\* A request has one name less to take away.
LEMMA ImgStripped ==
  ASSUME NEW q \in ImgReq, q.step \notin {"idle", "untag"}, NEW s \in SUBSET Ref
  PROVE  [q EXCEPT !.refs = s] \in ImgReq
BY DEF ImgReq
\* A request goes on with a new set of names.
LEMMA ImgRecords ==
  ASSUME NEW q \in ImgReq, q.step # "idle", NEW l \in Imgs!Steps \ {"untag"}, NEW s \in SUBSET Ref,
         NEW u \in Id \cup {None}
  PROVE  /\ [q EXCEPT !.step = l, !.refs = s, !.ref = None] \in ImgReq
         /\ [q EXCEPT !.step = l, !.refs = s, !.up = u] \in ImgReq
<1>1. [q EXCEPT !.step = l, !.refs = s, !.ref = None] \in ImgReq
  BY DEF ImgReq
<1>2. [q EXCEPT !.step = l, !.refs = s, !.up = u] \in ImgReq
  BY DEF ImgReq
<1>3. QED
  BY Zenon, <1>1, <1>2
\* The labels the steps use are labels of requests.
LEMMA ImgLabels ==
  /\ Imgs!Steps = {"idle", "create", "parent", "tag", "rwlayer", "run", "untag", "untagged", "untidy", "unref", "check",
                     "strip", "delete"}
  /\ Imgs!Deleting = {"untag", "untagged", "untidy", "unref", "check", "strip", "delete"}
BY DEF Imgs!Steps, Imgs!Deleting

\* A step replaces one request, or none, or ends them all.
LEMMA ImgActs == ASSUME Imgs!ImgParameters, ImgTypes, Imgs!Next PROVE (\E p \in Client : ImgBy(p)) \/ (Imgs!Overlap(None) /\ UNCHANGED req) \/ req' = [p \in Client |-> Imgs!Idle]
<1>0. req \in [Client -> ImgReq] /\ cache \in [Id -> SUBSET Ref] /\ parent \in [Id -> Id \cup {None}]
  BY Zenon DEF ImgTypes, ImgFiles, ImgTables
<1>1. ASSUME NEW p \in Client, NEW i \in Id, Imgs!CreateSet(p, i) PROVE ImgBy(p)
  BY <1>0, <1>1 DEF ImgTypes, ImgTables, ImgBy, ImgReq, Imgs!Idle, Imgs!Steps, Imgs!Deleting,
     Imgs!ImgParameters, Imgs!CreateSet, Imgs!Begin
<1>2. ASSUME NEW p \in Client, Imgs!CreateAdd(p) PROVE ImgBy(p)
  <2>1. [req[p] EXCEPT !.step = "parent"] \in ImgReq
    BY <1>0, <1>2, ImgStepped DEF Imgs!CreateAdd, Imgs!Steps, Imgs!Deleting
  <2>2. req' = [req EXCEPT ![p] = [req[p] EXCEPT !.step = "parent"]]
    BY <1>0, <1>2 DEF Imgs!CreateAdd
  <2>3. QED
    BY Zenon, <1>2, ImgIdle, <2>1, <2>2 DEF ImgBy, Imgs!CreateAdd, Imgs!Continue
<1>3. ASSUME NEW p \in Client, NEW i \in Id, Imgs!SetParent(p, i) PROVE ImgBy(p)
  <2>1. [req[p] EXCEPT !.step = "tag"] \in ImgReq
    BY <1>0, <1>3, ImgStepped DEF Imgs!SetParent, Imgs!Steps, Imgs!Deleting
  <2>2. req' = [req EXCEPT ![p] = [req[p] EXCEPT !.step = "tag"]]
    BY <1>0, <1>3 DEF Imgs!SetParent
  <2>3. QED
    BY Zenon, <1>3, ImgIdle, <2>1, <2>2 DEF ImgBy, Imgs!SetParent, Imgs!Continue
<1>4. ASSUME NEW p \in Client, Imgs!NoParent(p) PROVE ImgBy(p)
  <2>1. [req[p] EXCEPT !.step = "tag"] \in ImgReq
    BY <1>0, <1>4, ImgStepped DEF Imgs!NoParent, Imgs!Steps, Imgs!Deleting
  <2>2. req' = [req EXCEPT ![p] = [req[p] EXCEPT !.step = "tag"]]
    BY <1>0, <1>4 DEF Imgs!NoParent
  <2>3. QED
    BY Zenon, <1>4, ImgIdle, <2>1, <2>2 DEF ImgBy, Imgs!NoParent, Imgs!Continue
<1>5. ASSUME NEW p \in Client, NEW r \in Ref, NEW force \in BOOLEAN, Imgs!addReference(p, r, force) PROVE ImgBy(p)
  BY Zenon, <1>5, ImgIdle DEF ImgBy, Imgs!addReference, Imgs!Continue
<1>6. ASSUME NEW p \in Client, Imgs!NoTag(p) PROVE ImgBy(p)
  BY Zenon, <1>6, ImgIdle DEF ImgBy, Imgs!NoTag, Imgs!Continue
<1>7. ASSUME NEW p \in Client, NEW i \in Id, Imgs!TagImage(p, i) PROVE ImgBy(p)
  BY <1>0, <1>7 DEF ImgTypes, ImgTables, ImgBy, ImgReq, Imgs!Idle, Imgs!Steps, Imgs!Deleting,
     Imgs!ImgParameters, Imgs!TagImage, Imgs!Begin
<1>8. ASSUME NEW p \in Client, NEW r \in Ref, NEW force \in BOOLEAN, NEW prune \in BOOLEAN, Imgs!ImageDeleteRef(p, r, force, prune) PROVE ImgBy(p)
  BY <1>0, <1>8 DEF ImgTypes, ImgTables, ImgBy, ImgReq, Imgs!Idle, Imgs!Steps, Imgs!Deleting,
     Imgs!ImgParameters, Imgs!ImageDeleteRef, Imgs!Begin
<1>9. ASSUME NEW p \in Client, Imgs!removeImageRef(p) PROVE ImgBy(p)
  <2>1. [req[p] EXCEPT !.step = "untagged"] \in ImgReq
    BY <1>0, <1>9, ImgStepped DEF Imgs!removeImageRef, Imgs!Steps, Imgs!Deleting
  <2>2. req' = [req EXCEPT ![p] = Imgs!Idle] \/ req' = [req EXCEPT ![p] = [req[p] EXCEPT !.step = "untagged"]]
    BY Zenon, <1>0, <1>9 DEF Imgs!removeImageRef, Imgs!ReferenceDelete
  <2>3. QED
    BY Zenon, <1>9, ImgIdle, <2>1, <2>2 DEF ImgBy, Imgs!removeImageRef, Imgs!Continue
<1>10. ASSUME NEW p \in Client, Imgs!Untagged(p) PROVE ImgBy(p)
  <2>1. req[p].step # "idle" /\ req[p].id \in Id
    BY <1>0, <1>10 DEF Imgs!Untagged, ImgReq
  <2> DEFINE same == {r \in cache[req[p].id] : RepoOf[r] = RepoOf[req[p].ref]}
             orphans == IF req[p].ref \notin IsDigest /\ same \subseteq IsDigest THEN same ELSE {}
             x(l) == [req[p] EXCEPT !.step = l, !.refs = orphans, !.ref = None]
             y == [req[p] EXCEPT !.step = "check", !.ref = None]
  <2>2. orphans \in SUBSET Ref
    BY <1>0, <2>1
  <2>3. x("unref") \in ImgReq /\ x("untidy") \in ImgReq /\ y \in ImgReq
    <3>1. req[p] \in ImgReq /\ {"unref", "untidy", "check"} \subseteq Imgs!Steps \ {"untag"}
      BY <1>0, ImgLabels
    <3>2. QED
      BY Zenon, <2>1, <2>2, <3>1, ImgRecords, ImgStepped
  <2>4. req' = [req EXCEPT ![p] = Imgs!Idle] \/ req' = [req EXCEPT ![p] = x("unref")] \/ req' = [req EXCEPT ![p] = x("untidy")] \/ req' = [req EXCEPT ![p] = y]
    BY Zenon, <1>10 DEF Imgs!Untagged
  <2>5. QED
    BY Zenon, <1>10, <2>3, <2>4, ImgIdle DEF ImgBy, Imgs!Untagged, Imgs!Continue
<1>11. ASSUME NEW p \in Client, NEW i \in Id, NEW force \in BOOLEAN, NEW prune \in BOOLEAN, Imgs!ImageDeleteID(p, i, force, prune) PROVE ImgBy(p)
  BY <1>0, <1>11 DEF ImgTypes, ImgTables, ImgBy, ImgReq, Imgs!Idle, Imgs!Steps, Imgs!Deleting,
     Imgs!ImgParameters, Imgs!ImageDeleteID, Imgs!Begin
<1>12. ASSUME NEW p \in Client, NEW r \in Ref, Imgs!RemoveRef(p, r) PROVE ImgBy(p)
  <2> DEFINE q == [req[p] EXCEPT !.refs = @ \ {r}]
  <2>1. req[p] \in ImgReq /\ req[p].step \notin {"idle", "untag"} /\ req[p].refs \ {r} \in SUBSET Ref
    BY <1>0, <1>12 DEF Imgs!RemoveRef, ImgReq
  <2>2. q \in ImgReq /\ q.step # "idle"
    BY <2>1, ImgStripped DEF ImgReq
  <2>3. [q EXCEPT !.step = "check"] \in ImgReq
    BY <2>2, ImgStepped, ImgLabels
  <2>4. req' = [req EXCEPT ![p] = Imgs!Idle] \/ req' = [req EXCEPT ![p] = q] \/ req' = [req EXCEPT ![p] = [q EXCEPT !.step = "check"]]
    BY Zenon, <1>12 DEF Imgs!RemoveRef, Imgs!ReferenceDelete
  <2>5. QED
    BY Zenon, <1>12, <2>2, <2>3, <2>4, ImgIdle DEF ImgBy, Imgs!RemoveRef, Imgs!Continue
<1>13. ASSUME NEW p \in Client, Imgs!HelperCheck(p) PROVE ImgBy(p)
  <2> DEFINE u == IF req[p].id \in content THEN parent[req[p].id] ELSE None
  <2>1. req[p].step # "idle" /\ req[p].id \in Id
    BY <1>0, <1>13 DEF Imgs!HelperCheck, ImgReq
  <2>2. cache[req[p].id] \in SUBSET Ref /\ u \in Id \cup {None}
    BY <1>0, <2>1
  <2>3. [req[p] EXCEPT !.step = "strip", !.refs = cache[req[p].id], !.up = u] \in ImgReq
    <3>1. req[p] \in ImgReq /\ "strip" \in Imgs!Steps \ {"untag"}
      BY <1>0, ImgLabels
    <3>2. QED
      BY Zenon, <2>1, <2>2, <3>1, ImgRecords
  <2>4. req' = [req EXCEPT ![p] = Imgs!Idle]
        \/ req' = [req EXCEPT ![p] = [req[p] EXCEPT !.step = "strip", !.refs = cache[req[p].id], !.up = u]]
    BY Zenon, <1>13 DEF Imgs!HelperCheck
  <2>5. QED
    BY Zenon, <1>13, <2>3, <2>4, ImgIdle DEF ImgBy, Imgs!HelperCheck, Imgs!Continue
<1>14. ASSUME NEW p \in Client, Imgs!HelperStrip(p) PROVE ImgBy(p)
  <2> DEFINE x(r) == [req[p] EXCEPT !.refs = @ \ {r}]
  <2>1. req[p] \in ImgReq /\ req[p].step \notin {"idle", "untag"} /\ req[p].refs \subseteq Ref
    BY <1>0, <1>14 DEF Imgs!HelperStrip, ImgReq
  <2>2. ASSUME NEW r \in Ref PROVE x(r) \in ImgReq
    <3>1. req[p].refs \ {r} \in SUBSET Ref
      BY <2>1
    <3>2. QED
      BY Zenon, <2>1, <3>1, ImgStripped
  <2>3. [req[p] EXCEPT !.step = "delete"] \in ImgReq
    BY <2>1, ImgStepped, ImgLabels
  <2>4. req' = [req EXCEPT ![p] = [req[p] EXCEPT !.step = "delete"]] \/ req' = [req EXCEPT ![p] = Imgs!Idle] \/ \E r \in Ref : req' = [req EXCEPT ![p] = x(r)]
    BY Zenon, <1>14, <2>1 DEF Imgs!HelperStrip, Imgs!ReferenceDelete
  <2>5. QED
    BY Zenon, <1>14, <2>2, <2>3, <2>4, ImgIdle DEF ImgBy, Imgs!HelperStrip, Imgs!Continue
<1>15. ASSUME NEW p \in Client, Imgs!HelperDelete(p) PROVE ImgBy(p)
  BY <1>0, <1>15 DEF ImgTypes, ImgTables, ImgBy, ImgReq, Imgs!Idle, Imgs!Steps, Imgs!Deleting,
     Imgs!ImgParameters, Imgs!HelperDelete, Imgs!Continue, Imgs!ImageStoreDelete
<1>16. ASSUME NEW p \in Client, NEW i \in Id, Imgs!ContainerCreate(p, i) PROVE ImgBy(p)
  BY <1>0, <1>16 DEF ImgTypes, ImgTables, ImgBy, ImgReq, Imgs!Idle, Imgs!Steps, Imgs!Deleting,
     Imgs!ImgParameters, Imgs!ContainerCreate, Imgs!Begin
<1>17. ASSUME NEW p \in Client, Imgs!setRWLayer(p) PROVE ImgBy(p)
  <2>1. [req[p] EXCEPT !.step = "run"] \in ImgReq
    BY <1>0, <1>17, ImgStepped DEF Imgs!setRWLayer, Imgs!Steps, Imgs!Deleting
  <2>2. req' = [req EXCEPT ![p] = Imgs!Idle] \/ req' = [req EXCEPT ![p] = [req[p] EXCEPT !.step = "run"]]
    BY Zenon, <1>0, <1>17 DEF Imgs!setRWLayer
  <2>3. QED
    BY Zenon, <1>17, ImgIdle, <2>1, <2>2 DEF ImgBy, Imgs!setRWLayer, Imgs!Continue
<1>18. ASSUME NEW p \in Client, NEW c \in User, Imgs!Register(p, c) PROVE ImgBy(p)
  BY Zenon, <1>18, ImgIdle DEF ImgBy, Imgs!Register, Imgs!Continue
<1>19. ASSUME NEW c \in User, Imgs!ContainerChanges(c) PROVE Imgs!Overlap(None) /\ UNCHANGED req
  BY Zenon, <1>19 DEF Imgs!ContainerChanges
<1>20. ASSUME Imgs!Crash PROVE req' = [p \in Client |-> Imgs!Idle]
  BY Zenon, <1>20 DEF Imgs!Crash
<1>21. QED
  BY Zenon, <1>1, <1>2, <1>3, <1>4, <1>5, <1>6, <1>7, <1>8, <1>9, <1>10, <1>11, <1>12, <1>13,
     <1>14, <1>15, <1>16, <1>17, <1>18, <1>19, <1>20 DEF Imgs!Next

\* Delete of a reference: it leaves both maps.
LEMMA ImgReferenceDelete ==
  ASSUME Imgs!ImgParameters, ImgTables, Imgs!ReferencesAgree, NEW p, NEW r \in Ref, NEW x,
         Imgs!ReferenceDelete(p, r, x)
  PROVE  /\ ImgTables' /\ Imgs!ReferencesAgree'
         /\ \A k \in Id : cache'[k] \subseteq cache[k] \ {r}
         /\ \A s \in Ref : repos'[s] \in {repos[s], None}
<1>1. CASE repos[r] = None
  <2>1. UNCHANGED <<repos, cache, saved>>
    BY Zenon, <1>1 DEF Imgs!ReferenceDelete, Imgs!refVars
  <2>2. \A k \in Id : r \notin cache[k]
    BY Zenon, <1>1 DEF Imgs!ReferencesAgree, Imgs!ImgParameters
  <2>3. QED
    BY Zenon, <2>1, <2>2 DEF ImgTables, Imgs!ReferencesAgree
<1>2. CASE repos[r] # None
  <2>1. /\ repos' = [repos EXCEPT ![r] = None]
        /\ cache' = [k \in Id |-> IF k = repos[r] THEN cache[k] \ {r} ELSE cache[k]]
        /\ saved' = repos' \/ ("savefails" \in Ops /\ saved' = saved)
    BY Zenon, <1>2 DEF Imgs!ReferenceDelete, Imgs!save
  <2>2. ImgTables'
    BY <2>1 DEF ImgTables
  <2>3. \A k \in Id : cache'[k] = {s \in Ref : repos'[s] = k}
    BY <2>1 DEF ImgTables, Imgs!ReferencesAgree, Imgs!ImgParameters
  <2>4. QED
    BY <2>1, <2>2, <2>3 DEF ImgTables, Imgs!ReferencesAgree
<1>3. QED
  BY Zenon, <1>1, <1>2

\* addReference: the reference moves in both maps.
LEMMA ImgAddReference ==
  ASSUME Imgs!ImgParameters, ImgTables, Imgs!ReferencesAgree, req \in [Client -> ImgReq],
         NEW p \in Client, NEW r \in Ref, NEW force, Imgs!addReference(p, r, force)
  PROVE  /\ ImgTables' /\ Imgs!ReferencesAgree'
         /\ req[p].id \in Id
         /\ \A s \in Ref : repos'[s] \in {repos[s], req[p].id}
<1>1. req[p].id \in Id
  BY DEF ImgReq, Imgs!addReference
<1>2. CASE UNCHANGED <<repos, cache, saved>>
  BY Zenon, <1>1, <1>2 DEF ImgTables, Imgs!ReferencesAgree
<1>3. CASE ~UNCHANGED <<repos, cache, saved>>
  <2> DEFINE i == req[p].id
             old == repos[r]
  <2>1. /\ repos' = [repos EXCEPT ![r] = i]
        /\ cache' = [k \in Id |-> IF k = i THEN cache[k] \cup {r} ELSE IF k = old THEN cache[k] \ {r} ELSE cache[k]]
        /\ saved' = repos' \/ ("savefails" \in Ops /\ saved' = saved)
    BY Zenon, <1>3 DEF Imgs!addReference, Imgs!refVars, Imgs!save
  <2>2. ImgTables'
    BY <1>1, <2>1 DEF ImgTables
  <2>3. \A k \in Id : cache'[k] = {s \in Ref : repos'[s] = k}
    BY <1>1, <2>1 DEF ImgTables, Imgs!ReferencesAgree
  <2>4. QED
    BY <1>1, <2>1, <2>2, <2>3 DEF ImgTables, Imgs!ReferencesAgree
<1>4. QED
  BY Zenon, <1>2, <1>3

\* The by-ID cache stays the inverse of the repositories.
LEMMA ImgReferences == ASSUME Imgs!ImgParameters, ImgTypes, Imgs!ReferencesAgree, Imgs!Next PROVE ImgTables' /\ Imgs!ReferencesAgree'
<1>0. Imgs!ImgParameters /\ ImgTables /\ req \in [Client -> ImgReq] /\ Imgs!ReferencesAgree
  BY Zenon DEF ImgTypes
<1>1. ASSUME NEW p \in Client, NEW i \in Id, Imgs!CreateSet(p, i) PROVE ImgTables' /\ Imgs!ReferencesAgree'
  <2>1. UNCHANGED <<repos, cache, saved>>
    BY Zenon, <1>1 DEF Imgs!CreateSet, Imgs!refVars
  <2>2. QED
    BY Zenon, <1>0, <2>1 DEF ImgTables, Imgs!ReferencesAgree
<1>2. ASSUME NEW p \in Client, Imgs!CreateAdd(p) PROVE ImgTables' /\ Imgs!ReferencesAgree'
  <2>1. UNCHANGED <<repos, cache, saved>>
    BY Zenon, <1>2 DEF Imgs!CreateAdd, Imgs!refVars
  <2>2. QED
    BY Zenon, <1>0, <2>1 DEF ImgTables, Imgs!ReferencesAgree
<1>3. ASSUME NEW p \in Client, NEW i \in Id, Imgs!SetParent(p, i) PROVE ImgTables' /\ Imgs!ReferencesAgree'
  <2>1. UNCHANGED <<repos, cache, saved>>
    BY Zenon, <1>3 DEF Imgs!SetParent, Imgs!refVars
  <2>2. QED
    BY Zenon, <1>0, <2>1 DEF ImgTables, Imgs!ReferencesAgree
<1>4. ASSUME NEW p \in Client, Imgs!NoParent(p) PROVE ImgTables' /\ Imgs!ReferencesAgree'
  <2>1. UNCHANGED <<repos, cache, saved>>
    BY Zenon, <1>4 DEF Imgs!NoParent, Imgs!refVars
  <2>2. QED
    BY Zenon, <1>0, <2>1 DEF ImgTables, Imgs!ReferencesAgree
<1>5. ASSUME NEW p \in Client, NEW r \in Ref, NEW force \in BOOLEAN, Imgs!addReference(p, r, force) PROVE ImgTables' /\ Imgs!ReferencesAgree'
  BY Zenon, <1>0, <1>5, ImgAddReference
<1>6. ASSUME NEW p \in Client, Imgs!NoTag(p) PROVE ImgTables' /\ Imgs!ReferencesAgree'
  <2>1. UNCHANGED <<repos, cache, saved>>
    BY Zenon, <1>6 DEF Imgs!NoTag, Imgs!refVars
  <2>2. QED
    BY Zenon, <1>0, <2>1 DEF ImgTables, Imgs!ReferencesAgree
<1>7. ASSUME NEW p \in Client, NEW i \in Id, Imgs!TagImage(p, i) PROVE ImgTables' /\ Imgs!ReferencesAgree'
  <2>1. UNCHANGED <<repos, cache, saved>>
    BY Zenon, <1>7 DEF Imgs!TagImage, Imgs!refVars
  <2>2. QED
    BY Zenon, <1>0, <2>1 DEF ImgTables, Imgs!ReferencesAgree
<1>8. ASSUME NEW p \in Client, NEW r \in Ref, NEW force \in BOOLEAN, NEW prune \in BOOLEAN, Imgs!ImageDeleteRef(p, r, force, prune) PROVE ImgTables' /\ Imgs!ReferencesAgree'
  <2>1. UNCHANGED <<repos, cache, saved>>
    BY Zenon, <1>8 DEF Imgs!ImageDeleteRef, Imgs!refVars
  <2>2. QED
    BY Zenon, <1>0, <2>1 DEF ImgTables, Imgs!ReferencesAgree
<1>9. ASSUME NEW p \in Client, Imgs!removeImageRef(p) PROVE ImgTables' /\ Imgs!ReferencesAgree'
  <2>1. req[p].ref \in Ref
    BY <1>0, <1>9 DEF Imgs!removeImageRef, ImgReq
  <2>2. QED
    BY Zenon, <1>0, <1>9, <2>1, ImgReferenceDelete DEF Imgs!removeImageRef
<1>10. ASSUME NEW p \in Client, Imgs!Untagged(p) PROVE ImgTables' /\ Imgs!ReferencesAgree'
  <2>1. UNCHANGED <<repos, cache, saved>>
    BY Zenon, <1>10 DEF Imgs!Untagged, Imgs!refVars
  <2>2. QED
    BY Zenon, <1>0, <2>1 DEF ImgTables, Imgs!ReferencesAgree
<1>11. ASSUME NEW p \in Client, NEW i \in Id, NEW force \in BOOLEAN, NEW prune \in BOOLEAN, Imgs!ImageDeleteID(p, i, force, prune) PROVE ImgTables' /\ Imgs!ReferencesAgree'
  <2>1. UNCHANGED <<repos, cache, saved>>
    BY Zenon, <1>11 DEF Imgs!ImageDeleteID, Imgs!refVars
  <2>2. QED
    BY Zenon, <1>0, <2>1 DEF ImgTables, Imgs!ReferencesAgree
<1>12. ASSUME NEW p \in Client, NEW r \in Ref, Imgs!RemoveRef(p, r) PROVE ImgTables' /\ Imgs!ReferencesAgree'
  BY Zenon, <1>0, <1>12, ImgReferenceDelete DEF Imgs!RemoveRef
<1>13. ASSUME NEW p \in Client, Imgs!HelperCheck(p) PROVE ImgTables' /\ Imgs!ReferencesAgree'
  <2>1. UNCHANGED <<repos, cache, saved>>
    BY Zenon, <1>13 DEF Imgs!HelperCheck, Imgs!refVars
  <2>2. QED
    BY Zenon, <1>0, <2>1 DEF ImgTables, Imgs!ReferencesAgree
<1>14. ASSUME NEW p \in Client, Imgs!HelperStrip(p) PROVE ImgTables' /\ Imgs!ReferencesAgree'
  <2>1. req[p].refs \subseteq Ref
    BY <1>0 DEF ImgReq
  <2>2. CASE UNCHANGED <<repos, cache, saved>>
    BY Zenon, <1>0, <2>2 DEF ImgTables, Imgs!ReferencesAgree
  <2>3. ASSUME NEW r \in req[p].refs, NEW x, Imgs!ReferenceDelete(p, r, x) PROVE ImgTables' /\ Imgs!ReferencesAgree'
    BY Zenon, <1>0, <2>1, <2>3, ImgReferenceDelete
  <2>4. QED
    BY Zenon, <1>14, <2>2, <2>3 DEF Imgs!HelperStrip, Imgs!refVars
<1>15. ASSUME NEW p \in Client, Imgs!HelperDelete(p) PROVE ImgTables' /\ Imgs!ReferencesAgree'
  <2>1. UNCHANGED <<repos, cache, saved>>
    BY Zenon, <1>15 DEF Imgs!HelperDelete, Imgs!refVars
  <2>2. QED
    BY Zenon, <1>0, <2>1 DEF ImgTables, Imgs!ReferencesAgree
<1>16. ASSUME NEW p \in Client, NEW i \in Id, Imgs!ContainerCreate(p, i) PROVE ImgTables' /\ Imgs!ReferencesAgree'
  <2>1. UNCHANGED <<repos, cache, saved>>
    BY Zenon, <1>16 DEF Imgs!ContainerCreate, Imgs!refVars
  <2>2. QED
    BY Zenon, <1>0, <2>1 DEF ImgTables, Imgs!ReferencesAgree
<1>17. ASSUME NEW p \in Client, Imgs!setRWLayer(p) PROVE ImgTables' /\ Imgs!ReferencesAgree'
  <2>1. UNCHANGED <<repos, cache, saved>>
    BY Zenon, <1>17 DEF Imgs!setRWLayer, Imgs!refVars
  <2>2. QED
    BY Zenon, <1>0, <2>1 DEF ImgTables, Imgs!ReferencesAgree
<1>18. ASSUME NEW p \in Client, NEW c \in User, Imgs!Register(p, c) PROVE ImgTables' /\ Imgs!ReferencesAgree'
  <2>1. UNCHANGED <<repos, cache, saved>>
    BY Zenon, <1>18 DEF Imgs!Register, Imgs!refVars
  <2>2. QED
    BY Zenon, <1>0, <2>1 DEF ImgTables, Imgs!ReferencesAgree
<1>19. ASSUME NEW c \in User, Imgs!ContainerChanges(c) PROVE ImgTables' /\ Imgs!ReferencesAgree'
  <2>1. UNCHANGED <<repos, cache, saved>>
    BY Zenon, <1>19 DEF Imgs!ContainerChanges, Imgs!refVars
  <2>2. QED
    BY Zenon, <1>0, <2>1 DEF ImgTables, Imgs!ReferencesAgree
<1>20. ASSUME Imgs!Crash PROVE ImgTables' /\ Imgs!ReferencesAgree'
  <2>1. repos' = saved /\ saved' = saved /\ cache' = [k \in Id |-> {r \in Ref : saved[r] = k}]
    BY Zenon, <1>20 DEF Imgs!Crash
  <2>2. QED
    BY <1>0, <2>1 DEF ImgTables, Imgs!ReferencesAgree
<1>21. QED
  BY Zenon, <1>1, <1>2, <1>3, <1>4, <1>5, <1>6, <1>7, <1>8, <1>9, <1>10, <1>11, <1>12, <1>13,
     <1>14, <1>15, <1>16, <1>17, <1>18, <1>19, <1>20 DEF Imgs!Next

\* The containers and the counters keep their types.
LEMMA ImgCounted == ASSUME Imgs!ImgParameters, ImgTypes, Imgs!Next PROVE ImgCounts'
<1>0. ImgCounts /\ req \in [Client -> ImgReq]
  BY Zenon DEF ImgTypes
<1>1. ASSUME NEW p \in Client, NEW i \in Id, Imgs!CreateSet(p, i) PROVE ImgCounts'
  BY <1>0, <1>1 DEF ImgCounts, Imgs!ImgParameters, Imgs!CreateSet, Imgs!Begin
<1>2. ASSUME NEW p \in Client, Imgs!CreateAdd(p) PROVE ImgCounts'
  BY Zenon, <1>0, <1>2 DEF ImgCounts, Imgs!CreateAdd, Imgs!Continue
<1>3. ASSUME NEW p \in Client, NEW i \in Id, Imgs!SetParent(p, i) PROVE ImgCounts'
  BY Zenon, <1>0, <1>3 DEF ImgCounts, Imgs!SetParent, Imgs!Continue
<1>4. ASSUME NEW p \in Client, Imgs!NoParent(p) PROVE ImgCounts'
  BY Zenon, <1>0, <1>4 DEF ImgCounts, Imgs!NoParent, Imgs!Continue
<1>5. ASSUME NEW p \in Client, NEW r \in Ref, NEW force \in BOOLEAN, Imgs!addReference(p, r, force) PROVE ImgCounts'
  BY Zenon, <1>0, <1>5 DEF ImgCounts, Imgs!addReference, Imgs!Continue
<1>6. ASSUME NEW p \in Client, Imgs!NoTag(p) PROVE ImgCounts'
  BY Zenon, <1>0, <1>6 DEF ImgCounts, Imgs!NoTag, Imgs!Continue
<1>7. ASSUME NEW p \in Client, NEW i \in Id, Imgs!TagImage(p, i) PROVE ImgCounts'
  BY <1>0, <1>7 DEF ImgCounts, Imgs!ImgParameters, Imgs!TagImage, Imgs!Begin
<1>8. ASSUME NEW p \in Client, NEW r \in Ref, NEW force \in BOOLEAN, NEW prune \in BOOLEAN, Imgs!ImageDeleteRef(p, r, force, prune) PROVE ImgCounts'
  BY <1>0, <1>8 DEF ImgCounts, Imgs!ImgParameters, Imgs!ImageDeleteRef, Imgs!Begin
<1>9. ASSUME NEW p \in Client, Imgs!removeImageRef(p) PROVE ImgCounts'
  BY Zenon, <1>0, <1>9 DEF ImgCounts, Imgs!removeImageRef, Imgs!Continue
<1>10. ASSUME NEW p \in Client, Imgs!Untagged(p) PROVE ImgCounts'
  BY Zenon, <1>0, <1>10 DEF ImgCounts, Imgs!Untagged, Imgs!Continue
<1>11. ASSUME NEW p \in Client, NEW i \in Id, NEW force \in BOOLEAN, NEW prune \in BOOLEAN, Imgs!ImageDeleteID(p, i, force, prune) PROVE ImgCounts'
  BY <1>0, <1>11 DEF ImgCounts, Imgs!ImgParameters, Imgs!ImageDeleteID, Imgs!Begin
<1>12. ASSUME NEW p \in Client, NEW r \in Ref, Imgs!RemoveRef(p, r) PROVE ImgCounts'
  BY Zenon, <1>0, <1>12 DEF ImgCounts, Imgs!RemoveRef, Imgs!Continue
<1>13. ASSUME NEW p \in Client, Imgs!HelperCheck(p) PROVE ImgCounts'
  BY Zenon, <1>0, <1>13 DEF ImgCounts, Imgs!HelperCheck, Imgs!Continue
<1>14. ASSUME NEW p \in Client, Imgs!HelperStrip(p) PROVE ImgCounts'
  BY Zenon, <1>0, <1>14 DEF ImgCounts, Imgs!HelperStrip, Imgs!Continue
<1>15. ASSUME NEW p \in Client, Imgs!HelperDelete(p) PROVE ImgCounts'
  BY Zenon, <1>0, <1>15 DEF ImgCounts, Imgs!HelperDelete, Imgs!Continue
<1>16. ASSUME NEW p \in Client, NEW i \in Id, Imgs!ContainerCreate(p, i) PROVE ImgCounts'
  BY <1>0, <1>16 DEF ImgCounts, Imgs!ImgParameters, Imgs!ContainerCreate, Imgs!Begin
<1>17. ASSUME NEW p \in Client, Imgs!setRWLayer(p) PROVE ImgCounts'
  BY Zenon, <1>0, <1>17 DEF ImgCounts, Imgs!setRWLayer, Imgs!Continue
<1>18. ASSUME NEW p \in Client, NEW c \in User, Imgs!Register(p, c) PROVE ImgCounts'
  <2>1. req[p].id \in Id
    BY <1>0, <1>18 DEF Imgs!Register, ImgReq
  <2>2. QED
    BY Zenon, <1>0, <1>18, <2>1 DEF ImgCounts, Imgs!Register
<1>19. ASSUME NEW c \in User, Imgs!ContainerChanges(c) PROVE ImgCounts'
  <2>1. cont' \in [User -> [id : Id \cup {None}, running : BOOLEAN]]
    <3> DEFINE y == [cont[c] EXCEPT !.running = ~@]
    <3>1. y \in [id : Id \cup {None}, running : BOOLEAN] /\ Imgs!NoContainer \in [id : Id \cup {None}, running : BOOLEAN]
      BY <1>0 DEF ImgCounts, Imgs!NoContainer
    <3>2. cont' = [cont EXCEPT ![c] = y] \/ cont' = [cont EXCEPT ![c] = Imgs!NoContainer]
      BY Zenon, <1>19 DEF Imgs!ContainerChanges
    <3>3. QED
      BY Zenon, <1>0, <3>1, <3>2 DEF ImgCounts
  <2>2. QED
    BY Zenon, <1>0, <1>19, <2>1 DEF ImgCounts, Imgs!ContainerChanges
<1>20. ASSUME Imgs!Crash PROVE ImgCounts'
  <2>1. cont' \in [User -> [id : Id \cup {None}, running : BOOLEAN]]
    BY <1>0, <1>20 DEF ImgCounts, Imgs!Crash
  <2>2. crashes' \in 0..MaxCrashes /\ requests' = requests
    BY <1>0, <1>20 DEF ImgCounts, Imgs!ImgParameters, Imgs!Crash
  <2>3. QED
    BY Zenon, <1>0, <2>1, <2>2 DEF ImgCounts
<1>21. QED
  BY Zenon, <1>1, <1>2, <1>3, <1>4, <1>5, <1>6, <1>7, <1>8, <1>9, <1>10, <1>11, <1>12, <1>13,
     <1>14, <1>15, <1>16, <1>17, <1>18, <1>19, <1>20 DEF Imgs!Next

\* Each file action keeps the parents and children in step.
LEMMA ImgCreateSet ==
  ASSUME Imgs!ImgParameters, ImgTypes, ImgParents, ImgOnDisk, NEW p \in Client, NEW i \in Id,
         Imgs!CreateSet(p, i)
  PROVE  ImgFiles' /\ ImgParents' /\ ImgOnDisk'
<1>1. /\ content' = content \cup {i} /\ parent' = parent /\ images' = images /\ children' = children
      /\ "recreate" \in Ops \/ i \notin content
      /\ req' = [req EXCEPT ![p] = [Imgs!Idle EXCEPT !.step = "create", !.id = i]]
  BY Zenon DEF Imgs!CreateSet
<1>2. req \in [Client -> ImgReq] /\ ImgFiles
  BY Zenon DEF ImgTypes
<1>3. ImgFiles'
  BY <1>1, <1>2 DEF ImgFiles
<1>4. ImgParents'
  BY Zenon, <1>1 DEF ImgParents
<1>5. /\ \A q \in Client : q # p => req'[q] = req[q]
      /\ req'[p].step = "create" /\ req'[p].id = i
  BY <1>1, <1>2 DEF Imgs!Idle
<1>6. ASSUME "recreate" \notin Ops PROVE ImgOnDisk'
  <2>1. i \notin content /\ images \subseteq content /\ \A q \in Client : req[q].step = "create" => req[q].id \in content /\ req[q].id \notin images
    BY Zenon, <1>1, <1>6 DEF ImgOnDisk
  <2>2. images' \subseteq content'
    BY Zenon, <1>1, <2>1
  <2>3. \A q \in Client : req'[q].step = "create" => req'[q].id \in content' /\ req'[q].id \notin images'
    BY <1>1, <1>5, <2>1
  <2>4. \A q, s \in Client : req'[q].step = "create" /\ req'[s].step = "create" /\ req'[q].id = req'[s].id => q = s
    <3>1. \A q, s \in Client : req[q].step = "create" /\ req[s].step = "create" /\ req[q].id = req[s].id => q = s
      BY Zenon, <1>6 DEF ImgOnDisk
    <3>2. QED
      BY <1>5, <2>1, <3>1
  <2>5. QED
    BY Zenon, <2>2, <2>3, <2>4 DEF ImgOnDisk
<1>7. QED
  BY Zenon, <1>3, <1>4, <1>6 DEF ImgOnDisk

\* Create enters the image in the map: it is on disk, has no child and no parent yet.
LEMMA ImgCreateAdd ==
  ASSUME Imgs!ImgParameters, ImgTypes, ImgParents, ImgOnDisk, NEW p \in Client, Imgs!CreateAdd(p)
  PROVE  ImgFiles' /\ ImgParents' /\ ImgOnDisk'
<1>1. req \in [Client -> ImgReq] /\ ImgFiles
  BY Zenon DEF ImgTypes
<1>2. req[p].step = "create" /\ req[p].id \in Id
  BY <1>1 DEF ImgReq, Imgs!CreateAdd
<1>3. /\ content' = content /\ parent' = parent /\ images' = images \cup {req[p].id}
      /\ children' = IF req[p].id \in images THEN children ELSE [children EXCEPT ![req[p].id] = {}]
  BY Zenon DEF Imgs!CreateAdd
<1>4. (\A q \in Client : q # p => req'[q] = req[q]) /\ req'[p].step = "parent"
  BY <1>1 DEF Imgs!CreateAdd, ImgReq
<1>5. ImgFiles'
  BY <1>1, <1>2, <1>3 DEF ImgFiles
<1>6. ImgParents'
  BY <1>1, <1>2, <1>3 DEF ImgFiles, ImgParents
<1>7. ImgOnDisk'
  BY Zenon, <1>2, <1>3, <1>4 DEF ImgOnDisk
<1>8. QED
  BY Zenon, <1>5, <1>6, <1>7

\* SetParent moves the image to the children of its new parent.
LEMMA ImgSetParent ==
  ASSUME Imgs!ImgParameters, ImgTypes, ImgParents, ImgOnDisk, NEW p \in Client, NEW new \in Id,
         Imgs!SetParent(p, new)
  PROVE  ImgFiles' /\ ImgParents' /\ ImgOnDisk'
<1>1. req \in [Client -> ImgReq] /\ ImgFiles
  BY Zenon DEF ImgTypes
<1>2. req[p].id \in Id
  BY <1>1 DEF ImgReq, Imgs!SetParent
<1>3. (\A q \in Client : q # p => req'[q] = req[q]) /\ req'[p].step = "tag"
  BY <1>1 DEF Imgs!SetParent, ImgReq
<1>4. content' = content /\ images' = images
  BY Zenon DEF Imgs!SetParent
<1>5. ImgOnDisk'
  BY Zenon, <1>3, <1>4 DEF ImgOnDisk
<1>6. CASE new \notin images
  BY Zenon, <1>1, <1>4, <1>5, <1>6 DEF Imgs!SetParent, ImgFiles, ImgParents
<1>7. CASE new \in images
  <2> DEFINE i == req[p].id
  <2>1. /\ children' = [k \in Id |-> IF k = new THEN children[k] \cup {i}
                                      ELSE IF i \in content /\ parent[i] = k /\ k \in images THEN children[k] \ {i} ELSE children[k]]
        /\ parent' = IF i \in content THEN [parent EXCEPT ![i] = new] ELSE parent
    BY Zenon, <1>7 DEF Imgs!SetParent
  <2>2. ImgFiles'
    BY <1>1, <1>2, <1>4, <2>1 DEF ImgFiles
  <2>3. ImgParents'
    BY <1>1, <1>2, <1>4, <1>7, <2>1 DEF ImgFiles, ImgParents
  <2>4. QED
    BY Zenon, <1>5, <2>2, <2>3
<1>8. QED
  BY Zenon, <1>6, <1>7

\* Deleting takes the image out of its parent's children and off the disk with its record.
LEMMA ImgHelperDelete ==
  ASSUME Imgs!ImgParameters, ImgTypes, ImgParents, ImgOnDisk, NEW p \in Client, Imgs!HelperDelete(p)
  PROVE  ImgFiles' /\ ImgParents' /\ ImgOnDisk'
<1>1. req \in [Client -> ImgReq] /\ ImgFiles
  BY Zenon DEF ImgTypes
<1>2. req[p].id \in Id
  BY <1>1 DEF ImgReq, Imgs!HelperDelete
<1>3. (\A q \in Client : q # p => req'[q] = req[q]) /\ req'[p].step # "create"
  <2>1. \/ req' = [req EXCEPT ![p] = Imgs!Idle]
        \/ req' = [req EXCEPT ![p] = [Imgs!Idle EXCEPT !.step = "check", !.id = req[p].up, !.prune = TRUE]]
    BY Zenon DEF Imgs!HelperDelete
  <2>2. /\ Imgs!Idle.step # "create"
        /\ [Imgs!Idle EXCEPT !.step = "check", !.id = req[p].up, !.prune = TRUE].step # "create"
    BY DEF Imgs!Idle
  <2>3. QED
    BY Zenon, <1>1, <2>1, <2>2
<1>4. CASE req[p].id \notin images
  <2>1. UNCHANGED <<content, parent, images, children>>
    BY Zenon, <1>4 DEF Imgs!HelperDelete, Imgs!fsVars
  <2>2. QED
    BY Zenon, <1>1, <1>3, <2>1 DEF ImgFiles, ImgParents, ImgOnDisk
<1>5. CASE req[p].id \in images
  <2> DEFINE d == req[p].id
  <2>1. /\ parent' = [k \in Id |-> IF k = d \/ k \in children[d] THEN None ELSE parent[k]]
        /\ children' = [k \in Id |-> IF k = d THEN {} ELSE IF d \in content /\ parent[d] = k THEN children[k] \ {d} ELSE children[k]]
        /\ images' = images \ {d} /\ content' = content \ {d}
    BY Zenon, <1>5 DEF Imgs!HelperDelete, Imgs!ImageStoreDelete
  <2>2. ImgFiles'
    BY <1>1, <1>2, <2>1 DEF ImgFiles
  <2>3. ImgParents'
    BY <1>1, <1>2, <2>1 DEF ImgFiles, ImgParents
  <2>4. ImgOnDisk'
    BY Zenon, <1>3, <1>5, <2>1 DEF ImgOnDisk
  <2>5. QED
    BY Zenon, <2>2, <2>3, <2>4
<1>6. QED
  BY Zenon, <1>4, <1>5

\* What is loaded after a crash.
LEMMA ImgCrash ==
  ASSUME Imgs!ImgParameters, ImgTypes, ImgParents, ImgOnDisk, "recreate" \notin Ops, Imgs!Crash
  PROVE  ImgFiles' /\ ImgParents' /\ ImgOnDisk'
<1>1. /\ content' = content /\ parent' = parent /\ images' = content
      /\ children' = [k \in Id |-> {i \in content : k \in content /\ parent[i] = k}]
      /\ req' = [p \in Client |-> Imgs!Idle]
  BY Zenon DEF Imgs!Crash
<1>2. ImgFiles /\ images \subseteq content
  BY Zenon DEF ImgTypes, ImgOnDisk
<1>3. ImgFiles'
  BY <1>1, <1>2 DEF ImgFiles
<1>4. ImgParents'
  BY <1>1, <1>2 DEF ImgFiles, ImgParents
<1>5. ImgOnDisk'
  BY <1>1 DEF ImgOnDisk, Imgs!Idle
<1>6. QED
  BY Zenon, <1>3, <1>4, <1>5

\* A daemon that dies finds every image it knew on disk, unless one was created again while it was being deleted.
LEMMA ImgKept == ASSUME Imgs!ImgParameters, "crash" \in Ops => "recreate" \notin Ops, ImgTypes, ImgParents, ImgOnDisk, Imgs!Next PROVE ImgFiles' /\ ImgParents' /\ ImgOnDisk'
<1>0. /\ Imgs!ImgParameters /\ ImgTypes /\ ImgFiles /\ ImgParents /\ ImgOnDisk /\ req \in [Client -> ImgReq]
      /\ "crash" \in Ops => "recreate" \notin Ops
  BY Zenon DEF ImgTypes
<1>1. ASSUME NEW p \in Client, NEW i \in Id, Imgs!CreateSet(p, i) PROVE ImgFiles' /\ ImgParents' /\ ImgOnDisk'
  BY Zenon, <1>0, <1>1, ImgCreateSet
<1>2. ASSUME NEW p \in Client, Imgs!CreateAdd(p) PROVE ImgFiles' /\ ImgParents' /\ ImgOnDisk'
  BY Zenon, <1>0, <1>2, ImgCreateAdd
<1>3. ASSUME NEW p \in Client, NEW i \in Id, Imgs!SetParent(p, i) PROVE ImgFiles' /\ ImgParents' /\ ImgOnDisk'
  BY Zenon, <1>0, <1>3, ImgSetParent
<1>4. ASSUME NEW p \in Client, Imgs!NoParent(p) PROVE ImgFiles' /\ ImgParents' /\ ImgOnDisk'
  <2>1. UNCHANGED <<content, parent, images, children>>
    BY Zenon, <1>4 DEF Imgs!NoParent, Imgs!fsVars
  <2>2. \A q \in Client : req'[q].step = "create" => req'[q] = req[q]
    BY <1>0, <1>4 DEF Imgs!Idle, ImgReq, Imgs!NoParent
  <2>3. QED
    BY Zenon, <1>0, <2>1, <2>2 DEF ImgFiles, ImgParents, ImgOnDisk
<1>5. ASSUME NEW p \in Client, NEW r \in Ref, NEW force \in BOOLEAN, Imgs!addReference(p, r, force) PROVE ImgFiles' /\ ImgParents' /\ ImgOnDisk'
  <2>1. UNCHANGED <<content, parent, images, children>>
    BY Zenon, <1>5 DEF Imgs!addReference, Imgs!fsVars
  <2>2. \A q \in Client : req'[q].step = "create" => req'[q] = req[q]
    BY <1>0, <1>5 DEF Imgs!Idle, ImgReq, Imgs!addReference
  <2>3. QED
    BY Zenon, <1>0, <2>1, <2>2 DEF ImgFiles, ImgParents, ImgOnDisk
<1>6. ASSUME NEW p \in Client, Imgs!NoTag(p) PROVE ImgFiles' /\ ImgParents' /\ ImgOnDisk'
  <2>1. UNCHANGED <<content, parent, images, children>>
    BY Zenon, <1>6 DEF Imgs!NoTag, Imgs!fsVars
  <2>2. \A q \in Client : req'[q].step = "create" => req'[q] = req[q]
    BY <1>0, <1>6 DEF Imgs!Idle, ImgReq, Imgs!NoTag
  <2>3. QED
    BY Zenon, <1>0, <2>1, <2>2 DEF ImgFiles, ImgParents, ImgOnDisk
<1>7. ASSUME NEW p \in Client, NEW i \in Id, Imgs!TagImage(p, i) PROVE ImgFiles' /\ ImgParents' /\ ImgOnDisk'
  <2>1. UNCHANGED <<content, parent, images, children>>
    BY Zenon, <1>7 DEF Imgs!TagImage, Imgs!fsVars
  <2>2. \A q \in Client : req'[q].step = "create" => req'[q] = req[q]
    BY <1>0, <1>7 DEF Imgs!Idle, ImgReq, Imgs!TagImage, Imgs!Begin
  <2>3. QED
    BY Zenon, <1>0, <2>1, <2>2 DEF ImgFiles, ImgParents, ImgOnDisk
<1>8. ASSUME NEW p \in Client, NEW r \in Ref, NEW force \in BOOLEAN, NEW prune \in BOOLEAN, Imgs!ImageDeleteRef(p, r, force, prune) PROVE ImgFiles' /\ ImgParents' /\ ImgOnDisk'
  <2>1. UNCHANGED <<content, parent, images, children>>
    BY Zenon, <1>8 DEF Imgs!ImageDeleteRef, Imgs!fsVars
  <2>2. \A q \in Client : req'[q].step = "create" => req'[q] = req[q]
    BY <1>0, <1>8 DEF Imgs!Idle, ImgReq, Imgs!ImageDeleteRef, Imgs!Begin
  <2>3. QED
    BY Zenon, <1>0, <2>1, <2>2 DEF ImgFiles, ImgParents, ImgOnDisk
<1>9. ASSUME NEW p \in Client, Imgs!removeImageRef(p) PROVE ImgFiles' /\ ImgParents' /\ ImgOnDisk'
  <2>1. UNCHANGED <<content, parent, images, children>>
    BY Zenon, <1>9 DEF Imgs!removeImageRef, Imgs!fsVars
  <2>2. \A q \in Client : req'[q].step = "create" => req'[q] = req[q]
    BY <1>0, <1>9 DEF Imgs!Idle, ImgReq, Imgs!removeImageRef, Imgs!ReferenceDelete
  <2>3. QED
    BY Zenon, <1>0, <2>1, <2>2 DEF ImgFiles, ImgParents, ImgOnDisk
<1>10. ASSUME NEW p \in Client, Imgs!Untagged(p) PROVE ImgFiles' /\ ImgParents' /\ ImgOnDisk'
  <2>1. UNCHANGED <<content, parent, images, children>>
    BY Zenon, <1>10 DEF Imgs!Untagged, Imgs!fsVars
  <2>2. \A q \in Client : req'[q].step = "create" => req'[q] = req[q]
    BY <1>0, <1>10 DEF Imgs!Idle, ImgReq, Imgs!Untagged
  <2>3. QED
    BY Zenon, <1>0, <2>1, <2>2 DEF ImgFiles, ImgParents, ImgOnDisk
<1>11. ASSUME NEW p \in Client, NEW i \in Id, NEW force \in BOOLEAN, NEW prune \in BOOLEAN, Imgs!ImageDeleteID(p, i, force, prune) PROVE ImgFiles' /\ ImgParents' /\ ImgOnDisk'
  <2>1. UNCHANGED <<content, parent, images, children>>
    BY Zenon, <1>11 DEF Imgs!ImageDeleteID, Imgs!fsVars
  <2>2. \A q \in Client : req'[q].step = "create" => req'[q] = req[q]
    BY <1>0, <1>11 DEF Imgs!Idle, ImgReq, Imgs!ImageDeleteID, Imgs!Begin
  <2>3. QED
    BY Zenon, <1>0, <2>1, <2>2 DEF ImgFiles, ImgParents, ImgOnDisk
<1>12. ASSUME NEW p \in Client, NEW r \in Ref, Imgs!RemoveRef(p, r) PROVE ImgFiles' /\ ImgParents' /\ ImgOnDisk'
  <2>1. UNCHANGED <<content, parent, images, children>>
    BY Zenon, <1>12 DEF Imgs!RemoveRef, Imgs!fsVars
  <2>2. \A q \in Client : req'[q].step = "create" => req'[q] = req[q]
    <3> DEFINE x == [req[p] EXCEPT !.refs = @ \ {r}]
    <3>1. \/ req' = [req EXCEPT ![p] = Imgs!Idle] \/ req' = [req EXCEPT ![p] = x]
          \/ req' = [req EXCEPT ![p] = [x EXCEPT !.step = "check"]]
      BY Zenon, <1>12 DEF Imgs!RemoveRef, Imgs!ReferenceDelete
    <3>2. req[p].step # "create"
      BY Zenon, <1>12 DEF Imgs!RemoveRef
    <3>3. Imgs!Idle.step # "create" /\ x.step # "create" /\ [x EXCEPT !.step = "check"].step # "create"
      BY <1>0, <3>2 DEF Imgs!Idle, ImgReq
    <3>4. QED
      BY Zenon, <1>0, <3>1, <3>3
  <2>3. QED
    BY Zenon, <1>0, <2>1, <2>2 DEF ImgFiles, ImgParents, ImgOnDisk
<1>13. ASSUME NEW p \in Client, Imgs!HelperCheck(p) PROVE ImgFiles' /\ ImgParents' /\ ImgOnDisk'
  <2>1. UNCHANGED <<content, parent, images, children>>
    BY Zenon, <1>13 DEF Imgs!HelperCheck, Imgs!fsVars
  <2>2. \A q \in Client : req'[q].step = "create" => req'[q] = req[q]
    BY <1>0, <1>13 DEF Imgs!Idle, ImgReq, Imgs!HelperCheck
  <2>3. QED
    BY Zenon, <1>0, <2>1, <2>2 DEF ImgFiles, ImgParents, ImgOnDisk
<1>14. ASSUME NEW p \in Client, Imgs!HelperStrip(p) PROVE ImgFiles' /\ ImgParents' /\ ImgOnDisk'
  <2>1. UNCHANGED <<content, parent, images, children>>
    BY Zenon, <1>14 DEF Imgs!HelperStrip, Imgs!fsVars
  <2>2. \A q \in Client : req'[q].step = "create" => req'[q] = req[q]
    BY <1>0, <1>14 DEF Imgs!Idle, ImgReq, Imgs!HelperStrip, Imgs!ReferenceDelete
  <2>3. QED
    BY Zenon, <1>0, <2>1, <2>2 DEF ImgFiles, ImgParents, ImgOnDisk
<1>15. ASSUME NEW p \in Client, Imgs!HelperDelete(p) PROVE ImgFiles' /\ ImgParents' /\ ImgOnDisk'
  BY Zenon, <1>0, <1>15, ImgHelperDelete
<1>16. ASSUME NEW p \in Client, NEW i \in Id, Imgs!ContainerCreate(p, i) PROVE ImgFiles' /\ ImgParents' /\ ImgOnDisk'
  <2>1. UNCHANGED <<content, parent, images, children>>
    BY Zenon, <1>16 DEF Imgs!ContainerCreate, Imgs!fsVars
  <2>2. \A q \in Client : req'[q].step = "create" => req'[q] = req[q]
    BY <1>0, <1>16 DEF Imgs!Idle, ImgReq, Imgs!ContainerCreate, Imgs!Begin
  <2>3. QED
    BY Zenon, <1>0, <2>1, <2>2 DEF ImgFiles, ImgParents, ImgOnDisk
<1>17. ASSUME NEW p \in Client, Imgs!setRWLayer(p) PROVE ImgFiles' /\ ImgParents' /\ ImgOnDisk'
  <2>1. UNCHANGED <<content, parent, images, children>>
    BY Zenon, <1>17 DEF Imgs!setRWLayer, Imgs!fsVars
  <2>2. \A q \in Client : req'[q].step = "create" => req'[q] = req[q]
    BY <1>0, <1>17 DEF Imgs!Idle, ImgReq, Imgs!setRWLayer
  <2>3. QED
    BY Zenon, <1>0, <2>1, <2>2 DEF ImgFiles, ImgParents, ImgOnDisk
<1>18. ASSUME NEW p \in Client, NEW c \in User, Imgs!Register(p, c) PROVE ImgFiles' /\ ImgParents' /\ ImgOnDisk'
  <2>1. UNCHANGED <<content, parent, images, children>>
    BY Zenon, <1>18 DEF Imgs!Register, Imgs!fsVars
  <2>2. \A q \in Client : req'[q].step = "create" => req'[q] = req[q]
    BY <1>0, <1>18 DEF Imgs!Idle, ImgReq, Imgs!Register
  <2>3. QED
    BY Zenon, <1>0, <2>1, <2>2 DEF ImgFiles, ImgParents, ImgOnDisk
<1>19. ASSUME NEW c \in User, Imgs!ContainerChanges(c) PROVE ImgFiles' /\ ImgParents' /\ ImgOnDisk'
  <2>1. UNCHANGED <<content, parent, images, children>>
    BY Zenon, <1>19 DEF Imgs!ContainerChanges, Imgs!fsVars
  <2>2. req' = req
    BY Zenon, <1>19 DEF Imgs!ContainerChanges
  <2>3. QED
    BY Zenon, <1>0, <2>1, <2>2 DEF ImgFiles, ImgParents, ImgOnDisk
<1>20. ASSUME Imgs!Crash PROVE ImgFiles' /\ ImgParents' /\ ImgOnDisk'
  BY Zenon, <1>0, <1>20, ImgCrash DEF Imgs!Crash
<1>21. QED
  BY Zenon, <1>1, <1>2, <1>3, <1>4, <1>5, <1>6, <1>7, <1>8, <1>9, <1>10, <1>11, <1>12, <1>13,
     <1>14, <1>15, <1>16, <1>17, <1>18, <1>19, <1>20 DEF Imgs!Next

\* A step of p leaves the other requests alone, and few steps lead to the
\* deletion or the naming of an image or change the two maps.
ImgTurn(p) ==
  /\ Imgs!Overlap(p)
  /\ \A q \in Client : q # p => req'[q] = req[q]
  /\ req'[p].step \in {"strip", "delete"} => Imgs!HelperCheck(p) \/ Imgs!HelperStrip(p)
  /\ req'[p].step \in {"parent", "tag"} =>
       \/ Imgs!CreateAdd(p) \/ Imgs!NoParent(p)
       \/ \E i \in Id : Imgs!SetParent(p, i) \/ Imgs!TagImage(p, i)
  /\ UNCHANGED images \/ Imgs!CreateAdd(p) \/ Imgs!HelperDelete(p)
  /\ \/ UNCHANGED <<repos, cache, saved>> \/ Imgs!removeImageRef(p) \/ Imgs!HelperStrip(p)
     \/ \E r \in Ref : Imgs!RemoveRef(p, r) \/ \E force \in BOOLEAN : Imgs!addReference(p, r, force)

\* When nothing is disturbed no other request is deleting, and a deletion is alone.
LEMMA ImgUndisturbed ==
  ASSUME NEW p \in Client, ImgTurn(p), ~disturbed'
  PROVE  /\ ~disturbed
         /\ \A q \in Client : q # p => req'[q] = req[q] /\ req[q].step \notin Imgs!Deleting
         /\ req[p].step \in Imgs!Deleting \/ req'[p].step \in Imgs!Deleting => \A q \in Client : q # p => req[q].step = "idle"
BY Zenon DEF ImgTurn, Imgs!Overlap

\* Each step is one of a request, of a container, or a crash that ends all requests.
LEMMA ImgTurns == ASSUME ImgTypes, Imgs!Next PROVE (\E p \in Client : ImgTurn(p)) \/ (\E c \in User : Imgs!ContainerChanges(c)) \/ Imgs!Crash
<1>0. req \in [Client -> ImgReq]
  BY Zenon DEF ImgTypes
<1>1. ASSUME NEW p \in Client, NEW i \in Id, Imgs!CreateSet(p, i) PROVE ImgTurn(p)
  <2>0. UNCHANGED <<images, repos, cache, saved>>
    BY Zenon, <1>1 DEF Imgs!CreateSet, Imgs!refVars
  <2>1. req' = [req EXCEPT ![p] = [Imgs!Idle EXCEPT !.step = "create", !.id = i]]
    BY Zenon, <1>1 DEF Imgs!CreateSet
  <2>2. [Imgs!Idle EXCEPT !.step = "create", !.id = i].step \notin {"strip", "delete", "parent", "tag"}
    BY <1>0 DEF Imgs!Idle, ImgReq
  <2>3. QED
    BY Zenon, <1>0, <1>1, <2>0, <2>1, <2>2 DEF ImgTurn, Imgs!CreateSet
<1>2. ASSUME NEW p \in Client, Imgs!CreateAdd(p) PROVE ImgTurn(p)
  <2>0. UNCHANGED <<repos, cache, saved>>
    BY Zenon, <1>2 DEF Imgs!CreateAdd, Imgs!refVars
  <2>1. req' = [req EXCEPT ![p] = [req[p] EXCEPT !.step = "parent"]]
    BY Zenon, <1>0, <1>2 DEF Imgs!CreateAdd
  <2>2. [req[p] EXCEPT !.step = "parent"].step \notin {"strip", "delete"}
    BY <1>0 DEF Imgs!Idle, ImgReq
  <2>3. QED
    BY Zenon, <1>0, <1>2, <2>0, <2>1, <2>2 DEF ImgTurn, Imgs!CreateAdd, Imgs!Continue
<1>3. ASSUME NEW p \in Client, NEW i \in Id, Imgs!SetParent(p, i) PROVE ImgTurn(p)
  <2>0. UNCHANGED <<images, repos, cache, saved>>
    BY Zenon, <1>3 DEF Imgs!SetParent, Imgs!refVars
  <2>1. req' = [req EXCEPT ![p] = [req[p] EXCEPT !.step = "tag"]]
    BY Zenon, <1>0, <1>3 DEF Imgs!SetParent
  <2>2. [req[p] EXCEPT !.step = "tag"].step \notin {"strip", "delete"}
    BY <1>0 DEF Imgs!Idle, ImgReq
  <2>3. QED
    BY Zenon, <1>0, <1>3, <2>0, <2>1, <2>2 DEF ImgTurn, Imgs!SetParent, Imgs!Continue
<1>4. ASSUME NEW p \in Client, Imgs!NoParent(p) PROVE ImgTurn(p)
  <2>0. UNCHANGED <<images, repos, cache, saved>>
    BY Zenon, <1>4 DEF Imgs!NoParent, Imgs!fsVars, Imgs!refVars
  <2>1. req' = [req EXCEPT ![p] = [req[p] EXCEPT !.step = "tag"]]
    BY Zenon, <1>0, <1>4 DEF Imgs!NoParent
  <2>2. [req[p] EXCEPT !.step = "tag"].step \notin {"strip", "delete"}
    BY <1>0 DEF Imgs!Idle, ImgReq
  <2>3. QED
    BY Zenon, <1>0, <1>4, <2>0, <2>1, <2>2 DEF ImgTurn, Imgs!NoParent, Imgs!Continue
<1>5. ASSUME NEW p \in Client, NEW r \in Ref, NEW force \in BOOLEAN, Imgs!addReference(p, r, force) PROVE ImgTurn(p)
  <2>0. UNCHANGED <<images>>
    BY Zenon, <1>5 DEF Imgs!addReference, Imgs!fsVars
  <2>1. req' = [req EXCEPT ![p] = Imgs!Idle]
    BY Zenon, <1>5 DEF Imgs!addReference
  <2>2. Imgs!Idle.step \notin {"strip", "delete", "parent", "tag"}
    BY <1>0 DEF Imgs!Idle, ImgReq
  <2>3. QED
    BY Zenon, <1>0, <1>5, <2>0, <2>1, <2>2 DEF ImgTurn, Imgs!addReference, Imgs!Continue
<1>6. ASSUME NEW p \in Client, Imgs!NoTag(p) PROVE ImgTurn(p)
  <2>0. UNCHANGED <<images, repos, cache, saved>>
    BY Zenon, <1>6 DEF Imgs!NoTag, Imgs!fsVars, Imgs!refVars
  <2>1. req' = [req EXCEPT ![p] = Imgs!Idle]
    BY Zenon, <1>6 DEF Imgs!NoTag
  <2>2. Imgs!Idle.step \notin {"strip", "delete", "parent", "tag"}
    BY <1>0 DEF Imgs!Idle, ImgReq
  <2>3. QED
    BY Zenon, <1>0, <1>6, <2>0, <2>1, <2>2 DEF ImgTurn, Imgs!NoTag, Imgs!Continue
<1>7. ASSUME NEW p \in Client, NEW i \in Id, Imgs!TagImage(p, i) PROVE ImgTurn(p)
  <2>0. UNCHANGED <<images, repos, cache, saved>>
    BY Zenon, <1>7 DEF Imgs!TagImage, Imgs!fsVars, Imgs!refVars
  <2>1. req' = [req EXCEPT ![p] = [Imgs!Idle EXCEPT !.step = "tag", !.id = i]]
    BY Zenon, <1>7 DEF Imgs!TagImage
  <2>2. [Imgs!Idle EXCEPT !.step = "tag", !.id = i].step \notin {"strip", "delete"}
    BY <1>0 DEF Imgs!Idle, ImgReq
  <2>3. QED
    BY Zenon, <1>0, <1>7, <2>0, <2>1, <2>2 DEF ImgTurn, Imgs!TagImage
<1>8. ASSUME NEW p \in Client, NEW r \in Ref, NEW force \in BOOLEAN, NEW prune \in BOOLEAN, Imgs!ImageDeleteRef(p, r, force, prune) PROVE ImgTurn(p)
  <2>0. UNCHANGED <<images, repos, cache, saved>>
    BY Zenon, <1>8 DEF Imgs!ImageDeleteRef, Imgs!fsVars, Imgs!refVars
  <2>1. req' = [req EXCEPT ![p] = [Imgs!Idle EXCEPT !.step = "untag", !.id = repos[r], !.ref = r, !.force = force, !.prune = prune]]
    BY Zenon, <1>8 DEF Imgs!ImageDeleteRef
  <2>2. [Imgs!Idle EXCEPT !.step = "untag", !.id = repos[r], !.ref = r, !.force = force, !.prune = prune].step \notin {"strip", "delete", "parent", "tag"}
    BY <1>0 DEF Imgs!Idle, ImgReq
  <2>3. QED
    BY Zenon, <1>0, <1>8, <2>0, <2>1, <2>2 DEF ImgTurn, Imgs!ImageDeleteRef
<1>9. ASSUME NEW p \in Client, Imgs!removeImageRef(p) PROVE ImgTurn(p)
  <2>0. UNCHANGED <<images>>
    BY Zenon, <1>9 DEF Imgs!removeImageRef, Imgs!fsVars
  <2>1. req' = [req EXCEPT ![p] = Imgs!Idle] \/ req' = [req EXCEPT ![p] = [req[p] EXCEPT !.step = "untagged"]]
    BY Zenon, <1>9 DEF Imgs!removeImageRef, Imgs!ReferenceDelete
  <2>2. /\ Imgs!Idle.step \notin {"strip", "delete", "parent", "tag"}
        /\ [req[p] EXCEPT !.step = "untagged"].step \notin {"strip", "delete", "parent", "tag"}
    BY <1>0 DEF Imgs!Idle, ImgReq
  <2>3. QED
    BY Zenon, <1>0, <1>9, <2>0, <2>1, <2>2 DEF ImgTurn, Imgs!removeImageRef, Imgs!Continue
<1>10. ASSUME NEW p \in Client, Imgs!Untagged(p) PROVE ImgTurn(p)
  <2>0. UNCHANGED <<images, repos, cache, saved>>
    BY Zenon, <1>10 DEF Imgs!Untagged, Imgs!fsVars, Imgs!refVars
  <2>1. \A q \in Client : q # p => req'[q] = req[q]
    BY Zenon, <1>0, <1>10 DEF Imgs!Untagged
  <2>2. req'[p].step \notin {"strip", "delete", "parent", "tag"}
    BY <1>0, <1>10 DEF Imgs!Untagged, Imgs!Idle, ImgReq
  <2>3. QED
    BY Zenon, <1>10, <2>0, <2>1, <2>2 DEF ImgTurn, Imgs!Untagged, Imgs!Continue
<1>11. ASSUME NEW p \in Client, NEW i \in Id, NEW force \in BOOLEAN, NEW prune \in BOOLEAN, Imgs!ImageDeleteID(p, i, force, prune) PROVE ImgTurn(p)
  <2>0. UNCHANGED <<images, repos, cache, saved>>
    BY Zenon, <1>11 DEF Imgs!ImageDeleteID, Imgs!fsVars, Imgs!refVars
  <2>01. PICK y : req' = [req EXCEPT ![p] = y] /\ (\/ y = [[Imgs!Idle EXCEPT !.id = i, !.force = force, !.prune = prune] EXCEPT !.step = "unref", !.refs = cache[i]]
                                                    \/ y = [[Imgs!Idle EXCEPT !.id = i, !.force = force, !.prune = prune] EXCEPT !.step = "check"])
    BY Zenon, <1>11 DEF Imgs!ImageDeleteID
  <2>1. y.step \notin {"strip", "delete", "parent", "tag"}
    BY <2>01 DEF Imgs!Idle
  <2>2. QED
    BY Zenon, <1>0, <1>11, <2>0, <2>01, <2>1 DEF ImgTurn, Imgs!ImageDeleteID
<1>12. ASSUME NEW p \in Client, NEW r \in Ref, Imgs!RemoveRef(p, r) PROVE ImgTurn(p)
  <2>0. UNCHANGED <<images>>
    BY Zenon, <1>12 DEF Imgs!RemoveRef, Imgs!fsVars
  <2>1. \/ req' = [req EXCEPT ![p] = Imgs!Idle]
        \/ req' = [req EXCEPT ![p] = [req[p] EXCEPT !.refs = @ \ {r}]]
        \/ req' = [req EXCEPT ![p] = [[req[p] EXCEPT !.refs = @ \ {r}] EXCEPT !.step = "check"]]
    BY Zenon, <1>12 DEF Imgs!RemoveRef, Imgs!ReferenceDelete
  <2>2. /\ Imgs!Idle.step \notin {"strip", "delete", "parent", "tag"}
        /\ [req[p] EXCEPT !.refs = @ \ {r}].step \notin {"strip", "delete", "parent", "tag"}
        /\ [[req[p] EXCEPT !.refs = @ \ {r}] EXCEPT !.step = "check"].step \notin {"strip", "delete", "parent", "tag"}
    BY <1>0, <1>12 DEF Imgs!Idle, ImgReq, Imgs!RemoveRef
  <2>3. QED
    BY Zenon, <1>0, <1>12, <2>0, <2>1, <2>2 DEF ImgTurn, Imgs!RemoveRef, Imgs!Continue
<1>13. ASSUME NEW p \in Client, Imgs!HelperCheck(p) PROVE ImgTurn(p)
  <2>0. UNCHANGED <<images, repos, cache, saved>>
    BY Zenon, <1>13 DEF Imgs!HelperCheck, Imgs!fsVars, Imgs!refVars
  <2>1. \/ req' = [req EXCEPT ![p] = Imgs!Idle]
        \/ \E s, u : req' = [req EXCEPT ![p] = [req[p] EXCEPT !.step = "strip", !.refs = s, !.up = u]]
    BY Zenon, <1>13 DEF Imgs!HelperCheck
  <2>2. /\ Imgs!Idle.step \notin {"parent", "tag"}
        /\ \A s, u : [req[p] EXCEPT !.step = "strip", !.refs = s, !.up = u].step \notin {"parent", "tag"}
    BY <1>0 DEF Imgs!Idle, ImgReq
  <2>3. QED
    BY Zenon, <1>0, <1>13, <2>0, <2>1, <2>2 DEF ImgTurn, Imgs!HelperCheck, Imgs!Continue
<1>14. ASSUME NEW p \in Client, Imgs!HelperStrip(p) PROVE ImgTurn(p)
  <2>0. UNCHANGED <<images>>
    BY Zenon, <1>14 DEF Imgs!HelperStrip, Imgs!fsVars
  <2>1. \/ req' = [req EXCEPT ![p] = Imgs!Idle] \/ req' = [req EXCEPT ![p] = [req[p] EXCEPT !.step = "delete"]]
        \/ \E s : req' = [req EXCEPT ![p] = [req[p] EXCEPT !.refs = s]]
    BY Zenon, <1>0, <1>14 DEF Imgs!HelperStrip, Imgs!ReferenceDelete
  <2>2. /\ Imgs!Idle.step \notin {"parent", "tag"} /\ [req[p] EXCEPT !.step = "delete"].step \notin {"parent", "tag"}
        /\ \A s : [req[p] EXCEPT !.refs = s].step \notin {"parent", "tag"}
    BY <1>0, <1>14 DEF Imgs!Idle, ImgReq, Imgs!HelperStrip
  <2>3. QED
    BY Zenon, <1>0, <1>14, <2>0, <2>1, <2>2 DEF ImgTurn, Imgs!HelperStrip, Imgs!Continue
<1>15. ASSUME NEW p \in Client, Imgs!HelperDelete(p) PROVE ImgTurn(p)
  <2>0. UNCHANGED <<repos, cache, saved>>
    BY Zenon, <1>15 DEF Imgs!HelperDelete, Imgs!refVars
  <2>1. req' = [req EXCEPT ![p] = Imgs!Idle] \/ req' = [req EXCEPT ![p] = [Imgs!Idle EXCEPT !.step = "check", !.id = req[p].up, !.prune = TRUE]]
    BY Zenon, <1>15 DEF Imgs!HelperDelete
  <2>2. /\ Imgs!Idle.step \notin {"strip", "delete", "parent", "tag"}
        /\ [Imgs!Idle EXCEPT !.step = "check", !.id = req[p].up, !.prune = TRUE].step \notin {"strip", "delete", "parent", "tag"}
    BY <1>0 DEF Imgs!Idle, ImgReq
  <2>3. QED
    BY Zenon, <1>0, <1>15, <2>0, <2>1, <2>2 DEF ImgTurn, Imgs!HelperDelete, Imgs!Continue
<1>16. ASSUME NEW p \in Client, NEW i \in Id, Imgs!ContainerCreate(p, i) PROVE ImgTurn(p)
  <2>0. UNCHANGED <<images, repos, cache, saved>>
    BY Zenon, <1>16 DEF Imgs!ContainerCreate, Imgs!fsVars, Imgs!refVars
  <2>1. req' = [req EXCEPT ![p] = [Imgs!Idle EXCEPT !.step = "rwlayer", !.id = i]]
    BY Zenon, <1>16 DEF Imgs!ContainerCreate
  <2>2. [Imgs!Idle EXCEPT !.step = "rwlayer", !.id = i].step \notin {"strip", "delete", "parent", "tag"}
    BY <1>0 DEF Imgs!Idle, ImgReq
  <2>3. QED
    BY Zenon, <1>0, <1>16, <2>0, <2>1, <2>2 DEF ImgTurn, Imgs!ContainerCreate
<1>17. ASSUME NEW p \in Client, Imgs!setRWLayer(p) PROVE ImgTurn(p)
  <2>0. UNCHANGED <<images, repos, cache, saved>>
    BY Zenon, <1>17 DEF Imgs!setRWLayer, Imgs!fsVars, Imgs!refVars
  <2>1. req' = [req EXCEPT ![p] = Imgs!Idle] \/ req' = [req EXCEPT ![p] = [req[p] EXCEPT !.step = "run"]]
    BY Zenon, <1>17 DEF Imgs!setRWLayer
  <2>2. /\ Imgs!Idle.step \notin {"strip", "delete", "parent", "tag"}
        /\ [req[p] EXCEPT !.step = "run"].step \notin {"strip", "delete", "parent", "tag"}
    BY <1>0 DEF Imgs!Idle, ImgReq
  <2>3. QED
    BY Zenon, <1>0, <1>17, <2>0, <2>1, <2>2 DEF ImgTurn, Imgs!setRWLayer, Imgs!Continue
<1>18. ASSUME NEW p \in Client, NEW c \in User, Imgs!Register(p, c) PROVE ImgTurn(p)
  <2>0. UNCHANGED <<images, repos, cache, saved>>
    BY Zenon, <1>18 DEF Imgs!Register, Imgs!fsVars, Imgs!refVars
  <2>1. req' = [req EXCEPT ![p] = Imgs!Idle]
    BY Zenon, <1>18 DEF Imgs!Register
  <2>2. Imgs!Idle.step \notin {"strip", "delete", "parent", "tag"}
    BY <1>0 DEF Imgs!Idle, ImgReq
  <2>3. QED
    BY Zenon, <1>0, <1>18, <2>0, <2>1, <2>2 DEF ImgTurn, Imgs!Register
<1>19. ASSUME NEW c \in User, Imgs!ContainerChanges(c) PROVE \E d \in User : Imgs!ContainerChanges(d)
  BY Zenon, <1>19
<1>20. ASSUME Imgs!Crash PROVE Imgs!Crash
  BY Zenon, <1>20
<1>21. QED
  BY Zenon, <1>1, <1>2, <1>3, <1>4, <1>5, <1>6, <1>7, <1>8, <1>9, <1>10, <1>11, <1>12, <1>13,
     <1>14, <1>15, <1>16, <1>17, <1>18, <1>19, <1>20 DEF Imgs!Next

\* A deletion that nothing disturbs is alone, and nothing runs the image it deletes.
LEMMA ImgAloneStep ==
  ASSUME Imgs!ImgParameters, ImgTypes, ImgAlone, ImgUnused,
         Imgs!Next PROVE disturbed' \in BOOLEAN /\ ImgAlone' /\ ImgUnused'
<1>0. req \in [Client -> ImgReq] /\ disturbed \in BOOLEAN
  BY Zenon DEF ImgTypes
<1>01. \A l \in {"strip", "delete"} : l \in Imgs!Deleting
  BY DEF Imgs!Deleting
<1>1. ASSUME Imgs!Crash PROVE ImgAlone' /\ ImgUnused'
  <2>1. Imgs!Idle.step \notin Imgs!Deleting
    BY DEF Imgs!Idle, Imgs!Deleting
  <2>2. \A p \in Client : req'[p].step \notin Imgs!Deleting
    BY Zenon, <1>1, <2>1 DEF Imgs!Crash
  <2>3. QED
    BY Zenon, <1>01, <2>2 DEF ImgAlone, ImgUnused
<1>2. ASSUME NEW c \in User, Imgs!ContainerChanges(c) PROVE ImgAlone' /\ ImgUnused'
  <2>1. \A q \in Client : q # None
    BY Zenon DEF Imgs!ImgParameters
  <2>2. ~disturbed' => \A q \in Client : req[q].step \notin Imgs!Deleting
    BY Zenon, <1>2, <2>1 DEF Imgs!ContainerChanges, Imgs!Overlap
  <2>3. QED
    BY Zenon, <1>01, <1>2, <2>2 DEF Imgs!ContainerChanges, ImgAlone, ImgUnused
<1>3. ASSUME NEW p \in Client, ImgTurn(p) PROVE ImgAlone' /\ ImgUnused'
  <2> SUFFICES ASSUME ~disturbed' PROVE ImgAlone' /\ ImgUnused'
    BY Zenon DEF ImgAlone, ImgUnused
  <2>1. /\ ~disturbed
        /\ \A q \in Client : q # p => req'[q] = req[q] /\ req[q].step \notin Imgs!Deleting
        /\ req[p].step \in Imgs!Deleting \/ req'[p].step \in Imgs!Deleting => \A q \in Client : q # p => req[q].step = "idle"
    BY Zenon, <1>3, ImgUndisturbed
  <2>2. ImgAlone'
    BY Zenon, <2>1 DEF ImgAlone
  <2>3. ASSUME req'[p].step \in {"strip", "delete"} PROVE Imgs!Running(req[p].id) = {} /\ req'[p].id = req[p].id /\ cont' = cont
    <3>1. CASE Imgs!HelperCheck(p)
      <4>1. cont' = cont
        BY Zenon, <3>1 DEF Imgs!HelperCheck, Imgs!Continue
      <4>2. \/ req' = [req EXCEPT ![p] = Imgs!Idle]
            \/ Imgs!Running(req[p].id) = {} /\ \E s, u : req' = [req EXCEPT ![p] = [req[p] EXCEPT !.step = "strip", !.refs = s, !.up = u]]
        BY Zenon, <3>1 DEF Imgs!HelperCheck, Imgs!Conflict
      <4>3. Imgs!Idle.step = "idle" /\ \A s, u : [req[p] EXCEPT !.step = "strip", !.refs = s, !.up = u].id = req[p].id
        BY <1>0 DEF Imgs!Idle, ImgReq
      <4>4. req' # [req EXCEPT ![p] = Imgs!Idle]
        BY Zenon, <1>0, <2>3, <4>3
      <4>5. PICK s, u : req' = [req EXCEPT ![p] = [req[p] EXCEPT !.step = "strip", !.refs = s, !.up = u]]
        BY Zenon, <4>2, <4>4
      <4>6. req'[p].id = req[p].id
        BY Zenon, <1>0, <4>3, <4>5
      <4>7. QED
        BY Zenon, <4>1, <4>2, <4>4, <4>6
    <3>2. CASE Imgs!HelperStrip(p)
      <4>1. cont' = cont /\ req[p].step = "strip"
        BY Zenon, <3>2 DEF Imgs!HelperStrip, Imgs!Continue
      <4>2. \/ req' = [req EXCEPT ![p] = Imgs!Idle]
            \/ req' = [req EXCEPT ![p] = [req[p] EXCEPT !.step = "delete"]]
            \/ \E s : req' = [req EXCEPT ![p] = [req[p] EXCEPT !.refs = s]]
        BY Zenon, <1>0, <3>2 DEF Imgs!HelperStrip, Imgs!ReferenceDelete
      <4>3. /\ Imgs!Idle.step = "idle" /\ [req[p] EXCEPT !.step = "delete"].id = req[p].id
            /\ \A s : [req[p] EXCEPT !.refs = s].id = req[p].id
        BY <1>0 DEF Imgs!Idle, ImgReq
      <4>4. Imgs!Running(req[p].id) = {}
        BY Zenon, <2>1, <4>1 DEF ImgUnused
      <4>5. QED
        BY Zenon, <1>0, <2>3, <4>1, <4>2, <4>3, <4>4
    <3>3. QED
      BY Zenon, <1>3, <2>3, <3>1, <3>2 DEF ImgTurn
  <2>4. ImgUnused'
    BY Zenon, <1>01, <2>1, <2>3 DEF ImgUnused, Imgs!Running, Imgs!UsedBy
  <2>5. QED
    BY Zenon, <2>2, <2>4
<1>4. disturbed' \in BOOLEAN
  <2>1. \E p : Imgs!Overlap(p)
    BY Zenon, ImgTurns DEF ImgTurn, Imgs!ContainerChanges, Imgs!Crash
  <2>2. QED
    BY Zenon, <2>1 DEF Imgs!Overlap
<1>5. QED
  BY Zenon, <1>1, <1>2, <1>3, <1>4, ImgTurns

\* The references change as names are taken away, or as one is given to the image of a request.
LEMMA ImgRenamed ==
  ASSUME Imgs!ImgParameters, ImgTypes, Imgs!ReferencesAgree, NEW p \in Client, ImgTurn(p)
  PROVE  \A r \in Ref : repos'[r] \in {repos[r], None} \/ (req[p].step = "tag" /\ repos'[r] = req[p].id)
<1>0. Imgs!ImgParameters /\ ImgTables /\ req \in [Client -> ImgReq] /\ Imgs!ReferencesAgree
  BY Zenon DEF ImgTypes
<1>1. CASE UNCHANGED <<repos, cache, saved>>
  BY Zenon, <1>1
<1>2. CASE Imgs!removeImageRef(p)
  <2>1. req[p].ref \in Ref
    BY <1>0, <1>2 DEF Imgs!removeImageRef, ImgReq
  <2>2. \A s \in Ref : repos'[s] \in {repos[s], None}
    BY Zenon, <1>0, <1>2, <2>1, ImgReferenceDelete DEF Imgs!removeImageRef
  <2>3. QED
    BY Zenon, <2>2
<1>3. CASE Imgs!HelperStrip(p)
  <2>1. req[p].refs \subseteq Ref
    BY <1>0 DEF ImgReq
  <2>2. CASE UNCHANGED <<repos, cache, saved>>
    BY Zenon, <2>2
  <2>3. ASSUME NEW r \in req[p].refs, NEW x, Imgs!ReferenceDelete(p, r, x) PROVE \A s \in Ref : repos'[s] \in {repos[s], None}
    BY Zenon, <1>0, <2>1, <2>3, ImgReferenceDelete
  <2>4. QED
    BY Zenon, <1>3, <2>2, <2>3 DEF Imgs!HelperStrip, Imgs!refVars
<1>4. ASSUME NEW r \in Ref, Imgs!RemoveRef(p, r) PROVE \A s \in Ref : repos'[s] \in {repos[s], None}
  BY Zenon, <1>0, <1>4, ImgReferenceDelete DEF Imgs!RemoveRef
<1>5. ASSUME NEW r \in Ref, NEW force \in BOOLEAN, Imgs!addReference(p, r, force)
      PROVE  req[p].step = "tag" /\ \A s \in Ref : repos'[s] \in {repos[s], req[p].id}
  BY Zenon, <1>0, <1>5, ImgAddReference DEF Imgs!addReference
<1>6. QED
  BY Zenon, <1>1, <1>2, <1>3, <1>4, <1>5 DEF ImgTurn

\* What a request that is to name an image holds after a step of its own.
LEMMA ImgToName ==
  ASSUME ImgTypes, NEW p \in Client, ImgTurn(p), req[p].step \in {"parent",
         "tag"} => req[p].id \in images,
         req'[p].step \in {"parent", "tag"}
  PROVE  req'[p].id \in images'
<1>0. req \in [Client -> ImgReq]
  BY Zenon DEF ImgTypes
<1>1. [req[p] EXCEPT !.step = "parent"].id = req[p].id /\ [req[p] EXCEPT !.step = "tag"].id = req[p].id
  BY <1>0 DEF ImgReq
<1>2. CASE Imgs!CreateAdd(p)
  <2>1. req'[p] = [req[p] EXCEPT !.step = "parent"]
    BY Zenon, <1>0, <1>2 DEF Imgs!CreateAdd
  <2>2. req'[p].id = req[p].id
    BY Zenon, <1>1, <2>1
  <2>3. req[p].id \in images'
    BY Zenon, <1>2 DEF Imgs!CreateAdd
  <2>4. QED
    BY <2>2, <2>3
<1>3. CASE Imgs!NoParent(p)
  <2>1. req'[p] = [req[p] EXCEPT !.step = "tag"]
    BY Zenon, <1>0, <1>3 DEF Imgs!NoParent
  <2>2. req'[p].id = req[p].id
    BY Zenon, <1>1, <2>1
  <2>3. req[p].id \in images'
    BY Zenon, <1>3 DEF Imgs!NoParent, Imgs!fsVars
  <2>4. QED
    BY <2>2, <2>3
<1>4. ASSUME NEW i \in Id, Imgs!SetParent(p, i) PROVE req'[p].id \in images'
  <2>1. req'[p] = [req[p] EXCEPT !.step = "tag"]
    BY Zenon, <1>0, <1>4 DEF Imgs!SetParent
  <2>2. req'[p].id = req[p].id
    BY Zenon, <1>1, <2>1
  <2>3. req[p].id \in images'
    BY Zenon, <1>4 DEF Imgs!SetParent
  <2>4. QED
    BY <2>2, <2>3
<1>5. ASSUME NEW i \in Id, Imgs!TagImage(p, i) PROVE req'[p].id \in images'
  <2>1. [Imgs!Idle EXCEPT !.step = "tag", !.id = i].id = i
    BY DEF Imgs!Idle
  <2>2. req'[p] = [Imgs!Idle EXCEPT !.step = "tag", !.id = i]
    BY Zenon, <1>0, <1>5 DEF Imgs!TagImage
  <2>3. req'[p].id = i
    BY Zenon, <2>1, <2>2
  <2>4. i \in images'
    BY Zenon, <1>5 DEF Imgs!TagImage, Imgs!fsVars
  <2>5. QED
    BY <2>3, <2>4
<1>6. QED
  BY Zenon, <1>2, <1>3, <1>4, <1>5 DEF ImgTurn

\* What a request that deletes an image knows of its names after a step of its own.
LEMMA ImgToDelete ==
  ASSUME Imgs!ImgParameters, ImgTypes, Imgs!ReferencesAgree, NEW p \in Client, ImgTurn(p),
         req[p].step = "strip" => cache[req[p].id] \subseteq req[p].refs
  PROVE  /\ req'[p].step = "strip" => cache'[req'[p].id] \subseteq req'[p].refs
         /\ req'[p].step = "delete" => cache'[req'[p].id] = {}
<1>0. Imgs!ImgParameters /\ ImgTables /\ req \in [Client -> ImgReq] /\ Imgs!ReferencesAgree
  BY Zenon DEF ImgTypes
<1>1. Imgs!Idle.step = "idle"
  BY DEF Imgs!Idle
<1>2. CASE Imgs!HelperCheck(p)
  <2>1. cache' = cache
    BY Zenon, <1>2 DEF Imgs!HelperCheck, Imgs!refVars
  <2>2. \/ req' = [req EXCEPT ![p] = Imgs!Idle]
        \/ \E u : req' = [req EXCEPT ![p] = [req[p] EXCEPT !.step = "strip", !.refs = cache[req[p].id], !.up = u]]
    BY Zenon, <1>2 DEF Imgs!HelperCheck
  <2>3. \A u : /\ [req[p] EXCEPT !.step = "strip", !.refs = cache[req[p].id], !.up = u].step = "strip"
               /\ [req[p] EXCEPT !.step = "strip", !.refs = cache[req[p].id], !.up = u].id = req[p].id
               /\ [req[p] EXCEPT !.step = "strip", !.refs = cache[req[p].id], !.up = u].refs = cache[req[p].id]
    BY <1>0 DEF ImgReq
  <2>4. CASE req' = [req EXCEPT ![p] = Imgs!Idle]
    BY Zenon, <1>0, <1>1, <2>4
  <2>5. ASSUME NEW u, req' = [req EXCEPT ![p] = [req[p] EXCEPT !.step = "strip", !.refs = cache[req[p].id], !.up = u]]
        PROVE  req'[p].step = "strip" /\ req'[p].id = req[p].id /\ req'[p].refs = cache[req[p].id]
    <3>1. req'[p] = [req[p] EXCEPT !.step = "strip", !.refs = cache[req[p].id], !.up = u]
      BY Zenon, <1>0, <2>5
    <3>2. QED
      BY Zenon, <2>3, <3>1
  <2>6. QED
    BY Zenon, <2>1, <2>2, <2>4, <2>5
<1>3. CASE Imgs!HelperStrip(p)
  <2>1. /\ req[p].step = "strip" /\ cache[req[p].id] \subseteq req[p].refs
        /\ req[p].refs \subseteq Ref /\ req[p].id \in Id
    BY <1>0, <1>3 DEF Imgs!HelperStrip, ImgReq
  <2>2. CASE req[p].refs = {}
    <3>1. req' = [req EXCEPT ![p] = [req[p] EXCEPT !.step = "delete"]] /\ cache' = cache
      BY Zenon, <1>0, <1>3, <2>2 DEF Imgs!HelperStrip, Imgs!refVars
    <3>2. [req[p] EXCEPT !.step = "delete"].step = "delete" /\ [req[p] EXCEPT !.step = "delete"].id = req[p].id
      BY <1>0 DEF ImgReq
    <3>3. cache[req[p].id] = {}
      BY <2>1, <2>2
    <3>4. QED
      BY Zenon, <1>0, <3>1, <3>2, <3>3
  <2>3. ASSUME NEW r \in req[p].refs, Imgs!ReferenceDelete(p, r, [req[p] EXCEPT !.refs = @ \ {r}])
        PROVE  /\ req'[p].step = "strip" => cache'[req'[p].id] \subseteq req'[p].refs
               /\ req'[p].step # "delete"
    <3>1. \A k \in Id : cache'[k] \subseteq cache[k] \ {r}
      BY Zenon, <1>0, <2>1, <2>3, ImgReferenceDelete
    <3>2. req' = [req EXCEPT ![p] = Imgs!Idle] \/ req' = [req EXCEPT ![p] = [req[p] EXCEPT !.refs = @ \ {r}]]
      BY Zenon, <2>3 DEF Imgs!ReferenceDelete
    <3>3. /\ [req[p] EXCEPT !.refs = @ \ {r}].step = "strip" /\ [req[p] EXCEPT !.refs = @ \ {r}].id = req[p].id
          /\ [req[p] EXCEPT !.refs = @ \ {r}].refs = req[p].refs \ {r}
      BY <1>0, <2>1 DEF ImgReq
    <3>4. cache'[req[p].id] \subseteq req[p].refs \ {r}
      BY Zenon, <2>1, <3>1
    <3>5. QED
      BY Zenon, <1>0, <1>1, <3>2, <3>3, <3>4
  <2>4. QED
    BY Zenon, <1>3, <2>2, <2>3 DEF Imgs!HelperStrip
<1>4. QED
  BY Zenon, <1>2, <1>3 DEF ImgTurn

\* Every name leads to an image as long as nothing disturbs a deletion.
LEMMA ImgNamedStep ==
  ASSUME Imgs!ImgParameters, Imgs!CrashAlone, ImgTypes, Imgs!ReferencesAgree, ImgOnDisk, ImgNamed,
         Imgs!Next
  PROVE  ImgNamed'
<1>0. /\ ImgTables /\ req \in [Client -> ImgReq] /\ disturbed \in BOOLEAN
      /\ \A i \in Id : cache[i] = {r \in Ref : repos[r] = i}
  BY Zenon DEF ImgTypes, Imgs!ReferencesAgree
<1>1. ASSUME NEW p \in Client, ImgTurn(p), ~disturbed' PROVE ImgNamed'
  <2>1. /\ ~disturbed
        /\ \A q \in Client : q # p => req'[q] = req[q] /\ req[q].step \notin Imgs!Deleting
        /\ req[p].step \in Imgs!Deleting \/ req'[p].step \in Imgs!Deleting => \A q \in Client : q # p => req[q].step = "idle"
    BY Zenon, <1>1, ImgUndisturbed
  <2>2. /\ \A r \in Ref : repos[r] # None => repos[r] \in images
        /\ \A q \in Client : req[q].step \in {"parent", "tag"} => req[q].id \in images
        /\ req[p].step = "strip" => cache[req[p].id] \subseteq req[p].refs
        /\ req[p].step = "delete" => cache[req[p].id] = {}
    BY Zenon, <2>1 DEF ImgNamed
  <2>3. /\ req'[p].step \in {"parent", "tag"} => req'[p].id \in images'
        /\ req'[p].step = "strip" => cache'[req'[p].id] \subseteq req'[p].refs
        /\ req'[p].step = "delete" => cache'[req'[p].id] = {}
    BY Zenon, <1>1, <2>2, ImgToName, ImgToDelete
  <2>4. /\ \A r \in Ref : repos'[r] # None => repos'[r] \in images'
        /\ \A q \in Client : q # p /\ req[q].step \in {"parent", "tag"} => req[q].id \in images'
    <3>1. CASE images \subseteq images'
      <4>1. \A r \in Ref : repos'[r] \in {repos[r], None} \/ (req[p].step = "tag" /\ repos'[r] = req[p].id)
        BY Zenon, <1>1, ImgRenamed
      <4>2. QED
        BY Zenon, <2>2, <3>1, <4>1
    <3>2. CASE Imgs!HelperDelete(p)
      <4>1. UNCHANGED repos /\ req[p].step = "delete"
        BY Zenon, <3>2 DEF Imgs!HelperDelete, Imgs!refVars
      <4>2. req[p].id \in Id /\ "delete" \in Imgs!Deleting /\ "idle" \notin {"parent", "tag"}
        BY <1>0, <4>1 DEF ImgReq, Imgs!Deleting
      <4>3. images \ {req[p].id} \subseteq images'
        BY Zenon, <3>2 DEF Imgs!HelperDelete, Imgs!ImageStoreDelete, Imgs!fsVars
      <4>4. \A r \in Ref : repos[r] # req[p].id
        BY Zenon, <1>0, <2>2, <4>1, <4>2
      <4>5. \A q \in Client : q # p => req[q].step = "idle"
        BY Zenon, <2>1, <4>1, <4>2
      <4>6. \A r \in Ref : repos'[r] # None => repos'[r] \in images'
        BY Zenon, <2>2, <4>1, <4>3, <4>4
      <4>7. QED
        BY Zenon, <4>2, <4>5, <4>6
    <3>3. Imgs!CreateAdd(p) => images \subseteq images'
      BY Zenon DEF Imgs!CreateAdd
    <3>4. QED
      BY Zenon, <1>1, <3>1, <3>2, <3>3 DEF ImgTurn
  <2>5. "strip" \in Imgs!Deleting /\ "delete" \in Imgs!Deleting
    BY DEF Imgs!Deleting
  <2>6. \A q \in Client : req'[q].step \in {"parent", "tag"} => req'[q].id \in images'
    BY Zenon, <2>1, <2>3, <2>4
  <2>7. \A q \in Client : q # p => req'[q].step # "strip" /\ req'[q].step # "delete"
    BY Zenon, <2>1, <2>5
  <2>8. QED
    BY Zenon, <2>3, <2>4, <2>6, <2>7 DEF ImgNamed
<1>2. ASSUME NEW c \in User, Imgs!ContainerChanges(c) PROVE ImgNamed'
  <2>1. UNCHANGED <<images, repos, cache, req>> /\ Imgs!Overlap(None)
    BY Zenon, <1>2 DEF Imgs!ContainerChanges, Imgs!fsVars, Imgs!refVars
  <2>2. QED
    BY Zenon, <2>1 DEF Imgs!Overlap, ImgNamed
<1>3. ASSUME Imgs!Crash PROVE ImgNamed'
  <2>1. /\ images' = content /\ repos' = saved /\ req' = [p \in Client |-> Imgs!Idle]
        /\ "crash" \in Ops /\ Imgs!Overlap(None)
    BY Zenon, <1>3 DEF Imgs!Crash
  <2>2. saved = repos /\ images \subseteq content
    BY Zenon, <2>1 DEF Imgs!CrashAlone, Imgs!ReferencesAgree, ImgOnDisk
  <2>3. ~disturbed' => ~disturbed
    BY Zenon, <2>1 DEF Imgs!Overlap
  <2>4. Imgs!Idle.step \notin {"parent", "tag", "strip", "delete"}
    BY DEF Imgs!Idle
  <2>5. \A p \in Client : req'[p].step \notin {"parent", "tag", "strip", "delete"}
    BY Zenon, <2>1, <2>4
  <2>6. QED
    BY Zenon, <2>1, <2>2, <2>3, <2>5 DEF ImgNamed
<1>4. QED
  BY Zenon, <1>1, <1>2, <1>3, ImgTurns DEF ImgNamed

\* What the image store holds on disk and in its maps keeps its types.
LEMMA ImgFiled == ASSUME ImgTypes, Imgs!Next PROVE ImgFiles'
<1>0. ImgFiles /\ req \in [Client -> ImgReq]
  BY Zenon DEF ImgTypes
<1>1. ASSUME NEW p \in Client, NEW i \in Id, Imgs!CreateSet(p, i) PROVE ImgFiles'
  BY <1>0, <1>1 DEF ImgFiles, ImgReq, Imgs!CreateSet
<1>2. ASSUME NEW p \in Client, Imgs!CreateAdd(p) PROVE ImgFiles'
  BY <1>0, <1>2 DEF ImgFiles, ImgReq, Imgs!CreateAdd
<1>3. ASSUME NEW p \in Client, NEW i \in Id, Imgs!SetParent(p, i) PROVE ImgFiles'
  BY <1>0, <1>3 DEF ImgFiles, ImgReq, Imgs!SetParent
<1>4. ASSUME NEW p \in Client, Imgs!NoParent(p) PROVE ImgFiles'
  <2>1. UNCHANGED <<content, parent, images, children>>
    BY Zenon, <1>4 DEF Imgs!NoParent, Imgs!fsVars
  <2>2. QED
    BY Zenon, <1>0, <2>1 DEF ImgFiles
<1>5. ASSUME NEW p \in Client, NEW r \in Ref, NEW force \in BOOLEAN, Imgs!addReference(p, r, force) PROVE ImgFiles'
  <2>1. UNCHANGED <<content, parent, images, children>>
    BY Zenon, <1>5 DEF Imgs!addReference, Imgs!fsVars
  <2>2. QED
    BY Zenon, <1>0, <2>1 DEF ImgFiles
<1>6. ASSUME NEW p \in Client, Imgs!NoTag(p) PROVE ImgFiles'
  <2>1. UNCHANGED <<content, parent, images, children>>
    BY Zenon, <1>6 DEF Imgs!NoTag, Imgs!fsVars
  <2>2. QED
    BY Zenon, <1>0, <2>1 DEF ImgFiles
<1>7. ASSUME NEW p \in Client, NEW i \in Id, Imgs!TagImage(p, i) PROVE ImgFiles'
  <2>1. UNCHANGED <<content, parent, images, children>>
    BY Zenon, <1>7 DEF Imgs!TagImage, Imgs!fsVars
  <2>2. QED
    BY Zenon, <1>0, <2>1 DEF ImgFiles
<1>8. ASSUME NEW p \in Client, NEW r \in Ref, NEW force \in BOOLEAN, NEW prune \in BOOLEAN, Imgs!ImageDeleteRef(p, r, force, prune) PROVE ImgFiles'
  <2>1. UNCHANGED <<content, parent, images, children>>
    BY Zenon, <1>8 DEF Imgs!ImageDeleteRef, Imgs!fsVars
  <2>2. QED
    BY Zenon, <1>0, <2>1 DEF ImgFiles
<1>9. ASSUME NEW p \in Client, Imgs!removeImageRef(p) PROVE ImgFiles'
  <2>1. UNCHANGED <<content, parent, images, children>>
    BY Zenon, <1>9 DEF Imgs!removeImageRef, Imgs!fsVars
  <2>2. QED
    BY Zenon, <1>0, <2>1 DEF ImgFiles
<1>10. ASSUME NEW p \in Client, Imgs!Untagged(p) PROVE ImgFiles'
  <2>1. UNCHANGED <<content, parent, images, children>>
    BY Zenon, <1>10 DEF Imgs!Untagged, Imgs!fsVars
  <2>2. QED
    BY Zenon, <1>0, <2>1 DEF ImgFiles
<1>11. ASSUME NEW p \in Client, NEW i \in Id, NEW force \in BOOLEAN, NEW prune \in BOOLEAN, Imgs!ImageDeleteID(p, i, force, prune) PROVE ImgFiles'
  <2>1. UNCHANGED <<content, parent, images, children>>
    BY Zenon, <1>11 DEF Imgs!ImageDeleteID, Imgs!fsVars
  <2>2. QED
    BY Zenon, <1>0, <2>1 DEF ImgFiles
<1>12. ASSUME NEW p \in Client, NEW r \in Ref, Imgs!RemoveRef(p, r) PROVE ImgFiles'
  <2>1. UNCHANGED <<content, parent, images, children>>
    BY Zenon, <1>12 DEF Imgs!RemoveRef, Imgs!fsVars
  <2>2. QED
    BY Zenon, <1>0, <2>1 DEF ImgFiles
<1>13. ASSUME NEW p \in Client, Imgs!HelperCheck(p) PROVE ImgFiles'
  <2>1. UNCHANGED <<content, parent, images, children>>
    BY Zenon, <1>13 DEF Imgs!HelperCheck, Imgs!fsVars
  <2>2. QED
    BY Zenon, <1>0, <2>1 DEF ImgFiles
<1>14. ASSUME NEW p \in Client, Imgs!HelperStrip(p) PROVE ImgFiles'
  <2>1. UNCHANGED <<content, parent, images, children>>
    BY Zenon, <1>14 DEF Imgs!HelperStrip, Imgs!fsVars
  <2>2. QED
    BY Zenon, <1>0, <2>1 DEF ImgFiles
<1>15. ASSUME NEW p \in Client, Imgs!HelperDelete(p) PROVE ImgFiles'
  BY <1>0, <1>15 DEF ImgFiles, ImgReq, Imgs!HelperDelete, Imgs!ImageStoreDelete, Imgs!fsVars
<1>16. ASSUME NEW p \in Client, NEW i \in Id, Imgs!ContainerCreate(p, i) PROVE ImgFiles'
  <2>1. UNCHANGED <<content, parent, images, children>>
    BY Zenon, <1>16 DEF Imgs!ContainerCreate, Imgs!fsVars
  <2>2. QED
    BY Zenon, <1>0, <2>1 DEF ImgFiles
<1>17. ASSUME NEW p \in Client, Imgs!setRWLayer(p) PROVE ImgFiles'
  <2>1. UNCHANGED <<content, parent, images, children>>
    BY Zenon, <1>17 DEF Imgs!setRWLayer, Imgs!fsVars
  <2>2. QED
    BY Zenon, <1>0, <2>1 DEF ImgFiles
<1>18. ASSUME NEW p \in Client, NEW c \in User, Imgs!Register(p, c) PROVE ImgFiles'
  <2>1. UNCHANGED <<content, parent, images, children>>
    BY Zenon, <1>18 DEF Imgs!Register, Imgs!fsVars
  <2>2. QED
    BY Zenon, <1>0, <2>1 DEF ImgFiles
<1>19. ASSUME NEW c \in User, Imgs!ContainerChanges(c) PROVE ImgFiles'
  <2>1. UNCHANGED <<content, parent, images, children>>
    BY Zenon, <1>19 DEF Imgs!ContainerChanges, Imgs!fsVars
  <2>2. QED
    BY Zenon, <1>0, <2>1 DEF ImgFiles
<1>20. ASSUME Imgs!Crash PROVE ImgFiles'
  <2>1. images' = content /\ UNCHANGED <<content, parent>> /\ children' = [k \in Id |-> {i \in content : k \in content /\ parent[i] = k}]
    BY Zenon, <1>20 DEF Imgs!Crash
  <2>2. QED
    BY <1>0, <2>1 DEF ImgFiles
<1>21. QED
  BY Zenon, <1>1, <1>2, <1>3, <1>4, <1>5, <1>6, <1>7, <1>8, <1>9, <1>10, <1>11, <1>12, <1>13,
     <1>14, <1>15, <1>16, <1>17, <1>18, <1>19, <1>20 DEF Imgs!Next

\* Only the last step of the helper takes the configuration of an image away.
LEMMA ImgOnlyDelete == ASSUME Imgs!Next PROVE content \subseteq content' \/ \E p \in Client : Imgs!HelperDelete(p)
<1>1. ASSUME NEW p \in Client, NEW i \in Id, Imgs!CreateSet(p, i) PROVE content \subseteq content'
  BY Zenon, <1>1 DEF Imgs!CreateSet
<1>2. ASSUME NEW p \in Client, Imgs!CreateAdd(p) PROVE content \subseteq content'
  BY Zenon, <1>2 DEF Imgs!CreateAdd
<1>3. ASSUME NEW p \in Client, NEW i \in Id, Imgs!SetParent(p, i) PROVE content \subseteq content'
  BY Zenon, <1>3 DEF Imgs!SetParent
<1>4. ASSUME NEW p \in Client, Imgs!NoParent(p) PROVE content \subseteq content'
  BY Zenon, <1>4 DEF Imgs!NoParent, Imgs!fsVars
<1>5. ASSUME NEW p \in Client, NEW r \in Ref, NEW force \in BOOLEAN, Imgs!addReference(p, r, force) PROVE content \subseteq content'
  BY Zenon, <1>5 DEF Imgs!addReference, Imgs!fsVars
<1>6. ASSUME NEW p \in Client, Imgs!NoTag(p) PROVE content \subseteq content'
  BY Zenon, <1>6 DEF Imgs!NoTag, Imgs!fsVars
<1>7. ASSUME NEW p \in Client, NEW i \in Id, Imgs!TagImage(p, i) PROVE content \subseteq content'
  BY Zenon, <1>7 DEF Imgs!TagImage, Imgs!fsVars
<1>8. ASSUME NEW p \in Client, NEW r \in Ref, NEW force \in BOOLEAN, NEW prune \in BOOLEAN, Imgs!ImageDeleteRef(p, r, force, prune) PROVE content \subseteq content'
  BY Zenon, <1>8 DEF Imgs!ImageDeleteRef, Imgs!fsVars
<1>9. ASSUME NEW p \in Client, Imgs!removeImageRef(p) PROVE content \subseteq content'
  BY Zenon, <1>9 DEF Imgs!removeImageRef, Imgs!fsVars
<1>10. ASSUME NEW p \in Client, Imgs!Untagged(p) PROVE content \subseteq content'
  BY Zenon, <1>10 DEF Imgs!Untagged, Imgs!fsVars
<1>11. ASSUME NEW p \in Client, NEW i \in Id, NEW force \in BOOLEAN, NEW prune \in BOOLEAN, Imgs!ImageDeleteID(p, i, force, prune) PROVE content \subseteq content'
  BY Zenon, <1>11 DEF Imgs!ImageDeleteID, Imgs!fsVars
<1>12. ASSUME NEW p \in Client, NEW r \in Ref, Imgs!RemoveRef(p, r) PROVE content \subseteq content'
  BY Zenon, <1>12 DEF Imgs!RemoveRef, Imgs!fsVars
<1>13. ASSUME NEW p \in Client, Imgs!HelperCheck(p) PROVE content \subseteq content'
  BY Zenon, <1>13 DEF Imgs!HelperCheck, Imgs!fsVars
<1>14. ASSUME NEW p \in Client, Imgs!HelperStrip(p) PROVE content \subseteq content'
  BY Zenon, <1>14 DEF Imgs!HelperStrip, Imgs!fsVars
<1>15. ASSUME NEW p \in Client, Imgs!HelperDelete(p) PROVE \E q \in Client : Imgs!HelperDelete(q)
  BY Zenon, <1>15
<1>16. ASSUME NEW p \in Client, NEW i \in Id, Imgs!ContainerCreate(p, i) PROVE content \subseteq content'
  BY Zenon, <1>16 DEF Imgs!ContainerCreate, Imgs!fsVars
<1>17. ASSUME NEW p \in Client, Imgs!setRWLayer(p) PROVE content \subseteq content'
  BY Zenon, <1>17 DEF Imgs!setRWLayer, Imgs!fsVars
<1>18. ASSUME NEW p \in Client, NEW c \in User, Imgs!Register(p, c) PROVE content \subseteq content'
  BY Zenon, <1>18 DEF Imgs!Register, Imgs!fsVars
<1>19. ASSUME NEW c \in User, Imgs!ContainerChanges(c) PROVE content \subseteq content'
  BY Zenon, <1>19 DEF Imgs!ContainerChanges, Imgs!fsVars
<1>20. ASSUME Imgs!Crash PROVE content \subseteq content'
  BY Zenon, <1>20 DEF Imgs!Crash
<1>21. QED
  BY Zenon, <1>1, <1>2, <1>3, <1>4, <1>5, <1>6, <1>7, <1>8, <1>9, <1>10, <1>11, <1>12, <1>13,
     <1>14, <1>15, <1>16, <1>17, <1>18, <1>19, <1>20 DEF Imgs!Next

ImgInv == ImgTypes /\ Imgs!ReferencesAgree /\ ImgAlone /\ ImgUnused
ImgStored == ImgParents /\ ImgOnDisk /\ ImgNamed

\* At the start there is no image, no name and no request.
LEMMA ImgInit == ASSUME Imgs!ImgParameters, Imgs!Init PROVE ImgInv /\ ImgStored
<1>1. Imgs!Idle.step = "idle" /\ "idle" \notin Imgs!Deleting
  BY DEF Imgs!Idle, Imgs!Deleting
<1>2. \A p \in Client : req[p] = Imgs!Idle
  BY Zenon DEF Imgs!Init
<1>3. \A p \in Client : req[p].step = "idle"
  BY Zenon, <1>1, <1>2
<1>4. ImgTypes
  <2>1. ImgFiles /\ ImgTables
    BY DEF Imgs!Init, ImgFiles, ImgTables
  <2>2. cont \in [User -> [id : Id \cup {None}, running : BOOLEAN]]
    BY DEF Imgs!Init, Imgs!NoContainer
  <2>3. ImgCounts
    BY <2>2 DEF Imgs!Init, ImgCounts, Imgs!ImgParameters
  <2>4. QED
    BY Zenon, <2>1, <2>3, ImgIdle DEF Imgs!Init, ImgTypes
<1>5. Imgs!ReferencesAgree
  BY DEF Imgs!Init, Imgs!ReferencesAgree, Imgs!ImgParameters
<1>6. ImgAlone /\ ImgUnused
  BY Zenon, <1>1, <1>3 DEF ImgAlone, ImgUnused
<1>7. ImgParents /\ ImgNamed
  BY <1>3 DEF Imgs!Init, ImgParents, ImgNamed
<1>8. ImgOnDisk
  BY <1>3 DEF Imgs!Init, ImgOnDisk
<1>9. QED
  BY Zenon, <1>4, <1>5, <1>6, <1>7, <1>8 DEF ImgInv, ImgStored

\* The invariant of the requests and of the references is inductive.
LEMMA ImgInvStep == ASSUME Imgs!ImgParameters, ImgInv, [Imgs!Next]_(Imgs!vars) PROVE ImgInv'
<1>1. ASSUME Imgs!Next PROVE ImgInv'
  <2>1. ImgFiles' /\ ImgTables' /\ Imgs!ReferencesAgree' /\ ImgCounts'
    BY Zenon, <1>1, ImgFiled, ImgReferences, ImgCounted DEF ImgInv
  <2>2. disturbed' \in BOOLEAN /\ ImgAlone' /\ ImgUnused'
    BY Zenon, <1>1, ImgAloneStep DEF ImgInv
  <2>3. req' \in [Client -> ImgReq]
    <3>1. req \in [Client -> ImgReq]
      BY Zenon DEF ImgInv, ImgTypes
    <3>2. \/ \E p \in Client, x \in ImgReq : req' = [req EXCEPT ![p] = x]
          \/ UNCHANGED req
          \/ req' = [p \in Client |-> Imgs!Idle]
      BY Zenon, <1>1, ImgActs DEF ImgInv, ImgBy
    <3>3. QED
      BY Zenon, <3>1, <3>2, ImgIdle
  <2>4. QED
    BY Zenon, <2>1, <2>2, <2>3 DEF ImgInv, ImgTypes
<1>2. CASE UNCHANGED Imgs!vars
  <2>1. UNCHANGED <<content, parent, images, children, repos, cache, saved, req, cont, requests, crashes, disturbed>>
    BY Zenon, <1>2 DEF Imgs!vars, Imgs!fsVars, Imgs!refVars
  <2>2. QED
    BY Zenon, <2>1 DEF ImgInv, ImgTypes, ImgFiles, ImgTables, ImgCounts, Imgs!ReferencesAgree,
       ImgAlone, ImgUnused, Imgs!Running, Imgs!UsedBy
<1>3. QED
  BY Zenon, <1>1, <1>2

\* What the stores hold, and what the names lead to, is kept by every step.
LEMMA ImgStoredStep ==
  ASSUME Imgs!ImgParameters, Imgs!CrashAlone, ImgInv, ImgStored,
         [Imgs!Next]_(Imgs!vars) PROVE ImgStored'
<1>1. ASSUME Imgs!Next PROVE ImgStored'
  <2>1. ImgParents' /\ ImgOnDisk'
    BY Zenon, <1>1, ImgKept DEF Imgs!CrashAlone, ImgInv, ImgStored
  <2>2. ImgNamed'
    BY Zenon, <1>1, ImgNamedStep DEF ImgInv, ImgStored
  <2>3. QED
    BY Zenon, <2>1, <2>2 DEF ImgStored
<1>2. CASE UNCHANGED Imgs!vars
  <2>1. UNCHANGED <<content, parent, images, children, repos, cache, req, disturbed>>
    BY Zenon, <1>2 DEF Imgs!vars, Imgs!fsVars, Imgs!refVars
  <2>2. QED
    BY Zenon, <2>1 DEF ImgStored, ImgParents, ImgOnDisk, ImgNamed
<1>3. QED
  BY Zenon, <1>1, <1>2

\* image/store.go, reference/store.go, daemon/image_delete.go: the requests and the
\* two maps of the references keep their shape, whatever fails.
THEOREM ImagesInvariant == ASSUME Imgs!ImgParameters PROVE Imgs!Spec => []ImgInv
<1>1. Imgs!Init => ImgInv
  BY Zenon, ImgInit
<1>2. ImgInv /\ [Imgs!Next]_(Imgs!vars) => ImgInv'
  BY Zenon, ImgInvStep
<1>3. QED
  BY <1>1, <1>2, PTL DEF Imgs!Spec

\* The by-ID cache of the reference store, from which a deletion decides, is the
\* inverse of the repositories under every interleaving of tags, untags,
\* deletions, failed saves and crashes.
THEOREM ReferencesAlwaysAgree == ASSUME Imgs!ImgParameters PROVE Imgs!Spec => []Imgs!ReferencesAgree
<1>1. ImgInv => Imgs!ReferencesAgree
  BY Zenon DEF ImgInv
<1>2. QED
  BY <1>1, ImagesInvariant, PTL

\* No step removes the image a running container was created from while no other
\* request ran between the check for conflicts and the removal.
THEOREM RunningImagesStay == ASSUME Imgs!ImgParameters PROVE Imgs!Spec => Imgs!UndisturbedRunningImageStays
<1>1. ASSUME ImgInv, Imgs!Next PROVE Imgs!UndisturbedRunningImageStaysStep
  <2> SUFFICES ASSUME ~disturbed', NEW c \in User, cont[c].running, cont[c].id \in content PROVE cont[c].id \in content'
    BY Zenon DEF Imgs!UndisturbedRunningImageStaysStep
  <2>1. CASE content \subseteq content'
    BY Zenon, <2>1
  <2>2. ASSUME NEW p \in Client, Imgs!HelperDelete(p) PROVE cont[c].id \in content'
    <3>1. Imgs!Overlap(p) /\ req[p].step = "delete"
      BY Zenon, <2>2 DEF Imgs!HelperDelete, Imgs!Continue
    <3>2. ~disturbed
      BY Zenon, <3>1 DEF Imgs!Overlap
    <3>3. Imgs!Running(req[p].id) = {}
      BY Zenon, <1>1, <3>1, <3>2 DEF ImgInv, ImgUnused
    <3>4. cont[c].id # req[p].id
      BY Zenon, <3>3 DEF Imgs!Running, Imgs!UsedBy
    <3>5. content \ {req[p].id} \subseteq content'
      BY Zenon, <2>2 DEF Imgs!HelperDelete, Imgs!ImageStoreDelete, Imgs!fsVars
    <3>6. QED
      BY Zenon, <3>4, <3>5
  <2>3. QED
    BY Zenon, <1>1, <2>1, <2>2, ImgOnlyDelete
<1>2. ImgInv /\ [Imgs!Next]_(Imgs!vars) => [Imgs!UndisturbedRunningImageStaysStep]_(Imgs!vars)
  BY Zenon, <1>1
<1>3. QED
  BY <1>2, ImagesInvariant, PTL DEF Imgs!Spec, Imgs!UndisturbedRunningImageStays

\* The parents on record exist and know their children, the by-ID cache and the
\* file agree with the repositories, and a name leads to an image as long as no
\* request ran beside a deletion.
THEOREM ImagesAreSafe == ASSUME Imgs!ImgParameters, Imgs!CrashAlone PROVE Imgs!Spec => []ImagesSafe
<1>1. Imgs!Init => ImgInv /\ ImgStored
  BY Zenon, ImgInit
<1>2. (ImgInv /\ ImgStored) /\ [Imgs!Next]_(Imgs!vars) => (ImgInv /\ ImgStored)'
  BY Zenon, ImgInvStep, ImgStoredStep
<1>3. ImgInv /\ ImgStored => ImagesSafe
  BY Zenon DEF ImgInv, ImgStored, ImgParents, ImgNamed, ImgTypes, ImgFiles, ImagesSafe,
     Imgs!ImagesSafe,
     Imgs!ParentsExist, Imgs!ChildrenKnown, Imgs!NamesLeadToImages
<1>4. QED
  BY <1>1, <1>2, <1>3, PTL DEF Imgs!Spec

-----------------------------------------------------------------------------
(* What no step of the three does.                                         *)

\* No volume is taken from under a running container, no container runs without
\* its networks, and no undisturbed deletion takes the image of a running
\* container: the three components side by side.
THEOREM StorageStepsHold ==
  ASSUME VolParameters, "hostconfig" \notin Ops, Nets!NetParameters, Imgs!ImgParameters
  PROVE  Spec /\ Nets!Spec /\ Imgs!Spec => StorageSteps
BY MountedVolumesStay, NetworksStart, RunningImagesStay, PTL DEF StorageSteps
=============================================================================
