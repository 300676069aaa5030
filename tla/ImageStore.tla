----------------------------- MODULE ImageStore -----------------------------
(***************************************************************************)
(* Images and the names that refer to them: image/store.go keeps images,   *)
(* their parents and children in memory and on disk, reference/store.go    *)
(* the tags and digests, and daemon/image_delete.go decides when an image  *)
(* may go and prunes its ancestors.                                        *)
(*                                                                         *)
(* Each store has a lock of its own, and a request holds neither between   *)
(* two calls, so a request is one step per call that changes state.  Reads *)
(* that follow each other directly are taken together.  Layers are left to *)
(* LayerStore; here an image is its ID.                                    *)
(***************************************************************************)
EXTENDS Naturals, FiniteSets

CONSTANTS
  Client, Id, Ref, Container,
  RepoOf,       \* the repository a reference belongs to
  IsDigest,     \* the references that are digests (reference.Canonical)
  None,
  Ops,          \* optional behaviour: "recreate", "crash", "savefails"
  MaxRequests, MaxCrashes

VARIABLES
  content,      \* fs: image configurations on disk
  parent,       \* fs: the "parent" metadata of an image
  images,       \* is.images
  children,     \* imageMeta.children
  repos,        \* store.Repositories, by reference
  cache,        \* store.referencesByIDCache
  saved,        \* repositories.json
  req,          \* each client's request
  cont,         \* containers: their image and whether they run
  requests, crashes,
  disturbed     \* some request ran while a deletion was under way

vars == <<content, parent, images, children, repos, cache, saved, req, cont,
          requests, crashes, disturbed>>

fsVars == <<content, parent, images, children>>
refVars == <<repos, cache, saved>>

Idle == [step |-> "idle", id |-> None, ref |-> None, force |-> FALSE,
         prune |-> FALSE, refs |-> {}, up |-> None]
Deleting == {"untag", "untagged", "untidy", "unref", "check", "strip", "delete"}
Steps == {"idle", "create", "parent", "tag", "rwlayer", "run"} \cup Deleting

NoContainer == [id |-> None, running |-> FALSE]

TypeOK ==
  /\ content \subseteq Id
  /\ parent \in [Id -> Id \cup {None}]
  /\ images \subseteq Id
  /\ children \in [Id -> SUBSET Id]
  /\ repos \in [Ref -> Id \cup {None}]
  /\ cache \in [Id -> SUBSET Ref]
  /\ saved \in [Ref -> Id \cup {None}]
  /\ req \in [Client -> [step : Steps, id : Id \cup {None}, ref : Ref \cup {None},
                         force : BOOLEAN, prune : BOOLEAN, refs : SUBSET Ref,
                         up : Id \cup {None}]]
  /\ cont \in [Container -> [id : Id \cup {None}, running : BOOLEAN]]
  /\ requests \in 0..MaxRequests
  /\ crashes \in 0..MaxCrashes
  /\ disturbed \in BOOLEAN

Init ==
  /\ content = {} /\ images = {}
  /\ parent = [i \in Id |-> None]
  /\ children = [i \in Id |-> {}]
  /\ repos = [r \in Ref |-> None]
  /\ cache = [i \in Id |-> {}]
  /\ saved = [r \in Ref |-> None]
  /\ req = [p \in Client |-> Idle]
  /\ cont = [c \in Container |-> NoContainer]
  /\ requests = 0 /\ crashes = 0
  /\ disturbed = FALSE

\* Bookkeeping of a step by p (or by a container) for the property below.
Overlap(p) ==
  disturbed' = \/ disturbed
               \/ \E q \in Client \ {p} :
                    \/ req[q].step \in Deleting
                    \/ req[q].step /= "idle" /\ p \in Client
                         /\ {req[p].step, req'[p].step} \cap Deleting /= {}

Begin(p) ==
  /\ req[p].step = "idle"
  /\ requests < MaxRequests
  /\ requests' = requests + 1
  /\ UNCHANGED <<cont, crashes>>

Continue(p) ==
  /\ Overlap(p)
  /\ UNCHANGED <<cont, requests, crashes>>

----------------------------------------------------------------------------
(* The image store.                                                        *)

\* Create writes the configuration before it takes the lock ...
CreateSet(p, i) ==
  /\ Begin(p)
  /\ "recreate" \in Ops \/ i \notin content
  /\ content' = content \cup {i}
  /\ req' = [req EXCEPT ![p] = [Idle EXCEPT !.step = "create", !.id = i]]
  /\ UNCHANGED <<parent, images, children, refVars>>
  /\ Overlap(p)

\* ... and enters the image into the maps under it.
CreateAdd(p) ==
  /\ req[p].step = "create"
  /\ images' = images \cup {req[p].id}
  /\ children' = IF req[p].id \in images THEN children
                 ELSE [children EXCEPT ![req[p].id] = {}]
  /\ req' = [req EXCEPT ![p].step = "parent"]
  /\ Continue(p)
  /\ UNCHANGED <<content, parent, refVars>>

\* A mutant of SetParent: the parent does not learn of the child.
SetParentForgets(p, new) ==
  /\ req[p].step = "parent"
  /\ parent' = IF new \in images /\ req[p].id \in content
               THEN [parent EXCEPT ![req[p].id] = new] ELSE parent
  /\ req' = [req EXCEPT ![p].step = "tag"]
  /\ Continue(p)
  /\ UNCHANGED <<content, images, children, refVars>>

\* SetParent: the child is entered before the metadata is written, and the
\* metadata cannot be written without the configuration.
SetParent(p, new) ==
  /\ req[p].step = "parent"
  /\ LET i == req[p].id
     IN  IF new \notin images
         THEN UNCHANGED <<children, parent>>
         ELSE /\ children' = [k \in Id |->
                    IF k = new THEN children[k] \cup {i}
                    ELSE IF i \in content /\ parent[i] = k /\ k \in images
                         THEN children[k] \ {i} ELSE children[k]]
              /\ parent' = IF i \in content THEN [parent EXCEPT ![i] = new] ELSE parent
  /\ req' = [req EXCEPT ![p].step = "tag"]
  /\ Continue(p)
  /\ UNCHANGED <<content, images, refVars>>

\* The image has no parent (it was pulled or imported).
NoParent(p) ==
  /\ req[p].step = "parent"
  /\ req' = [req EXCEPT ![p].step = "tag"]
  /\ Continue(p)
  /\ UNCHANGED <<fsVars, refVars>>

\* A mutant of ImageStoreDelete: the children keep their parent.
ImageStoreDeleteKeeps(i) ==
  /\ parent' = [parent EXCEPT ![i] = None]
  /\ children' = [k \in Id |-> IF k = i THEN {} ELSE children[k] \ {i}]
  /\ images' = images \ {i}
  /\ content' = content \ {i}

\* Delete, under is.Lock; an unknown image is an error.
ImageStoreDelete(i) ==
  /\ parent' = [k \in Id |-> IF k = i \/ k \in children[i] THEN None ELSE parent[k]]
  /\ children' = [k \in Id |->
        IF k = i THEN {}
        ELSE IF i \in content /\ parent[i] = k THEN children[k] \ {i} ELSE children[k]]
  /\ images' = images \ {i}
  /\ content' = content \ {i}

----------------------------------------------------------------------------
(* The reference store.                                                    *)

\* save rewrites the file, or fails with the maps already changed.
save == \/ saved' = repos'
        \/ "savefails" \in Ops /\ UNCHANGED saved

\* A mutant of addReference: a moved tag stays in the old image's entry.
addReferenceKeeps(p, r, force) ==
  /\ req[p].step = "tag"
  /\ IF repos[r] /= None /\ (r \in IsDigest \/ ~force)
     THEN UNCHANGED refVars
     ELSE /\ repos' = [repos EXCEPT ![r] = req[p].id]
          /\ cache' = [cache EXCEPT ![req[p].id] = @ \cup {r}]
          /\ save
  /\ req' = [req EXCEPT ![p] = Idle]
  /\ Continue(p)
  /\ UNCHANGED fsVars

\* addReference: digests are never overwritten, tags only with force.
addReference(p, r, force) ==
  /\ req[p].step = "tag"
  /\ LET i == req[p].id
         old == repos[r]
     IN  IF old /= None /\ (r \in IsDigest \/ ~force)
         THEN UNCHANGED refVars
         ELSE /\ repos' = [repos EXCEPT ![r] = i]
              /\ cache' = [k \in Id |-> IF k = i THEN cache[k] \cup {r}
                                        ELSE IF k = old THEN cache[k] \ {r} ELSE cache[k]]
              /\ save
  /\ req' = [req EXCEPT ![p] = Idle]
  /\ Continue(p)
  /\ UNCHANGED fsVars

\* The image stays without a name (an intermediate image of a build).
NoTag(p) ==
  /\ req[p].step = "tag"
  /\ req' = [req EXCEPT ![p] = Idle]
  /\ Continue(p)
  /\ UNCHANGED <<fsVars, refVars>>

\* TagImage looks the image up, then adds the reference.
TagImage(p, i) ==
  /\ Begin(p)
  /\ i \in images
  /\ req' = [req EXCEPT ![p] = [Idle EXCEPT !.step = "tag", !.id = i]]
  /\ UNCHANGED <<fsVars, refVars>>
  /\ Overlap(p)

\* A mutant of ReferenceDelete: the entry of the repository stays.
ReferenceDeleteKeeps(p, r, next) ==
  IF repos[r] = None
  THEN /\ req' = [req EXCEPT ![p] = Idle]
       /\ UNCHANGED refVars
  ELSE /\ cache' = [k \in Id |-> IF k = repos[r] THEN cache[k] \ {r} ELSE cache[k]]
       /\ req' = [req EXCEPT ![p] = next]
       /\ UNCHANGED <<repos, saved>>

\* Delete of a reference by a request that goes on as next; it gives up
\* when the reference is gone or the file cannot be written.
ReferenceDelete(p, r, next) ==
  IF repos[r] = None
  THEN /\ req' = [req EXCEPT ![p] = Idle]
       /\ UNCHANGED refVars
  ELSE /\ repos' = [repos EXCEPT ![r] = None]
       /\ cache' = [k \in Id |-> IF k = repos[r] THEN cache[k] \ {r} ELSE cache[k]]
       /\ save
       /\ req' = [req EXCEPT ![p] = IF saved' = repos' THEN next ELSE Idle]

----------------------------------------------------------------------------
(* ImageDelete.                                                            *)

\* isSingleReference: one repository and at most one tag.
isSingleReference(refs) ==
  \/ Cardinality(refs) = 1
  \/ /\ refs \cap IsDigest /= {}
     /\ Cardinality(refs \ IsDigest) <= 1
     /\ \A a, b \in refs : RepoOf[a] = RepoOf[b]

UsedBy(i) == {c \in Container : cont[c].id = i}
Running(i) == {c \in UsedBy(i) : cont[c].running}

\* A mutant of Conflict: running containers are among the soft conflicts.
ConflictSoft(i, tags, stopped) ==
  \/ children[i] /= {}
  \/ tags /\ cache[i] /= {}
  \/ stopped /\ UsedBy(i) /= {}

\* checkImageDeleteConflict with conflictHard, and with the soft conflicts
\* the mask holds.
Conflict(i, tags, stopped) ==
  \/ children[i] /= {}
  \/ Running(i) /= {}
  \/ tags /\ cache[i] /= {}
  \/ stopped /\ UsedBy(i) /= {}

\* ImageDelete of a reference: refused when it is the last name of an image
\* some container uses, unless forced.
ImageDeleteRef(p, r, force, prune) ==
  /\ Begin(p)
  /\ LET i == repos[r]
     IN  /\ i /= None
         /\ ~(~force /\ isSingleReference(cache[i]) /\ UsedBy(i) /= {})
         /\ req' = [req EXCEPT ![p] = [Idle EXCEPT !.step = "untag", !.id = i,
                                         !.ref = r, !.force = force, !.prune = prune]]
  /\ UNCHANGED <<fsVars, refVars>>
  /\ Overlap(p)

removeImageRef(p) ==
  /\ req[p].step = "untag"
  /\ ReferenceDelete(p, req[p].ref, [req[p] EXCEPT !.step = "untagged"])
  /\ Continue(p)
  /\ UNCHANGED fsVars

\* What is left once the reference is gone: when the repository has no tag
\* of the image any more its digests go too; other names end the request.
Untagged(p) ==
  /\ req[p].step = "untagged"
  /\ LET q == req[p]
         left == cache[q.id]
         same == {r \in left : RepoOf[r] = RepoOf[q.ref]}
         orphans == IF q.ref \notin IsDigest /\ same \subseteq IsDigest
                    THEN same ELSE {}
     IN  req' = [req EXCEPT ![p] =
                   IF orphans /= {}
                   THEN [q EXCEPT !.step = IF left = orphans THEN "unref" ELSE "untidy",
                                  !.refs = orphans, !.ref = None]
                   ELSE IF left /= {} THEN Idle
                   ELSE [q EXCEPT !.step = "check", !.ref = None]]
  /\ Continue(p)
  /\ UNCHANGED <<fsVars, refVars>>

\* ImageDelete of an ID: when all its names are one repository's they are
\* removed, unless there is a conflict; otherwise the helper decides.
ImageDeleteID(p, i, force, prune) ==
  /\ Begin(p)
  /\ i \in images
  /\ LET q == [Idle EXCEPT !.id = i, !.force = force, !.prune = prune]
     IN  IF isSingleReference(cache[i])
         THEN /\ ~Conflict(i, FALSE, ~force)
              /\ req' = [req EXCEPT ![p] = [q EXCEPT !.step = "unref", !.refs = cache[i]]]
         ELSE req' = [req EXCEPT ![p] = [q EXCEPT !.step = "check"]]
  /\ UNCHANGED <<fsVars, refVars>>
  /\ Overlap(p)

\* One reference of the loop.  The request ends with the digests of an
\* untagged repository when other names remained (untidy).
RemoveRef(p, r) ==
  /\ req[p].step \in {"unref", "untidy"}
  /\ r \in req[p].refs
  /\ LET q == [req[p] EXCEPT !.refs = @ \ {r}]
     IN  ReferenceDelete(p, r, IF q.refs /= {} THEN q
                               ELSE IF q.step = "untidy" THEN Idle
                               ELSE [q EXCEPT !.step = "check"])
  /\ Continue(p)
  /\ UNCHANGED fsVars

\* imageDeleteHelper up to the conflict check and GetParent; quiet or not, a
\* conflict ends the request.
HelperCheck(p) ==
  /\ req[p].step = "check"
  /\ LET q == req[p]
     IN req' = [req EXCEPT ![p] =
                  IF Conflict(q.id, ~q.force, ~q.force) THEN Idle
                  ELSE [q EXCEPT !.step = "strip", !.refs = cache[q.id],
                                 !.up = IF q.id \in content THEN parent[q.id] ELSE None]]
  /\ Continue(p)
  /\ UNCHANGED <<fsVars, refVars>>

\* removeAllReferencesToImageID, one reference at a time
HelperStrip(p) ==
  /\ req[p].step = "strip"
  /\ LET q == req[p]
     IN  IF q.refs = {}
         THEN /\ req' = [req EXCEPT ![p].step = "delete"]
              /\ UNCHANGED refVars
         ELSE \E r \in q.refs : ReferenceDelete(p, r, [q EXCEPT !.refs = @ \ {r}])
  /\ Continue(p)
  /\ UNCHANGED fsVars

\* The image goes, and with prune the helper turns to its parent, quietly
\* and without force.
HelperDelete(p) ==
  /\ req[p].step = "delete"
  /\ LET q == req[p]
     IN  IF q.id \notin images
         THEN /\ req' = [req EXCEPT ![p] = Idle]
              /\ UNCHANGED fsVars
         ELSE /\ ImageStoreDelete(q.id)
              /\ req' = [req EXCEPT ![p] =
                           IF q.prune /\ q.up /= None
                           THEN [Idle EXCEPT !.step = "check", !.id = q.up,
                                             !.prune = TRUE]
                           ELSE Idle]
  /\ Continue(p)
  /\ UNCHANGED refVars

----------------------------------------------------------------------------
(* Containers, and a crash of the daemon.                                  *)

\* create: GetImage, and later Register with that ImageID.
ContainerCreate(p, i) ==
  /\ Begin(p)
  /\ i \in content
  /\ req' = [req EXCEPT ![p] = [Idle EXCEPT !.step = "rwlayer", !.id = i]]
  /\ UNCHANGED <<fsVars, refVars>>
  /\ Overlap(p)

\* setRWLayer reads the image again, and fails when it is gone.
setRWLayer(p) ==
  /\ req[p].step = "rwlayer"
  /\ req' = [req EXCEPT ![p] = IF req[p].id \in content
                               THEN [req[p] EXCEPT !.step = "run"] ELSE Idle]
  /\ Continue(p)
  /\ UNCHANGED <<fsVars, refVars>>

Register(p, c) ==
  /\ req[p].step = "run"
  /\ cont[c] = NoContainer
  /\ cont' = [cont EXCEPT ![c] = [id |-> req[p].id, running |-> FALSE]]
  /\ req' = [req EXCEPT ![p] = Idle]
  /\ Overlap(p)
  /\ UNCHANGED <<fsVars, refVars, requests, crashes>>

\* The container starts, exits or is removed.
ContainerChanges(c) ==
  /\ cont[c] /= NoContainer
  /\ cont' \in {[cont EXCEPT ![c].running = ~@], [cont EXCEPT ![c] = NoContainer]}
  /\ cont[c].running => cont'[c] /= NoContainer
  /\ Overlap(None)
  /\ UNCHANGED <<fsVars, refVars, req, requests, crashes>>

\* The daemon dies between any two calls; NewImageStore and
\* NewReferenceStore load what is on disk.
Crash ==
  /\ "crash" \in Ops
  /\ crashes < MaxCrashes
  /\ crashes' = crashes + 1
  /\ images' = content
  /\ children' = [k \in Id |-> {i \in content : k \in content /\ parent[i] = k}]
  /\ repos' = saved
  /\ cache' = [k \in Id |-> {r \in Ref : saved[r] = k}]
  /\ req' = [p \in Client |-> Idle]
  /\ cont' = [c \in Container |-> [cont[c] EXCEPT !.running = FALSE]]
  /\ Overlap(None)
  /\ UNCHANGED <<content, parent, saved, requests>>

Next ==
  \/ \E p \in Client :
       \/ \E i \in Id : \/ CreateSet(p, i)
                        \/ SetParent(p, i)
                        \/ TagImage(p, i)
                        \/ ContainerCreate(p, i)
                        \/ \E force, prune \in BOOLEAN : ImageDeleteID(p, i, force, prune)
       \/ \E r \in Ref : \/ \E force \in BOOLEAN : addReference(p, r, force)
                         \/ \E force, prune \in BOOLEAN : ImageDeleteRef(p, r, force, prune)
                         \/ RemoveRef(p, r)
       \/ \E c \in Container : Register(p, c)
       \/ setRWLayer(p)
       \/ CreateAdd(p)
       \/ NoParent(p)
       \/ NoTag(p)
       \/ removeImageRef(p)
       \/ Untagged(p)
       \/ HelperCheck(p)
       \/ HelperStrip(p)
       \/ HelperDelete(p)
  \/ \E c \in Container : ContainerChanges(c)
  \/ Crash

Spec == Init /\ [][Next]_vars

----------------------------------------------------------------------------
(* Properties.                                                             *)

\* A parent recorded on disk is an image of the store: Delete clears the
\* metadata of the children it knows, so that set must be complete.
ParentsExist ==
  \A i \in content : parent[i] /= None => parent[i] \in images

\* No child is forgotten: checkImageDeleteConflict would let its parent go.
ChildrenKnown ==
  \A i \in content : parent[i] /= None => i \in children[parent[i]]

\* The by-ID cache, from which deletions decide, is the inverse of the
\* repositories, and without a failed save the file agrees with both.
ReferencesAgree ==
  /\ \A i \in Id : cache[i] = {r \in Ref : repos[r] = i}
  /\ "savefails" \notin Ops => saved = repos

\* While nothing else ran during a deletion, every name leads to an image:
\* all names of an image go before it does, with or without force.
NamesLeadToImages ==
  ~disturbed => \A r \in Ref : repos[r] /= None => repos[r] \in images

\* "The image cannot be removed if there are any hard conflicts": no step
\* removes the image a running container was created from.
RunningImageStays ==
  [][\A c \in Container : cont[c].running /\ cont[c].id \in content
                            => cont[c].id \in content']_vars

UndisturbedRunningImageStaysStep ==
    ~disturbed' => \A c \in Container : cont[c].running /\ cont[c].id \in content
                                        => cont[c].id \in content'

\* RunningImageStays while no other request ran between the check for
\* conflicts and the removal.
UndisturbedRunningImageStays == [][UndisturbedRunningImageStaysStep]_vars

\* What the stores promise: a parent on record exists and knows its children,
\* the by-ID cache agrees with the repositories, and a name leads to an image.
ImagesSafe == ParentsExist /\ ChildrenKnown /\ ReferencesAgree /\ NamesLeadToImages

----------------------------------------------------------------------------
(* What the proofs assume of the parameters.                               *)
ImgParameters ==
  /\ None \notin Id \cup Ref \cup Client
  /\ MaxRequests \in Nat /\ MaxCrashes \in Nat

\* A daemon that dies is not combined with a Create of an image being deleted,
\* after which an image of the maps may not be on disk, or a failed save.
CrashAlone == "crash" \in Ops => "recreate" \notin Ops /\ "savefails" \notin Ops
=============================================================================
