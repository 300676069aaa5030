------------------------------ MODULE Storage ------------------------------
(***************************************************************************)
(* What a container is given, side by side: its volumes (volume/store and  *)
(* daemon/volumes.go), its networks (daemon/container_operations.go) and   *)
(* the images with their names (image, reference, daemon/image_delete.go). *)
(* They share no state; the volumes are extended, the others instances.    *)
(***************************************************************************)
EXTENDS VolumeStore

CONSTANTS
  Net, Bridge, Requester,                         \* ContainerNetwork
  Client, Id, Ref, User, RepoOf, IsDigest, MaxRequests, MaxCrashes \* ImageStore

VARIABLES
  nets, sandbox, eps, joined, Networks, withID, SandboxID, Running, op,
  toConnect,
  content, parent, images, children, repos, cache, saved, req, cont,
  requests, crashes, disturbed

Nets == INSTANCE ContainerNetwork WITH Caller <- Requester, todo <- toConnect

Imgs == INSTANCE ImageStore WITH Container <- User

\* Endpoints of a container.  A network the container takes part in has an
\* entry in its settings, so that a disconnection, a stop and an inspection can
\* find it, whatever fails while it is connected.  A container that stopped, or
\* whose start failed halfway, leaves no endpoint behind: its networks can be
\* deleted and joined again.
NetworksSafe == Nets!NetworksSafe

\* Images, their parents and their names.  A parent recorded on disk is an
\* image of the store, which knows of the child: Delete clears the metadata of
\* the children it knows, and refuses an image that has any.  The by-ID cache,
\* from which deletions decide, is the inverse of the repositories, and the
\* file agrees with both.  While nothing else ran during a deletion, every name
\* leads to an image.
ImagesSafe == Imgs!ImagesSafe

\* What no step does.  No step takes a volume away from the driver that a
\* running container has mounted it from.  A start that succeeds has connected
\* every network in the settings.  While no other request ran between the check
\* for conflicts and the removal, no step removes the image a running container
\* was created from.
StorageSteps ==
  /\ MountedNotRemoved
  /\ Nets!StartConnectsAll
  /\ Imgs!UndisturbedRunningImageStays
=============================================================================
