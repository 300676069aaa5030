--------------------------- MODULE LayerDownload ---------------------------
(***************************************************************************)
(* distribution/xfer/download.go with the caller in distribution/          *)
(* pull_v2.go: pulls of images that share layers.  The layers of a pull    *)
(* become a chain of transfers, each of which registers its layer on top   *)
(* of the layer of the one before.  A transfer is shared by the pulls that *)
(* ask for its key while it is in progress, and is cancelled when nobody   *)
(* watches it any more.                                                    *)
(*                                                                         *)
(* A transfer key, like a chain of layers, is the sequence of the blobs    *)
(* from the bottom: DiffIDs are named by their blobs.  The manager is      *)
(* reduced to what TransferManager shows of it.  A layer is in the layer   *)
(* store as long as it, or one on top of it, is held.                      *)
(***************************************************************************)
EXTENDS Naturals, Sequences, FiniteSets, SequencesExt

CONSTANTS
  Pull,                  \* concurrent pulls
  Layers,                \* the blobs of the image of each, bottom first
  Gen,                   \* transfers of one key that may exist at a time
  maxDownloadAttempts,
  Cancelled,             \* the pulls that may be cancelled
  Ops                    \* "fails": the registry may fail; "mismatch": a
                         \* config may not fit the layers

Nil == <<>>
Image == <<"image">>

Key == UNION {{SubSeq(Layers[p], 1, i) : i \in 1..Len(Layers[p])} : p \in Pull}
Xfer == Key \X Gen

VARIABLES
  known,     \* blobs whose DiffID the metadata service knows
  holders,   \* who holds each chain: transfers, pulls and images
  inMap,     \* the manager's transfers
  st,        \* each transfer: "free", "waiting", "active", "inactive", "done"
  cancelled, closed, err,
  attempts,
  watchers,  \* the pulls that watch each transfer
  parent, source,
  pull,      \* each pull: [pc, i, missing, top, deferred, byKey, held]
  config,    \* each pull's goroutine for the image config
  ctx        \* pulls whose context is cancelled

vars == <<known, holders, inMap, st, cancelled, closed, err, attempts, watchers,
          parent, source, pull, config, ctx>>
xferVars == <<inMap, st, cancelled, closed, err, attempts, watchers, parent, source>>

Blob == UNION {Range(Layers[p]) : p \in Pull}
PullPc == {"idle", "next", "transfer", "wait", "create", "failed", "done", "error"}

TypeOK ==
  /\ known \subseteq Blob
  /\ holders \in [Key -> SUBSET (Xfer \cup Pull \cup {Image})]
  /\ inMap \subseteq Xfer
  /\ st \in [Xfer -> {"free", "waiting", "active", "inactive", "done"}]
  /\ cancelled \subseteq Xfer /\ closed \subseteq Xfer /\ err \subseteq Xfer
  /\ attempts \in [Xfer -> 0..maxDownloadAttempts]
  /\ watchers \in [Xfer -> SUBSET Pull]
  /\ parent \in [Xfer -> Xfer \cup {Nil}] /\ source \in [Xfer -> Xfer \cup {Nil}]
  /\ \A p \in Pull : /\ pull[p].pc \in PullPc /\ pull[p].i \in 1..Len(Layers[p]) + 1
                     /\ pull[p].top \in Xfer \cup {Nil} /\ pull[p].deferred \subseteq Xfer
                     /\ pull[p].held \in Key \cup {Nil}
  /\ config \in [Pull -> {"none", "fetching", "ok", "error"}]
  /\ ctx \subseteq Pull

Idle == [pc |-> "idle", i |-> 1, missing |-> FALSE, top |-> Nil, deferred |-> {},
         byKey |-> [b \in Blob |-> Nil], held |-> Nil]

Init ==
  /\ known = {} /\ holders = [k \in Key |-> {}]
  /\ inMap = {} /\ st = [x \in Xfer |-> "free"]
  /\ cancelled = {} /\ closed = {} /\ err = {}
  /\ attempts = [x \in Xfer |-> 0] /\ watchers = [x \in Xfer |-> {}]
  /\ parent = [x \in Xfer |-> Nil] /\ source = [x \in Xfer |-> Nil]
  /\ pull = [p \in Pull |-> Idle]
  /\ config = [p \in Pull |-> "none"] /\ ctx = {}

----------------------------------------------------------------------------
\* layerStore.Get finds the chain
Exists(k) == \E c \in Key : IsPrefix(k, c) /\ holders[c] /= {}

Hold(H, k, h) == IF k = Nil THEN H ELSE [H EXCEPT ![k] = @ \cup {h}]
Drop(H, k, h) == IF k = Nil THEN H ELSE [H EXCEPT ![k] = @ \ {h}]

\* The transfers whose last watcher leaves when p releases xs, and are not
\* closed yet: they are cancelled.
Abandoned(p, xs) == {x \in xs : watchers[x] = {p} /\ x \notin closed}

Release(p, xs) ==
  /\ watchers' = [x \in Xfer |-> IF x \in xs THEN watchers[x] \ {p} ELSE watchers[x]]
  /\ cancelled' = cancelled \cup Abandoned(p, xs)

\* pullSchema2 up to Download: an image that is there is not pulled; else its
\* config is fetched by a goroutine.
pullSchema2(p) ==
  /\ pull[p].pc = "idle"
  /\ IF Image \in holders[Layers[p]]
     THEN pull' = [pull EXCEPT ![p].pc = "done"] /\ UNCHANGED config
     ELSE /\ pull' = [pull EXCEPT ![p].pc = "next"]
          /\ config' = [config EXCEPT ![p] = "fetching"]
  /\ UNCHANGED <<known, holders, xferVars, ctx>>

\* The goroutine: what it has received matters only when the pull asks for it,
\* while its failure cancels the pull at once.
pullSchema2ImageConfig(p) ==
  /\ config[p] = "fetching"
  /\ \/ /\ pull[p].pc \in {"create", "failed"}
        /\ config' = [config EXCEPT ![p] = "ok"] /\ UNCHANGED ctx
     \/ /\ "fails" \in Ops \/ p \in ctx
        /\ config' = [config EXCEPT ![p] = "error"] /\ ctx' = ctx \cup {p}
  /\ UNCHANGED <<known, holders, xferVars, pull>>

\* Download's loop: a layer that is there, on top of layers that are there, is
\* held instead of the one below it.
Look(p) ==
  LET me == pull[p]
      k == SubSeq(Layers[p], 1, me.i)
  IN  /\ me.pc = "next" /\ me.i <= Len(Layers[p])
      /\ IF ~me.missing /\ Layers[p][me.i] \in known /\ Exists(k)
         THEN /\ pull' = [pull EXCEPT ![p].i = @ + 1, ![p].held = k]
              /\ holders' = Hold(Drop(holders, me.held, p), k, p)
         ELSE /\ pull' = [pull EXCEPT ![p].missing = TRUE, ![p].pc = "transfer"]
              /\ UNCHANGED holders
      /\ UNCHANGED <<known, xferVars, config, ctx>>

\* A new transfer x of the pull: of data that another layer of the image has
\* in common (makeDownloadFuncFromDownload), or of a blob.
NewTransfer(p, x) ==
  /\ st[x] = "free" /\ \A y \in inMap : y[1] /= x[1]
  /\ \A g \in Gen : g < x[2] => st[<<x[1], g>>] /= "free"
  /\ st' = [st EXCEPT ![x] = "waiting"]
  /\ inMap' = inMap \cup {x}
  /\ attempts' = [attempts EXCEPT ![x] = 0]
  /\ watchers' = [watchers EXCEPT ![x] = {p}]
  /\ parent' = [parent EXCEPT ![x] = pull[p].top]
  /\ source' = [source EXCEPT ![x] = pull[p].byKey[Layers[p][pull[p].i]]]

\* One in progress, that has not been cancelled
JoinTransfer(p, x) ==
  /\ x \in inMap \ cancelled
  /\ watchers' = [watchers EXCEPT ![x] = @ \cup {p}]
  /\ UNCHANGED <<inMap, st, attempts, parent, source>>

Transfer(p) ==
  LET me == pull[p]
      b == Layers[p][me.i]
  IN  /\ me.pc = "transfer"
      /\ \E g \in Gen :
           LET x == <<SubSeq(Layers[p], 1, me.i), g>>
           IN  /\ NewTransfer(p, x) \/ JoinTransfer(p, x)
               /\ pull' = [pull EXCEPT ![p].top = x, ![p].i = @ + 1, ![p].pc = "next",
                             ![p].deferred = IF me.top = Nil THEN @ ELSE @ \cup {me.top},
                             ![p].byKey[b] = IF @ = Nil THEN x ELSE @]
      /\ UNCHANGED <<known, holders, cancelled, closed, err, config, ctx>>

\* A mutant of Downloaded: the top is not let go when the download fails.
DownloadedKeepsTop(p) ==
  LET me == pull[p]
      x == me.top
  IN  /\ me.pc = "next" /\ me.i > Len(Layers[p])
      /\ x /= Nil /\ (p \in ctx \/ st[x] = "done")
      /\ pull' = [pull EXCEPT ![p].pc = IF (p \in ctx \/ x \in err) THEN "failed" ELSE "create",
                              ![p].deferred = {}, ![p].held = Nil]
      /\ Release(p, me.deferred)
      /\ holders' = Drop(holders, me.held, p)
      /\ UNCHANGED <<known, inMap, st, closed, err, attempts, parent, source, config, ctx>>

\* A mutant of Downloaded: the top is let go when the download succeeds.
DownloadedDropsTop(p) ==
  LET me == pull[p]
      x == me.top
  IN  /\ me.pc = "next" /\ me.i > Len(Layers[p]) /\ x /= Nil /\ st[x] = "done"
      /\ pull' = [pull EXCEPT ![p].pc = IF x \in err THEN "failed" ELSE "create",
                              ![p].deferred = {}, ![p].held = Nil]
      /\ Release(p, me.deferred \cup {x})
      /\ holders' = Drop(holders, me.held, p)
      /\ UNCHANGED <<known, inMap, st, closed, err, attempts, parent, source, config, ctx>>

\* Download's end.  The layer that was there and the transfers below the top
\* are let go when it returns, the top when it fails; after success the top is
\* kept for the caller.
Downloaded(p) ==
  LET me == pull[p]
      x == me.top
  IN  /\ me.pc = "next" /\ me.i > Len(Layers[p])
      /\ \/ /\ x = Nil
            /\ pull' = [pull EXCEPT ![p].pc = "create"]
            /\ UNCHANGED <<holders, watchers, cancelled>>
         \/ /\ x /= Nil /\ (p \in ctx \/ (st[x] = "done" /\ x \in err))
            /\ pull' = [pull EXCEPT ![p].pc = "failed", ![p].deferred = {}, ![p].held = Nil]
            /\ Release(p, me.deferred \cup {x})
            /\ holders' = Drop(holders, me.held, p)
         \/ /\ x /= Nil /\ st[x] = "done" /\ x \notin err
            /\ pull' = [pull EXCEPT ![p].pc = "create", ![p].deferred = {}, ![p].held = Nil]
            /\ Release(p, me.deferred)
            /\ holders' = Drop(holders, me.held, p)
      /\ UNCHANGED <<known, inMap, st, closed, err, attempts, parent, source, config, ctx>>

\* After a failed Download the pull waits for the config's goroutine, having
\* cancelled it.
Failed(p) ==
  /\ pull[p].pc = "failed"
  /\ IF config[p] = "fetching"
     THEN ctx' = ctx \cup {p} /\ p \notin ctx /\ UNCHANGED pull
     ELSE pull' = [pull EXCEPT ![p].pc = "error", ![p].top = Nil] /\ UNCHANGED ctx
  /\ UNCHANGED <<known, holders, xferVars, config>>

\* The config has been received: the image is created, which takes a layer of
\* its own, and then the download is released.
Create(p) ==
  LET me == pull[p]
  IN  /\ me.pc = "create" /\ config[p] \in {"ok", "error"}
      /\ LET H == Drop(holders, me.held, p)
         IN  \/ /\ config[p] = "ok" /\ Exists(Layers[p])
                /\ pull' = [pull EXCEPT ![p].pc = "done", ![p].top = Nil, ![p].held = Nil]
                /\ holders' = Hold(H, Layers[p], Image)
             \/ /\ config[p] = "error" \/ "mismatch" \in Ops \/ ~Exists(Layers[p])
                /\ pull' = [pull EXCEPT ![p].pc = "error", ![p].top = Nil, ![p].held = Nil]
                /\ holders' = H
      /\ Release(p, {me.top} \ {Nil})
      /\ UNCHANGED <<known, inMap, st, closed, err, attempts, parent, source, config, ctx>>

Cancel(p) ==
  /\ p \in Cancelled \ ctx /\ pull[p].pc \in {"next", "transfer", "create"}
  /\ ctx' = ctx \cup {p}
  /\ UNCHANGED <<known, holders, xferVars, pull, config>>

----------------------------------------------------------------------------
\* The functions of the transfers
Finish(x, failed) ==
  /\ st' = [st EXCEPT ![x] = "done"]
  /\ err' = IF failed THEN err \cup {x} ELSE err

ParentFailed(x) == parent[x] /= Nil /\ st[parent[x]] = "done" /\ parent[x] \in err

Start(x) ==
  /\ st[x] = "waiting"
  /\ IF source[x] = Nil /\ ParentFailed(x)
     THEN Finish(x, TRUE)
     ELSE /\ st' = [st EXCEPT ![x] = IF source[x] = Nil THEN "active" ELSE "inactive"]
          /\ UNCHANGED err
  /\ UNCHANGED <<known, holders, inMap, cancelled, closed, attempts, watchers, parent,
                 source, pull, config, ctx>>

\* A mutant of Download: the attempts are not limited.
DownloadForever(x) ==
  /\ st[x] = "active"
  /\ \/ st' = [st EXCEPT ![x] = "inactive"] /\ UNCHANGED attempts
     \/ /\ "fails" \in Ops /\ x \notin cancelled
        /\ attempts' = [attempts EXCEPT ![x] = @ + 1] /\ UNCHANGED st
  /\ UNCHANGED <<err, known, holders, inMap, cancelled, closed, watchers, parent, source,
                 pull, config, ctx>>

\* descriptor.Download, with retries unless the error forbids them or the
\* transfer has been cancelled
Download(x) ==
  /\ st[x] = "active"
  /\ \/ st' = [st EXCEPT ![x] = "inactive"] /\ UNCHANGED <<attempts, err>>
     \/ /\ "fails" \in Ops /\ x \notin cancelled /\ attempts[x] + 1 < maxDownloadAttempts
        /\ attempts' = [attempts EXCEPT ![x] = @ + 1] /\ UNCHANGED <<st, err>>
     \/ /\ "fails" \in Ops \/ x \in cancelled
        /\ Finish(x, TRUE) /\ UNCHANGED attempts
  /\ UNCHANGED <<known, holders, inMap, cancelled, closed, watchers, parent, source,
                 pull, config, ctx>>

\* The layer is registered on top of the parent's; the parent layer of a
\* transfer without a parent is the one Download found.
Register(x) ==
  LET below == Front(x[1])
  IN  /\ st[x] = "inactive"
      /\ \/ /\ x \in cancelled
            /\ Finish(x, TRUE) /\ UNCHANGED <<known, holders>>
         \/ /\ \A y \in {parent[x], source[x]} \ {Nil} : st[y] = "done"
            /\ IF \E y \in {parent[x], source[x]} \ {Nil} : y \in err
               THEN Finish(x, TRUE) /\ UNCHANGED <<known, holders>>
               ELSE IF below /= Nil /\ ~Exists(below)
               THEN Finish(x, TRUE) /\ UNCHANGED <<known, holders>>
               ELSE /\ Finish(x, FALSE)
                    /\ holders' = Hold(holders, x[1], x)
                    /\ known' = known \cup {Last(x[1])}
      /\ UNCHANGED <<inMap, cancelled, closed, attempts, watchers, parent, source,
                     pull, config, ctx>>

\* The manager sees that the transfer is done.
Inactive(x) ==
  /\ x \in inMap /\ st[x] = "done"
  /\ inMap' = inMap \ {x} /\ closed' = closed \cup {x}
  /\ UNCHANGED <<known, holders, st, cancelled, err, attempts, watchers, parent, source,
                 pull, config, ctx>>

\* A mutant of Released: the watchers are not waited for.
ReleasedEarly(x) ==
  /\ x \in closed /\ x \in holders[x[1]]
  /\ holders' = Drop(holders, x[1], x)
  /\ UNCHANGED <<known, xferVars, pull, config, ctx>>

\* The goroutine that waits for Released
Released(x) ==
  /\ x \in closed /\ watchers[x] = {} /\ x \in holders[x[1]]
  /\ holders' = Drop(holders, x[1], x)
  /\ UNCHANGED <<known, xferVars, pull, config, ctx>>

\* Nobody refers to the transfer any more.
Free(x) ==
  /\ x \in closed /\ watchers[x] = {} /\ x \notin holders[x[1]]
  /\ \A y \in Xfer : st[y] \notin {"free", "done"} => x \notin {parent[y], source[y]}
  /\ \A p \in Pull : x \notin Range(pull[p].byKey)
                     \/ pull[p].pc \in {"create", "failed", "done", "error"}
  /\ st' = [st EXCEPT ![x] = "free"]
  /\ cancelled' = cancelled \ {x} /\ closed' = closed \ {x} /\ err' = err \ {x}
  /\ attempts' = [attempts EXCEPT ![x] = 0]
  /\ parent' = [parent EXCEPT ![x] = Nil] /\ source' = [source EXCEPT ![x] = Nil]
  /\ UNCHANGED <<known, holders, inMap, watchers, pull, config, ctx>>

PullStep(p) == pullSchema2(p) \/ Look(p) \/ Transfer(p) \/ Downloaded(p) \/ Failed(p) \/ Create(p)
XferStep(x) == Start(x) \/ Download(x) \/ Register(x) \/ Inactive(x) \/ Released(x) \/ Free(x)

Done == \A p \in Pull : pull[p].pc \in {"done", "error"} /\ config[p] /= "fetching"

Next ==
  \/ \E p \in Pull : PullStep(p) \/ Cancel(p) \/ pullSchema2ImageConfig(p)
  \/ \E x \in Xfer : XferStep(x)
  \/ Done /\ (\A x \in Xfer : st[x] = "free") /\ UNCHANGED vars

Spec == Init /\ [][Next]_vars

\* Every goroutine runs on, a download ends, and a slot comes free.
\* Every behaviour has finitely many steps of these, so fairness to all of
\* them together is fairness to each.
Steps ==
  \/ \E p \in Pull : PullStep(p) \/ pullSchema2ImageConfig(p)
  \/ \E x \in Xfer : XferStep(x)

Fairness == WF_vars(Steps)

FairSpec == Spec /\ Fairness

----------------------------------------------------------------------------
\* Between the end of a Download that succeeded and the call of its release
\* function, all layers of the image are in the layer store, although the
\* transfers below the top and the layers found have been let go.
LayersKept == \A p \in Pull : pull[p].pc = "create" => Exists(Layers[p])

\* A transfer registers its layer on the layer of the transfer it was made to
\* follow, and its result stays for those who watch it.
ResultKept ==
  \A x \in Xfer : st[x] = "done" /\ x \notin err /\ watchers[x] /= {} => Exists(x[1])

\* The pulls end, and then the layer store keeps only what images hold: no
\* transfer and no pull leaves a reference behind.
NothingLeaks ==
  (\E p \in Pull : pull[p].pc /= "idle")
    ~> (Done /\ \A k \in Key : holders[k] \subseteq {Image})

\* A pull that nobody cancels, of an image the registry can serve, succeeds
\* whatever other pulls do.
CancelIsPrivate == \A p \in Pull : pull[p].pc = "error" => p \in ctx
=============================================================================
