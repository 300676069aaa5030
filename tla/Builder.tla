------------------------------ MODULE Builder ------------------------------
(***************************************************************************)
(* Builds of images from Dockerfiles: the loop of Builder.build, the cache *)
(* probe, the containers it creates, runs and commits, cancellation and    *)
(* the removal of intermediate containers.  Several builds share the       *)
(* images, so that one finds in the cache what another has just committed. *)
(*                                                                         *)
(* The instructions are those of module Dockerfile.  A build takes a step  *)
(* for every call to the daemon that reads or changes what others see.     *)
(* "content" of an image is what its layers hold: the runs and copies that *)
(* made it.                                                                *)
(***************************************************************************)
EXTENDS Dockerfile

CONSTANTS
  Build,        \* the build requests
  File,         \* the Dockerfile of each build: a sequence of instructions
  Args,         \* the build-args a client passes: a set of <<name, value>>
  Context,      \* what the build context of each build holds, by source name
  Base,         \* the base images: a sequence of configurations
  Flags,        \* "nocache", "rm", "forcerm"
  Ops           \* "cancel", and what may fail: "create", "run", "copy", "commit", "rm"

VARIABLES
  images,       \* the image store: a sequence, in order of creation
  containers,   \* intermediate containers that exist, as <<build, number>>
  build         \* each build

vars == <<images, containers, build>>

Scratch == 0
NewBuilder(b) ==
  [pc |-> "next", ok |-> TRUE, step |-> 0, triggers |-> <<>>, config |-> NewConfig, comment |-> <<>>,
   image |-> Scratch, noBaseImage |-> FALSE, maintainer |-> "", cmdSet |-> FALSE, busted |-> FALSE,
   allowed |-> {}, buildArgs |-> Args[b], tmp |-> {}, inTrigger |-> FALSE, made |-> 0, gone |-> FALSE, cancelled |-> FALSE,
   saved |-> NewConfig, effect |-> <<>>, key |-> <<>>, tagged |-> 0]

PC == {"next", "create", "copy", "run", "commit", "stepped", "failed", "done", "error"}

TypeOK ==
  /\ \A i \in DOMAIN images : images[i].parent \in 0..(i - 1)
  /\ \A c \in containers : c[1] \in Build /\ c[2] \in 1..build[c[1]].made
  /\ \A b \in Build : build[b].pc \in PC /\ build[b].image \in 0..Len(images)

Init ==
  /\ images = [i \in DOMAIN Base |-> [parent |-> Scratch, key |-> NewConfig, config |-> Base[i], content |-> <<i>>]]
  /\ containers = {}
  /\ build = [b \in Build |-> NewBuilder(b)]

Goes(b, me) == build' = [build EXCEPT ![b] = me]
Returns(me) == IF me.ok THEN me ELSE [me EXCEPT !.pc = "failed"]

-----------------------------------------------------------------------------
\* daemon.GetCachedImage: the newest image with this parent and configuration.
GetCachedImage(parent, config) ==
  LET match == {i \in DOMAIN images : images[i].parent = parent /\ Compare(images[i].key, config)}
  IN  IF match = {} THEN 0 ELSE CHOOSE i \in match : \A j \in match : j <= i

\* probeCache, and what follows a hit: the deferred assignments restore the
\* command (and the environment) of the configuration.
probeCache(me, probe) ==
  LET hit == IF "nocache" \in Flags \/ me.busted THEN 0 ELSE GetCachedImage(me.image, probe)
  IN  IF hit # 0 THEN [me EXCEPT !.image = hit, !.config = me.saved, !.pc = "stepped"]
      ELSE [me EXCEPT !.busted = TRUE, !.pc = "create"]

\* commit with no container yet: the comment becomes the command.
commitNop(me) ==
  LET nop == [me.config EXCEPT !.Cmd = getShell(me.config) \o <<<<"#(nop)", me.comment>>>>]
  IN  IF ~me.ok THEN me
      ELSE IF me.image = Scratch /\ ~me.noBaseImage THEN Fail(me)
      ELSE probeCache([me EXCEPT !.saved = me.config, !.config = nop, !.key = nop.Cmd, !.effect = <<>>], nop)

\* The build-args for a RUN: those allowed that the configuration does not set.
cmdBuildEnv(me) ==
  {a \in me.buildArgs : isBuildArgAllowed(me, a[1]) /\ a[1] \notin Keys(me.config.Env)}

\* A mutant of saveCmd: build-args are not part of the command looked up.
saveCmdPlain(me, c) == c

saveCmd(me, c) == IF cmdBuildEnv(me) = {} THEN c ELSE <<<<"|", cmdBuildEnv(me)>>>> \o c

\* run, up to the creation of its container: the cache is asked with the
\* command that names the build-args, the container gets them in its Env.
dispatchRun(me, i) ==
  LET c == Command(me, i, Words(me, i))
      asked == [me.config EXCEPT !.Cmd = saveCmd(me, c)]
      run == [me.config EXCEPT !.Cmd = c, !.Env = @ \o SetToSeq(cmdBuildEnv(me))]
  IN  IF me.image = Scratch /\ ~me.noBaseImage THEN Fail(me)
      ELSE LET p == probeCache([me EXCEPT !.saved = me.config, !.key = asked.Cmd], asked)
           IN  IF p.pc = "stepped" THEN p
               ELSE [p EXCEPT !.config = run,
                              !.effect = <<<<"run", c, run.Env, run.WorkingDir, run.User>>>>]

\* calcCopyInfo and the hash of all sources: of one source its own hash.
srcHash(b, srcs) == [j \in DOMAIN srcs |-> Context[b][srcs[j]]]
\* runContextCommand for ADD and COPY, up to the creation of its container.
runContextCommand(b, me, i) ==
  LET ws == Words(me, i)
      srcs == SubSeq(ws, 1, Len(ws) - 1)
      dest == <<ws[Len(ws)]>>
      hash == srcHash(b, srcs)
      nop == [me.config EXCEPT !.Cmd = getShell(me.config) \o <<<<"#(nop)", <<i.cmd, hash, dest>>>>>>]
  IN  IF Len(ws) < 2 \/ \E j \in DOMAIN srcs : srcs[j] \notin DOMAIN Context[b] THEN Fail(me)
      ELSE LET p == probeCache([me EXCEPT !.saved = me.config, !.key = nop.Cmd], nop)
           IN  IF p.pc = "stepped" THEN p
               ELSE [p EXCEPT !.config = nop,
                              !.effect = <<<<i.cmd, hash, Join(me.config.WorkingDir, dest)>>>>]

\* FROM: the image's configuration, a default PATH, and its triggers, which
\* are taken out of the configuration and are dispatched before the step ends.
DefaultPath == <<"PATH", "/bin">>
from(me, ws) ==
  LET img == CHOOSE n \in 0..Len(Base) : ws[1] = n
      c == IF img = Scratch THEN me.config ELSE images[img].config
      path == [c EXCEPT !.Env = IF "PATH" \in Keys(@) THEN @ ELSE Append(@, DefaultPath)]
      triggers == IF img = Scratch THEN <<>> ELSE path.OnBuild
  IN  [me EXCEPT !.image = img, !.noBaseImage = @ \/ img = Scratch, !.triggers = triggers,
                 !.config = IF img = Scratch THEN path ELSE [path EXCEPT !.OnBuild = <<>>],
                 !.pc = "stepped"]

\* dispatch of one instruction, up to where it needs the daemon again.
dispatch(b, me, i) ==
  CASE me.inTrigger /\ i.cmd \in {"onbuild", "maintainer", "from"} -> Fail(me)
    [] i.cmd = "from" -> from(me, Words(me, i))
    [] i.cmd = "run" -> dispatchRun(me, i)
    [] i.cmd \in {"add", "copy"} -> runContextCommand(b, me, i)
    [] OTHER -> commitNop(Evaluate(me, i))

-----------------------------------------------------------------------------
\* build's loop: a cancelled build ends between two steps, where it leaves
\* what containers it has.
Step(b) ==
  LET me == build[b]
      i == IF me.triggers # <<>> THEN Head(me.triggers) ELSE File[b][me.step + 1]
      now == IF me.triggers # <<>> THEN [me EXCEPT !.triggers = Tail(@), !.inTrigger = TRUE]
             ELSE [me EXCEPT !.step = @ + 1, !.inTrigger = FALSE]
  IN  /\ me.pc = "next" /\ (me.triggers # <<>> \/ me.step < Len(File[b]))
      /\ IF me.cancelled /\ me.triggers = <<>> THEN Goes(b, [me EXCEPT !.pc = "error"])
         ELSE Goes(b, Returns(dispatch(b, now, i)))
      /\ UNCHANGED <<images, containers>>

\* ContainerCreate merges the image's configuration into the builder's own,
\* which the container shares.
create(b) ==
  LET me == build[b]
      config == IF me.image = Scratch THEN me.config ELSE merge(me.config, images[me.image].config)
      k == me.made + 1
      then == IF me.effect = <<>> THEN "commit" ELSE IF me.effect[1][1] = "run" THEN "run" ELSE "copy"
  IN  /\ me.pc = "create" /\ UNCHANGED images
      /\ \/ /\ containers' = containers \cup {<<b, k>>}
            /\ Goes(b, [me EXCEPT !.config = config, !.made = k, !.tmp = @ \cup {k}, !.pc = then])
         \/ "create" \in Ops /\ Goes(b, [me EXCEPT !.pc = "failed"]) /\ UNCHANGED containers

\* CopyOnBuild.
Copy(b) ==
  /\ build[b].pc = "copy"
  /\ \/ Goes(b, [build[b] EXCEPT !.pc = "commit"])
     \/ "copy" \in Ops /\ Goes(b, [build[b] EXCEPT !.pc = "failed"])
  /\ UNCHANGED <<images, containers>>

\* Builder.run: the container starts, runs and is waited for.  After success
\* the environment and the command of the configuration are put back.
RunEnds(b) ==
  LET me == build[b]
  IN  /\ me.pc = "run"
      /\ \/ Goes(b, [me EXCEPT !.pc = "commit", !.config.Env = me.saved.Env, !.config.Cmd = me.key])
         \/ "run" \in Ops /\ Goes(b, [me EXCEPT !.pc = "failed"])
      /\ UNCHANGED <<images, containers>>

\* The goroutine that waits for the client to go away kills and removes the
\* container, and run returns an error however it noticed.
RunCancelled(b) ==
  LET me == build[b]
  IN  /\ me.pc = "run" /\ me.cancelled
      /\ containers' = containers \ {<<b, me.made>>}
      /\ Goes(b, [me EXCEPT !.pc = "failed", !.gone = TRUE])
      /\ UNCHANGED images

Cancel(b) ==
  /\ "cancel" \in Ops /\ ~build[b].cancelled /\ build[b].pc \notin {"done", "error"}
  /\ Goes(b, [build[b] EXCEPT !.cancelled = TRUE])
  /\ UNCHANGED <<images, containers>>

\* commit and Daemon.Commit: the container's configuration, which is the
\* builder's, is what the cache is asked for later; the image's own
\* configuration has the command of the file.
commit(b) ==
  LET me == build[b]
      below == IF me.image = Scratch THEN <<>> ELSE images[me.image].content
      image == [parent |-> me.image, key |-> me.config, content |-> below \o me.effect,
                config |-> [me.config EXCEPT !.Cmd = me.saved.Cmd]]
  IN  /\ me.pc = "commit" /\ UNCHANGED containers
      /\ \/ /\ images' = Append(images, image)
            /\ Goes(b, [me EXCEPT !.image = Len(images) + 1, !.config.Cmd = me.saved.Cmd, !.pc = "stepped"])
         \/ "commit" \in Ops /\ Goes(b, [me EXCEPT !.pc = "failed"]) /\ UNCHANGED images

\* clearTmp removes one container after the other and gives up at the first
\* that cannot be removed: one that is gone already, or whose removal fails.
clearTmp(b, S) ==
  /\ S \subseteq build[b].tmp
  /\ IF build[b].gone THEN build[b].made \notin S
     ELSE "rm" \in Ops \/ S = build[b].tmp
  /\ containers' = containers \ {<<b, k>> : k \in S}

\* The end of a step of the file; the triggers of FROM are part of its step.
Stepped(b) ==
  LET me == build[b]
  IN  /\ me.pc = "stepped"
      /\ IF "rm" \in Flags /\ me.triggers = <<>>
         THEN \E S \in SUBSET me.tmp : clearTmp(b, S) /\ Goes(b, [me EXCEPT !.tmp = @ \ S, !.pc = "next"])
         ELSE Goes(b, [me EXCEPT !.pc = "next"]) /\ UNCHANGED containers
      /\ UNCHANGED images

Failed(b) ==
  LET me == build[b]
  IN  /\ me.pc = "failed"
      /\ IF "forcerm" \in Flags
         THEN \E S \in SUBSET me.tmp : clearTmp(b, S) /\ Goes(b, [me EXCEPT !.tmp = @ \ S, !.pc = "error"])
         ELSE Goes(b, [me EXCEPT !.pc = "error"]) /\ UNCHANGED containers
      /\ UNCHANGED images

\* After the last instruction: build-args nobody asked for are an error, and
\* so is a file that made no image.  The image gets the name asked for.
Finish(b) ==
  LET me == build[b]
      leftover == \E a \in me.buildArgs : ~isBuildArgAllowed(me, a[1])
  IN  /\ me.pc = "next" /\ me.triggers = <<>> /\ me.step = Len(File[b])
      /\ Goes(b, IF leftover \/ me.image = Scratch THEN [me EXCEPT !.pc = "error"]
                 ELSE [me EXCEPT !.tagged = me.image, !.pc = "done"])
      /\ UNCHANGED <<images, containers>>

Next == \E b \in Build :
  \/ Step(b) \/ create(b) \/ Copy(b) \/ RunEnds(b) \/ RunCancelled(b) \/ Cancel(b)
  \/ commit(b) \/ Stepped(b) \/ Failed(b) \/ Finish(b)

-----------------------------------------------------------------------------
(* What a build would give with nothing in the cache and nobody else around *)

FreshStep(b, me, i) ==
  LET e == Evaluate([me EXCEPT !.comment = <<>>], i)
  IN  CASE i.cmd = "from" -> [from(me, Words(me, i)) EXCEPT !.effect = images[Words(me, i)[1]].content]
        [] i.cmd = "run" ->
             [me EXCEPT !.effect = @ \o <<<<"run", Command(me, i, Words(me, i)),
                                            me.config.Env \o SetToSeq(cmdBuildEnv(me)),
                                            me.config.WorkingDir, me.config.User>>>>]
        [] i.cmd \in {"add", "copy"} ->
             LET ws == Words(me, i)
             IN  [me EXCEPT !.effect = @ \o <<<<i.cmd, srcHash(b, SubSeq(ws, 1, Len(ws) - 1)),
                                                Join(me.config.WorkingDir, <<ws[Len(ws)]>>)>>>>]
        [] OTHER -> e

FreshSteps(b, me, is) == FoldLeft(LAMBDA m, i : FreshStep(b, m, i), me, is)
FromFile(b, me, i) ==
  LET f == FreshStep(b, me, i)
  IN  IF i.cmd # "from" THEN f ELSE FreshSteps(b, [f EXCEPT !.triggers = <<>>], f.triggers)
Fresh(b) == FoldLeft(LAMBDA m, i : FromFile(b, m, i), NewBuilder(b), File[b])

\* The image of a finished build has the layers and the configuration its file
\* describes, whatever of it came from the cache and whatever other builds
\* committed meanwhile.  Only the default command may be another build's: the
\* cache does not compare it.
CacheTransparent ==
  \A b \in Build : build[b].pc = "done" =>
    LET img == images[build[b].tagged]
    IN  /\ img.content = Fresh(b).effect
        /\ [img.config EXCEPT !.Cmd = <<>>] = [Fresh(b).config EXCEPT !.Cmd = <<>>]

\* "without leaking it to the final image": a build-arg is in the environment
\* of no image, unless an ENV sets a variable of that name.
ArgsNotKept ==
  \A i \in DOMAIN images : \A b \in Build : \A a \in Args[b] :
    (\A j \in DOMAIN File[b] : File[b][j].cmd # "env" \/ File[b][j].args[1] # Lit(a[1]))
      => a[1] \notin Keys(images[i].config.Env)

\* A build that ends, in success or with --force-rm in any way, leaves no
\* intermediate container behind.
NoContainerLeft ==
  \A b \in Build : (build[b].pc = "done" /\ "rm" \in Flags) \/ (build[b].pc = "error" /\ {"rm", "forcerm"} \subseteq Flags)
    => \A c \in containers : c[1] # b
=============================================================================
