----------------------------- MODULE Dockerfile -----------------------------
(***************************************************************************)
(* What the instructions of a Dockerfile do to the builder: the dispatch   *)
(* table of builder/dockerfile (evaluator.go, dispatchers.go), the         *)
(* comparison of configurations that decides a cache hit                   *)
(* (runconfig.Compare) and the merge of a new container's configuration    *)
(* with its image's (daemon/commit.go).                                    *)
(*                                                                         *)
(* A word of the file is <<"lit", v>> or <<"var", n>>; an instruction is a *)
(* record of its name, its words and whether they came as JSON.  The       *)
(* command string of an instruction is the tuple of what is printed in it. *)
(***************************************************************************)
EXTENDS Naturals, Sequences, FiniteSets, SequencesExt

Lit(v) == <<"lit", v>>
Var(n) == <<"var", n>>
Instr(c, ws) == [cmd |-> c, args |-> ws, json |-> FALSE, trigger |-> <<>>]
JSON(c, ws) == [cmd |-> c, args |-> ws, json |-> TRUE, trigger |-> <<>>]
OnBuild(i) == [cmd |-> "onbuild", args |-> <<>>, json |-> FALSE, trigger |-> <<i>>]

\* Entrypoint and Healthcheck may be nil.
Nil == [nil |-> TRUE, v |-> <<>>]
Some(s) == [nil |-> FALSE, v |-> s]

NewConfig ==
  [Env |-> <<>>, Cmd |-> <<>>, Entrypoint |-> Nil, Shell |-> <<>>, OnBuild |-> <<>>,
   WorkingDir |-> <<>>, User |-> "", Labels |-> {}, ExposedPorts |-> {}, Volumes |-> {},
   Healthcheck |-> Nil, StopSignal |-> ""]

\* A list of <<key, value>>: the keys, and the value a key has first.
Keys(env) == {env[i][1] : i \in DOMAIN env}
Lookup(env, k) ==
  IF k \notin Keys(env) THEN ""
  ELSE LET i == CHOOSE j \in DOMAIN env : env[j][1] = k /\ \A h \in 1..(j - 1) : env[h][1] # k
       IN  env[i][2]

\* Set a key: in place, or at the end of the list.
SetKey(env, k, v) ==
  IF k \in Keys(env)
  THEN LET i == CHOOSE j \in DOMAIN env : env[j][1] = k /\ \A h \in 1..(j - 1) : env[h][1] # k
       IN  [env EXCEPT ![i] = <<k, v>>]
  ELSE Append(env, <<k, v>>)

\* A map from keys to values, as a set of pairs.
PutAll(map, pairs) == {p \in map : \A q \in pairs : q[1] # p[1]} \cup pairs

BuiltinAllowedBuildArgs == {"http_proxy"}
isBuildArgAllowed(b, k) == k \in BuiltinAllowedBuildArgs \/ k \in b.allowed

replaceEnvAllowed ==
  {"env", "label", "add", "copy", "workdir", "expose", "volume", "user", "stopsignal", "arg"}

\* dispatch's loop over the words: variables come from the configuration first
\* and from the build-args that are allowed by now after that.
Words(b, i) ==
  LET args == {a \in b.buildArgs : isBuildArgAllowed(b, a[1])}
      envs == b.config.Env \o SetToSeq(args)
      ProcessWord(w) == IF w[1] = "var" THEN Lookup(envs, w[2]) ELSE w[2]
      raw(w) == IF w[1] = "var" THEN "$" ELSE w[2]
  IN  [j \in DOMAIN i.args |-> IF i.cmd \in replaceEnvAllowed THEN ProcessWord(i.args[j]) ELSE raw(i.args[j])]

defaultShell == <<<<"/bin/sh">>, <<"-c">>>>
getShell(c) == IF c.Shell = <<>> THEN defaultShell ELSE c.Shell

\* The tokens of a command.
Tokens(ws) == [j \in DOMAIN ws |-> <<ws[j]>>]
handleJSONArgs(i, ws) == IF ws = <<>> THEN <<>> ELSE IF i.json THEN Tokens(ws) ELSE <<ws>>
Command(b, i, ws) == (IF i.json THEN <<>> ELSE getShell(b.config)) \o handleJSONArgs(i, ws)

Pairs(ws) == [j \in 1..(Len(ws) \div 2) |-> <<ws[2 * j - 1], ws[2 * j]>>]

-----------------------------------------------------------------------------
(* The dispatchers that only change the configuration.  Each gives the      *)
(* builder after it and the comment it commits with; b.ok is FALSE when it  *)
(* returns an error.                                                        *)

Fail(b) == [b EXCEPT !.ok = FALSE]
Note(b, c) == [b EXCEPT !.comment = c]

env(b, ws) ==
  IF ws = <<>> \/ Len(ws) % 2 # 0 THEN Fail(b)
  ELSE Note([b EXCEPT !.config.Env = FoldLeft(LAMBDA e, p : SetKey(e, p[1], p[2]), @, Pairs(ws))],
            <<"ENV", ws>>)

label(b, ws) ==
  IF ws = <<>> \/ Len(ws) % 2 # 0 THEN Fail(b)
  ELSE Note([b EXCEPT !.config.Labels = FoldLeft(LAMBDA m, p : PutAll(m, {p}), @, Pairs(ws))],
            <<"LABEL", ws>>)

maintainer(b, ws) ==
  IF Len(ws) # 1 THEN Fail(b) ELSE Note([b EXCEPT !.maintainer = ws[1]], <<"MAINTAINER", ws>>)

onbuild(b, i) ==
  IF i.trigger = <<>> \/ i.trigger[1].cmd \in {"onbuild", "maintainer", "from"} THEN Fail(b)
  ELSE Note([b EXCEPT !.config.OnBuild = @ \o i.trigger], <<"ONBUILD", i.trigger>>)

\* A path is the sequence of its elements, "/" first when it is absolute.
IsAbs(p) == p # <<>> /\ p[1] = "/"
Join(dir, p) == IF IsAbs(p) THEN p ELSE (IF IsAbs(dir) THEN dir ELSE <<"/">> \o dir) \o p
normaliseWorkdir(current, requested) == Join(current, requested)

workdir(b, ws) ==
  IF ws = <<>> THEN Fail(b)
  ELSE LET dir == normaliseWorkdir(b.config.WorkingDir, ws)
       IN  Note([b EXCEPT !.config.WorkingDir = dir], <<"WORKDIR", dir>>)

cmd(b, i, ws) ==
  LET c == Command(b, i, ws)
  IN  [Note([b EXCEPT !.config.Cmd = c], <<"CMD", c>>) EXCEPT !.cmdSet = @ \/ ws # <<>>]

\* Options and command of a health check; "none" takes no arguments, and a
\* retry count has to be positive.
healthcheck(b, i, ws) ==
  IF \/ ws = <<>> \/ ws[1] \notin {"none", "cmd"}
     \/ (ws[1] = "none" /\ Len(ws) > 1) \/ (ws[1] = "cmd" /\ Len(ws) = 1)
  THEN Fail(b)
  ELSE LET test == IF ws[1] = "cmd" /\ ~i.json THEN <<"cmd-shell">> \o Tail(ws) ELSE ws
       IN  Note([b EXCEPT !.config.Healthcheck = Some(test)], <<"HEALTHCHECK", test>>)

\* Unless CMD was given in this file, ENTRYPOINT drops the image's command.
entrypoint(b, i, ws) ==
  LET e == IF i.json THEN Some(Tokens(ws))
           ELSE IF ws = <<>> THEN Nil ELSE Some(getShell(b.config) \o <<ws>>)
  IN  Note([b EXCEPT !.config.Entrypoint = e, !.config.Cmd = IF b.cmdSet THEN @ ELSE <<>>],
           <<"ENTRYPOINT", e.v>>)

expose(b, ws) ==
  IF ws = <<>> THEN Fail(b)
  ELSE Note([b EXCEPT !.config.ExposedPorts = @ \cup ToSet(ws)], <<"EXPOSE", ToSet(ws)>>)

user(b, ws) ==
  IF Len(ws) # 1 THEN Fail(b) ELSE Note([b EXCEPT !.config.User = ws[1]], <<"USER", ws>>)

volume(b, ws) ==
  IF ws = <<>> \/ "" \in ToSet(ws) THEN Fail(b)
  ELSE Note([b EXCEPT !.config.Volumes = @ \cup ToSet(ws)], <<"VOLUME", ws>>)

stopSignal(b, ws) ==
  IF Len(ws) # 1 THEN Fail(b) ELSE Note([b EXCEPT !.config.StopSignal = ws[1]], <<"STOPSIGNAL", ws>>)

\* ARG name or ARG name=value: what the client passed wins over the default.
arg(b, ws) ==
  IF ws = <<>> THEN Fail(b)
  ELSE LET default == IF Len(ws) = 2 /\ \A a \in b.buildArgs : a[1] # ws[1] THEN {<<ws[1], ws[2]>>} ELSE {}
       IN  Note([b EXCEPT !.allowed = @ \cup {ws[1]}, !.buildArgs = @ \cup default], <<"ARG", ws>>)

shell(b, i, ws) ==
  IF ws = <<>> \/ ~i.json THEN Fail(b)
  ELSE Note([b EXCEPT !.config.Shell = Tokens(ws)], <<"SHELL", ws>>)

\* evaluateTable, but for the instructions that run or copy something.
Evaluate(b, i) ==
  LET ws == Words(b, i)
  IN  CASE i.cmd = "env" -> env(b, ws)
        [] i.cmd = "label" -> label(b, ws)
        [] i.cmd = "maintainer" -> maintainer(b, ws)
        [] i.cmd = "onbuild" -> onbuild(b, i)
        [] i.cmd = "workdir" -> workdir(b, ws)
        [] i.cmd = "cmd" -> cmd(b, i, ws)
        [] i.cmd = "healthcheck" -> healthcheck(b, i, ws)
        [] i.cmd = "entrypoint" -> entrypoint(b, i, ws)
        [] i.cmd = "expose" -> expose(b, ws)
        [] i.cmd = "user" -> user(b, ws)
        [] i.cmd = "volume" -> volume(b, ws)
        [] i.cmd = "stopsignal" -> stopSignal(b, ws)
        [] i.cmd = "arg" -> arg(b, ws)
        [] i.cmd = "shell" -> shell(b, i, ws)
        [] OTHER -> Fail(b)

-----------------------------------------------------------------------------
\* runconfig.Compare: neither the working directory nor the health check, stop
\* signal, shell or triggers take part; the command string stands for them.
Compare(a, b) ==
  /\ a.User = b.User /\ a.Cmd = b.Cmd /\ a.Env = b.Env /\ a.Labels = b.Labels
  /\ a.ExposedPorts = b.ExposedPorts /\ a.Entrypoint.v = b.Entrypoint.v /\ a.Volumes = b.Volumes

\* merge: what the container's configuration leaves open comes from the image.
merge(u, i) ==
  [u EXCEPT
    !.User = IF @ = "" THEN i.User ELSE @,
    !.ExposedPorts = @ \cup i.ExposedPorts,
    !.Env = IF @ = <<>> THEN i.Env ELSE @ \o SelectSeq(i.Env, LAMBDA e : e[1] \notin Keys(u.Env)),
    !.Labels = PutAll(i.Labels, @),
    !.Cmd = IF u.Entrypoint.v = <<>> /\ @ = <<>> THEN i.Cmd ELSE @,
    !.Entrypoint = IF @.nil THEN i.Entrypoint ELSE @,
    !.Healthcheck = IF @.nil THEN i.Healthcheck ELSE @,
    !.WorkingDir = IF @ = <<>> THEN i.WorkingDir ELSE @,
    !.Volumes = @ \cup i.Volumes,
    !.StopSignal = IF @ = "" THEN i.StopSignal ELSE @]
=============================================================================
