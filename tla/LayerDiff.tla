----------------------------- MODULE LayerDiff -----------------------------
(***************************************************************************)
(* The difference between a layer and its parent, as an archive, and what  *)
(* applying the archive to the parent gives (pkg/archive, and Diff and     *)
(* ApplyDiff of the graph drivers).  A container writes into its layer;    *)
(* the layer is kept by the kernel's overlay or aufs in a directory of its *)
(* own ("upper"), with whiteouts for what was removed and a mark on        *)
(* directories that hide the parent's.  Three drivers turn it into the     *)
(* same archive format and three turn such an archive into a layer.        *)
(*                                                                         *)
(* A tree gives every path a node <<kind, version, opaque>>.  The version  *)
(* of a file stands for its content and times, that of a directory for its *)
(* mode.  Hard links, owners and extended attributes are left out.         *)
(***************************************************************************)
EXTENDS Naturals, Sequences, SequencesExt

CONSTANTS
  Paths,        \* every path, in lexical order, as sequences of names
  Lowers,       \* the trees a parent layer may be
  MaxWrites     \* how often the container changes something

VARIABLES
  lower,        \* the parent
  upper,        \* the directory of the container's layer
  writes

vars == <<lower, upper, writes>>

Path == ToSet(Paths)
Absent == <<"none", 0, FALSE>>
File(v) == <<"file", v, FALSE>>
Dir(v) == <<"dir", v, FALSE>>
OpaqueDir(v) == <<"dir", v, TRUE>>
Whiteout == <<"whiteout", 0, FALSE>>
Empty == [p \in Path |-> Absent]

Parent(p) == Front(p)
Exists(t, p) == p # <<>> => t[p] # Absent
IsDir(t, p) == p # <<>> => t[p][1] = "dir"
Below(p) == {q \in Path : IsStrictPrefix(p, q)}
RemoveAll(t, p) == [q \in Path |-> IF q = p \/ q \in Below(p) THEN Absent ELSE t[q]]

(* What the container sees: the kernel joins the two directories.          *)
Hidden(u, p) == \E k \in 1..(Len(p) - 1) : u[SubSeq(p, 1, k)][1] \in {"file", "whiteout"} \/ u[SubSeq(p, 1, k)][3]
Merged(l, u) ==
  [p \in Path |->
     CASE u[p][1] = "whiteout" -> Absent
       [] u[p] # Absent -> <<u[p][1], u[p][2], FALSE>>
       [] OTHER -> IF Hidden(u, p) \/ ~IsDir(l, Parent(p)) THEN Absent ELSE l[p]]
merged == Merged(lower, upper)

TypeOK ==
  /\ lower \in Lowers /\ writes \in 0..MaxWrites
  /\ \A p \in Path : upper[p][1] \in {"none", "file", "dir", "whiteout"} /\ upper[p][2] \in 0..2

Init == lower \in Lowers /\ upper = Empty /\ writes = 0

-----------------------------------------------------------------------------
(* The container's writes, as overlay and aufs keep them.                   *)

CopiedUp(u, p) ==
  IF p = <<>> \/ u[p] # Absent THEN u ELSE [u EXCEPT ![p] = lower[p]]
Changed(u) == /\ writes < MaxWrites /\ writes' = writes + 1
              /\ upper' = u /\ UNCHANGED lower
InLower(p) == lower[p] # Absent /\ ~Hidden(upper, p)

Write(p) ==
  /\ IsDir(merged, Parent(p)) /\ ~IsDir(merged, p)
  /\ Changed([CopiedUp(upper, Parent(p)) EXCEPT ![p] = File(2)])

Mkdir(p) ==
  /\ IsDir(merged, Parent(p)) /\ merged[p] = Absent
  /\ Changed([CopiedUp(upper, Parent(p)) EXCEPT ![p] = IF upper[p] = Whiteout THEN OpaqueDir(2) ELSE Dir(2)])

Chmod(p) ==
  /\ merged[p][1] = "dir" /\ merged[p][2] # 2
  /\ Changed([CopiedUp(upper, p) EXCEPT ![p][2] = 2])

Rm(p) ==
  /\ merged[p] # Absent
  /\ Changed([RemoveAll(CopiedUp(upper, Parent(p)), p) EXCEPT ![p] = IF InLower(p) THEN Whiteout ELSE Absent])

Next == \E p \in Path : Write(p) \/ Mkdir(p) \/ Chmod(p) \/ Rm(p)

-----------------------------------------------------------------------------
(* Changes                                                                  *)

statDifferent(a, b) == a[1] # b[1] \/ a[2] # b[2]

\* A mutant of addChanges: what was replaced by a file still has children.
addChangesBelowFiles(old, new) ==
  LET present(p) == new[p] # Absent
      add == {p \in Path : present(p) /\ old[p] = Absent}
      modify == {p \in Path : present(p) /\ old[p] # Absent /\ statDifferent(old[p], new[p])}
      delete == {p \in Path : old[p] # Absent /\ ~present(p)}
  IN  [p \in add \cup modify \cup delete |-> IF p \in add THEN "A" ELSE IF p \in modify THEN "C" ELSE "D"]

\* collectFileInfoForChanges and addChanges: the children of a directory are
\* compared with those of the old one; what became something else than a
\* directory is a change of the whole; a directory with changes inside counts
\* as changed.
addChanges(old, new) ==
  LET add == {p \in Path : new[p] # Absent /\ old[p] = Absent}
      modify == {p \in Path : new[p] # Absent /\ old[p] # Absent /\ statDifferent(old[p], new[p])}
      delete == {p \in Path : old[p] # Absent /\ new[p] = Absent /\ IsDir(new, Parent(p))}
      inside == {p \in Path : IsDir(new, p) /\ Below(p) \cap (add \cup modify \cup delete) # {}}
  IN  [p \in add \cup modify \cup delete \cup inside |->
         IF p \in add THEN "A" ELSE IF p \in delete THEN "D" ELSE "C"]

\* changes: what is in the directory of the layer, compared with the parent's.
\* overlayDeletedFile and aufsDeletedFile tell what stands for a deletion.
changes(l, u) ==
  LET kind(p) == IF u[p] = Whiteout \/ u[p][3] THEN "D" ELSE IF l[p] # Absent THEN "C" ELSE "A"
      same(p) == l[p] = u[p] /\ IsDir(u, p)
      found == {p \in Path : u[p] # Absent /\ ~same(p)}
      touched == {Parent(p) : p \in {q \in found : kind(q) # "C"}} \ {<<>>}
  IN  [p \in found \cup touched |-> IF p \in found THEN kind(p) ELSE "C"]

-----------------------------------------------------------------------------
(* Archives: sequences of entries <<path, type, version>>                   *)

InOrder(S) == SelectSeq(Paths, LAMBDA p : p \in S)

\* addTarFile of a node as it is.
addTarFile(t, p) == <<p, t[p][1], t[p][2]>>

\* ExportChanges.
ExportChanges(new, ch) ==
  LET entry(p) == IF ch[p] = "D" THEN <<p, "whiteout", 0>> ELSE addTarFile(new, p)
      order == InOrder(DOMAIN ch)
  IN  [i \in DOMAIN order |-> entry(order[i])]

\* ConvertWrite: an opaque directory becomes the file that says so.
ConvertWrite(t, p) == IF t[p][3] THEN <<p, "opaque", 0>> ELSE addTarFile(t, p)

\* TarWithOptions over the directory of a layer: overlay converts, aufs has
\* the files the format asks for.
TarOverlay(u) ==
  LET order == InOrder({p \in Path : u[p] # Absent}) IN [i \in DOMAIN order |-> ConvertWrite(u, order[i])]
TarAufs(u) ==
  LET order == InOrder({p \in Path : u[p] # Absent})
      entries(p) == <<addTarFile(u, p)>> \o (IF u[p][3] THEN <<<<p, "opaque", 0>>>> ELSE <<>>)
  IN  FlattenSeq([i \in DOMAIN order |-> entries(order[i])])

Diff(driver) ==
  CASE driver = "overlay2" -> TarOverlay(upper)
    [] driver = "aufs" -> TarAufs(upper)
    [] driver = "naive" -> ExportChanges(merged, addChanges(lower, merged))

\* createTarFile, once its parent is there and what it replaces is gone.
createTarFile(s, e) ==
  IF ~IsDir(s.tree, Parent(e[1])) THEN [s EXCEPT !.ok = FALSE]
  ELSE [s EXCEPT !.tree[e[1]] = <<e[2], e[3], @[3] /\ e[2] = "dir">>, !.unpacked = @ \cup {e[1]}]

\* The directory the entry is in, made if it does not exist.
Holder(e) == IF e[2] = "opaque" THEN e[1] ELSE Parent(e[1])
WithParents(s, e) ==
  LET missing == {p \in Path : IsPrefix(p, Holder(e)) /\ s.tree[p] = Absent}
  IN  [s EXCEPT !.tree = [p \in Path |-> IF p \in missing THEN Dir(0) ELSE @[p]]]

\* If the path exists it is removed, unless a directory meets a directory.
Replaced(s, e) ==
  IF Exists(s.tree, e[1]) /\ ~(IsDir(s.tree, e[1]) /\ e[2] = "dir")
  THEN [s EXCEPT !.tree = RemoveAll(@, e[1])] ELSE s

\* One entry in UnpackLayer's loop: whiteouts remove, opaque marks remove what
\* the archive has not brought.
UnpackLayerEntry(s0, e) ==
  LET s == WithParents(s0, e)
  IN  CASE ~s.ok -> s
        [] e[2] = "opaque" ->
             [s EXCEPT !.tree = [p \in Path |-> IF p \in Below(e[1]) \ s.unpacked THEN Absent ELSE @[p]]]
        [] e[2] = "whiteout" -> [s EXCEPT !.tree = RemoveAll(@, e[1])]
        [] OTHER -> createTarFile(Replaced(s, e), e)

\* ConvertRead and the loop of Unpack: the layer gets the overlay's own
\* whiteouts; making one fails where something is already.
UnpackEntry(s0, e) ==
  LET s == WithParents(s0, e)
  IN  CASE ~s.ok -> s
        [] e[2] = "opaque" -> [s EXCEPT !.tree[e[1]][3] = TRUE]
        [] e[2] = "whiteout" -> IF Exists(s.tree, e[1]) THEN [s EXCEPT !.ok = FALSE]
                                ELSE [s EXCEPT !.tree[e[1]] = Whiteout]
        [] OTHER -> createTarFile(Replaced(s, e), e)

Unpacked(t) == [ok |-> TRUE, tree |-> t, unpacked |-> {}]
UnpackLayer(t, tar) == FoldLeft(UnpackLayerEntry, Unpacked(t), tar)
Unpack(tar) == FoldLeft(UnpackEntry, Unpacked(Empty), tar)

\* ApplyDiff: the naive driver unpacks over a copy of the parent, overlay and
\* aufs into an empty directory that the kernel joins with the parent.
ApplyDiff(driver, tar) ==
  IF driver = "naive" THEN UnpackLayer(lower, tar)
  ELSE LET s == Unpack(tar) IN [s EXCEPT !.tree = Merged(lower, @)]

-----------------------------------------------------------------------------
Drivers == {"overlay2", "aufs", "naive"}
Gives(writer, reader) ==
  LET s == ApplyDiff(reader, Diff(writer)) IN s.ok /\ s.tree = merged
HasOpaque == \E p \in Path : upper[p][3]

\* The archive one driver makes of a layer, applied to the parent by any
\* driver, gives the layer again: every file, every removal and the mode of
\* every directory.  (For overlay2 only layers without opaque directories.)
DiffsPortable ==
  \A w, r \in Drivers : (w = "overlay2" => ~HasOpaque) => Gives(w, r)

\* What overlay2's Diff makes of a layer is complete: applied by any driver it
\* gives the layer.
OverlayDiffComplete == \A r \in Drivers : Gives("overlay2", r)

\* The list of changes from the layer's own directory names the same added,
\* changed and removed files as the comparison of the two trees.
ChangesAgree ==
  LET ofFiles(ch) == {<<p, ch[p]>> : p \in {q \in DOMAIN ch : ~IsDir(merged, q)}}
  IN  ~HasOpaque => ofFiles(changes(lower, upper)) = ofFiles(addChanges(lower, merged))
=============================================================================
