---------------------------- MODULE ProtoDriver ----------------------------
(* What every graph driver promises the layer store: a layer starts with   *)
(* the files of its parent, changes only when it is written to or a diff   *)
(* is applied to it, and is there until it is removed.                     *)
EXTENDS Integers

CONSTANTS
  Id,          \* the layers
  File,        \* the names of the files
  Parent,      \* the parent of a layer, or None
  None

VARIABLE content   \* layer -> its files, or None before Create and after Remove

Empty == [f \in File |-> 0]

Init == content = [i \in Id |-> None]

Create(i) ==
  /\ content[i] = None
  /\ Parent[i] /= None => content[Parent[i]] /= None
  /\ content' = [content EXCEPT ![i] = IF Parent[i] = None THEN Empty ELSE content[Parent[i]]]

(* Layers that others build on stay as they are. *)
Change(i) ==
  /\ content[i] /= None
  /\ \A j \in Id : Parent[j] = i => content[j] = None
  /\ \E t \in [File -> 0..1] : content' = [content EXCEPT ![i] = t]

Remove(i) == content[i] /= None /\ content' = [content EXCEPT ![i] = None]

Next == \E i \in Id : Create(i) \/ Change(i) \/ Remove(i)
Spec == Init /\ [][Next]_content
=============================================================================
