------------------------------ MODULE CaseDiff ------------------------------
(***************************************************************************)
(* The structured difference of two versions of a case (cases/diff.py), in *)
(* which a person reviews a proposed regeneration against the current one. *)
(*                                                                         *)
(* A content is a tree, given as the function from its paths to what is    *)
(* there: a container, whose members are one step further, or a scalar.    *)
(* Its root holds the compared fields, which every version has.            *)
(***************************************************************************)
EXTENDS Sequences, FiniteSets, SequencesExt

CONSTANTS
  Contents,  \* what a version may hold
  Class      \* scalar -> what Python's == knows of it: true is 1, and 1.0 too

VARIABLES
  older, newer,  \* the content of each version, or Missing
  lineages,      \* how many lineages the two belong to
  answer         \* the difference, or the error

diffVars == <<older, newer, lineages, answer>>

Missing == << >>
Containers == {"fields", "dict", "list"}

\* _normalize leaves plain data, whose scalars are compared with ==.
Alike(x, y) ==
  x = y \/ (x \notin Containers /\ y \notin Containers /\ Class[x] = Class[y])

\* The value at a path, as a tree of its own.
At(tree, path) ==
  LET below == {p \in DOMAIN tree : IsPrefix(path, p)}
      Cut(p) == SubSeq(p, Len(path) + 1, Len(p)) IN
  [q \in {Cut(p) : p \in below} |-> tree[path \o q]]

\* _diff_value goes into two containers of one kind ...
Descends(a, b, path) ==
  path \in DOMAIN a \cap DOMAIN b /\ a[path] = b[path] /\ a[path] \in Containers

\* ... and so reaches these paths: the keys of both and of either, the longer list.
Reached(a, b) ==
  {p \in DOMAIN a \cup DOMAIN b :
     \A n \in 0 .. Len(p) - 1 : Descends(a, b, SubSeq(p, 1, n))}
Leaves(a, b) == {p \in Reached(a, b) : ~Descends(a, b, p)}

\* Mutant: lists are compared as far as both go.
LeafChangeMutant(a, b, path) ==
  IF path \notin DOMAIN b THEN "unchanged"
  ELSE IF path \notin DOMAIN a THEN "added"
  ELSE IF Alike(a[path], b[path]) THEN "unchanged" ELSE "changed"

\* ChangeType of a leaf: whole subtrees that are there on one side only, scalars, and
\* a value whose structure changed.
LeafChange(a, b, path) ==
  IF path \notin DOMAIN a THEN "added"
  ELSE IF path \notin DOMAIN b THEN "removed"
  ELSE IF Alike(a[path], b[path]) THEN "unchanged" ELSE "changed"

\* DiffEntry.
Entry(a, b, path) ==
  [path |-> path, change |-> LeafChange(a, b, path),
   old |-> IF path \in DOMAIN a THEN At(a, path) ELSE Missing,
   new |-> IF path \in DOMAIN b THEN At(b, path) ELSE Missing]

\* changes(): a container is changed if something in it is, and is descended into.
Changes(a, b) ==
  {Entry(a, b, p) : p \in {q \in Leaves(a, b) : LeafChange(a, b, q) # "unchanged"}}

\* CaseDiff: one entry for every field, and whether any of them is changed.
FieldsOf(a, b) == {p \in Reached(a, b) : Len(p) = 1}
ChangedFields(a, b) ==
  {f \in FieldsOf(a, b) : \E e \in Changes(a, b) : IsPrefix(f, e.path)}
CaseDiff(a, b) ==
  [error |-> "none", changed |-> ChangedFields(a, b) # {},
   fields |-> ChangedFields(a, b), changes |-> Changes(a, b)]
Error(kind) == [error |-> kind, changed |-> FALSE, fields |-> {}, changes |-> {}]
NoAnswer == Error("not asked")

Init ==
  /\ older \in Contents \cup {Missing} /\ newer \in Contents \cup {Missing}
  /\ lineages \in {1, 2} /\ answer = NoAnswer

\* diff: versions of two lineages are refused, unless the caller lifts the guard.
Diff(require_same_lineage) ==
  /\ answer = NoAnswer /\ older # Missing /\ newer # Missing
  /\ answer' = IF require_same_lineage /\ lineages = 2 THEN Error("incomparable")
               ELSE CaseDiff(older, newer)
  /\ UNCHANGED <<older, newer, lineages>>

\* diff_versions: both are read by the lineage and their number, one after the other.
DiffVersions ==
  /\ answer = NoAnswer /\ lineages = 1
  /\ answer' = IF Missing \in {older, newer} THEN Error("not found")
               ELSE CaseDiff(older, newer)
  /\ UNCHANGED <<older, newer, lineages>>

Next == (\E guard \in BOOLEAN : Diff(guard)) \/ DiffVersions
Spec == Init /\ [][Next]_diffVars

-----------------------------------------------------------------------------
(* What the difference promises. *)

DiffTypeOK ==
  /\ answer.error \in {"not asked", "none", "incomparable", "not found"}
  /\ answer.error # "none" => answer = Error(answer.error)

\* The older content with the reported changes made to it.
Patched ==
  LET at == {e.path : e \in answer.changes}
      Kept == {p \in DOMAIN older : \A q \in at : ~IsPrefix(q, p)}
      Put == UNION {{e.path \o q : q \in DOMAIN e.new} : e \in answer.changes}
      EntryOf(p) == CHOOSE e \in answer.changes : IsPrefix(e.path, p) IN
  [p \in Kept \cup Put |->
     IF p \in Kept THEN older[p]
     ELSE EntryOf(p).new[SubSeq(p, Len(EntryOf(p).path) + 1, Len(p))]]

AlikeTrees(a, b) == DOMAIN a = DOMAIN b /\ \A p \in DOMAIN a : Alike(a[p], b[p])

(***************************************************************************)
(* A reviewer who acts on the reported changes gets the other version, as  *)
(* far as == can tell: nothing that differs is left out, no two reports    *)
(* overlap, each names a difference, and the fields that are flagged are   *)
(* those that differ ("CHANGED iff any child differs").                    *)
(***************************************************************************)
DiffIsFaithful ==
  answer.error = "none" =>
    /\ AlikeTrees(Patched, newer)
    /\ \A e, f \in answer.changes : IsPrefix(e.path, f.path) => e = f
    /\ \A e \in answer.changes : ~AlikeTrees(e.old, e.new)
    /\ answer.fields = {f \in DOMAIN older : Len(f) = 1
                                             /\ ~AlikeTrees(At(older, f), At(newer, f))}
    /\ answer.changed <=> ~AlikeTrees(older, newer)
=============================================================================
