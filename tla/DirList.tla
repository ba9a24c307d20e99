------------------------------ MODULE DirList ------------------------------
(***************************************************************************)
(* The list of watched directory pairs of src/modules/DirList.c, as        *)
(* operators on the sequence its nodes spell, newest first; NULL is the    *)
(* list after freeList.  A directory is any record with the fields source, *)
(* target and watch_descriptor.  count follows the list in every operation *)
(* of the module, so it is the length here.                                *)
(*                                                                         *)
(* The find operations return a pointer into the list; here it is the      *)
(* position of the node, and NULL when there is none.                      *)
(***************************************************************************)
EXTENDS Integers, SequencesExt

CONSTANT NULL    \* a null pointer

ASSUME NullIsNoPosition == NULL \notin Nat

createDirList == << >>

(* insertDirList: the new node becomes the head.                           *)
insertDirList(list, data) == <<data>> \o list

(* The walk that stops at the first node in P.                             *)
FirstPosition(P) ==
  IF P = {} THEN NULL ELSE CHOOSE k \in P : \A j \in P : k <= j

findBySource(list, source) ==
  IF list = NULL THEN NULL ELSE FirstPosition({k \in DOMAIN list : list[k].source = source})

findByTarget(list, target) ==
  IF list = NULL THEN NULL ELSE FirstPosition({k \in DOMAIN list : list[k].target = target})

findByWD(list, wd) ==
  IF list = NULL THEN NULL ELSE FirstPosition({k \in DOMAIN list : list[k].watch_descriptor = wd})

(* removeBySource, which the manager never calls.                          *)
removeBySource(list, source) ==
  LET k == findBySource(list, source)
  IN  IF k = NULL THEN list ELSE RemoveAt(list, k)

numOfDirs(list) == Len(list)

(* freeList leaves a null pointer behind.                                  *)
freeList(list) == NULL

=============================================================================
