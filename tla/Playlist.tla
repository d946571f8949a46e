------------------------------ MODULE Playlist ------------------------------
(***************************************************************************)
(* Playlists, library/playlist.cpp, as operators on a list: its items, of  *)
(* which deleted ones keep their place, and the search tree from a file to *)
(* the item that holds it.  Items are counted from 1 and None, which is 0, *)
(* stands for the index -1: an index is one more than in the code.         *)
(***************************************************************************)
EXTENDS Naturals, Sequences, FiniteSetsExt

CONSTANTS Files,        \* names of files
          NoFile        \* the empty name

ASSUME NoFileAssumption == NoFile \notin Files

None == 0

Item == [file : Files, deleted : BOOLEAN]

EmptyList == [items |-> <<>>, tree |-> [f \in Files |-> None]]

Indices(p) == DOMAIN p.items
Live(p)    == {i \in Indices(p) : ~p.items[i].deleted}
Count(p)   == Cardinality(Live(p))

LiveFiles(p) == {p.items[i].file : i \in Live(p)}

FileAt(p, i) == IF i \in Indices(p) THEN p.items[i].file ELSE NoFile

(* plist_find_fname *)
FindFname(p, f) ==
    IF f \in Files /\ p.tree[f] \in Live(p) THEN p.tree[f] ELSE None

(* Mutation of PlistNext: deleted items are not passed over.               *)
MutPlistNextDeletedToo(p, num) == IF num < Len(p.items) THEN num + 1 ELSE None

(* plist_next and plist_prev *)
PlistNext(p, num) ==
    LET after == {i \in Live(p) : i > num} IN IF after = {} THEN None ELSE Min(after)

PlistPrev(p, num) ==
    LET before == {i \in Live(p) : i < num} IN IF before = {} THEN None ELSE Max(before)

(* plist_last, which does not look whether the first item is deleted *)
PlistLast(p) ==
    LET ends == {i \in Live(p) : i > 1}
    IN  IF ends # {} THEN Max(ends) ELSE IF p.items = <<>> THEN None ELSE 1

(* plist_add *)
PlistAdd(p, f) ==
    [items |-> Append(p.items, [file |-> f, deleted |-> FALSE]),
     tree  |-> [p.tree EXCEPT ![f] = Len(p.items) + 1]]

(* plist_delete *)
PlistDelete(p, i) == [p EXCEPT !.items[i].deleted = TRUE]

DeleteFname(p, f) ==
    IF FindFname(p, f) = None THEN p ELSE PlistDelete(p, FindFname(p, f))

(* plist_cat: copies what is not deleted, and not there already.           *)
PlistCat(a, b) ==
    LET cat[n \in 0..Len(b.items)] ==
          IF n = 0 THEN a
          ELSE LET p  == cat[n - 1]
                   it == b.items[n]
               IN  IF it.deleted \/ FindFname(p, it.file) # None THEN p
                   ELSE PlistAdd(p, it.file)
    IN  cat[Len(b.items)]

(* The tree over items in which a file may stand twice: the last one counts. *)
TreeOver(items) ==
    [f \in Files |-> LET at == {i \in DOMAIN items : items[i].file = f}
                     IN  IF at = {} THEN None ELSE Max(at)]

Permuted(items, pi) == [i \in DOMAIN items |-> items[pi[i]]]

(* plist_shuffle, which any of the orders can come out of. *)
Shuffled(p, order) ==
    LET items == Permuted(p.items, order)
    IN  [items |-> items, tree |-> TreeOver(items)]

(* plist_swap *)
Swapped(items, i, j) ==
    [items EXCEPT ![i] = items[j], ![j] = items[i]]

(* plist_swap_first_fname *)
SwapFirst(p, f) ==
    LET i     == FindFname(p, f)
        items == Swapped(p.items, 1, i)
    IN  IF i \in {None, 1} THEN p
        ELSE [items |-> items,
              tree  |-> [p.tree EXCEPT ![f] = None,
                                       ![p.items[1].file] = None,
                                       ![items[1].file] = 1,
                                       ![items[i].file] = i]]

(* Mutation of SwapFiles: the tree is left as it was.                      *)
MutSwapFilesNotTree(p, f, g) ==
    IF p.tree[f] = None \/ p.tree[g] = None THEN p
    ELSE [p EXCEPT !.items = Swapped(@, p.tree[f], p.tree[g])]

(* plist_swap_files *)
SwapFiles(p, f, g) ==
    IF p.tree[f] = None \/ p.tree[g] = None THEN p
    ELSE [items |-> Swapped(p.items, p.tree[f], p.tree[g]),
          tree  |-> [p.tree EXCEPT ![f] = p.tree[g], ![g] = p.tree[f]]]

(* What the tree finds has the name that was searched for, deleted or not, *)
(* and it finds whatever is not deleted.                                   *)
IsPlaylist(p) ==
    /\ p \in [items : Seq(Item), tree : [Files -> Nat]]
    /\ \A f \in Files : p.tree[f] # None => p.tree[f] \in Indices(p) /\ FileAt(p, p.tree[f]) = f
    /\ \A i \in Live(p) : FindFname(p, FileAt(p, i)) = i
=============================================================================
