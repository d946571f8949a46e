--------------------------- MODULE PlayOrderProofs ---------------------------
(***************************************************************************)
(* Proofs about Playlist and PlayOrder, for any files, any playlist to     *)
(* start with, lists of any length and any number of calls.                *)
(*                                                                         *)
(* First, each operator on lists keeps IsPlaylist, and what it does to the *)
(* files of a list.  BaseInv, the lists and the types, is inductive with   *)
(* these.  RowInv is inductive with BaseInv: it says how what was played   *)
(* stands to what is played next, in the list as it is at that time.       *)
(***************************************************************************)
EXTENDS PlayOrder, SeqLemmas

-----------------------------------------------------------------------------
(* What a playlist is. *)

ListType == [items : Seq(Item), tree : [Files -> Nat]]

(* The items of a list, by their indices. *)
LEMMA ItemTypes ==
    ASSUME NEW p \in ListType
    PROVE  /\ p.items \in Seq(Item) /\ p.tree \in [Files -> Nat]
           /\ Indices(p) = 1..Len(p.items) /\ Len(p.items) \in Nat
           /\ \A i \in Indices(p) : /\ p.items[i].file \in Files
                                    /\ p.items[i].deleted \in BOOLEAN
                                    /\ FileAt(p, i) = p.items[i].file
           /\ Live(p) \subseteq Indices(p) /\ Indices(p) \subseteq Nat \ {0}
<1>1. p.items \in Seq(Item) /\ p.tree \in [Files -> Nat]
  BY DEF ListType
<1>2. Indices(p) = 1..Len(p.items) /\ Len(p.items) \in Nat
  BY <1>1 DEF Indices
<1>3. \A i \in Indices(p) : p.items[i] \in Item
  BY <1>1, <1>2
<1>4. \A i \in Indices(p) : /\ p.items[i].file \in Files
                            /\ p.items[i].deleted \in BOOLEAN
                            /\ FileAt(p, i) = p.items[i].file
  BY <1>3 DEF Item, FileAt
<1>5. Live(p) \subseteq Indices(p) /\ Indices(p) \subseteq Nat \ {0}
  BY <1>2 DEF Live
<1> QED
  BY <1>1, <1>2, <1>4, <1>5

(* A playlist, in terms of its items and its tree. *)
LEMMA PlaylistFacts ==
    ASSUME NEW p, IsPlaylist(p)
    PROVE  /\ p \in ListType
           /\ \A f \in Files : p.tree[f] # None =>
                p.tree[f] \in Indices(p) /\ p.items[p.tree[f]].file = f
           /\ \A i \in Live(p) : p.tree[p.items[i].file] = i /\ p.items[i].file \in Files
<1>1. p \in ListType
  BY DEF IsPlaylist, ListType
<1>2. \A f \in Files : p.tree[f] # None =>
         p.tree[f] \in Indices(p) /\ p.items[p.tree[f]].file = f
  BY <1>1, ItemTypes DEF IsPlaylist
<1>3. ASSUME NEW i \in Live(p) PROVE p.tree[p.items[i].file] = i /\ p.items[i].file \in Files
  <2>1. FindFname(p, p.items[i].file) = i /\ p.items[i].file \in Files /\ i # None
    BY <1>1, ItemTypes DEF IsPlaylist, None
  <2> QED
    BY <2>1 DEF FindFname
<1> QED
  BY <1>1, <1>2, <1>3

LEMMA MakePlaylist ==
    ASSUME NEW p \in ListType,
           \A f \in Files : p.tree[f] # None =>
             p.tree[f] \in Indices(p) /\ p.items[p.tree[f]].file = f,
           \A i \in Live(p) : p.tree[p.items[i].file] = i
    PROVE  IsPlaylist(p)
<1>1. ASSUME NEW i \in Live(p) PROVE FindFname(p, FileAt(p, i)) = i
  BY ItemTypes DEF FindFname
<1>2. \A f \in Files : p.tree[f] # None => FileAt(p, p.tree[f]) = f
  BY ItemTypes
<1> QED
  BY <1>1, <1>2 DEF IsPlaylist, ListType

(* Finding a file: it is found where it is live, and only there. *)
LEMMA FindFacts ==
    ASSUME NEW p, IsPlaylist(p), NEW f
    PROVE  /\ FindFname(p, f) # None =>
                FindFname(p, f) \in Live(p) /\ p.items[FindFname(p, f)].file = f
           /\ FindFname(p, f) # None <=> f \in LiveFiles(p)
           /\ FindFname(p, f) \in Nat
<1>0. p \in ListType
  BY PlaylistFacts
<1>1. ASSUME FindFname(p, f) # None
      PROVE  FindFname(p, f) \in Live(p) /\ p.items[FindFname(p, f)].file = f
  <2>1. f \in Files /\ FindFname(p, f) = p.tree[f] /\ p.tree[f] \in Live(p)
    BY <1>1 DEF FindFname
  <2>2. p.tree[f] # None
    BY <1>1, <2>1
  <2> QED
    BY <2>1, <2>2, PlaylistFacts
<1>2. ASSUME f \in LiveFiles(p) PROVE FindFname(p, f) # None
  <2>1. PICK i \in Live(p) : f = p.items[i].file
    BY <1>2 DEF LiveFiles
  <2>2. p.tree[f] = i /\ f \in Files
    BY <2>1, PlaylistFacts
  <2>3. i # None
    BY <1>0, ItemTypes DEF None
  <2> QED
    BY <2>2, <2>3 DEF FindFname
<1>3. FindFname(p, f) # None => f \in LiveFiles(p)
  BY <1>1 DEF LiveFiles
<1>4. FindFname(p, f) \in Nat
  <2>1. CASE FindFname(p, f) = None
    BY <2>1 DEF None
  <2>2. CASE FindFname(p, f) # None
    BY <1>0, <1>1, <2>2, ItemTypes
  <2> QED
    BY <2>1, <2>2
<1> QED
  BY <1>1, <1>2, <1>3, <1>4

(* A live item is found by its file. *)
LEMMA FindLive ==
    ASSUME NEW p, IsPlaylist(p), NEW i \in Live(p)
    PROVE  FindFname(p, p.items[i].file) = i /\ p.items[i].file \in LiveFiles(p)
           /\ FileAt(p, i) = p.items[i].file /\ p.items[i].file \in Files
<1>1. p \in ListType
  BY PlaylistFacts
<1>2. FileAt(p, i) = p.items[i].file
  BY <1>1, ItemTypes
<1> QED
  BY <1>1, <1>2, PlaylistFacts DEF IsPlaylist, LiveFiles

(* The files of a playlist are files. *)
LEMMA LiveFilesType ==
    ASSUME NEW p, IsPlaylist(p)
    PROVE  LiveFiles(p) \subseteq Files
  BY FindLive DEF LiveFiles

(* The count is 0 only if nothing is live. *)
LEMMA CountFacts ==
    ASSUME NEW p, IsPlaylist(p)
    PROVE  Count(p) \in Nat /\ (Count(p) = 0 <=> Live(p) = {}) /\ (Live(p) = {} <=> LiveFiles(p) = {})
<1>1. p \in ListType
  BY PlaylistFacts
<1>2. Live(p) \in SUBSET (1..Len(p.items)) /\ Len(p.items) \in Int
  BY <1>1, ItemTypes
<1>3. IsFiniteSet(1..Len(p.items))
  BY <1>2, FS_Interval
<1>4. IsFiniteSet(Live(p))
  BY <1>2, <1>3, FS_Subset
<1> QED
  BY <1>4, FS_CardinalityType, FS_EmptySet DEF Count, LiveFiles

-----------------------------------------------------------------------------
(* Walking over a list. *)

LEMMA MinFacts ==
    ASSUME NEW U, U \subseteq Nat, U # {}
    PROVE  Min(U) \in U /\ \A k \in U : Min(U) <= k
<1>1. \E m \in U : \A k \in U : m <= k
  BY LeastNat
<1> QED
  BY <1>1 DEF Min

LEMMA MaxFacts ==
    ASSUME NEW U, U \subseteq Nat, U # {}, NEW b \in Nat, \A k \in U : k <= b
    PROVE  Max(U) \in U /\ \A k \in U : k <= Max(U)
<1>1. \E m \in U : \A k \in U : k <= m
  BY GreatestNat
<1>2. PICK m \in U : \A k \in U : k <= m
  BY <1>1
<1>3. m \in U /\ \A k \in U : m >= k
  BY <1>2
<1>4. Max(U) \in U /\ \A k \in U : Max(U) >= k
  BY <1>3 DEF Max
<1> QED
  BY <1>4

(* plist_next: the next live item, none between. *)
LEMMA NextFacts ==
    ASSUME NEW p, IsPlaylist(p), NEW n \in Nat
    PROVE  LET next == PlistNext(p, n)
           IN  /\ next \in Nat
               /\ next # None => next \in Live(p) /\ n < next
               /\ next # None => \A i \in Live(p) : i < next => i <= n
               /\ next = None => \A i \in Live(p) : i <= n
<1> DEFINE after == {i \in Live(p) : i > n}
<1>1. Live(p) \subseteq Nat \ {0}
  BY PlaylistFacts, ItemTypes
<1>2. CASE after = {}
  <2>1. PlistNext(p, n) = None
    BY <1>2 DEF PlistNext
  <2>2. \A i \in Live(p) : i <= n
    BY <1>1, <1>2
  <2> QED
    BY <2>1, <2>2 DEF None
<1>3. CASE after # {}
  <2>1. PlistNext(p, n) = Min(after)
    BY <1>3 DEF PlistNext
  <2>2. after \subseteq Nat
    BY <1>1
  <2>3. Min(after) \in after /\ \A k \in after : Min(after) <= k
    <3> HIDE DEF after
    <3> QED
      BY <1>3, <2>2, MinFacts
  <2>4. Min(after) \in Live(p) /\ n < Min(after) /\ Min(after) \in Nat /\ Min(after) # None
    BY <1>1, <2>3 DEF None
  <2>5. \A i \in Live(p) : i < Min(after) => i <= n
    BY <1>1, <2>3, <2>4
  <2> QED
    BY <2>1, <2>4, <2>5
<1> QED
  BY <1>2, <1>3

(* plist_prev and plist_last: a live item, or none. *)
LEMMA PrevFacts ==
    ASSUME NEW p, IsPlaylist(p), NEW n \in Nat
    PROVE  PlistPrev(p, n) \in {None} \cup Live(p)
<1> DEFINE before == {i \in Live(p) : i < n}
<1>1. Live(p) \subseteq Nat \ {0}
  BY PlaylistFacts, ItemTypes
<1>2. CASE before = {}
  BY <1>2 DEF PlistPrev
<1>3. CASE before # {}
  <2>1. PlistPrev(p, n) = Max(before)
    BY <1>3 DEF PlistPrev
  <2>2. before \subseteq Nat /\ \A k \in before : k <= n
    BY <1>1
  <2>3. Max(before) \in before
    <3> HIDE DEF before
    <3> QED
      BY <1>3, <2>2, MaxFacts
  <2> QED
    BY <2>1, <2>3
<1> QED
  BY <1>2, <1>3

LEMMA LastFacts ==
    ASSUME NEW p, IsPlaylist(p)
    PROVE  PlistLast(p) \in Nat /\ (Live(p) # {} => PlistLast(p) \in Live(p))
<1> DEFINE ends == {i \in Live(p) : i > 1}
<1>0. p \in ListType
  BY PlaylistFacts
<1>1. Live(p) \subseteq Nat \ {0} /\ Len(p.items) \in Nat /\ \A k \in Live(p) : k <= Len(p.items)
  BY <1>0, ItemTypes
<1>2. CASE ends = {}
  <2>1. PlistLast(p) = IF p.items = <<>> THEN None ELSE 1
    BY <1>2 DEF PlistLast
  <2>2. \A i \in Live(p) : i = 1
    BY <1>1, <1>2
  <2>3. Live(p) # {} => p.items # <<>>
    BY DEF Live, Indices
  <2> QED
    BY <2>1, <2>2, <2>3 DEF None
<1>3. CASE ends # {}
  <2>1. PlistLast(p) = Max(ends)
    BY <1>3 DEF PlistLast
  <2>2. ends \subseteq Nat /\ \A k \in ends : k <= Len(p.items)
    BY <1>1
  <2>3. Max(ends) \in ends
    <3> HIDE DEF ends
    <3> QED
      BY <1>1, <1>3, <2>2, MaxFacts
  <2> QED
    BY <1>1, <2>1, <2>3
<1> QED
  BY <1>2, <1>3

-----------------------------------------------------------------------------
(* The operations that edit a list. *)

(* plist_add of a file that is not there. *)
LEMMA AddFacts ==
    ASSUME NEW p, IsPlaylist(p), NEW f \in Files, f \notin LiveFiles(p)
    PROVE  LET r == PlistAdd(p, f)
           IN  /\ IsPlaylist(r)
               /\ Live(r) = Live(p) \cup {Len(p.items) + 1}
               /\ Indices(r) = Indices(p) \cup {Len(p.items) + 1}
               /\ LiveFiles(r) = LiveFiles(p) \cup {f}
<1> DEFINE r == PlistAdd(p, f)
           n == Len(p.items) + 1
           it == [file |-> f, deleted |-> FALSE]
<1>1. p \in ListType /\ Len(p.items) \in Nat /\ p.items \in Seq(Item) /\ p.tree \in [Files -> Nat]
      /\ Indices(p) = 1..Len(p.items) /\ n \in Nat /\ n # None
  BY PlaylistFacts, ItemTypes DEF None
<1>2. it \in Item /\ it.file = f /\ it.deleted = FALSE
  BY DEF Item
<1>3. r.items = Append(p.items, it) /\ r.tree = [p.tree EXCEPT ![f] = n] /\ r \in ListType
  <2>1. Append(p.items, it) \in Seq(Item)
    <3> HIDE DEF it
    <3> QED
      BY <1>1, <1>2, AppendAsConcat
  <2>2. [p.tree EXCEPT ![f] = n] \in [Files -> Nat]
    BY <1>1
  <2> QED
    BY <2>1, <2>2 DEF PlistAdd, ListType
<1>4. Indices(r) = Indices(p) \cup {n} /\ r.items[n] = it /\ \A i \in Indices(p) : r.items[i] = p.items[i]
  <2> HIDE DEF it, r
  <2> QED
    BY <1>1, <1>2, <1>3 DEF Indices
<1>5. r.tree[f] = n /\ \A g \in Files : g # f => r.tree[g] = p.tree[g]
  <2> HIDE DEF r
  <2> QED
    BY <1>1, <1>3
<1> HIDE DEF r, it
<1>6. Live(r) = Live(p) \cup {n}
  BY <1>2, <1>4 DEF Live
<1>7. LiveFiles(r) = LiveFiles(p) \cup {f}
  <2>1. \A i \in Live(p) : r.items[i].file = p.items[i].file
    BY <1>1, <1>4, ItemTypes
  <2> QED
    BY <1>2, <1>4, <1>6, <2>1 DEF LiveFiles
<1>8. IsPlaylist(r)
  <2>1. ASSUME NEW g \in Files, r.tree[g] # None
        PROVE  r.tree[g] \in Indices(r) /\ r.items[r.tree[g]].file = g
    <3>1. CASE g = f
      BY <1>2, <1>4, <1>5, <3>1
    <3>2. CASE g # f
      <4>1. p.tree[g] \in Indices(p) /\ p.items[p.tree[g]].file = g
        BY <1>5, <2>1, <3>2, PlaylistFacts
      <4> QED
        BY <1>4, <1>5, <3>2, <4>1
    <3> QED
      BY <3>1, <3>2
  <2>2. ASSUME NEW i \in Live(r) PROVE r.tree[r.items[i].file] = i
    <3>1. CASE i = n
      BY <1>2, <1>4, <1>5, <3>1
    <3>2. CASE i \in Live(p)
      <4>1. p.tree[p.items[i].file] = i /\ p.items[i].file \in Files
        BY <3>2, PlaylistFacts
      <4>2. p.items[i].file # f
        BY <3>2 DEF LiveFiles
      <4>3. r.items[i] = p.items[i]
        BY <1>1, <1>4, <3>2, ItemTypes
      <4> QED
        BY <1>5, <4>1, <4>2, <4>3
    <3> QED
      BY <1>6, <3>1, <3>2
  <2> QED
    BY <1>3, <2>1, <2>2, MakePlaylist
<1> QED
  BY <1>4, <1>6, <1>7, <1>8 DEF r

(* plist_delete: the item keeps its place. *)
LEMMA DeleteFacts ==
    ASSUME NEW p, IsPlaylist(p), NEW k \in Live(p)
    PROVE  LET r == PlistDelete(p, k)
           IN  /\ IsPlaylist(r)
               /\ Indices(r) = Indices(p)
               /\ LiveFiles(r) = LiveFiles(p) \ {p.items[k].file}
               /\ r.items # <<>>
<1> DEFINE r == PlistDelete(p, k)
<1>1. p \in ListType /\ p.items \in Seq(Item) /\ p.tree \in [Files -> Nat] /\ k \in Indices(p)
      /\ Indices(p) = 1..Len(p.items) /\ p.items[k].file \in Files
  BY PlaylistFacts, ItemTypes
<1>2. r.items = [p.items EXCEPT ![k] = [p.items[k] EXCEPT !.deleted = TRUE]]
      /\ r.tree = p.tree /\ r = [items |-> r.items, tree |-> r.tree]
  <2>1. p = [items |-> p.items, tree |-> p.tree]
    BY <1>1 DEF ListType
  <2>2. r = [p EXCEPT !.items = [p.items EXCEPT ![k] = [p.items[k] EXCEPT !.deleted = TRUE]]]
    BY DEF PlistDelete
  <2>3. r = [items |-> [p.items EXCEPT ![k] = [p.items[k] EXCEPT !.deleted = TRUE]], tree |-> p.tree]
    <3> HIDE DEF r
    <3> QED
      BY <2>1, <2>2
  <2> QED
    BY <2>3
<1>3. p.items[k] \in Item
  BY <1>1
<1>4. [p.items[k] EXCEPT !.deleted = TRUE] \in Item
      /\ [p.items[k] EXCEPT !.deleted = TRUE].file = p.items[k].file
      /\ [p.items[k] EXCEPT !.deleted = TRUE].deleted = TRUE
  BY <1>3 DEF Item
<1> HIDE DEF r
<1>5. r.items \in Seq(Item) /\ Indices(r) = Indices(p)
  BY <1>1, <1>2, <1>4 DEF Indices
<1>6. r.items[k].file = p.items[k].file /\ r.items[k].deleted = TRUE
      /\ \A i \in Indices(p) : i # k => r.items[i] = p.items[i]
  BY <1>1, <1>2, <1>4
<1>7. Live(r) = Live(p) \ {k}
  BY <1>5, <1>6 DEF Live
<1>8. r \in ListType
  BY <1>1, <1>2, <1>5 DEF ListType
<1>9. \A i \in Indices(p) : r.items[i].file = p.items[i].file
  BY <1>6
<1>10. IsPlaylist(r)
  <2>1. \A g \in Files : r.tree[g] # None =>
          r.tree[g] \in Indices(r) /\ r.items[r.tree[g]].file = g
    BY <1>2, <1>5, <1>9, PlaylistFacts
  <2>2. \A i \in Live(r) : r.tree[r.items[i].file] = i
    BY <1>1, <1>2, <1>7, <1>9, ItemTypes, PlaylistFacts
  <2> QED
    BY <1>8, <2>1, <2>2, MakePlaylist
<1>11. LiveFiles(r) = LiveFiles(p) \ {p.items[k].file}
  <2>1. ASSUME NEW i \in Live(p), i # k PROVE p.items[i].file # p.items[k].file
    BY <2>1, PlaylistFacts
  <2>2. \A i \in Live(p) : r.items[i].file = p.items[i].file
    BY <1>1, <1>9, ItemTypes
  <2>3. LiveFiles(r) = {p.items[i].file : i \in Live(p) \ {k}}
    BY <1>7, <2>2 DEF LiveFiles
  <2> QED
    BY <2>1, <2>3 DEF LiveFiles
<1>12. r.items # <<>>
  BY <1>1, <1>5 DEF Indices
<1> QED
  BY <1>5, <1>10, <1>11, <1>12 DEF r

(* Deleting by name. *)
LEMMA DeleteFnameFacts ==
    ASSUME NEW p, IsPlaylist(p), NEW f
    PROVE  LET r == DeleteFname(p, f)
           IN  /\ IsPlaylist(r)
               /\ LiveFiles(r) = LiveFiles(p) \ {f}
               /\ r.items # <<>> => p.items # <<>>
<1>1. CASE FindFname(p, f) = None
  <2>1. f \notin LiveFiles(p) /\ DeleteFname(p, f) = p
    BY <1>1, FindFacts DEF DeleteFname
  <2> QED
    BY <2>1
<1>2. CASE FindFname(p, f) # None
  <2>1. FindFname(p, f) \in Live(p) /\ p.items[FindFname(p, f)].file = f
        /\ DeleteFname(p, f) = PlistDelete(p, FindFname(p, f))
    BY <1>2, FindFacts DEF DeleteFname
  <2>2. p.items # <<>>
    BY <2>1 DEF Live, Indices
  <2> QED
    BY <2>1, <2>2, DeleteFacts
<1> QED
  BY <1>1, <1>2

(* The empty list. *)
LEMMA EmptyFacts ==
    /\ IsPlaylist(EmptyList)
    /\ Live(EmptyList) = {} /\ Indices(EmptyList) = {} /\ LiveFiles(EmptyList) = {}
    /\ EmptyList.items = <<>>
<1>1. EmptyList.items = <<>> /\ EmptyList.tree = [f \in Files |-> None] /\ EmptyList \in ListType
  <2>1. <<>> \in Seq(Item)
    BY EmptyType
  <2> QED
    BY <2>1 DEF EmptyList, ListType, None
<1>2. Indices(EmptyList) = {}
  BY <1>1 DEF Indices
<1>3. Live(EmptyList) = {} /\ LiveFiles(EmptyList) = {}
  BY <1>2 DEF Live, LiveFiles
<1>4. \A f \in Files : EmptyList.tree[f] = None
  BY <1>1
<1> HIDE DEF EmptyList
<1>5. IsPlaylist(EmptyList)
  BY <1>1, <1>3, <1>4, MakePlaylist
<1> QED
  BY <1>1, <1>2, <1>3, <1>5

-----------------------------------------------------------------------------
(* Lists that are made anew. *)

(* A list without deleted items. *)
Clean(p) == IsPlaylist(p) /\ Live(p) = Indices(p)

(* One turn of the loop of plist_cat. *)
CatStep(p, it) ==
    IF it.deleted \/ FindFname(p, it.file) # None THEN p ELSE PlistAdd(p, it.file)

LEMMA CatStepFacts ==
    ASSUME NEW p, Clean(p), NEW it \in Item
    PROVE  LET r == CatStep(p, it)
           IN  /\ Clean(r)
               /\ LiveFiles(r) = LiveFiles(p) \cup (IF it.deleted THEN {} ELSE {it.file})
<1>1. it.file \in Files /\ it.deleted \in BOOLEAN
  BY DEF Item
<1>2. CASE it.deleted
  BY <1>2 DEF CatStep
<1>3. CASE ~it.deleted /\ FindFname(p, it.file) # None
  BY <1>3, FindFacts DEF CatStep, Clean
<1>4. CASE ~it.deleted /\ FindFname(p, it.file) = None
  <2>1. it.file \notin LiveFiles(p)
    BY <1>4, FindFacts DEF Clean
  <2>2. CatStep(p, it) = PlistAdd(p, it.file)
    BY <1>4 DEF CatStep
  <2> DEFINE r == PlistAdd(p, it.file)
  <2>3. /\ IsPlaylist(r)
        /\ Live(r) = Live(p) \cup {Len(p.items) + 1}
        /\ Indices(r) = Indices(p) \cup {Len(p.items) + 1}
        /\ LiveFiles(r) = LiveFiles(p) \cup {it.file}
    BY <1>1, <2>1, AddFacts DEF Clean
  <2> HIDE DEF r
  <2>4. Clean(r)
    BY <2>3 DEF Clean
  <2> QED
    BY <1>4, <2>2, <2>3, <2>4 DEF r
<1> QED
  BY <1>2, <1>3, <1>4

(* plist_cat adds the files that are live in b, and nothing that is deleted. *)
LEMMA CatFacts ==
    ASSUME NEW a, Clean(a), NEW b, IsPlaylist(b)
    PROVE  /\ Clean(PlistCat(a, b))
           /\ LiveFiles(PlistCat(a, b)) = LiveFiles(a) \cup LiveFiles(b)
<1> DEFINE L == Len(b.items)
           S == {p \in ListType : Clean(p)}
           h == [x \in S \X (1..L) |-> CatStep(x[1], b.items[x[2]])]
           F(g) == [n \in 0..L |->
                      IF n = 0 THEN a
                      ELSE LET p  == g[n - 1]
                               it == b.items[n]
                           IN  IF it.deleted \/ FindFname(p, it.file) # None THEN p
                               ELSE PlistAdd(p, it.file)]
           cat == CHOOSE g : g = F(g)
<1>1. L \in Nat /\ \A n \in 1..L : b.items[n] \in Item
  <2>1. b \in ListType
    BY PlaylistFacts
  <2> QED
    BY <2>1, ItemTypes
<1>2. PlistCat(a, b) = cat[L]
  BY DEF PlistCat
<1>3. a \in S
  BY PlaylistFacts DEF Clean
<1>4. h \in [S \X (1..L) -> S] /\ \A p \in S, n \in 1..L : h[<<p, n>>] = CatStep(p, b.items[n])
  <2>1. \A p \in S, n \in 1..L : h[<<p, n>>] = CatStep(p, b.items[n])
    OBVIOUS
  <2>2. ASSUME NEW p \in S, NEW n \in 1..L PROVE CatStep(p, b.items[n]) \in S
    <3>1. Clean(CatStep(p, b.items[n]))
      BY <1>1, CatStepFacts
    <3> QED
      BY <3>1, PlaylistFacts DEF Clean
  <2>3. h \in [S \X (1..L) -> S]
    <3> HIDE DEF S
    <3> QED
      BY <2>2
  <2> QED
    BY <2>1, <2>3
<1> HIDE DEF h, L
<1>5. PICK g \in [0..L -> S] : Unrolls(g, a, L, h)
  <2> HIDE DEF S
  <2> QED
    BY <1>1, <1>3, <1>4, Recursion
<1>6. g = F(g)
  <2>1. ASSUME NEW n \in 0..L PROVE g[n] = F(g)[n]
    <3>1. CASE n = 0
      BY <1>1, <1>5, <3>1 DEF Unrolls
    <3>2. CASE n # 0
      <4>1. n \in 1..L /\ n - 1 \in 0..L
        BY <1>1, <3>2
      <4>2. g[n] = CatStep(g[n - 1], b.items[n])
        BY <1>4, <1>5, <4>1 DEF Unrolls
      <4> QED
        BY <3>2, <4>2 DEF CatStep
    <3> QED
      BY <3>1, <3>2
  <2> HIDE DEF S
  <2> QED
    BY <2>1
<1>7. cat = F(cat)
  <2> HIDE DEF F
  <2> QED
    BY <1>6
<1>8. cat[0] = a /\ \A n \in 1..L : cat[n] = CatStep(cat[n - 1], b.items[n])
  <2> HIDE DEF cat
  <2>1. ASSUME NEW n \in 0..L PROVE cat[n] = F(cat)[n]
    BY <1>7
  <2>2. 0 \in 0..L /\ \A n \in 1..L : n \in 0..L /\ n # 0
    BY <1>1
  <2> QED
    BY <2>1, <2>2 DEF CatStep
<1> HIDE DEF cat, F, S
<1> DEFINE LiveUpto(n) == {b.items[i].file : i \in {k \in 1..n : ~b.items[k].deleted}}
           Good(n) == Clean(cat[n]) /\ LiveFiles(cat[n]) = LiveFiles(a) \cup LiveUpto(n)
           T == {n \in Nat : n <= L => Good(n)}
<1>9. 0 \in T
  <2>1. LiveUpto(0) = {}
    OBVIOUS
  <2> QED
    BY <1>8, <2>1
<1>10. ASSUME NEW n \in Nat, n \in T PROVE n + 1 \in T
  <2> SUFFICES ASSUME n + 1 <= L PROVE Good(n + 1)
    OBVIOUS
  <2> DEFINE it == b.items[n + 1]
  <2>1. n + 1 \in 1..L /\ n + 1 - 1 = n /\ n <= L
    BY <1>1
  <2>2. it \in Item /\ cat[n + 1] = CatStep(cat[n], it)
    BY <1>1, <1>8, <2>1
  <2>3. Good(n)
    BY <1>10, <2>1
  <2>4. LiveUpto(n + 1) = LiveUpto(n) \cup (IF it.deleted THEN {} ELSE {it.file})
    <3>1. {k \in 1..(n + 1) : ~b.items[k].deleted}
            = {k \in 1..n : ~b.items[k].deleted} \cup (IF it.deleted THEN {} ELSE {n + 1})
      OBVIOUS
    <3> HIDE DEF it
    <3>2. CASE it.deleted
      BY <3>1, <3>2
    <3>3. CASE ~it.deleted
      BY <3>1, <3>3 DEF it
    <3> QED
      BY <3>2, <3>3
  <2> HIDE DEF it, LiveUpto
  <2>5. Clean(cat[n + 1])
        /\ LiveFiles(cat[n + 1]) = LiveFiles(cat[n]) \cup (IF it.deleted THEN {} ELSE {it.file})
    BY <2>2, <2>3, CatStepFacts
  <2> QED
    BY <2>3, <2>4, <2>5
<1>11. L \in T
  <2> HIDE DEF T
  <2> QED
    BY <1>1, <1>9, <1>10, SetInduction
<1>12. Good(L)
  BY <1>1, <1>11
<1>13. LiveUpto(L) = LiveFiles(b)
  <2>1. Live(b) = {k \in 1..L : ~b.items[k].deleted}
    <3>1. b \in ListType
      BY PlaylistFacts
    <3> QED
      BY <3>1, ItemTypes DEF Live, L
  <2> QED
    BY <2>1 DEF LiveFiles
<1> HIDE DEF LiveUpto
<1> QED
  BY <1>2, <1>12, <1>13

(* The tree over a list finds indices. *)
LEMMA TreeOverType ==
    ASSUME NEW items \in Seq(Item)
    PROVE  TreeOver(items) \in [Files -> Nat]
<1> SUFFICES ASSUME NEW f \in Files
             PROVE  TreeOver(items)[f] \in Nat
  BY DEF TreeOver
<1> DEFINE at == {k \in DOMAIN items : items[k].file = f}
<1>1. TreeOver(items)[f] = IF at = {} THEN None ELSE Max(at)
  BY DEF TreeOver
<1>2. CASE at = {}
  BY <1>1, <1>2 DEF None
<1>3. CASE at # {}
  <2>1. at \subseteq Nat /\ Len(items) \in Nat /\ \A k \in at : k <= Len(items)
    OBVIOUS
  <2>2. Max(at) \in at
    <3> HIDE DEF at
    <3> QED
      BY <1>3, <2>1, MaxFacts
  <2> QED
    BY <1>1, <1>3, <2>1, <2>2
<1> QED
  BY <1>2, <1>3

(* A list of which nothing is deleted, with a tree over it, is a playlist  *)
(* if no file is twice in it.                                              *)
LEMMA CleanByItems ==
    ASSUME NEW r, r \in ListType,
           \A i \in Indices(r) : ~r.items[i].deleted,
           \A i, j \in Indices(r) : r.items[i].file = r.items[j].file => i = j,
           r.tree = TreeOver(r.items)
    PROVE  Clean(r)
<1>1. Indices(r) \subseteq Nat \ {0} /\ \A i \in Indices(r) : r.items[i].file \in Files
  BY ItemTypes
<1>2. Live(r) = Indices(r)
  BY DEF Live
<1>3. ASSUME NEW i \in Indices(r) PROVE r.tree[r.items[i].file] = i
  <2> DEFINE at == {k \in Indices(r) : r.items[k].file = r.items[i].file}
  <2>1. at = {i}
    OBVIOUS
  <2>2. r.tree[r.items[i].file] = IF at = {} THEN None ELSE Max(at)
    BY <1>1 DEF TreeOver, Indices
  <2> HIDE DEF at
  <2>3. i \in Nat /\ r.tree[r.items[i].file] = Max({i})
    BY <1>1, <2>1, <2>2
  <2>4. Max({i}) = i
    BY <2>3 DEF Max
  <2> QED
    BY <2>3, <2>4
<1>4. ASSUME NEW f \in Files, r.tree[f] # None
      PROVE  r.tree[f] \in Indices(r) /\ r.items[r.tree[f]].file = f
  <2> DEFINE at == {k \in Indices(r) : r.items[k].file = f}
  <2>1. r.tree[f] = IF at = {} THEN None ELSE Max(at)
    BY DEF TreeOver, Indices
  <2>2. PICK k \in Indices(r) : r.items[k].file = f
    BY <1>4, <2>1
  <2>3. r.tree[f] = k
    BY <1>3, <2>2
  <2> QED
    BY <2>2, <2>3
<1>5. IsPlaylist(r)
  BY <1>2, <1>3, <1>4, MakePlaylist
<1> QED
  BY <1>2, <1>5 DEF Clean

(* An order of n items has each of them. *)
LEMMA OrderFacts ==
    ASSUME NEW n \in Nat, NEW pi \in Orders(n)
    PROVE  /\ pi \in [1..n -> 1..n]
           /\ \A i, j \in 1..n : pi[i] = pi[j] => i = j
           /\ \A k \in 1..n : \E i \in 1..n : pi[i] = k
<1>1. pi \in [1..n -> 1..n] /\ \A i \in 2..n : \A j \in 1..(i - 1) : pi[i] # pi[j]
  BY DEF Orders
<1>2. ASSUME NEW i \in 1..n, NEW j \in 1..n, pi[i] = pi[j] PROVE i = j
  <2>1. CASE j < i
    <3>1. i \in 2..n /\ j \in 1..(i - 1)
      BY <2>1
    <3> QED
      BY <1>1, <1>2, <3>1
  <2>2. CASE i < j
    <3>1. j \in 2..n /\ i \in 1..(j - 1)
      BY <2>2
    <3> QED
      BY <1>1, <1>2, <3>1
  <2> QED
    BY <2>1, <2>2
<1>3. pi \in Injection(1..n, 1..n)
  BY <1>1, <1>2 DEF Injection, IsInjective
<1>4. IsFiniteSet(1..n)
  BY FS_Interval
<1>5. pi \in Surjection(1..n, 1..n)
  BY <1>3, <1>4, FS_Injection
<1>6. \A k \in 1..n : \E i \in 1..n : pi[i] = k
  BY <1>5 DEF Surjection
<1> QED
  BY <1>1, <1>2, <1>6

(* plist_shuffle: the same files. *)
LEMMA ShuffledFacts ==
    ASSUME NEW p, Clean(p), NEW order \in Orders(Len(p.items))
    PROVE  Clean(Shuffled(p, order)) /\ LiveFiles(Shuffled(p, order)) = LiveFiles(p)
<1> DEFINE r == Shuffled(p, order)
           n == Len(p.items)
<1>1. p \in ListType /\ IsPlaylist(p) /\ Live(p) = Indices(p)
  BY PlaylistFacts DEF Clean
<1>2. p.items \in Seq(Item) /\ n \in Nat /\ Indices(p) = 1..n
      /\ \A i \in 1..n : p.items[i] \in Item /\ ~p.items[i].deleted
  BY <1>1, ItemTypes DEF Live
<1>3. /\ order \in [1..n -> 1..n]
      /\ \A i, j \in 1..n : order[i] = order[j] => i = j
      /\ \A k \in 1..n : \E i \in 1..n : order[i] = k
  BY <1>2, OrderFacts
<1>4. r.items = [i \in 1..n |-> p.items[order[i]]] /\ r.tree = TreeOver(r.items)
      /\ r = [items |-> r.items, tree |-> r.tree]
  BY <1>2 DEF Shuffled, Permuted
<1> HIDE DEF r, n
<1>5. r.items \in Seq(Item) /\ Indices(r) = 1..n /\ \A i \in 1..n : r.items[i] = p.items[order[i]]
  <2>1. r.items \in [1..n -> Item]
    BY <1>2, <1>3, <1>4
  <2> QED
    BY <1>2, <1>4, <2>1 DEF Indices
<1>6. r.tree \in [Files -> Nat]
  BY <1>4, <1>5, TreeOverType
<1>7. r \in ListType
  BY <1>4, <1>5, <1>6 DEF ListType
<1>8. \A i \in 1..n : ~r.items[i].deleted
  BY <1>2, <1>3, <1>5
<1>9. ASSUME NEW i \in 1..n, NEW j \in 1..n, r.items[i].file = r.items[j].file PROVE i = j
  <2>1. order[i] \in Live(p) /\ order[j] \in Live(p)
    BY <1>1, <1>2, <1>3
  <2>2. p.items[order[i]].file = p.items[order[j]].file
    BY <1>5, <1>9
  <2>3. order[i] = order[j]
    BY <1>1, <2>1, <2>2, PlaylistFacts
  <2> QED
    BY <1>3, <2>3
<1>10. Clean(r)
  BY <1>4, <1>5, <1>7, <1>8, <1>9, CleanByItems
<1>11. LiveFiles(r) = LiveFiles(p)
  <2>1. Live(r) = 1..n /\ Live(p) = 1..n
    BY <1>1, <1>2, <1>5, <1>10 DEF Clean
  <2>2. LiveFiles(r) = {p.items[order[i]].file : i \in 1..n}
    BY <1>5, <2>1 DEF LiveFiles
  <2>3. LiveFiles(p) = {p.items[k].file : k \in 1..n}
    BY <2>1 DEF LiveFiles
  <2>4. ASSUME NEW i \in 1..n PROVE p.items[order[i]].file \in LiveFiles(p)
    <3>1. order[i] \in 1..n
      BY <1>3
    <3> QED
      BY <2>3, <3>1
  <2>5. ASSUME NEW k \in 1..n PROVE p.items[k].file \in LiveFiles(r)
    <3>1. PICK i \in 1..n : order[i] = k
      BY <1>3
    <3> QED
      BY <2>2, <3>1
  <2> QED
    BY <2>2, <2>3, <2>4, <2>5
<1> QED
  BY <1>10, <1>11 DEF r

(* Two places exchanged. *)
LEMMA SwappedFacts ==
    ASSUME NEW items \in Seq(Item), NEW i \in DOMAIN items, NEW j \in DOMAIN items
    PROVE  LET s == Swapped(items, i, j)
           IN  /\ s \in Seq(Item) /\ DOMAIN s = DOMAIN items
               /\ s[i] = items[j] /\ s[j] = items[i]
               /\ \A k \in DOMAIN items : k \notin {i, j} => s[k] = items[k]
<1>1. DOMAIN items = 1..Len(items) /\ items \in [1..Len(items) -> Item]
  OBVIOUS
<1>2. items[i] \in Item /\ items[j] \in Item
  OBVIOUS
<1>3. Swapped(items, i, j) \in [1..Len(items) -> Item]
  BY <1>1, <1>2 DEF Swapped
<1> QED
  BY <1>1, <1>3 DEF Swapped

(* plist_swap_first_fname: the file, if it is there, is the first one. *)
LEMMA SwapFirstFacts ==
    ASSUME NEW p, Clean(p), NEW f
    PROVE  LET r == SwapFirst(p, f)
           IN  /\ Clean(r)
               /\ LiveFiles(r) = LiveFiles(p)
               /\ f \in LiveFiles(p) => FindFname(r, f) = 1
<1> DEFINE r == SwapFirst(p, f)
           i == FindFname(p, f)
           s == Swapped(p.items, 1, i)
           g == p.items[1].file
<1>1. p \in ListType /\ IsPlaylist(p) /\ Live(p) = Indices(p)
  BY PlaylistFacts DEF Clean
<1>2. CASE i \in {None, 1}
  <2>1. r = p
    BY <1>2 DEF SwapFirst
  <2>2. f \in LiveFiles(p) => i = 1
    BY <1>1, <1>2, FindFacts
  <2> QED
    BY <2>1, <2>2
<1>3. CASE i \notin {None, 1}
  <2>1. i \in Live(p) /\ p.items[i].file = f /\ f \in Files /\ i # 1
    BY <1>1, <1>3, FindFacts, FindLive
  <2>2. p.items \in Seq(Item) /\ p.tree \in [Files -> Nat] /\ i \in Indices(p) /\ 1 \in Indices(p)
        /\ Indices(p) = DOMAIN p.items /\ i \in Nat /\ i # None /\ g \in Files
    BY <1>1, <2>1, ItemTypes DEF Indices, None
  <2>3. /\ s \in Seq(Item) /\ DOMAIN s = DOMAIN p.items
        /\ s[1] = p.items[i] /\ s[i] = p.items[1]
        /\ \A k \in DOMAIN p.items : k \notin {1, i} => s[k] = p.items[k]
    <3> HIDE DEF i
    <3> QED
      BY <2>2, SwappedFacts
  <2>4. g # f
    BY <1>1, <2>1, <2>2, PlaylistFacts
  <2>5. r = [items |-> s, tree |-> [p.tree EXCEPT ![f] = None, ![g] = None,
                                                  ![s[1].file] = 1, ![s[i].file] = i]]
    BY <1>3 DEF SwapFirst
  <2>6. s[1].file = f /\ s[i].file = g
    BY <2>1, <2>3
  <2> HIDE DEF s, g, i, r
  <2>7. r.items = s /\ r.tree \in [Files -> Nat] /\ r.tree[f] = 1 /\ r.tree[g] = i
        /\ (\A h \in Files : h \notin {f, g} => r.tree[h] = p.tree[h])
    <3> DEFINE t == [p.tree EXCEPT ![f] = None, ![g] = None, ![f] = 1, ![g] = i]
    <3>1. t \in [Files -> Nat] /\ t[f] = 1 /\ t[g] = i
          /\ (\A h \in Files : h \notin {f, g} => t[h] = p.tree[h])
      BY <2>1, <2>2, <2>4 DEF None
    <3>2. r = [items |-> s, tree |-> t]
      BY <2>5, <2>6
    <3> HIDE DEF t
    <3> QED
      BY <3>1, <3>2
  <2>8. r \in ListType
    <3>1. r = [items |-> r.items, tree |-> r.tree]
      BY <2>5
    <3> QED
      BY <2>3, <2>7, <3>1 DEF ListType
  <2>9. Indices(r) = Indices(p) /\ Live(r) = Indices(r)
    <3>1. Indices(r) = Indices(p)
      BY <2>2, <2>3, <2>7 DEF Indices
    <3>2. \A k \in Indices(p) : ~p.items[k].deleted
      BY <1>1 DEF Live
    <3>3. \A k \in Indices(p) : ~s[k].deleted
      BY <2>2, <2>3, <3>2
    <3> QED
      BY <2>7, <3>1, <3>3 DEF Live
  <2>10. \A k \in Indices(p) : k \notin {1, i} => p.items[k].file \notin {f, g}
    <3>1. p.tree[f] = i /\ p.tree[g] = 1
      BY <1>1, <2>1, <2>2, PlaylistFacts DEF g
    <3> QED
      BY <1>1, <3>1, PlaylistFacts
  <2>11. ASSUME NEW h \in Files, r.tree[h] # None
         PROVE  r.tree[h] \in Indices(r) /\ r.items[r.tree[h]].file = h
    <3>1. CASE h = f
      BY <2>2, <2>6, <2>7, <2>9, <3>1
    <3>2. CASE h = g
      BY <2>2, <2>6, <2>7, <2>9, <3>2
    <3>3. CASE h \notin {f, g}
      <4>1. p.tree[h] \in Indices(p) /\ p.items[p.tree[h]].file = h /\ r.tree[h] = p.tree[h]
        BY <1>1, <2>7, <2>11, <3>3, PlaylistFacts
      <4>2. p.tree[h] \notin {1, i}
        BY <2>1, <3>3, <4>1 DEF g
      <4> QED
        BY <2>2, <2>3, <2>7, <2>9, <4>1, <4>2
    <3> QED
      BY <3>1, <3>2, <3>3
  <2>12. ASSUME NEW k \in Live(r) PROVE r.tree[r.items[k].file] = k
    <3>1. k \in Indices(p) /\ k \in Live(p)
      BY <1>1, <2>9, <2>12
    <3>2. CASE k = 1
      BY <2>6, <2>7, <3>2
    <3>3. CASE k = i
      BY <2>6, <2>7, <3>3
    <3>4. CASE k \notin {1, i}
      <4>1. s[k] = p.items[k] /\ p.items[k].file \notin {f, g} /\ p.items[k].file \in Files
            /\ p.tree[p.items[k].file] = k
        BY <1>1, <2>2, <2>3, <2>10, <3>1, <3>4, PlaylistFacts
      <4> QED
        BY <2>7, <4>1
    <3> QED
      BY <3>2, <3>3, <3>4
  <2>13. Clean(r)
    BY <2>8, <2>9, <2>11, <2>12, MakePlaylist DEF Clean
  <2>14. LiveFiles(r) = LiveFiles(p)
    <3>1. LiveFiles(r) = {s[k].file : k \in Indices(p)}
      BY <2>7, <2>9 DEF LiveFiles
    <3>2. LiveFiles(p) = {p.items[k].file : k \in Indices(p)}
      BY <1>1 DEF LiveFiles
    <3>3. ASSUME NEW k \in Indices(p) PROVE s[k].file \in LiveFiles(p)
      <4>1. k = 1 \/ k = i \/ s[k] = p.items[k]
        BY <2>2, <2>3
      <4> QED
        BY <2>2, <2>3, <3>2, <4>1
    <3>4. ASSUME NEW k \in Indices(p) PROVE p.items[k].file \in LiveFiles(r)
      <4>1. CASE k = 1
        BY <2>2, <2>3, <3>1, <4>1
      <4>2. CASE k = i
        BY <2>2, <2>3, <3>1, <4>2
      <4>3. CASE k \notin {1, i}
        BY <2>2, <2>3, <3>1, <4>3
      <4> QED
        BY <4>1, <4>2, <4>3
    <3> QED
      BY <3>1, <3>2, <3>3, <3>4
  <2>15. FindFname(r, f) = 1
    BY <2>2, <2>1, <2>7, <2>9 DEF FindFname
  <2> QED
    BY <2>13, <2>14, <2>15 DEF r
<1> QED
  BY <1>2, <1>3

(* plist_swap_files of two files of the list. *)
LEMMA SwapFilesFacts ==
    ASSUME NEW p, IsPlaylist(p), NEW f \in LiveFiles(p), NEW g \in LiveFiles(p), f # g
    PROVE  /\ IsPlaylist(SwapFiles(p, f, g))
           /\ LiveFiles(SwapFiles(p, f, g)) = LiveFiles(p)
<1> DEFINE r == SwapFiles(p, f, g)
           i == p.tree[f]
           j == p.tree[g]
           s == Swapped(p.items, i, j)
<1>1. p \in ListType
  BY PlaylistFacts
<1>2. i \in Live(p) /\ p.items[i].file = f /\ f \in Files /\ j \in Live(p) /\ p.items[j].file = g /\ g \in Files
  BY PlaylistFacts DEF LiveFiles
<1>3. p.items \in Seq(Item) /\ p.tree \in [Files -> Nat] /\ i \in Indices(p) /\ j \in Indices(p)
      /\ Indices(p) = DOMAIN p.items /\ i \in Nat /\ i # None /\ j \in Nat /\ j # None /\ i # j
  BY <1>1, <1>2, ItemTypes DEF Indices, None
<1>4. /\ s \in Seq(Item) /\ DOMAIN s = DOMAIN p.items
      /\ s[i] = p.items[j] /\ s[j] = p.items[i]
      /\ \A k \in DOMAIN p.items : k \notin {i, j} => s[k] = p.items[k]
  <2> HIDE DEF i, j
  <2> QED
    BY <1>3, SwappedFacts
<1>5. r = [items |-> s, tree |-> [p.tree EXCEPT ![f] = j, ![g] = i]]
  BY <1>3 DEF SwapFiles
<1> HIDE DEF s, r
<1>6. r.items = s /\ r.tree \in [Files -> Nat] /\ r.tree[f] = j /\ r.tree[g] = i
      /\ (\A h \in Files : h \notin {f, g} => r.tree[h] = p.tree[h])
  BY <1>2, <1>3, <1>5
<1>7. r \in ListType
  <2>1. r = [items |-> r.items, tree |-> r.tree]
    BY <1>5
  <2> QED
    BY <1>4, <1>6, <2>1 DEF ListType
<1>8. Indices(r) = Indices(p) /\ Live(r) = Live(p)
  <2>1. Indices(r) = Indices(p)
    BY <1>3, <1>4, <1>6 DEF Indices
  <2>2. ASSUME NEW k \in Indices(p) PROVE r.items[k].deleted <=> p.items[k].deleted
    <3>1. ~p.items[i].deleted /\ ~p.items[j].deleted
      BY <1>2 DEF Live
    <3>2. CASE k = i
      BY <1>4, <1>6, <3>1, <3>2
    <3>3. CASE k = j
      BY <1>4, <1>6, <3>1, <3>3
    <3>4. CASE k \notin {i, j}
      BY <1>3, <1>4, <1>6, <3>4
    <3> QED
      BY <3>2, <3>3, <3>4
  <2> QED
    BY <2>1, <2>2 DEF Live
<1>9. ASSUME NEW h \in Files, r.tree[h] # None
      PROVE  r.tree[h] \in Indices(r) /\ r.items[r.tree[h]].file = h
  <2>1. CASE h = f
    BY <1>2, <1>3, <1>4, <1>6, <1>8, <2>1
  <2>2. CASE h = g
    BY <1>2, <1>3, <1>4, <1>6, <1>8, <2>2
  <2>3. CASE h \notin {f, g}
    <3>1. p.tree[h] \in Indices(p) /\ p.items[p.tree[h]].file = h /\ r.tree[h] = p.tree[h]
      BY <1>6, <1>9, <2>3, PlaylistFacts
    <3>2. p.tree[h] \notin {i, j}
      BY <1>2, <2>3, <3>1
    <3> QED
      BY <1>3, <1>4, <1>6, <1>8, <3>1, <3>2
  <2> QED
    BY <2>1, <2>2, <2>3
<1>10. ASSUME NEW k \in Live(r) PROVE r.tree[r.items[k].file] = k
  <2>1. k \in Live(p) /\ k \in Indices(p)
    BY <1>1, <1>8, <1>10, ItemTypes
  <2>2. CASE k = i
    BY <1>2, <1>4, <1>6, <2>2
  <2>3. CASE k = j
    BY <1>2, <1>4, <1>6, <2>3
  <2>4. CASE k \notin {i, j}
    <3>1. s[k] = p.items[k] /\ p.tree[p.items[k].file] = k /\ p.items[k].file \in Files
      BY <1>3, <1>4, <2>1, <2>4, PlaylistFacts
    <3>2. p.items[k].file \notin {f, g}
      BY <2>4, <3>1
    <3> QED
      BY <1>6, <3>1, <3>2
  <2> QED
    BY <2>2, <2>3, <2>4
<1>11. IsPlaylist(r)
  BY <1>7, <1>9, <1>10, MakePlaylist
<1>12. LiveFiles(r) = LiveFiles(p)
  <2>1. LiveFiles(r) = {s[k].file : k \in Live(p)}
    BY <1>6, <1>8 DEF LiveFiles
  <2> HIDE DEF i, j
  <2>2. ASSUME NEW k \in Live(p) PROVE s[k].file \in LiveFiles(p) /\ p.items[k].file \in LiveFiles(r)
    <3>1. k \in DOMAIN p.items
      BY <1>1, <1>3, <2>2, ItemTypes
    <3>2. CASE k = i
      BY <1>2, <1>4, <2>1, <3>2 DEF LiveFiles
    <3>3. CASE k = j
      BY <1>2, <1>4, <2>1, <3>3 DEF LiveFiles
    <3>4. CASE k \notin {i, j}
      BY <1>4, <2>1, <3>1, <3>4 DEF LiveFiles
    <3> QED
      BY <3>2, <3>3, <3>4
  <2> QED
    BY <2>1, <2>2 DEF LiveFiles
<1> QED
  BY <1>11, <1>12 DEF r

(* The playlist that the interface has sent at first. *)
LEMMA FirstFacts == Init => Clean(playlist)
<1> SUFFICES ASSUME Init PROVE Clean(playlist)
  OBVIOUS
<1> DEFINE items == [i \in DOMAIN FirstItems |-> [file |-> FirstItems[i], deleted |-> FALSE]]
<1>1. playlist = [items |-> items, tree |-> TreeOver(items)]
  BY DEF Init
<1>2. FirstItems \in Seq(Files) /\ \A i, j \in DOMAIN FirstItems : FirstItems[i] = FirstItems[j] => i = j
  BY FirstAssumption DEF IsInjective
<1>3. items \in Seq(Item) /\ DOMAIN items = DOMAIN FirstItems
      /\ \A i \in DOMAIN items : items[i].file = FirstItems[i] /\ items[i].deleted = FALSE
  <2>1. \A i \in DOMAIN FirstItems : [file |-> FirstItems[i], deleted |-> FALSE] \in Item
    BY <1>2 DEF Item
  <2>2. items \in [1..Len(FirstItems) -> Item]
    BY <1>2, <2>1
  <2> QED
    BY <1>2, <2>2
<1> HIDE DEF items
<1>4. playlist \in ListType /\ playlist.items = items /\ playlist.tree = TreeOver(items)
  BY <1>1, <1>3, TreeOverType DEF ListType
<1>5. Indices(playlist) = DOMAIN items
  BY <1>4 DEF Indices
<1>6. \A i, j \in DOMAIN items : items[i].file = items[j].file => i = j
  BY <1>2, <1>3
<1> QED
  BY <1>3, <1>4, <1>5, <1>6, CleanByItems

(* The empty list has nothing deleted. *)
LEMMA EmptyClean == Clean(EmptyList)
  BY EmptyFacts DEF Clean

(* A shuffled copy of the playlist. *)
LEMMA FreshFacts ==
    ASSUME IsPlaylist(playlist), NEW p, Clean(p), LiveFiles(p) = {}, NEW s \in Fresh(p)
    PROVE  Clean(s) /\ LiveFiles(s) = LiveFiles(playlist)
<1> DEFINE all == PlistCat(p, playlist)
<1>1. Clean(all) /\ LiveFiles(all) = LiveFiles(playlist)
  BY CatFacts
<1>2. PICK order \in Orders(Len(all.items)) : s = Shuffled(all, order)
  BY DEF Fresh
<1> HIDE DEF all
<1> QED
  BY <1>1, <1>2, ShuffledFacts

-----------------------------------------------------------------------------
(* The three lists, at every step. *)

ListsInv ==
    /\ IsPlaylist(playlist) /\ IsPlaylist(shuffled) /\ IsPlaylist(queue)
    /\ ShuffledIsPlaylist

(* If nothing is drawn, nothing is in the shuffled list, not even a deleted *)
(* item: so what is added to it is added to an empty list.                 *)
LEMMA NothingDrawnFacts ==
    ASSUME ListsInv, NothingDrawn
    PROVE  Clean(shuffled) /\ LiveFiles(shuffled) = {}
<1>1. Live(shuffled) = {} /\ LiveFiles(shuffled) = {} /\ LiveFiles(playlist) # {}
  BY CountFacts DEF ListsInv, NothingDrawn
<1>2. shuffled.items = <<>>
  BY <1>1 DEF ListsInv, ShuffledIsPlaylist
<1>3. Indices(shuffled) = {}
  BY <1>2 DEF Indices
<1> QED
  BY <1>1, <1>3 DEF Clean, ListsInv

(* What go_to_another_file() goes on in. *)
LEMMA DrawnFacts ==
    ASSUME ListsInv, NEW p \in Drawn
    PROVE  /\ IsPlaylist(p)
           /\ p.items # <<>> => LiveFiles(p) = LiveFiles(playlist)
           /\ NothingDrawn => /\ Clean(p)
                              /\ LiveFiles(p) = LiveFiles(playlist)
                              /\ Returned \in LiveFiles(playlist) => FindFname(p, Returned) = 1
           /\ ~NothingDrawn => p = shuffled
<1>1. CASE NothingDrawn
  <2>1. PICK s \in Fresh(shuffled) : p = SwapFirst(s, Returned)
    BY <1>1 DEF Drawn
  <2>2. Clean(s) /\ LiveFiles(s) = LiveFiles(playlist)
    BY <1>1, NothingDrawnFacts, FreshFacts DEF ListsInv
  <2>3. Clean(p) /\ LiveFiles(p) = LiveFiles(s) /\ (Returned \in LiveFiles(s) => FindFname(p, Returned) = 1)
    BY <2>1, <2>2, SwapFirstFacts
  <2> QED
    BY <1>1, <2>2, <2>3 DEF Clean
<1>2. CASE ~NothingDrawn
  BY <1>2 DEF Drawn, ListsInv, ShuffledIsPlaylist
<1> QED
  BY <1>1, <1>2

LEMMA CandidateFacts ==
    ASSUME ListsInv, NEW p \in Candidates
    PROVE  /\ IsPlaylist(p)
           /\ option["Shuffle"] => p \in Drawn
           /\ ~option["Shuffle"] => p = playlist
  BY DrawnFacts DEF Candidates, ListsInv

(* The list that was chosen stays the shuffled one, or that is left alone. *)
LEMMA KeptFacts ==
    ASSUME ListsInv, NEW p, Kept(p), playlist' = playlist, queue' = queue,
           \/ p \in Candidates
           \/ option["Shuffle"] /\ p \in Fresh(EmptyList)
    PROVE  ListsInv'
<1>1. CASE option["Shuffle"]
  <2>1. IsPlaylist(p) /\ (p.items # <<>> => LiveFiles(p) = LiveFiles(playlist))
    <3>1. CASE p \in Candidates
      BY <1>1, <3>1, CandidateFacts, DrawnFacts
    <3>2. CASE p \in Fresh(EmptyList)
      <4>1. Clean(p) /\ LiveFiles(p) = LiveFiles(playlist)
        BY <3>2, EmptyClean, EmptyFacts, FreshFacts DEF ListsInv
      <4> QED
        BY <4>1 DEF Clean
    <3> QED
      BY <3>1, <3>2
  <2>2. shuffled' = p
    BY <1>1 DEF Kept
  <2> QED
    BY <2>1, <2>2 DEF ListsInv, ShuffledIsPlaylist
<1>2. CASE ~option["Shuffle"]
  BY <1>2 DEF Kept, ListsInv, ShuffledIsPlaylist
<1> QED
  BY <1>1, <1>2

(* The song that is played from the queue is one. *)
LEMMA PoppedFacts ==
    ASSUME IsPlaylist(queue), Count(queue) > 0
    PROVE  /\ PlistNext(queue, None) \in Live(queue)
           /\ IsPlaylist(Popped) /\ Indices(Popped) = Indices(queue)
<1>1. Live(queue) # {} /\ 0 \in Nat
  BY CountFacts
<1>2. PlistNext(queue, None) # None
  <2>1. PICK i \in Live(queue) : TRUE
    BY <1>1
  <2>2. i \in Nat \ {0}
    BY <2>1, PlaylistFacts, ItemTypes
  <2> QED
    BY <1>1, <2>2, NextFacts DEF None
<1>3. PlistNext(queue, None) \in Live(queue)
  BY <1>1, <1>2, NextFacts DEF None
<1> QED
  BY <1>3, DeleteFacts DEF Popped

(* audio_play() draws a new order, or leaves the lists alone. *)
LEMMA PlayFromListKeepsLists == ASSUME ListsInv, PlayFromList PROVE ListsInv'
<1>1. CASE option["Shuffle"]
  <2>1. PICK s \in Fresh(EmptyList) : shuffled' = SwapFirst(s, target)
    BY <1>1 DEF PlayFromList
  <2>2. Clean(s) /\ LiveFiles(s) = LiveFiles(playlist)
    BY EmptyClean, EmptyFacts, FreshFacts DEF ListsInv
  <2>3. Clean(shuffled') /\ LiveFiles(shuffled') = LiveFiles(playlist)
    BY <2>1, <2>2, SwapFirstFacts
  <2> QED
    BY <2>3 DEF PlayFromList, ListsInv, ShuffledIsPlaylist, Clean
<1>2. CASE ~option["Shuffle"]
  BY <1>2 DEF PlayFromList, ListsInv, ShuffledIsPlaylist
<1> QED
  BY <1>1, <1>2

(* An addition to a list. *)
LEMMA AddedFacts ==
    ASSUME NEW p, IsPlaylist(p), NEW f \in Files
    PROVE  IsPlaylist(Added(p, f))
  BY FindFacts, AddFacts DEF Added

(* The edits of the user keep the lists, and what is shuffled is still the *)
(* playlist.                                                               *)
LEMMA EditPlaylistKeepsLists == ASSUME ListsInv, EditPlaylist PROVE ListsInv'
<1> USE DEF ListsInv, ShuffledIsPlaylist
<1>0. queue' = queue
  BY DEF EditPlaylist
<1>1. ASSUME NEW f \in Files, playlist' = Added(playlist, f), shuffled' = Reordered PROVE ListsInv'
  <2>1. IsPlaylist(playlist') /\ IsPlaylist(shuffled') /\ shuffled'.items = <<>>
    BY <1>1, AddedFacts, EmptyFacts DEF Reordered
  <2> QED
    BY <1>0, <2>1
<1>2. ASSUME NEW f \in Files, playlist' = DeleteFname(playlist, f), shuffled' = DeleteFname(shuffled, f)
      PROVE  ListsInv'
  <2>1. IsPlaylist(playlist') /\ LiveFiles(playlist') = LiveFiles(playlist) \ {f}
    BY <1>2, DeleteFnameFacts
  <2>2. /\ IsPlaylist(shuffled') /\ LiveFiles(shuffled') = LiveFiles(shuffled) \ {f}
        /\ shuffled'.items # <<>> => shuffled.items # <<>>
    BY <1>2, DeleteFnameFacts
  <2> QED
    BY <1>0, <2>1, <2>2
<1>3. ASSUME NEW f \in LiveFiles(playlist), NEW g \in LiveFiles(playlist), f # g,
             playlist' = SwapFiles(playlist, f, g), shuffled' = shuffled
      PROVE  ListsInv'
  <2>1. IsPlaylist(playlist') /\ LiveFiles(playlist') = LiveFiles(playlist)
    BY <1>3, SwapFilesFacts
  <2> QED
    BY <1>0, <1>3, <2>1
<1>4. CASE playlist' = EmptyList /\ shuffled' = EmptyList
  <2>1. IsPlaylist(playlist') /\ IsPlaylist(shuffled') /\ shuffled'.items = <<>>
    BY <1>4, EmptyFacts
  <2> QED
    BY <1>0, <2>1
<1> QED
  BY <1>1, <1>2, <1>3, <1>4 DEF EditPlaylist

LEMMA EditQueueKeepsLists == ASSUME ListsInv, EditQueue PROVE ListsInv'
<1> USE DEF ListsInv, ShuffledIsPlaylist
<1>1. playlist' = playlist /\ shuffled' = shuffled
  BY DEF EditQueue
<1>2. IsPlaylist(queue')
  <2>1. CASE \E f \in Files : queue' = Added(queue, f)
    BY <2>1, AddedFacts
  <2>2. CASE \E f \in LiveFiles(queue) : queue' = DeleteFname(queue, f)
    BY <2>2, DeleteFnameFacts
  <2>3. CASE queue' = EmptyList
    BY <2>3, EmptyFacts
  <2> QED
    BY <2>1, <2>2, <2>3 DEF EditQueue
<1> QED
  BY <1>1, <1>2

(* The thread's choice of what to play next keeps them. *)
LEMMA ChoiceKeepsLists == ASSUME ListsInv, GoToAnotherFile PROVE ListsInv'
<1>1. CASE GoToQueue
  <2>1. IsPlaylist(queue') /\ playlist' = playlist /\ shuffled' = shuffled
    BY <1>1, PoppedFacts DEF GoToQueue, ListsInv
  <2> QED
    BY <2>1 DEF ListsInv, ShuffledIsPlaylist
<1>2. CASE GoPrev
  <2>1. PICK p \in Candidates : Kept(p) /\ InList
    BY <1>2 DEF GoPrev
  <2> QED
    BY <2>1, KeptFacts DEF InList
<1>3. CASE GoForward
  <2>1. PICK p \in Candidates :
          /\ InList
          /\ \E again \in IF option["Shuffle"] /\ PlistNext(p, IF AtStart(p) THEN None ELSE Place(p)) = None
                             /\ option["Repeat"]
                          THEN Fresh(EmptyList) ELSE {p} : Kept(again)
    BY <1>3 DEF GoForward
  <2>2. PICK again : Kept(again) /\ (again = p \/ (option["Shuffle"] /\ again \in Fresh(EmptyList)))
    BY <2>1
  <2> QED
    BY <2>1, <2>2, KeptFacts DEF InList
<1>4. CASE Stay
  <2>1. PICK p \in Candidates : Kept(p) /\ InList
    BY <1>4 DEF Stay
  <2> QED
    BY <2>1, KeptFacts DEF InList
<1> QED
  BY <1>1, <1>2, <1>3, <1>4 DEF GoToAnotherFile

(* So does every step. *)
LEMMA NextKeepsLists == ListsInv /\ [Next]_orderVars => ListsInv'
<1> SUFFICES ASSUME ListsInv, [Next]_orderVars PROVE ListsInv'
  OBVIOUS
<1>1. CASE UNCHANGED lists
  BY <1>1 DEF lists, ListsInv, ShuffledIsPlaylist
<1>2. CASE PickFile \/ StartFile \/ PlayerReturns \/ FileEnded \/ ThreadEnds
  BY <1>1, <1>2 DEF PickFile, StartFile, PlayerReturns, FileEnded, ThreadEnds, lists
<1>3. CASE GoToAnotherFile
  BY <1>3, ChoiceKeepsLists
<1>4. CASE Interface
  <2>1. CASE \E f \in Files \cup {NoFile, NoCall} : StopOrPlay(f)
    BY <1>1, <2>1 DEF StopOrPlay, lists
  <2>2. CASE Skip \/ Toggle
    BY <1>1, <2>2 DEF Skip, Toggle, lists
  <2> QED
    BY <1>4, <2>1, <2>2, EditPlaylistKeepsLists, EditQueueKeepsLists DEF Interface
<1>5. CASE Joined
  BY <1>1, <1>5 DEF Joined, lists
<1>6. CASE PlayStarts
  <2>1. CASE PlayFromQueue
    <3>1. IsPlaylist(queue') /\ playlist' = playlist /\ shuffled' = shuffled
      BY <2>1, PoppedFacts DEF PlayFromQueue, FromQueue, ListsInv
    <3> QED
      BY <3>1 DEF ListsInv, ShuffledIsPlaylist
  <2> QED
    BY <1>6, <2>1, PlayFromListKeepsLists DEF PlayStarts
<1>7. CASE UNCHANGED orderVars
  BY <1>1, <1>7 DEF orderVars
<1> QED
  BY <1>2, <1>3, <1>4, <1>5, <1>6, <1>7 DEF Next, PlayingThread, UiGoesOn

(* The lists at the start. *)
LEMMA InitLists == Init => ListsInv
<1> SUFFICES ASSUME Init PROVE ListsInv
  OBVIOUS
<1>1. IsPlaylist(playlist) /\ shuffled = EmptyList /\ queue = EmptyList
  BY FirstFacts DEF Init, Clean
<1> QED
  BY <1>1, EmptyFacts DEF ListsInv, ShuffledIsPlaylist

-----------------------------------------------------------------------------
(* Type correctness. *)

PositionOK ==
    /\ currPlist \in Names
    /\ currPlaying \in Nat
    /\ fname \in Files \cup {NoFile}
    /\ beforeQueue \in Files \cup {NoFile}
    /\ file \in Files \cup {NoFile}

FlagsOK ==
    /\ inQueue \in BOOLEAN /\ stopPlaying \in BOOLEAN /\ playNext \in BOOLEAN
    /\ playPrev \in BOOLEAN /\ running \in BOOLEAN /\ whole \in BOOLEAN /\ left \in BOOLEAN
    /\ option \in [Options -> BOOLEAN]

CallsOK ==
    /\ ppc \in ThreadPcs
    /\ upc \in UiPcs
    /\ target \in Files \cup {NoFile, NoCall}
    /\ calls \in 0..MaxCalls

PlayedOK == played \in Seq(Files)

LEMMA TypeParts ==
    TypeOK <=> /\ IsPlaylist(playlist) /\ IsPlaylist(shuffled) /\ IsPlaylist(queue)
               /\ PositionOK /\ FlagsOK /\ CallsOK /\ PlayedOK
<1>1. (\A n \in Names : IsPlaylist(List(n)))
        <=> IsPlaylist(playlist) /\ IsPlaylist(shuffled) /\ IsPlaylist(queue)
  BY DEF Names, List
<1> QED
  BY <1>1 DEF TypeOK, PositionOK, FlagsOK, CallsOK, PlayedOK

(* There is one playing thread: the interface joins it before it starts    *)
(* another.  The thread plays a file that has a name, at an index.         *)
ThreadInv ==
    /\ ppc = "start" => file # NoFile
    /\ ppc \notin {"exit", "pick"} => currPlaying # None
    /\ ~running => ppc = "exit"
    /\ upc = "play" => ~running
    /\ upc = "stop" => running

ScalarsInv == PositionOK /\ FlagsOK /\ CallsOK /\ PlayedOK /\ ThreadInv

(* The file that is played is one, or none. *)
LEMMA FileAtType ==
    ASSUME NEW p, IsPlaylist(p), NEW i
    PROVE  FileAt(p, i) \in Files \cup {NoFile} /\ (i \in Indices(p) => FileAt(p, i) \in Files)
<1>1. p \in ListType
  BY PlaylistFacts
<1> QED
  BY <1>1, ItemTypes DEF FileAt

LEMMA ListIsPlaylist == ASSUME ListsInv PROVE \A n \in Names : IsPlaylist(List(n))
  BY DEF ListsInv, Names, List

(* The playing thread, but for its choice. *)
LEMMA ThreadTypes ==
    ASSUME ListsInv, ScalarsInv,
           PickFile \/ StartFile \/ PlayerReturns \/ FileEnded \/ ThreadEnds
    PROVE  ScalarsInv'
<1> USE DEF ScalarsInv, PositionOK, FlagsOK, CallsOK, PlayedOK, ThreadInv, ThreadPcs
<1>1. CASE PickFile
  <2>1. file' \in Files \cup {NoFile}
    BY <1>1, FileAtType, ListIsPlaylist DEF PickFile
  <2> QED
    BY <1>1, <2>1 DEF PickFile, lists, position, uiVars, history
<1>2. CASE StartFile
  <2>1. file \in Files
    BY <1>2 DEF StartFile
  <2>2. played' \in Seq(Files)
    <3>1. Append(played, file) \in Seq(Files) /\ <<>> \in Seq(Files)
      BY <2>1, AppendAsConcat, EmptyType
    <3>2. played' \in {<<>>, Append(played, file)}
      BY <1>2 DEF StartFile, Recorded
    <3> QED
      BY <3>1, <3>2
  <2>3. whole' \in BOOLEAN
    BY <1>2 DEF StartFile
  <2> QED
    BY <1>2, <2>1, <2>2, <2>3 DEF StartFile, lists, skips, uiVars
<1>3. CASE PlayerReturns
  BY <1>3 DEF PlayerReturns, lists, position, skips, uiVars, history
<1>4. CASE FileEnded
  <2>1. currPlaying' \in Nat
    BY <1>4 DEF FileEnded, None
  <2> QED
    BY <1>4, <2>1 DEF FileEnded, lists, skips, uiVars, history
<1>5. CASE ThreadEnds
  BY <1>5 DEF ThreadEnds, lists, skips, uiVars, history
<1> QED
  BY <1>1, <1>2, <1>3, <1>4, <1>5

(* Where a list is gone on in. *)
LEMMA PlaceType ==
    ASSUME NEW p, IsPlaylist(p)
    PROVE  Place(p) \in Nat
<1>1. FindFname(p, Returned) \in Nat /\ FindFname(p, beforeQueue) \in Nat /\ None \in Nat
  BY FindFacts DEF None
<1> QED
  BY <1>1 DEF Place

(* What going on in a list shares. *)
LEMMA InListTypes ==
    ASSUME ListsInv, ScalarsInv, InList
    PROVE  /\ currPlist' \in {"playlist", "shuffled"}
           /\ fname' \in Files \cup {NoFile} /\ beforeQueue' = NoFile /\ file' = file
           /\ played' \in Seq(Files) /\ whole' \in BOOLEAN
           /\ ppc = "choose" /\ ppc' = "pick"
           /\ UNCHANGED <<playlist, queue, playNext, playPrev, stopPlaying, option, running, upc, target, calls>>
<1> USE DEF ScalarsInv, PositionOK, FlagsOK, CallsOK, PlayedOK
<1>1. played' \in Seq(Files) /\ whole' \in BOOLEAN
  <2>1. Begun
    BY DEF InList
  <2>2. whole' \in BOOLEAN
    BY <2>1 DEF Begun
  <2>3. CASE Returned \in LiveFiles(playlist)
    <3>1. Returned \in Files
      BY <2>3, LiveFilesType DEF ListsInv
    <3>2. <<Returned>> \in Seq(Files) /\ <<>> \in Seq(Files)
      BY <3>1, EmptyType
    <3> QED
      BY <2>1, <2>2, <3>2 DEF Begun
  <2>4. CASE Returned \notin LiveFiles(playlist)
    <3>1. <<>> \in Seq(Files)
      BY EmptyType
    <3> QED
      BY <2>1, <2>2, <2>4, <3>1 DEF Begun
  <2> QED
    BY <2>3, <2>4
<1>2. Returned \in Files \cup {NoFile}
  BY DEF Returned
<1> QED
  BY <1>1, <1>2 DEF InList, Ordered, skips, uiVars

(* The choice of what to play next. *)
LEMMA ChoiceTypes == ASSUME ListsInv, ScalarsInv, GoToAnotherFile PROVE ScalarsInv'
<1> USE DEF ScalarsInv, PositionOK, FlagsOK, CallsOK, PlayedOK, ThreadInv, ThreadPcs, Names
<1>1. CASE GoToQueue
  <2>1. currPlaying' \in Nat
    <3>1. PlistNext(queue, None) \in Nat
      BY NextFacts DEF ListsInv, None
    <3> QED
      BY <1>1, <3>1 DEF GoToQueue
  <2>2. beforeQueue' \in Files \cup {NoFile}
    BY <1>1 DEF GoToQueue
  <2> QED
    BY <1>1, <2>1, <2>2 DEF GoToQueue, skips, uiVars, history
<1>2. ASSUME InList, currPlaying' \in Nat, inQueue' \in BOOLEAN, left' \in BOOLEAN PROVE ScalarsInv'
  BY <1>2, InListTypes
<1>3. CASE GoPrev
  <2>1. PICK p \in Candidates :
          LET prev == PlistPrev(p, IF AtStart(p) THEN None ELSE Place(p))
          IN  /\ InList
              /\ currPlaying' = IF prev = None /\ option["Repeat"] THEN PlistLast(p) ELSE prev
              /\ inQueue' = FALSE /\ left' = left
    BY <1>3 DEF GoPrev
  <2>2. IsPlaylist(p)
    BY CandidateFacts
  <2>3. (IF AtStart(p) THEN None ELSE Place(p)) \in Nat
    BY <2>2, PlaceType DEF None
  <2>4. PlistPrev(p, IF AtStart(p) THEN None ELSE Place(p)) \in Nat /\ PlistLast(p) \in Nat
    BY <2>2, <2>3, PrevFacts, LastFacts, PlaylistFacts, ItemTypes DEF None
  <2> QED
    BY <1>2, <2>1, <2>4
<1>4. CASE GoForward
  <2>1. PICK p \in Candidates :
          LET next == PlistNext(p, IF AtStart(p) THEN None ELSE Place(p))
              over == next = None /\ option["Repeat"]
          IN  /\ InList
              /\ \E again \in IF over /\ option["Shuffle"] THEN Fresh(EmptyList) ELSE {p} :
                   currPlaying' = IF over THEN PlistNext(again, None) ELSE next
              /\ inQueue' = FALSE /\ left' = left
    BY <1>4 DEF GoForward
  <2>2. IsPlaylist(p)
    BY CandidateFacts
  <2>3. (IF AtStart(p) THEN None ELSE Place(p)) \in Nat
    BY <2>2, PlaceType DEF None
  <2>4. PlistNext(p, IF AtStart(p) THEN None ELSE Place(p)) \in Nat
    BY <2>2, <2>3, NextFacts
  <2>5. ASSUME NEW again, again \in Fresh(EmptyList) \/ again = p PROVE PlistNext(again, None) \in Nat
    <3>1. IsPlaylist(again)
      BY <2>2, <2>5, EmptyClean, EmptyFacts, FreshFacts DEF ListsInv, Clean
    <3> QED
      BY <3>1, NextFacts DEF None
  <2>6. currPlaying' \in Nat
    BY <2>1, <2>4, <2>5
  <2> QED
    BY <1>2, <2>1, <2>6
<1>5. CASE Stay
  <2>1. InList /\ inQueue' = inQueue /\ left' = (left \/ (inQueue /\ option["Repeat"]))
        /\ currPlaying' = IF option["Repeat"] THEN currPlaying ELSE None
    BY <1>5 DEF Stay
  <2>2. currPlaying' \in Nat /\ left' \in BOOLEAN
    BY <2>1 DEF None
  <2> QED
    BY <1>2, <2>1, <2>2
<1> QED
  BY <1>1, <1>3, <1>4, <1>5 DEF GoToAnotherFile

(* The interface's calls. *)
LEMMA CallTypes ==
    ASSUME ScalarsInv, Call
    PROVE  calls' \in 0..MaxCalls /\ played' \in Seq(Files) /\ whole' = FALSE /\ upc = "idle"
  BY BoundAssumption, EmptyType DEF Call, ScalarsInv, CallsOK

LEMMA InterfaceTypes == ASSUME ScalarsInv, Interface PROVE ScalarsInv'
<1>1. /\ calls' \in 0..MaxCalls /\ played' \in Seq(Files) /\ whole' = FALSE /\ upc = "idle"
      /\ UNCHANGED <<position, threadPc, running, left>>
  BY CallTypes DEF Interface, StopOrPlay, Skip, EditPlaylist, EditQueue, EditFrame, Toggle
<1>2. PositionOK' /\ PlayedOK'
  BY <1>1 DEF position, threadPc, ScalarsInv, PositionOK, PlayedOK
<1>3. CASE \E f \in Files \cup {NoFile, NoCall} : StopOrPlay(f)
  <2>1. PICK f \in Files \cup {NoFile, NoCall} : StopOrPlay(f)
    BY <1>3
  <2>2. target' = f /\ stopPlaying' = running /\ UNCHANGED <<skips, option>>
        /\ upc' = IF running THEN "stop" ELSE IF f = NoCall THEN "idle" ELSE "play"
    BY <2>1 DEF StopOrPlay
  <2>3. CallsOK'
    BY <1>1, <2>2 DEF ScalarsInv, CallsOK, UiPcs, threadPc
  <2>4. FlagsOK'
    BY <1>1, <2>2 DEF ScalarsInv, FlagsOK, position, skips
  <2>5. ThreadInv'
    BY <1>1, <2>2 DEF ScalarsInv, ThreadInv, position, threadPc
  <2> QED
    BY <1>2, <2>3, <2>4, <2>5 DEF ScalarsInv
<1>4. CASE Skip \/ EditPlaylist \/ EditQueue \/ Toggle
  <2>1. UNCHANGED <<stopPlaying, upc, target>>
    BY <1>4 DEF Skip, EditPlaylist, EditQueue, EditFrame, Toggle
  <2>2. playNext' \in BOOLEAN /\ playPrev' \in BOOLEAN /\ option' \in [Options -> BOOLEAN]
    <3>1. CASE Skip
      BY <3>1 DEF Skip, ScalarsInv, FlagsOK
    <3>2. CASE EditPlaylist \/ EditQueue
      BY <3>2 DEF EditPlaylist, EditQueue, EditFrame, skips, ScalarsInv, FlagsOK
    <3>3. CASE Toggle
      BY <3>3 DEF Toggle, skips, ScalarsInv, FlagsOK
    <3> QED
      BY <1>4, <3>1, <3>2, <3>3
  <2>3. CallsOK'
    BY <1>1, <2>1 DEF ScalarsInv, CallsOK, threadPc
  <2>4. FlagsOK'
    BY <1>1, <2>1, <2>2 DEF ScalarsInv, FlagsOK, position
  <2>5. ThreadInv'
    BY <1>1, <2>1 DEF ScalarsInv, ThreadInv, position, threadPc
  <2> QED
    BY <1>2, <2>3, <2>4, <2>5 DEF ScalarsInv
<1> QED
  BY <1>3, <1>4 DEF Interface

(* The two halves of audio_play(). *)
LEMMA PlayTypes == ASSUME ListsInv, ScalarsInv, UiGoesOn PROVE ScalarsInv'
<1> USE DEF ScalarsInv, PositionOK, FlagsOK, CallsOK, PlayedOK, ThreadInv, UiPcs
<1>1. CASE Joined
  <2>1. /\ upc' \in UiPcs \ {"stop"} /\ ppc = "exit" /\ running' = FALSE /\ stopPlaying' = FALSE
        /\ UNCHANGED <<position, skips, option, threadPc, target, calls, history>>
    BY <1>1 DEF Joined
  <2>2. PositionOK' /\ PlayedOK'
    BY <2>1 DEF position, threadPc, history
  <2>3. FlagsOK' /\ CallsOK'
    BY <2>1 DEF position, threadPc, history, skips
  <2>4. ThreadInv'
    BY <2>1 DEF position, threadPc
  <2> QED
    BY <2>2, <2>3, <2>4
<1>2. CASE PlayStarts
  <2>1. played' \in Seq(Files) /\ whole' \in BOOLEAN
    BY <1>2, EmptyType DEF PlayStarts
  <2>2. CASE PlayFromQueue
    <3>1. PlistNext(queue, None) \in Nat
      BY NextFacts DEF ListsInv, None
    <3>2. currPlist' \in Names /\ currPlaying' \in Nat /\ inQueue' \in BOOLEAN /\ left' \in BOOLEAN
      BY <2>2, <3>1 DEF PlayFromQueue, Names
    <3> QED
      BY <1>2, <2>1, <3>2 DEF PlayStarts, skips, ThreadPcs
  <2>3. CASE PlayFromList
    <3>1. ListsInv'
      BY <2>3, PlayFromListKeepsLists
    <3>2. playlist' = playlist
      BY <2>3 DEF PlayFromList
    <3> DEFINE p == IF option["Shuffle"] THEN shuffled' ELSE playlist
    <3>3. IsPlaylist(p)
      BY <3>1, <3>2 DEF ListsInv
    <3>4. currPlaying' = FirstIn(p)
      BY <2>3 DEF PlayFromList
    <3> HIDE DEF p
    <3>5. currPlaying' \in Nat
      BY <3>3, <3>4, FindFacts, NextFacts DEF FirstIn, None
    <3>6. currPlist' \in Names /\ inQueue' \in BOOLEAN /\ left' \in BOOLEAN
      BY <2>3 DEF PlayFromList, Ordered, Names
    <3> QED
      BY <1>2, <2>1, <3>5, <3>6 DEF PlayStarts, skips, ThreadPcs
  <2> QED
    BY <1>2, <2>2, <2>3 DEF PlayStarts
<1> QED
  BY <1>1, <1>2 DEF UiGoesOn

LEMMA NextTypes == ListsInv /\ ScalarsInv /\ [Next]_orderVars => ScalarsInv'
<1> SUFFICES ASSUME ListsInv, ScalarsInv, [Next]_orderVars PROVE ScalarsInv'
  OBVIOUS
<1>1. CASE UNCHANGED orderVars
  BY <1>1 DEF orderVars, position, skips, threadPc, uiVars, history,
     ScalarsInv, PositionOK, FlagsOK, CallsOK, PlayedOK, ThreadInv
<1> QED
  BY <1>1, ThreadTypes, ChoiceTypes, InterfaceTypes, PlayTypes DEF Next, PlayingThread

LEMMA InitTypes == Init => ScalarsInv
<1> SUFFICES ASSUME Init PROVE ScalarsInv
  OBVIOUS
<1>1. option \in [Options -> BOOLEAN] /\ calls \in 0..MaxCalls
  BY OptionAssumption, BoundAssumption DEF Init
<1> QED
  BY <1>1, EmptyType DEF Init, ScalarsInv, PositionOK, FlagsOK, CallsOK, PlayedOK, ThreadInv,
     Names, ThreadPcs, UiPcs, None

BaseInv == ListsInv /\ ScalarsInv

LEMMA BaseInvariant == SafetySpec => []BaseInv
<1>1. Init => BaseInv
  BY InitLists, InitTypes DEF BaseInv
<1>2. BaseInv /\ [Next]_orderVars => BaseInv'
  BY NextKeepsLists, NextTypes DEF BaseInv
<1> QED
  BY <1>1, <1>2, PTL DEF SafetySpec

(* The variables have their types and the three lists are playlists: what  *)
(* is in one is found in it by its name, and is there once, after any      *)
(* number of additions, deletions, moves, shuffles and songs taken off the *)
(* queue, in lists of any length.                                          *)
THEOREM TypeCorrect == SafetySpec => []TypeOK
<1>1. BaseInv => TypeOK
  BY TypeParts DEF BaseInv, ListsInv, ScalarsInv
<1> QED
  BY <1>1, BaseInvariant, PTL

(* What is left in the shuffled copy is what is left in the playlist,      *)
(* whatever edits and choices come in whatever order.                      *)
THEOREM ShuffledAgrees == SafetySpec => []ShuffledIsPlaylist
<1>1. BaseInv => ShuffledIsPlaylist
  BY DEF BaseInv, ListsInv
<1> QED
  BY <1>1, BaseInvariant, PTL

-----------------------------------------------------------------------------
(* Arriving at an item. *)

(* Only the thread's choice takes it from one file to the next: the        *)
(* interface starts another thread only when this one is gone.             *)
LEMMA ChosenByThread ==
    ASSUME BaseInv, [Next]_orderVars, Chosen
    PROVE  GoPrev \/ GoForward \/ Stay
<1>1. ppc = "choose" /\ ppc' = "pick" /\ currPlist' # "queue"
  BY DEF Chosen
<1>2. ~(PickFile \/ StartFile \/ PlayerReturns \/ FileEnded \/ ThreadEnds \/ GoToQueue)
  BY <1>1 DEF PickFile, StartFile, PlayerReturns, FileEnded, ThreadEnds, GoToQueue
<1>3. ~Interface
  BY <1>1 DEF Interface, StopOrPlay, Skip, EditPlaylist, EditQueue, EditFrame, Toggle, threadPc
<1>4. ~Joined
  BY <1>1 DEF Joined
<1>5. ~PlayStarts
  BY <1>1 DEF PlayStarts, BaseInv, ScalarsInv, ThreadInv
<1>6. ~UNCHANGED orderVars
  BY <1>1 DEF orderVars, threadPc
<1> QED
  BY <1>2, <1>3, <1>4, <1>5, <1>6 DEF Next, PlayingThread, GoToAnotherFile, UiGoesOn

(* The list that is gone on in is the one that was chosen. *)
LEMMA ListChosen ==
    ASSUME InList, NEW p, Kept(p), ~option["Shuffle"] => p = playlist
    PROVE  List(currPlist)' = p /\ List(Ordered)' = p
<1>1. CASE option["Shuffle"]
  <2>1. currPlist' = "shuffled" /\ shuffled' = p /\ option' = option
    BY <1>1 DEF InList, Ordered, Kept
  <2> QED
    BY <1>1, <2>1 DEF List, Ordered
<1>2. CASE ~option["Shuffle"]
  <2>1. currPlist' = "playlist" /\ playlist' = p /\ option' = option
    BY <1>2 DEF InList, Ordered
  <2> QED
    BY <1>2, <2>1 DEF List, Ordered
<1> QED
  BY <1>1, <1>2

(* What is before the first or after the last item is none. *)
LEMMA FromType ==
    ASSUME NEW p, IsPlaylist(p)
    PROVE  (IF AtStart(p) THEN None ELSE Place(p)) \in Nat
  BY PlaceType DEF None

LEMMA BackArrives ==
    ASSUME BaseInv, GoPrev
    PROVE  currPlaying' \in {None} \cup Live(List(currPlist)')
<1>1. PICK p \in Candidates :
        LET prev == PlistPrev(p, IF AtStart(p) THEN None ELSE Place(p))
        IN  /\ InList /\ Kept(p) /\ Count(p) > 0
            /\ currPlaying' = IF prev = None /\ option["Repeat"] THEN PlistLast(p) ELSE prev
  BY DEF GoPrev
<1>2. IsPlaylist(p) /\ (~option["Shuffle"] => p = playlist)
  BY CandidateFacts DEF BaseInv
<1>3. List(currPlist)' = p
  BY <1>1, <1>2, ListChosen
<1>4. PlistPrev(p, IF AtStart(p) THEN None ELSE Place(p)) \in {None} \cup Live(p)
  BY <1>2, FromType, PrevFacts
<1>5. PlistLast(p) \in Live(p)
  BY <1>1, <1>2, CountFacts, LastFacts
<1> QED
  BY <1>1, <1>3, <1>4, <1>5

LEMMA ForwardArrives ==
    ASSUME BaseInv, GoForward
    PROVE  currPlaying' \in {None} \cup Live(List(currPlist)')
<1>1. PICK p \in Candidates :
        LET next == PlistNext(p, IF AtStart(p) THEN None ELSE Place(p))
            over == next = None /\ option["Repeat"]
        IN  /\ InList
            /\ \E again \in IF over /\ option["Shuffle"] THEN Fresh(EmptyList) ELSE {p} :
                 /\ currPlaying' = IF over THEN PlistNext(again, None) ELSE next
                 /\ Kept(again)
  BY DEF GoForward
<1> DEFINE next == PlistNext(p, IF AtStart(p) THEN None ELSE Place(p))
           over == next = None /\ option["Repeat"]
<1>2. IsPlaylist(p) /\ (~option["Shuffle"] => p = playlist)
  BY CandidateFacts DEF BaseInv
<1>3. next \in {None} \cup Live(p)
  BY <1>2, FromType, NextFacts
<1>4. PICK again \in IF over /\ option["Shuffle"] THEN Fresh(EmptyList) ELSE {p} :
        currPlaying' = (IF over THEN PlistNext(again, None) ELSE next) /\ Kept(again)
  BY <1>1
<1> HIDE DEF next
<1>5. again = p \/ (over /\ option["Shuffle"] /\ again \in Fresh(EmptyList))
  BY <1>4
<1>6. IsPlaylist(again) /\ (~option["Shuffle"] => again = playlist)
  <2>1. ASSUME again \in Fresh(EmptyList) PROVE IsPlaylist(again)
    BY <2>1, EmptyClean, EmptyFacts, FreshFacts DEF BaseInv, ListsInv, Clean
  <2> QED
    BY <1>2, <1>5, <2>1
<1>7. List(currPlist)' = again
  BY <1>1, <1>4, <1>6, ListChosen
<1>8. PlistNext(again, None) \in {None} \cup Live(again)
  BY <1>6, NextFacts DEF None
<1> QED
  BY <1>3, <1>4, <1>5, <1>7, <1>8

(* Staying is neither, if there is anything to go to. *)
LEMMA StayIsNoMove ==
    ASSUME BaseInv, Stay
    PROVE  Count(List(currPlist)') = 0 \/ (~playPrev /\ ~GoNext)
<1>1. PICK p \in Candidates : InList /\ Kept(p) /\ (Count(p) = 0 \/ (~playPrev /\ ~GoNext))
  BY DEF Stay
<1>2. List(currPlist)' = p
  BY <1>1, CandidateFacts, ListChosen DEF BaseInv
<1> QED
  BY <1>1, <1>2

(* Whoever goes forward or back arrives at an item that is there and not   *)
(* deleted, or at the end, whatever was done to the lists in the meantime. *)
THEOREM Arrives == SafetySpec => ArrivesAtAnItem
<1> DEFINE A == Chosen /\ (GoNext \/ playPrev) /\ Count(List(currPlist)') > 0
                  => currPlaying' \in {None} \cup Live(List(currPlist)')
<1>1. BaseInv /\ [Next]_orderVars => A
  <2> SUFFICES ASSUME BaseInv, [Next]_orderVars, Chosen, GoNext \/ playPrev,
                      Count(List(currPlist)') > 0
               PROVE  currPlaying' \in {None} \cup Live(List(currPlist)')
    OBVIOUS
  <2>1. CASE GoPrev
    BY <2>1, BackArrives
  <2>2. CASE GoForward
    BY <2>2, ForwardArrives
  <2>3. CASE Stay
    BY <2>3, StayIsNoMove
  <2> QED
    BY <2>1, <2>2, <2>3, ChosenByThread
<1>2. BaseInv /\ [Next]_orderVars => [A]_orderVars
  BY <1>1
<1> HIDE DEF A
<1>3. SafetySpec => [][A]_orderVars
  BY <1>2, BaseInvariant, PTL DEF SafetySpec
<1> QED
  BY <1>3 DEF ArrivesAtAnItem, A

-----------------------------------------------------------------------------
(* No file twice.  Going through a list, the thread looks up the place of  *)
(* the file it leaves and goes on behind it: what was played stands before *)
(* what is played next, in the list as it is now.                          *)

Order == List(Ordered)

Repeat  == option["Repeat"]
Shuffle == option["Shuffle"]

(* The user has left the lists alone, and something is recorded. *)
Settled == ~left /\ ~Repeat /\ (played # <<>> \/ whole)

OnList == currPlist # "queue"

(* The next item is known; the last file is played, or was. *)
Picking == (ppc = "pick" /\ currPlaying # None) \/ ppc = "start"
Leaving == ppc \in {"playing", "ended", "choose"}

NothingLeft == ~left /\ OnList /\ (Picking \/ Leaving) => ~inQueue /\ beforeQueue = NoFile

QueueVisit ==
    ~OnList =>
      /\ Leaving => played = <<>> /\ ~whole
      /\ ppc = "pick" /\ currPlaying # None /\ (played # <<>> \/ whole)
           => currPlaying \in Indices(queue)

(* All of the items before n, or up to n, have been played. *)
PlayedBefore(n) == \A i \in Live(Order) : i < n => FileAt(Order, i) \in ToSet(played)
PlayedUpTo(n)   == \A i \in Live(Order) : i <= n => FileAt(Order, i) \in ToSet(played)

AheadInv ==
    Settled /\ OnList /\ Picking =>
      /\ currPlist = Ordered
      /\ currPlaying \in Live(Order)
      /\ ppc = "start" => file = FileAt(Order, currPlaying)
      /\ \A f \in ToSet(played) : FindFname(Order, f) < currPlaying
      /\ whole /\ Shuffle => ToSet(played) \subseteq LiveFiles(Order) /\ PlayedBefore(currPlaying)

BehindInv ==
    Settled /\ OnList /\ Leaving =>
      /\ \A f \in ToSet(played) : FindFname(Order, f) <= FindFname(Order, fname)
      /\ whole /\ Shuffle => /\ fname \in LiveFiles(Order)
                             /\ ToSet(played) \subseteq LiveFiles(Order)
                             /\ PlayedUpTo(FindFname(Order, fname))

WholeInv ==
    /\ whole /\ Shuffle => LiveFiles(shuffled) = LiveFiles(playlist)
    /\ whole /\ (ppc = "start" \/ Leaving) => ~playPrev

RowInv == NothingLeft /\ QueueVisit /\ AheadInv /\ BehindInv /\ WholeInv /\ EachOnceIfNothingLeft

(* The files of a sequence. *)
LEMMA ToSetFacts ==
    ASSUME NEW s \in Seq(Files), NEW f \in Files
    PROVE  /\ ToSet(<<>>) = {} /\ ToSet(<<f>>) = {f}
           /\ ToSet(Append(s, f)) = ToSet(s) \cup {f}
           /\ Append(s, f) # <<>>
<1>1. ToSet(<<>>) = {} /\ ToSet(<<f>>) = {f}
  BY DEF ToSet
<1>2. ToSet(Append(s, f)) = ToSet(s) \cup {f}
  <2>1. /\ DOMAIN s = 1..Len(s) /\ Len(s) \in Nat
        /\ DOMAIN Append(s, f) = 1..(Len(s) + 1)
        /\ Append(s, f)[Len(s) + 1] = f
        /\ \A i \in 1..Len(s) : Append(s, f)[i] = s[i]
    OBVIOUS
  <2>2. 1..(Len(s) + 1) = (1..Len(s)) \cup {Len(s) + 1}
    BY <2>1
  <2> QED
    BY <2>1, <2>2 DEF ToSet
<1>3. Append(s, f) # <<>>
  BY <1>1, <1>2
<1> QED
  BY <1>1, <1>2, <1>3

(* A file that was not played is played once. *)
LEMMA OnceMore ==
    ASSUME NEW s \in Seq(Files), NEW f \in Files, IsInjective(s), f \notin ToSet(s)
    PROVE  IsInjective(Append(s, f))
<1>1. /\ DOMAIN s = 1..Len(s) /\ Len(s) \in Nat
      /\ DOMAIN Append(s, f) = 1..(Len(s) + 1)
      /\ Append(s, f)[Len(s) + 1] = f
      /\ \A i \in 1..Len(s) : Append(s, f)[i] = s[i]
  OBVIOUS
<1>2. \A i \in 1..Len(s) : s[i] # f
  BY <1>1 DEF ToSet
<1>3. \A i, j \in 1..Len(s) : s[i] = s[j] => i = j
  BY <1>1 DEF IsInjective
<1>4. \A i, j \in 1..(Len(s) + 1) : Append(s, f)[i] = Append(s, f)[j] => i = j
  <2> SUFFICES ASSUME NEW i \in 1..(Len(s) + 1), NEW j \in 1..(Len(s) + 1),
                      Append(s, f)[i] = Append(s, f)[j]
               PROVE  i = j
    OBVIOUS
  <2>1. i \in 1..Len(s) \/ i = Len(s) + 1
    BY <1>1
  <2>2. j \in 1..Len(s) \/ j = Len(s) + 1
    BY <1>1
  <2> QED
    BY <1>1, <1>2, <1>3, <2>1, <2>2
<1> QED
  BY <1>1, <1>4 DEF IsInjective

LEMMA FewOnce == IsInjective(<<>>) /\ \A f : IsInjective(<<f>>)
  BY DEF IsInjective

(* The list that is gone through is one. *)
LEMMA OrderIsPlaylist == ASSUME ListsInv PROVE IsPlaylist(Order)
  BY DEF ListsInv, Order, List, Ordered

(* A call of the interface starts the row again. *)
LEMMA CallKeepsRow == ASSUME BaseInv, RowInv, Interface PROVE RowInv'
<1>1. played' = <<>> /\ whole' = FALSE /\ UNCHANGED <<position, threadPc, left>>
  BY DEF Interface, StopOrPlay, Skip, EditPlaylist, EditQueue, EditFrame, Toggle, Call
<1>2. NothingLeft'
  BY <1>1 DEF RowInv, NothingLeft, OnList, Picking, Leaving, position, threadPc
<1>3. QueueVisit' /\ WholeInv'
  BY <1>1 DEF QueueVisit, WholeInv
<1>4. AheadInv' /\ BehindInv'
  BY <1>1 DEF AheadInv, BehindInv, Settled
<1>5. EachOnceIfNothingLeft'
  BY <1>1, FewOnce DEF EachOnceIfNothingLeft, EachOnce, NoneTwice
<1> QED
  BY <1>2, <1>3, <1>4, <1>5 DEF RowInv

(* audio_play() draws a new order, with the song that is asked for first.  *)
LEMMA NewlyDrawn ==
    ASSUME ListsInv, PlayFromList, Shuffle
    PROVE  /\ LiveFiles(shuffled') = LiveFiles(playlist)
           /\ target \in LiveFiles(shuffled') => FindFname(shuffled', target) = 1
<1>1. PICK s \in Fresh(EmptyList) : shuffled' = SwapFirst(s, target)
  BY DEF PlayFromList, Shuffle
<1>2. Clean(s) /\ LiveFiles(s) = LiveFiles(playlist)
  BY EmptyClean, EmptyFacts, FreshFacts DEF ListsInv
<1> QED
  BY <1>1, <1>2, SwapFirstFacts

(* It starts with the first item of the list, or with that song.           *)
LEMMA FirstInFacts ==
    ASSUME ListsInv, PlayFromList, currPlaying' # None
    PROVE  /\ currPlist' = Ordered
           /\ LET p == IF Shuffle THEN shuffled' ELSE playlist
              IN  /\ currPlaying' \in Live(p)
                  /\ Shuffle => \A i \in Live(p) : ~(i < currPlaying')
<1> USE DEF Shuffle
<1> DEFINE p == IF Shuffle THEN shuffled' ELSE playlist
<1>1. ListsInv' /\ playlist' = playlist
  BY PlayFromListKeepsLists DEF PlayFromList
<1>2. IsPlaylist(p)
  BY <1>1 DEF ListsInv
<1>3. currPlist' = Ordered /\ currPlaying' = FirstIn(p)
  BY DEF PlayFromList
<1>4. Live(p) \subseteq Nat \ {0}
  BY <1>2, PlaylistFacts, ItemTypes
<1>5. Shuffle /\ target \in LiveFiles(shuffled') => FindFname(shuffled', target) = 1
  BY NewlyDrawn
<1>6. CASE target # NoFile
  <2>1. currPlaying' = FindFname(p, target)
    BY <1>3, <1>6 DEF FirstIn
  <2>2. currPlaying' \in Live(p) /\ target \in LiveFiles(p)
    BY <1>2, <2>1, FindFacts
  <2>3. Shuffle => currPlaying' = 1
    BY <1>5, <2>1, <2>2
  <2> QED
    BY <1>3, <1>4, <1>5, <2>2, <2>3
<1>7. CASE target = NoFile
  <2>1. currPlaying' = PlistNext(p, None)
    BY <1>3, <1>7 DEF FirstIn
  <2>2. currPlaying' \in Live(p) /\ \A i \in Live(p) : i < currPlaying' => i <= 0
    BY <1>2, <2>1, NextFacts DEF None
  <2> QED
    BY <1>3, <1>4, <1>5, <2>2
<1> QED
  BY <1>6, <1>7

LEMMA PlayKeepsRow == ASSUME BaseInv, RowInv, PlayStarts PROVE RowInv'
<1>1. ppc' = "pick" /\ played' = <<>> /\ whole' = ~FromQueue /\ UNCHANGED <<option, beforeQueue>>
  BY DEF PlayStarts
<1>2. BehindInv' /\ EachOnceIfNothingLeft'
  BY <1>1, FewOnce DEF BehindInv, Leaving, EachOnceIfNothingLeft, EachOnce, NoneTwice
<1>3. CASE PlayFromQueue
  <2>1. currPlist' = "queue" /\ whole' = FALSE
    BY <1>1, <1>3 DEF PlayFromQueue
  <2> QED
    BY <1>1, <1>2, <2>1 DEF RowInv, NothingLeft, QueueVisit, AheadInv, WholeInv, OnList, Leaving
<1>4. CASE PlayFromList
  <2>1. currPlist' = Ordered /\ inQueue' = inQueue /\ left' = (inQueue \/ beforeQueue # NoFile)
        /\ playlist' = playlist /\ Ordered' = Ordered
    BY <1>1, <1>4 DEF PlayFromList, Ordered
  <2>2. NothingLeft' /\ QueueVisit'
    BY <1>1, <2>1 DEF NothingLeft, QueueVisit, OnList, Leaving, Ordered, BaseInv, ScalarsInv, FlagsOK
  <2>3. WholeInv'
    <3>1. Shuffle => LiveFiles(shuffled') = LiveFiles(playlist)
      BY <1>4, NewlyDrawn DEF BaseInv
    <3> QED
      BY <1>1, <2>1, <3>1 DEF WholeInv, Leaving, Shuffle
  <2>4. AheadInv'
    <3> SUFFICES ASSUME currPlaying' # None
                 PROVE  /\ currPlist' = Ordered'
                        /\ currPlaying' \in Live(Order')
                        /\ (\A f \in ToSet(played) : FindFname(Order, f) < currPlaying)'
                        /\ Shuffle' => (ToSet(played) \subseteq LiveFiles(Order) /\ PlayedBefore(currPlaying))'
      BY <1>1 DEF AheadInv, Picking
    <3>1. ToSet(played') = {}
      BY <1>1 DEF ToSet
    <3>2. Order' = IF Shuffle THEN shuffled' ELSE playlist
      BY <1>1, <2>1 DEF Order, List, Ordered, Shuffle
    <3>3. Shuffle' = Shuffle
      BY <1>1 DEF Shuffle
    <3>4. currPlaying' \in Live(Order') /\ (Shuffle => \A i \in Live(Order') : ~(i < currPlaying'))
      BY <1>4, <3>2, FirstInFacts DEF BaseInv
    <3> QED
      BY <2>1, <3>1, <3>3, <3>4 DEF PlayedBefore
  <2> QED
    BY <1>2, <2>2, <2>3, <2>4 DEF RowInv
<1> QED
  BY <1>3, <1>4 DEF PlayStarts

(* The file that is picked is the one at the item that was chosen. *)
LEMMA PickKeepsRow == ASSUME BaseInv, RowInv, PickFile PROVE RowInv'
<1>1. /\ ppc = "pick" /\ currPlaying # None /\ playPrev' = FALSE
      /\ file' = FileAt(List(currPlist), currPlaying)
      /\ ppc' = IF file' = NoFile THEN "ended" ELSE "start"
      /\ UNCHANGED <<lists, position, option, history>>
  BY DEF PickFile
<1>2. UNCHANGED <<Order, Ordered, Settled, OnList, Shuffle, playlist, shuffled, queue, currPlaying,
                  currPlist, fname, inQueue, beforeQueue, played, whole, left>>
  BY <1>1 DEF lists, position, history, Order, List, Ordered, Settled, OnList, Repeat, Shuffle
<1>3. ASSUME currPlaying \in Indices(List(currPlist)) PROVE ppc' = "start"
  <2>1. FileAt(List(currPlist), currPlaying) \in Files
    BY <1>3, ListIsPlaylist, FileAtType DEF BaseInv, ScalarsInv, PositionOK
  <2> QED
    BY <1>1, <2>1, NoFileAssumption
<1>4. NothingLeft'
  BY <1>1, <1>2 DEF RowInv, NothingLeft, Picking
<1>5. QueueVisit'
  <2>1. CASE ~OnList /\ (played # <<>> \/ whole)
    <3>1. currPlaying \in Indices(queue) /\ List(currPlist) = queue
      BY <1>1, <2>1 DEF RowInv, QueueVisit, OnList, List
    <3> QED
      BY <1>1, <1>2, <1>3, <3>1 DEF QueueVisit, Leaving
  <2>2. CASE OnList \/ (played = <<>> /\ ~whole)
    BY <1>2, <2>2 DEF QueueVisit
  <2> QED
    BY <2>1, <2>2
<1>6. AheadInv' /\ BehindInv'
  <2>1. CASE Settled /\ OnList
    <3>1. /\ currPlist = Ordered
          /\ currPlaying \in Live(Order)
          /\ \A f \in ToSet(played) : FindFname(Order, f) < currPlaying
          /\ whole /\ Shuffle => ToSet(played) \subseteq LiveFiles(Order) /\ PlayedBefore(currPlaying)
      BY <1>1, <2>1 DEF RowInv, AheadInv, Picking
    <3>2. ppc' = "start" /\ file' = FileAt(Order, currPlaying)
      BY <1>1, <1>3, <3>1 DEF Order, Live
    <3> QED
      BY <1>2, <3>1, <3>2 DEF AheadInv, BehindInv, Leaving, PlayedBefore
  <2>2. CASE ~(Settled /\ OnList)
    BY <1>2, <2>2 DEF AheadInv, BehindInv
  <2> QED
    BY <2>1, <2>2
<1>7. WholeInv'
  BY <1>1, <1>2 DEF RowInv, WholeInv
<1>8. EachOnceIfNothingLeft'
  BY <1>1, <1>2 DEF RowInv, EachOnceIfNothingLeft, EachOnce, NoneTwice
<1> QED
  BY <1>4, <1>5, <1>6, <1>7, <1>8 DEF RowInv

(* What starts to play was not played before: all that was stands before   *)
(* it.                                                                     *)
LEMMA StartKeepsRow == ASSUME BaseInv, RowInv, StartFile PROVE RowInv'
<1>1. /\ ppc = "start" /\ ppc' = "playing" /\ fname' = file
      /\ IF currPlist = "queue"
         THEN played' = <<>> /\ whole' = FALSE
         ELSE played' = Recorded /\ whole' = whole
      /\ UNCHANGED <<lists, currPlist, beforeQueue, inQueue, playPrev, option, left>>
  BY DEF StartFile, skips
<1>2. UNCHANGED <<Order, OnList, Shuffle, Repeat, playlist, shuffled>>
  BY <1>1 DEF lists, Order, List, Ordered, OnList, Repeat, Shuffle
<1>3. file \in Files /\ played \in Seq(Files)
  BY <1>1 DEF BaseInv, ScalarsInv, ThreadInv, PositionOK, PlayedOK
<1>4. NothingLeft' /\ QueueVisit' /\ AheadInv' /\ WholeInv'
  BY <1>1, <1>2 DEF RowInv, NothingLeft, QueueVisit, AheadInv, WholeInv, OnList, Picking, Leaving
<1>5. CASE ~OnList \/ Repeat \/ left
  <2>1. ~(Settled /\ OnList)'
    BY <1>1, <1>2, <1>5 DEF Settled
  <2>2. played' = <<>> \/ left'
    BY <1>1, <1>5 DEF Recorded, Repeat, OnList
  <2> QED
    BY <1>4, <2>1, <2>2, FewOnce DEF RowInv, BehindInv, EachOnceIfNothingLeft, EachOnce, NoneTwice
<1>6. CASE OnList /\ ~Repeat /\ ~left
  <2>1. played' = Append(played, file) /\ whole' = whole
    BY <1>1, <1>6 DEF Recorded, Repeat, OnList
  <2>2. ToSet(played') = ToSet(played) \cup {file} /\ ToSet(<<>>) = {}
    BY <1>3, <2>1, ToSetFacts
  <2>3. IsInjective(played)
    BY <1>6 DEF RowInv, EachOnceIfNothingLeft, EachOnce, NoneTwice, Repeat
  <2>4. FindFname(Order, file) \in Nat
    BY OrderIsPlaylist, FindFacts DEF BaseInv
  <2>5. CASE Settled
    <3>1. /\ currPlaying \in Live(Order)
          /\ file = FileAt(Order, currPlaying)
          /\ \A f \in ToSet(played) : FindFname(Order, f) < currPlaying
          /\ whole /\ Shuffle => ToSet(played) \subseteq LiveFiles(Order) /\ PlayedBefore(currPlaying)
      BY <1>1, <1>6, <2>5 DEF RowInv, AheadInv, Picking
    <3>2. FindFname(Order, file) = currPlaying /\ file \in LiveFiles(Order)
      BY <3>1, OrderIsPlaylist, FindLive DEF BaseInv
    <3>3. file \notin ToSet(played)
      BY <2>4, <3>1, <3>2
    <3>4. \A f \in ToSet(played') : FindFname(Order', f) <= FindFname(Order', fname')
      <4>1. \A f \in ToSet(played) : FindFname(Order, f) \in Nat
        BY OrderIsPlaylist, FindFacts DEF BaseInv
      <4> QED
        BY <1>1, <1>2, <2>2, <2>4, <3>1, <3>2, <4>1
    <3>5. ASSUME whole, Shuffle
          PROVE  /\ fname' \in LiveFiles(Order')
                 /\ ToSet(played') \subseteq LiveFiles(Order')
                 /\ PlayedUpTo(FindFname(Order, fname))'
      <4>1. ASSUME NEW i \in Live(Order), i <= currPlaying PROVE FileAt(Order, i) \in ToSet(played')
        <5>1. i \in Nat /\ currPlaying \in Nat
          BY OrderIsPlaylist, PlaylistFacts, ItemTypes DEF BaseInv, ScalarsInv, PositionOK
        <5>2. i < currPlaying \/ i = currPlaying
          BY <4>1, <5>1
        <5> QED
          BY <2>2, <3>1, <3>5, <5>2 DEF PlayedBefore
      <4>2. PlayedUpTo(FindFname(Order, fname))'
        BY <1>1, <1>2, <3>2, <4>1 DEF PlayedUpTo
      <4> QED
        BY <1>1, <1>2, <2>2, <3>1, <3>2, <3>5, <4>2
    <3>6. BehindInv'
      BY <1>2, <2>1, <3>4, <3>5 DEF BehindInv
    <3>7. IsInjective(played')
      BY <1>3, <2>1, <2>3, <3>3, OnceMore
    <3> QED
      BY <1>4, <3>6, <3>7 DEF RowInv, EachOnceIfNothingLeft, EachOnce, NoneTwice
  <2>6. CASE ~Settled
    <3>1. played = <<>> /\ ~whole
      BY <1>6, <2>6 DEF Settled
    <3>2. ToSet(played') = {file} /\ file \notin ToSet(played)
      BY <2>2, <3>1
    <3>3. BehindInv'
      BY <1>1, <1>2, <2>1, <2>4, <3>1, <3>2 DEF BehindInv
    <3>4. IsInjective(played')
      BY <1>3, <2>1, <2>3, <3>2, OnceMore
    <3> QED
      BY <1>4, <3>3, <3>4 DEF RowInv, EachOnceIfNothingLeft, EachOnce, NoneTwice
  <2> QED
    BY <2>5, <2>6
<1> QED
  BY <1>5, <1>6

(* The steps in which nothing of the row moves. *)
LEMMA OthersKeepRow ==
    ASSUME BaseInv, RowInv, PlayerReturns \/ FileEnded \/ ThreadEnds \/ Joined
    PROVE  RowInv'
<1>1. UNCHANGED <<lists, currPlist, beforeQueue, inQueue, playPrev, option, file, history>>
  BY DEF PlayerReturns, FileEnded, ThreadEnds, Joined, position, skips, threadPc
<1>2. UNCHANGED <<Order, Ordered, Settled, OnList, Shuffle, Repeat, playlist, shuffled, queue,
                  played, whole, left>>
  BY <1>1 DEF lists, history, Order, List, Ordered, Settled, OnList, Repeat, Shuffle
<1>3. \/ ppc' \in {"ended", "choose"} /\ ppc \in {"playing", "ended"}
         /\ UNCHANGED <<currPlaying, fname>>
      \/ ppc' = "pick" /\ currPlaying' = None
      \/ ppc' = "exit"
  BY DEF PlayerReturns, FileEnded, ThreadEnds, Joined, position, threadPc
<1>4. NothingLeft' /\ QueueVisit' /\ WholeInv'
  BY <1>1, <1>2, <1>3 DEF RowInv, NothingLeft, QueueVisit, WholeInv, Picking, Leaving
<1>5. AheadInv'
  BY <1>3 DEF AheadInv, Picking
<1>6. BehindInv'
  BY <1>2, <1>3 DEF RowInv, BehindInv, Leaving, PlayedUpTo
<1>7. EachOnceIfNothingLeft'
  BY <1>1, <1>2 DEF RowInv, EachOnceIfNothingLeft, EachOnce, NoneTwice
<1> QED
  BY <1>4, <1>5, <1>6, <1>7 DEF RowInv

(* The queue's first song is an item of it when the thread picks it. *)
LEMMA QueueKeepsRow == ASSUME BaseInv, RowInv, GoToQueue PROVE RowInv'
<1>1. /\ currPlist' = "queue" /\ ppc' = "pick" /\ Count(queue) > 0
      /\ currPlaying' = PlistNext(queue, None) /\ queue' = Popped
      /\ UNCHANGED <<playlist, shuffled, option, playPrev, history>>
  BY DEF GoToQueue, skips
<1>2. currPlaying' \in Indices(queue')
  BY <1>1, PoppedFacts DEF BaseInv, ListsInv, Live
<1>3. NothingLeft' /\ QueueVisit' /\ AheadInv' /\ BehindInv' /\ WholeInv'
  BY <1>1, <1>2 DEF RowInv, NothingLeft, QueueVisit, AheadInv, BehindInv, WholeInv, OnList, Leaving,
     Shuffle, history
<1>4. EachOnceIfNothingLeft'
  BY <1>1 DEF RowInv, EachOnceIfNothingLeft, EachOnce, NoneTwice, history
<1> QED
  BY <1>3, <1>4 DEF RowInv

-----------------------------------------------------------------------------
(* The choice in a list. *)

(* What is said of the row when the thread has chosen in a list, but for   *)
(* where it goes.                                                          *)
LEMMA InListKeeps ==
    ASSUME BaseInv, RowInv, InList, left => left', NEW p \in Candidates
    PROVE  /\ QueueVisit' /\ BehindInv' /\ EachOnceIfNothingLeft'
           /\ whole' /\ Shuffle => LiveFiles(p) = LiveFiles(playlist)
           /\ whole' => ~playPrev
<1>1. /\ currPlist' = Ordered /\ ppc = "choose" /\ ppc' = "pick" /\ Begun
      /\ UNCHANGED <<playlist, option, playPrev>>
  BY DEF InList, skips
<1>2. QueueVisit' /\ BehindInv'
  BY <1>1 DEF QueueVisit, BehindInv, OnList, Leaving, Ordered
<1>3. whole' /\ Shuffle => LiveFiles(p) = LiveFiles(playlist)
  <2> SUFFICES ASSUME whole', Shuffle PROVE LiveFiles(p) = LiveFiles(playlist)
    OBVIOUS
  <2>1. p \in Drawn
    BY CandidateFacts DEF BaseInv, Shuffle
  <2>2. CASE NothingDrawn
    BY <2>1, <2>2, DrawnFacts DEF BaseInv
  <2>3. CASE ~NothingDrawn
    <3>1. p = shuffled /\ whole
      BY <1>1, <2>1, <2>3, DrawnFacts DEF BaseInv, Begun, NewOrder
    <3> QED
      BY <3>1 DEF RowInv, WholeInv
  <2> QED
    BY <2>2, <2>3
<1>4. whole' => ~playPrev
  BY <1>1 DEF Begun, RowInv, WholeInv, Leaving
<1>5. EachOnceIfNothingLeft'
  <2>1. played' = <<>> \/ played' = <<Returned>> \/ played' = played
    BY <1>1 DEF Begun
  <2> QED
    BY <1>1, <2>1, FewOnce DEF RowInv, EachOnceIfNothingLeft, EachOnce, NoneTwice
<1> QED
  BY <1>2, <1>3, <1>4, <1>5

(* Going back ends the row. *)
LEMMA BackKeepsRow == ASSUME BaseInv, RowInv, GoPrev PROVE RowInv'
<1>1. PICK p \in Candidates : InList /\ Kept(p) /\ playPrev /\ inQueue' = FALSE /\ left' = left
  BY DEF GoPrev
<1>2. QueueVisit' /\ BehindInv' /\ EachOnceIfNothingLeft' /\ whole' = FALSE
  BY <1>1, InListKeeps DEF InList, Begun, RowInv, WholeInv, Leaving
<1>3. played' = <<>> /\ beforeQueue' = NoFile
  BY <1>1 DEF InList, Begun
<1> QED
  BY <1>1, <1>2, <1>3 DEF RowInv, NothingLeft, AheadInv, WholeInv, Settled

(* Without Repeat, there is nowhere to stay. *)
LEMMA StayKeepsRow == ASSUME BaseInv, RowInv, Stay PROVE RowInv'
<1>1. PICK p \in Candidates :
        /\ InList /\ Kept(p)
        /\ currPlaying' = IF option["Repeat"] THEN currPlaying ELSE None
        /\ left' = (left \/ (inQueue /\ option["Repeat"])) /\ inQueue' = inQueue
  BY DEF Stay
<1>2. left => left'
  BY <1>1
<1>3. /\ QueueVisit' /\ BehindInv' /\ EachOnceIfNothingLeft'
      /\ whole' /\ Shuffle => LiveFiles(p) = LiveFiles(playlist)
      /\ whole' => ~playPrev
  BY <1>1, <1>2, InListKeeps
<1>4. beforeQueue' = NoFile /\ ppc' = "pick" /\ UNCHANGED <<playlist, option, playPrev>>
  BY <1>1 DEF InList, skips
<1>5. NothingLeft' /\ AheadInv'
  <2>1. inQueue \in BOOLEAN
    BY DEF BaseInv, ScalarsInv, FlagsOK
  <2> QED
    BY <1>1, <1>4, <2>1 DEF NothingLeft, AheadInv, Picking, Leaving, Settled, Repeat
<1>6. WholeInv'
  BY <1>1, <1>3, <1>4 DEF WholeInv, Kept, Shuffle, Leaving
<1> QED
  BY <1>3, <1>5, <1>6 DEF RowInv

(* Where the row is gone on from: the place of the file that was played,   *)
(* or 0 if it is not in the list any more.                                 *)
From(p) == IF AtStart(p) THEN None ELSE Place(p)

LEMMA FromThere ==
    ASSUME BaseInv, NothingLeft, ~left, OnList, ppc = "choose", NEW p, IsPlaylist(p)
    PROVE  From(p) = FindFname(p, fname)
<1>1. ~inQueue /\ beforeQueue = NoFile
  BY DEF NothingLeft, Leaving
<1>2. Returned = fname /\ FindFname(p, beforeQueue) = None
  BY <1>1, NoFileAssumption DEF Returned, FindFname
<1> QED
  BY <1>1, <1>2 DEF From, AtStart, Place

(* In a new order, what stands first is what was played, or nothing was.   *)
LEMMA NewRow ==
    ASSUME BaseInv, Begun, NewOrder, ~playPrev, NEW p \in Drawn
    PROVE  /\ \A f \in ToSet(played') : FindFname(p, f) <= From(p) /\ f \in LiveFiles(p)
           /\ whole' => \A i \in Live(p) : i <= From(p) => FileAt(p, i) \in ToSet(played')
<1>1. /\ IsPlaylist(p) /\ LiveFiles(p) = LiveFiles(playlist)
      /\ Returned \in LiveFiles(playlist) => FindFname(p, Returned) = 1
  BY DrawnFacts DEF BaseInv, NewOrder
<1>2. Live(p) \subseteq Nat \ {0}
  BY <1>1, PlaylistFacts, ItemTypes
<1>3. CASE inQueue \/ Returned \notin LiveFiles(playlist)
  <2>1. ToSet(played') = {}
    BY <1>3 DEF Begun, ToSet
  <2>2. whole' => From(p) = None
    <3>1. CASE inQueue
      BY <3>1 DEF From, AtStart
    <3>2. CASE Returned \notin LiveFiles(playlist) /\ whole'
      <4>1. {Returned, beforeQueue} \cap LiveFiles(playlist) \subseteq {Returned}
        BY <3>2 DEF Begun
      <4>2. beforeQueue \notin LiveFiles(p) /\ Returned \notin LiveFiles(p)
        BY <1>1, <3>2, <4>1
      <4>3. FindFname(p, Returned) = None /\ FindFname(p, beforeQueue) = None
        BY <1>1, <4>2, FindFacts
      <4> QED
        BY <4>3 DEF From, AtStart, Place
    <3> QED
      BY <1>3, <3>1, <3>2
  <2> QED
    BY <1>2, <2>1, <2>2 DEF None
<1>4. CASE ~inQueue /\ Returned \in LiveFiles(playlist)
  <2>1. played' = <<Returned>>
    BY <1>4 DEF Begun
  <2>2. ToSet(played') = {Returned}
    BY <2>1 DEF ToSet
  <2>3. FindFname(p, Returned) = 1 /\ 1 # None
    BY <1>1, <1>4 DEF None
  <2>4. From(p) = 1
    BY <1>4, <2>3 DEF From, AtStart, Place
  <2>5. 1 \in Live(p) /\ p.items[1].file = Returned
    BY <1>1, <2>3, FindFacts
  <2>6. FileAt(p, 1) = Returned
    BY <1>1, <2>5, FindLive
  <2>7. \A i \in Live(p) : i <= 1 => i = 1
    BY <1>2
  <2> QED
    BY <1>1, <1>4, <2>2, <2>3, <2>4, <2>6, <2>7
<1> QED
  BY <1>3, <1>4

(* Otherwise the row goes on: what was played is not behind the place      *)
(* where it goes on from.                                                  *)
LEMMA OldRow ==
    ASSUME BaseInv, RowInv, InList, ~NewOrder, ~playPrev, Settled, NEW p \in Candidates
    PROVE  /\ p = Order /\ OnList
           /\ played' = played /\ whole' = whole
           /\ From(p) = FindFname(p, fname)
           /\ \A f \in ToSet(played) : FindFname(p, f) <= From(p)
           /\ whole /\ Shuffle => /\ fname \in LiveFiles(p)
                                  /\ ToSet(played) \subseteq LiveFiles(p)
                                  /\ \A i \in Live(p) : i <= From(p) => FileAt(p, i) \in ToSet(played)
<1>1. played' = played /\ whole' = whole /\ ppc = "choose"
  BY DEF InList, Begun
<1>2. p = Order
  <2>1. CASE Shuffle
    <3>1. ~NothingDrawn /\ p \in Drawn
      BY <2>1, CandidateFacts DEF NewOrder, Shuffle, BaseInv
    <3>2. p = shuffled
      BY <3>1, DrawnFacts DEF BaseInv
    <3> QED
      BY <2>1, <3>2 DEF Order, List, Ordered, Shuffle
  <2>2. CASE ~Shuffle
    BY <2>2, CandidateFacts DEF Order, List, Ordered, Shuffle, BaseInv
  <2> QED
    BY <2>1, <2>2
<1>3. OnList
  BY <1>1 DEF RowInv, QueueVisit, Leaving, Settled
<1>4. From(p) = FindFname(p, fname)
  BY <1>1, <1>2, <1>3, FromThere, OrderIsPlaylist DEF RowInv, Settled, BaseInv
<1> QED
  BY <1>1, <1>2, <1>3, <1>4 DEF RowInv, BehindInv, Leaving, PlayedUpTo

LEMMA RowGoesOn ==
    ASSUME BaseInv, RowInv, InList, ~playPrev, ~left, ~Repeat, played' # <<>> \/ whole',
           NEW p \in Candidates
    PROVE  /\ \A f \in ToSet(played') : FindFname(p, f) <= From(p)
           /\ whole' /\ Shuffle =>
                /\ ToSet(played') \subseteq LiveFiles(p)
                /\ \A i \in Live(p) : i <= From(p) => FileAt(p, i) \in ToSet(played')
<1>1. CASE NewOrder
  <2>1. Begun /\ p \in Drawn
    BY <1>1, CandidateFacts DEF InList, NewOrder, BaseInv
  <2> QED
    BY <1>1, <2>1, NewRow
<1>2. CASE ~NewOrder
  <2>1. Settled
    BY <1>2 DEF InList, Begun, Settled
  <2> QED
    BY <1>2, <2>1, OldRow
<1> QED
  BY <1>1, <1>2

(* Forward: what comes next is behind the place that the thread goes on    *)
(* from, and nothing is passed over.                                       *)
LEMMA ForwardKeepsRow == ASSUME BaseInv, RowInv, GoForward PROVE RowInv'
<1>1. PICK p \in Candidates :
        LET next == PlistNext(p, IF AtStart(p) THEN None ELSE Place(p))
            over == next = None /\ option["Repeat"]
        IN  /\ InList /\ ~playPrev /\ inQueue' = FALSE /\ left' = left
            /\ \E again \in IF over /\ option["Shuffle"] THEN Fresh(EmptyList) ELSE {p} :
                 /\ currPlaying' = IF over THEN PlistNext(again, None) ELSE next
                 /\ Kept(again)
  BY DEF GoForward
<1> DEFINE next == PlistNext(p, From(p))
           over == next = None /\ Repeat
<1>2. PICK again \in IF over /\ Shuffle THEN Fresh(EmptyList) ELSE {p} :
        currPlaying' = (IF over THEN PlistNext(again, None) ELSE next) /\ Kept(again)
  BY <1>1 DEF From, Repeat, Shuffle
<1>3. /\ QueueVisit' /\ BehindInv' /\ EachOnceIfNothingLeft'
      /\ whole' /\ Shuffle => LiveFiles(p) = LiveFiles(playlist)
      /\ whole' => ~playPrev
  BY <1>1, InListKeeps
<1>4. /\ beforeQueue' = NoFile /\ inQueue' = FALSE /\ ppc' = "pick" /\ currPlist' = Ordered
      /\ UNCHANGED <<playlist, option, playPrev, left>>
  BY <1>1 DEF InList, skips
<1>5. NothingLeft'
  BY <1>4 DEF NothingLeft
<1>6. WholeInv'
  <2>1. ASSUME Shuffle, whole' PROVE LiveFiles(shuffled') = LiveFiles(playlist)
    <3>1. shuffled' = again
      BY <1>2, <2>1 DEF Kept, Shuffle
    <3>2. again \in Fresh(EmptyList) => LiveFiles(again) = LiveFiles(playlist)
      BY EmptyClean, EmptyFacts, FreshFacts DEF BaseInv, ListsInv
    <3>3. again = p \/ again \in Fresh(EmptyList)
      BY <1>2
    <3> QED
      BY <1>3, <2>1, <3>1, <3>2, <3>3
  <2> QED
    BY <1>3, <1>4, <2>1 DEF WholeInv, Shuffle, Leaving
<1>7. AheadInv'
  <2> SUFFICES ASSUME Settled', currPlaying' # None PROVE AheadInv'
    BY <1>4 DEF AheadInv, Picking
  <2>1. ~left /\ ~Repeat /\ (played' # <<>> \/ whole')
    BY <1>4 DEF Settled, Repeat
  <2>2. again = p /\ currPlaying' = next /\ IsPlaylist(p) /\ (~option["Shuffle"] => p = playlist)
    BY <1>2, <2>1, CandidateFacts DEF BaseInv
  <2>3. Order' = p /\ Ordered' = Ordered /\ Shuffle' = Shuffle
    BY <1>1, <1>2, <1>4, <2>2, ListChosen DEF Order, Ordered, Shuffle
  <2>4. From(p) \in Nat
    BY <2>2, FromType DEF From
  <2>5. next \in Live(p) /\ next \in Nat /\ From(p) < next /\ \A i \in Live(p) : i < next => i <= From(p)
    BY <2>2, <2>4, NextFacts
  <2>6. /\ \A f \in ToSet(played') : FindFname(p, f) <= From(p)
        /\ whole' /\ Shuffle =>
             /\ ToSet(played') \subseteq LiveFiles(p)
             /\ \A i \in Live(p) : i <= From(p) => FileAt(p, i) \in ToSet(played')
    BY <1>1, <2>1, RowGoesOn
  <2>7. \A f \in ToSet(played') : FindFname(p, f) < next
    <3>1. \A f \in ToSet(played') : FindFname(p, f) \in Nat
      BY <2>2, FindFacts
    <3> QED
      BY <2>4, <2>5, <2>6, <3>1
  <2> HIDE DEF next
  <2> QED
    BY <1>4, <2>2, <2>3, <2>5, <2>6, <2>7 DEF AheadInv, PlayedBefore
<1> QED
  BY <1>3, <1>5, <1>6, <1>7 DEF RowInv

LEMMA NextKeepsRow == BaseInv /\ RowInv /\ [Next]_orderVars => RowInv'
<1> SUFFICES ASSUME BaseInv, RowInv, [Next]_orderVars PROVE RowInv'
  OBVIOUS
<1>1. CASE UNCHANGED orderVars
  <2>1. UNCHANGED <<lists, position, skips, option, threadPc, history, playlist, shuffled, queue,
                    currPlist, currPlaying, fname, beforeQueue, inQueue, playPrev, ppc, file,
                    played, whole, left>>
    BY <1>1 DEF orderVars, lists, position, skips, threadPc, history
  <2>2. UNCHANGED <<Order, Ordered, Settled, OnList, Shuffle, Repeat, Picking, Leaving>>
    BY <2>1 DEF Order, List, Ordered, Settled, OnList, Shuffle, Repeat, Picking, Leaving
  <2>3. NothingLeft' /\ QueueVisit' /\ WholeInv'
    BY <2>1, <2>2 DEF RowInv, NothingLeft, QueueVisit, WholeInv
  <2>4. AheadInv' /\ BehindInv'
    BY <2>1, <2>2 DEF RowInv, AheadInv, BehindInv, PlayedBefore, PlayedUpTo
  <2>5. EachOnceIfNothingLeft'
    BY <2>1 DEF RowInv, EachOnceIfNothingLeft, EachOnce, NoneTwice
  <2> QED
    BY <2>3, <2>4, <2>5 DEF RowInv
<1> QED
  BY <1>1, CallKeepsRow, OthersKeepRow, PlayKeepsRow, PickKeepsRow, StartKeepsRow, QueueKeepsRow,
     BackKeepsRow, StayKeepsRow, ForwardKeepsRow
     DEF Next, PlayingThread, GoToAnotherFile, UiGoesOn

LEMMA InitRow == Init => RowInv
  BY FewOnce DEF Init, RowInv, NothingLeft, QueueVisit, AheadInv, BehindInv, WholeInv, OnList, Picking,
     Leaving, Settled, EachOnceIfNothingLeft, EachOnce, NoneTwice

LEMMA RowInvariant == SafetySpec => []RowInv
<1>1. BaseInv /\ BaseInv' /\ RowInv /\ [Next]_orderVars => RowInv'
  BY NextKeepsRow
<1> QED
  BY <1>1, InitRow, BaseInvariant, PTL DEF SafetySpec

(* Without Repeat, and with nothing left of an earlier visit to the queue, *)
(* no file is played twice between two calls of the user or two songs of   *)
(* the queue, in the playlist or in any order that was drawn, however long *)
(* they are and whatever was edited before.                                *)
THEOREM EachIsPlayedOnce == SafetySpec => []EachOnceIfNothingLeft
<1>1. RowInv => EachOnceIfNothingLeft
  BY DEF RowInv
<1> QED
  BY <1>1, RowInvariant, PTL

-----------------------------------------------------------------------------
(* None left out. *)

(* A shuffled list that is played as a whole has what the playlist has, so *)
(* the choice goes on in it and draws no other.                            *)
LEMMA WholeRow ==
    ASSUME BaseInv, RowInv, whole, Shuffle, NEW p \in Candidates
    PROVE  p = shuffled /\ LiveFiles(p) = LiveFiles(playlist) /\ ~NewOrder
<1>1. LiveFiles(shuffled) = LiveFiles(playlist)
  BY DEF RowInv, WholeInv
<1>2. IsPlaylist(shuffled) /\ IsPlaylist(playlist) /\ p \in Drawn
  BY CandidateFacts DEF BaseInv, ListsInv, Shuffle
<1>3. ~NothingDrawn
  <2>1. Count(playlist) \in Nat /\ (Count(playlist) = 0 <=> Count(shuffled) = 0)
    BY <1>1, <1>2, CountFacts
  <2> QED
    BY <2>1 DEF NothingDrawn
<1> QED
  BY <1>1, <1>2, <1>3, DrawnFacts DEF BaseInv, NewOrder

(* With Repeat, playing does not end where there is anything to go to. *)
LEMMA RepeatGoesOn ==
    ASSUME BaseInv, RowInv, GoForward, whole, Shuffle, Repeat
    PROVE  currPlaying' # None
<1>1. PICK p \in Candidates :
        LET next == PlistNext(p, IF AtStart(p) THEN None ELSE Place(p))
            over == next = None /\ option["Repeat"]
        IN  /\ Count(p) > 0
            /\ \E again \in IF over /\ option["Shuffle"] THEN Fresh(EmptyList) ELSE {p} :
                 currPlaying' = IF over THEN PlistNext(again, None) ELSE next
  BY DEF GoForward
<1> DEFINE next == PlistNext(p, IF AtStart(p) THEN None ELSE Place(p))
<1>2. LiveFiles(playlist) # {}
  <2>1. IsPlaylist(p)
    BY CandidateFacts DEF BaseInv
  <2> QED
    BY <1>1, <2>1, WholeRow, CountFacts
<1>3. CASE next = None
  <2>1. PICK again \in Fresh(EmptyList) : currPlaying' = PlistNext(again, None)
    BY <1>1, <1>3 DEF Repeat, Shuffle
  <2>2. IsPlaylist(again) /\ LiveFiles(again) = LiveFiles(playlist)
    BY EmptyClean, EmptyFacts, FreshFacts DEF BaseInv, ListsInv, Clean
  <2>3. PICK i \in Live(again) : i \in Nat \ {0}
    BY <1>2, <2>2, CountFacts, PlaylistFacts, ItemTypes
  <2> QED
    BY <2>1, <2>2, <2>3, NextFacts DEF None
<1>4. CASE next # None
  BY <1>1, <1>4
<1> QED
  BY <1>3, <1>4

(* Where the list ends, all of it has been played. *)
LEMMA ListEndsPlayed ==
    ASSUME BaseInv, RowInv, [Next]_orderVars, ListEnds, Shuffle, whole, ~left
    PROVE  ToSet(played) = LiveFiles(playlist)
<1>1. ppc = "choose" /\ option["AutoNext"] /\ currPlaying' = None /\ currPlaying # None
  BY DEF ListEnds, Chosen, BaseInv, ScalarsInv, ThreadInv
<1>2. ~playPrev
  BY <1>1 DEF RowInv, WholeInv, Leaving
<1>3. GoForward \/ Stay
  BY <1>2, ChosenByThread DEF ListEnds, GoPrev
<1>4. ~Repeat
  BY <1>1, <1>3, RepeatGoesOn DEF Stay, Repeat
<1>5. Settled
  BY <1>4 DEF Settled
<1>6. ASSUME NEW p \in Candidates, InList
      PROVE  /\ LiveFiles(p) = LiveFiles(playlist) /\ IsPlaylist(p) /\ fname \in LiveFiles(p)
             /\ ToSet(played) \subseteq LiveFiles(p)
             /\ \A i \in Live(p) : i <= From(p) => FileAt(p, i) \in ToSet(played)
  BY <1>2, <1>5, <1>6, WholeRow, OldRow, CandidateFacts DEF BaseInv
<1>7. CASE GoForward
  <2>1. PICK p \in Candidates : InList /\ PlistNext(p, From(p)) = None
    BY <1>1, <1>4, <1>7 DEF GoForward, From, Repeat
  <2>2. IsPlaylist(p) /\ From(p) \in Nat
    BY <1>6, <2>1, FromType DEF From
  <2>3. \A i \in Live(p) : i <= From(p)
    BY <2>1, <2>2, NextFacts
  <2>4. \A i \in Live(p) : p.items[i].file \in ToSet(played)
    BY <1>6, <2>1, <2>2, <2>3, FindLive
  <2> QED
    BY <1>6, <2>1, <2>4 DEF LiveFiles
<1>8. CASE Stay
  <2>1. PICK p \in Candidates : InList /\ Count(p) = 0
    BY <1>1, <1>8 DEF Stay, GoNext
  <2>2. LiveFiles(p) = {}
    BY <1>6, <2>1, CountFacts
  <2> QED
    BY <1>6, <2>1, <2>2
<1> QED
  BY <1>3, <1>7, <1>8

(* A shuffled list that was played from its start, or from where it was    *)
(* drawn, leaves no file of the playlist out when playing ends.            *)
THEOREM ShufflePlaysAll == SafetySpec => ShuffleLeavesNoneOut
<1> DEFINE A == ListEnds /\ option["Shuffle"] /\ whole /\ ~left
                  => ToSet(played) = LiveFiles(playlist)
<1>1. BaseInv /\ RowInv /\ [Next]_orderVars => [A]_orderVars
  BY ListEndsPlayed DEF Shuffle
<1> HIDE DEF A
<1>2. SafetySpec => [][A]_orderVars
  BY <1>1, BaseInvariant, RowInvariant, PTL DEF SafetySpec
<1> QED
  BY <1>2 DEF ShuffleLeavesNoneOut, A

=============================================================================
