---------------------------- MODULE Window_proofs ----------------------------
(***************************************************************************)
(* Proofs about the main window: its file explorer, for every drive, every *)
(* change other programs make to it and every arrangement of the panes;    *)
(* its toolbar, for every list of items; and its panes, for every width.   *)
(***************************************************************************)
EXTENDS Window, FiniteSetTheorems, WellFoundedInduction, TLAPS

File == Markdown \cup OtherFile
Tree ==
    [disk : SUBSET Path, root : Folder \cup {None}, currentFile : File \cup {None}, stale : BOOLEAN,
     expanded : SUBSET Path, currentItem : Path \cup {None}, items : SUBSET Path, loaded : SUBSET Path,
     open : SUBSET Path, bold : SUBSET Path, placeholder : BOOLEAN]

\* What the panel remembers of items goes with them, and the bold item's handle is that of an item.
Kept(t) ==
    /\ t.loaded \subseteq t.items /\ t.open \subseteq t.items /\ t.bold \subseteq t.items
    /\ t.currentItem \in (t.items \cap t.bold) \cup {None}

\* The tree hangs together, but for whether x shows its entries: everything in it is below the root,
\* all folders on the way were read, and those with entries are open exactly if they are remembered
\* as expanded.
Hangs(t, x) ==
    /\ t.items \subseteq Below(t.root)
    /\ \A i \in t.items : \A f \in Below(t.root) : i \in Below(f) => f \in t.loaded
    /\ \A f \in (t.items \cap Folder) \ {x} :
          Below(f) \cap t.items # {} => (f \in t.open <=> f \in t.expanded)

Marked(t) == t.currentFile \in t.items => t.currentFile \in t.bold
Filled(t) == t.placeholder <=> t.items = {}

\* A tree that is up to date, although the document may still have to be marked.
Fresh(t) == t \in Tree /\ Kept(t) /\ Hangs(t, None) /\ Filled(t) /\ ~t.stale

\* A panel: nothing else is known of a tree that was not read while the panel was hidden.
Sound(t) == t \in Tree /\ Kept(t) /\ (~t.stale => Fresh(t) /\ Marked(t))

PanelOK == Sound(panel) /\ (shown => ~panel.stale)

\* What was saved names a folder and a file, or none.
IInv ==
    /\ PanelOK
    /\ drag \in {"None", "Split", "Outline", "Explorer"}
    /\ ~running => ini.explorerFolder \in Folder \cup {None} /\ ini.lastFile \in File \cup {None}

-----------------------------------------------------------------------------
(* Paths: what is below what. *)

Name == UNION {Range(p) : p \in Path}

LEMMA PathIsSeq ==
    ASSUME NEW p \in Path
    PROVE  p \in Seq(Name) /\ Len(p) \in Nat \ {0} /\ p # None
<1>1. p \in Seq(Name) /\ p # <<>>
  BY PathAssumption DEF Name, None
<1> QED
  BY <1>1 DEF None

\* The folders on the way to a path.
LEMMA Ancestor ==
    ASSUME NEW p \in Path, NEW n \in 1 .. Len(p) - 1
    PROVE  /\ SubSeq(p, 1, n) \in Folder /\ Len(SubSeq(p, 1, n)) = n
           /\ p \in Below(SubSeq(p, 1, n))
<1>1. p \in Seq(Name) /\ Len(p) \in Nat \ {0} /\ p # None
  BY PathIsSeq
<1>2. SubSeq(p, 1, n) \in Folder
  BY PathAssumption
<1>3. Len(SubSeq(p, 1, n)) = n
  BY <1>1
<1>4. SubSeq(p, 1, n) # None /\ SubSeq(p, 1, n) # p
  BY <1>1, <1>3 DEF None
<1>5. SubSeq(SubSeq(p, 1, n), 1, n) = SubSeq(p, 1, n)
  BY <1>1
<1> QED
  BY <1>1, <1>2, <1>3, <1>4, <1>5 DEF Below, IsWithinFolder, IsPrefix

\* The way to a folder is the beginning of the way to what is below it.
LEMMA AncestorOfAncestor ==
    ASSUME NEW p \in Path, NEW n \in 1 .. Len(p), NEW m \in 1 .. n
    PROVE  SubSeq(SubSeq(p, 1, n), 1, m) = SubSeq(p, 1, m)
  BY PathIsSeq

LEMMA BelowIs ==
    ASSUME NEW f \in Path, NEW p \in Below(f)
    PROVE  p \in Path /\ Len(f) \in 1 .. Len(p) - 1 /\ f = SubSeq(p, 1, Len(f))
<1>1. p \in Path /\ f \in Seq(Name) /\ p \in Seq(Name) /\ Len(f) \in Nat \ {0} /\ Len(p) \in Nat
  BY PathIsSeq DEF Below
<1>2. Len(f) <= Len(p) /\ SubSeq(f, 1, Len(f)) = SubSeq(p, 1, Len(f)) /\ p # f
  BY DEF Below, IsWithinFolder, IsPrefix
<1>3. SubSeq(f, 1, Len(f)) = f /\ SubSeq(p, 1, Len(p)) = p
  BY <1>1
<1> QED
  BY <1>1, <1>2, <1>3

LEMMA NothingBelowNone == Below(None) = {}
  BY DEF Below, IsWithinFolder

LEMMA IsBelow ==
    ASSUME NEW p \in Path, NEW f \in Path, Len(f) \in 1 .. Len(p) - 1, f = SubSeq(p, 1, Len(f))
    PROVE  p \in Below(f) /\ f \in Folder
<1>1. SubSeq(p, 1, Len(f)) \in Folder /\ p \in Below(SubSeq(p, 1, Len(f)))
  BY Ancestor
<1> QED
  BY <1>1

LEMMA BelowBelow ==
    ASSUME NEW f \in Path, NEW g \in Below(f), NEW p \in Below(g)
    PROVE  p \in Below(f)
<1>1. g \in Path /\ Len(f) \in 1 .. Len(g) - 1 /\ f = SubSeq(g, 1, Len(f))
  BY BelowIs
<1>2. p \in Path /\ Len(g) \in 1 .. Len(p) - 1 /\ g = SubSeq(p, 1, Len(g))
  BY <1>1, BelowIs
<1>3. Len(p) \in Nat /\ Len(g) \in Nat /\ Len(f) \in Nat
  BY <1>1, <1>2, PathIsSeq
<1>4. f = SubSeq(p, 1, Len(f)) /\ Len(f) \in 1 .. Len(p) - 1
  BY <1>1, <1>2, <1>3, AncestorOfAncestor
<1> QED
  BY <1>2, <1>4, IsBelow

\* Two folders on the way to a path are on the way to each other.
LEMMA OneWay ==
    ASSUME NEW f \in Path, NEW g \in Path, NEW p \in Below(f) \cap Below(g)
    PROVE  f = g \/ f \in Below(g) \/ g \in Below(f)
<1>1. p \in Path /\ Len(f) \in 1 .. Len(p) - 1 /\ f = SubSeq(p, 1, Len(f))
  BY BelowIs
<1>2. Len(g) \in 1 .. Len(p) - 1 /\ g = SubSeq(p, 1, Len(g))
  BY BelowIs
<1>3. Len(p) \in Nat /\ Len(g) \in Nat /\ Len(f) \in Nat
  BY <1>1, PathIsSeq
<1>4. CASE Len(f) = Len(g)
  BY <1>1, <1>2, <1>4
<1>5. CASE Len(f) < Len(g)
  <2>1. SubSeq(SubSeq(p, 1, Len(g)), 1, Len(f)) = SubSeq(p, 1, Len(f))
    BY <1>1, <1>2, <1>3, <1>5, AncestorOfAncestor
  <2>2. f = SubSeq(g, 1, Len(f))
    BY <1>1, <1>2, <2>1
  <2> QED
    BY <1>1, <1>3, <1>5, <2>2, IsBelow
<1>6. CASE Len(g) < Len(f)
  <2>1. SubSeq(SubSeq(p, 1, Len(f)), 1, Len(g)) = SubSeq(p, 1, Len(g))
    BY <1>1, <1>2, <1>3, <1>6, AncestorOfAncestor
  <2>2. g = SubSeq(f, 1, Len(g))
    BY <1>1, <1>2, <2>1
  <2> QED
    BY <1>2, <1>3, <1>6, <2>2, IsBelow
<1> QED
  BY <1>3, <1>4, <1>5, <1>6

LEMMA NotBelowEachOther ==
    ASSUME NEW f \in Path, NEW g \in Path, f \in Below(g)
    PROVE  g \notin Below(f) /\ f # g
<1>1. Len(g) \in 1 .. Len(f) - 1
  BY BelowIs
<1>2. g \in Below(f) => Len(f) \in 1 .. Len(g) - 1
  BY BelowIs
<1> QED
  BY <1>1, <1>2, PathIsSeq

\* The folder that contains a path is the last one on the way to it.
LEMMA ParentIs ==
    ASSUME NEW f \in Path, NEW p \in Below(f)
    PROVE  /\ ParentOf(p) \in Folder /\ p \in Below(ParentOf(p))
           /\ ParentOf(p) = f \/ ParentOf(p) \in Below(f)
<1>1. p \in Path /\ Len(f) \in 1 .. Len(p) - 1 /\ Len(p) \in Nat /\ p # None
  BY BelowIs, PathIsSeq
<1>2. ParentOf(p) = SubSeq(p, 1, Len(p) - 1)
  BY <1>1 DEF ParentOf, Front
<1>3. ParentOf(p) \in Folder /\ Len(ParentOf(p)) = Len(p) - 1 /\ p \in Below(ParentOf(p))
  BY <1>1, <1>2, Ancestor
<1>4. f = ParentOf(p) \/ f \in Below(ParentOf(p)) \/ ParentOf(p) \in Below(f)
  BY <1>3, OneWay DEF Path
<1>5. f \notin Below(ParentOf(p))
  <2>1. f \in Below(ParentOf(p)) => Len(ParentOf(p)) \in 1 .. Len(f) - 1
    BY <1>3, BelowIs DEF Path
  <2> QED
    BY <1>1, <1>3, <2>1
<1> QED
  BY <1>3, <1>4, <1>5

-----------------------------------------------------------------------------
(* Inserting the entries of a folder. *)

LEMMA InsertedIs ==
    ASSUME NEW t \in Tree, NEW folder \in Folder, NEW p \in Inserted(t, folder),
           NEW f \in Below(folder), p \in Below(f)
    PROVE  f \in Inserted(t, folder) \cap Folder /\ Expanded(t, f)
<1>1. folder \in Path /\ f \in Path /\ p \in Path
  BY DEF Path, Inserted, Below
<1>2. Len(f) \in 1 .. Len(p) - 1 /\ f = SubSeq(p, 1, Len(f)) /\ f \in Folder
  BY <1>1, BelowIs, IsBelow
<1>3. Len(folder) \in 1 .. Len(f) - 1
  BY <1>1, BelowIs
<1>4. Len(p) \in Nat /\ Len(f) \in Nat /\ Len(folder) \in Nat
  BY <1>1, PathIsSeq
<1>5. Len(f) \in Len(folder) + 1 .. Len(p) - 1
  BY <1>2, <1>3, <1>4
<1>6. Listable(t, SubSeq(p, 1, Len(f))) /\ Expanded(t, SubSeq(p, 1, Len(f)))
  BY <1>5 DEF Inserted
<1>7. ASSUME NEW m \in Len(folder) + 1 .. Len(f) - 1
      PROVE  Listable(t, SubSeq(f, 1, m)) /\ Expanded(t, SubSeq(f, 1, m))
  <2>1. m \in 1 .. Len(f) /\ m \in Len(folder) + 1 .. Len(p) - 1
    BY <1>2, <1>4
  <2>2. SubSeq(SubSeq(p, 1, Len(f)), 1, m) = SubSeq(p, 1, m)
    BY <1>1, <1>2, <1>4, <2>1, AncestorOfAncestor
  <2>3. SubSeq(f, 1, m) = SubSeq(p, 1, m)
    BY <1>2, <2>2
  <2>4. Listable(t, SubSeq(p, 1, m)) /\ Expanded(t, SubSeq(p, 1, m))
    BY <2>1 DEF Inserted
  <2> QED
    BY <2>3, <2>4
<1>8. Listable(t, f) /\ Expanded(t, f)
  BY <1>2, <1>6
<1>9. f \in Inserted(t, folder)
  BY <1>7, <1>8 DEF Inserted
<1> QED
  BY <1>2, <1>8, <1>9

\* A folder that got entries of its own was remembered as expanded and shows them.
LEMMA ParentIsOpened ==
    ASSUME NEW t \in Tree, NEW folder \in Folder, NEW p \in Inserted(t, folder),
           NEW f \in Inserted(t, folder) \cap Folder, p \in Below(f)
    PROVE  Expanded(t, f) /\ ListFolder(t, f) # {}
<1> DEFINE c == SubSeq(p, 1, Len(f) + 1)
<1>1. f \in Path /\ f \in Below(folder) /\ folder \in Path /\ p \in Path
  BY DEF Path, Inserted, Below
<1>2. Len(f) \in 1 .. Len(p) - 1 /\ f = SubSeq(p, 1, Len(f)) /\ Len(p) \in Nat
  BY <1>1, BelowIs, PathIsSeq
<1>4. Expanded(t, f)
  BY <1>1, InsertedIs
<1>5. CASE Len(f) + 1 = Len(p)
  <2>1. p \in ListFolder(t, f)
    BY <1>2, <1>5 DEF ListFolder, Inserted
  <2> QED
    BY <1>4, <2>1
<1>6. CASE Len(f) + 1 < Len(p)
  <2>1. Len(f) + 1 \in 1 .. Len(p) - 1
    BY <1>2, <1>6
  <2>2. c \in Folder /\ Len(c) = Len(f) + 1 /\ p \in Below(c)
    BY <1>1, <2>1, Ancestor
  <2>3. SubSeq(c, 1, Len(f)) = SubSeq(p, 1, Len(f))
    BY <1>1, <1>2, <2>1, AncestorOfAncestor
  <2> HIDE DEF c
  <2>4. c \in Below(f)
    BY <1>1, <1>2, <2>2, <2>3, IsBelow DEF Path
  <2>5. c \in Below(folder)
    BY <1>1, <2>4, BelowBelow
  <2>6. c \in Inserted(t, folder)
    BY <2>2, <2>5, InsertedIs
  <2>7. c \in ListFolder(t, f)
    BY <2>2, <2>4, <2>6 DEF ListFolder, Inserted
  <2> QED
    BY <1>4, <2>7
<1> QED
  BY <1>2, <1>5, <1>6

\* What AddEntries leaves alone and what it changes.
LEMMA AddEntriesIs ==
    ASSUME NEW t \in Tree, NEW new \in SUBSET Path
    PROVE  LET u == AddEntries(t, new) IN
           /\ u \in Tree
           /\ u.root = t.root /\ u.currentFile = t.currentFile /\ u.stale = t.stale
           /\ u.expanded = t.expanded /\ u.placeholder = t.placeholder /\ u.disk = t.disk
           /\ u.items = t.items \cup new
           /\ u.loaded = t.loaded \cup {f \in new \cap Folder : Expanded(t, f)}
           /\ u.open = t.open \cup {f \in new \cap Folder : Expanded(t, f) /\ ListFolder(t, f) # {}}
           /\ u.bold = t.bold \cup (new \cap {t.currentFile})
           /\ u.currentItem = IF t.currentFile \in new THEN t.currentFile ELSE t.currentItem
<1> DEFINE items == t.items \cup new
           loaded == t.loaded \cup {f \in new \cap Folder : Expanded(t, f)}
           open == t.open \cup {f \in new \cap Folder : Expanded(t, f) /\ ListFolder(t, f) # {}}
           bold == t.bold \cup (new \cap {t.currentFile})
           item == IF t.currentFile \in new THEN t.currentFile ELSE t.currentItem
<1>1. items \in SUBSET Path /\ loaded \in SUBSET Path /\ open \in SUBSET Path /\ bold \in SUBSET Path
  BY DEF Tree, Path
<1>2. item \in Path \cup {None}
  BY DEF Tree, Path
<1>3. AddEntries(t, new) =
        [t EXCEPT !.items = items, !.loaded = loaded, !.open = open, !.bold = bold, !.currentItem = item]
  BY DEF AddEntries
<1> HIDE DEF items, loaded, open, bold, item
<1>4. LET u == AddEntries(t, new) IN
      /\ u \in Tree
      /\ u.root = t.root /\ u.currentFile = t.currentFile /\ u.stale = t.stale
      /\ u.expanded = t.expanded /\ u.placeholder = t.placeholder /\ u.disk = t.disk
      /\ u.items = items /\ u.loaded = loaded /\ u.open = open /\ u.bold = bold /\ u.currentItem = item
  BY <1>1, <1>2, <1>3, ZenonT(60) DEF Tree
<1> QED
  BY <1>4 DEF items, loaded, open, bold, item

LEMMA InsertFrame ==
    ASSUME NEW t \in Tree, NEW folder, NEW u, u = InsertEntries(t, folder)
    PROVE  /\ u.root = t.root /\ u.currentFile = t.currentFile /\ u.disk = t.disk /\ u.stale = t.stale
           /\ u.placeholder = t.placeholder /\ u.items = t.items \cup Inserted(t, folder)
<1>1. Inserted(t, folder) \in SUBSET Path
  BY DEF Inserted, Below
<1> QED
  BY <1>1, AddEntriesIs DEF InsertEntries

LEMMA InsertKeeps ==
    ASSUME NEW t \in Tree, Kept(t), NEW folder \in Folder, Hangs(t, folder),
           folder = t.root \/ folder \in t.loaded, Below(folder) \cap t.items = {},
           NEW u, u = InsertEntries(t, folder)
    PROVE  /\ u \in Tree /\ Kept(u) /\ Hangs(u, folder)
           /\ Marked(t) => Marked(u)
<1> DEFINE new == Inserted(t, folder)
<1>0. folder \in Path /\ new \in SUBSET Path /\ new \subseteq Below(folder) /\ t.items \subseteq Path
  BY DEF Path, Inserted, Below, Tree
<1>1. /\ u \in Tree
      /\ u.root = t.root /\ u.currentFile = t.currentFile /\ u.expanded = t.expanded
      /\ u.items = t.items \cup new
      /\ u.loaded = t.loaded \cup {f \in new \cap Folder : Expanded(t, f)}
      /\ u.open = t.open \cup {f \in new \cap Folder : Expanded(t, f) /\ ListFolder(t, f) # {}}
      /\ u.bold = t.bold \cup (new \cap {t.currentFile})
      /\ u.currentItem = IF t.currentFile \in new THEN t.currentFile ELSE t.currentItem
  BY <1>0, AddEntriesIs DEF InsertEntries
<1>2. Kept(u)
  BY <1>1 DEF Kept
<1>3. folder = t.root \/ (folder \in Below(t.root) /\ t.root \in Path)
  BY NothingBelowNone DEF Kept, Hangs, Tree, Path
<1>4. u.items \subseteq Below(t.root)
  BY <1>0, <1>1, <1>3, BelowBelow DEF Hangs
<1>5. ASSUME NEW i \in u.items, NEW f \in Below(t.root), i \in Below(f)
      PROVE  f \in u.loaded
  <2>1. CASE i \in t.items
    BY <1>1, <1>5, <2>1 DEF Hangs
  <2>2. CASE i \in new
    <3>1. f \in Path /\ i \in Below(folder)
      BY <2>2 DEF Below, Inserted
    <3>2. f = folder \/ f \in Below(folder) \/ folder \in Below(f)
      BY <1>0, <1>5, <3>1, OneWay
    <3>3. CASE f \in Below(folder)
      BY <1>1, <1>5, <2>2, <3>3, InsertedIs
    <3>4. CASE f = folder
      BY <1>0, <1>1, <3>4, NotBelowEachOther
    <3>5. CASE folder \in Below(f)
      <4>1. folder # t.root
        BY <1>0, <3>1, <3>5, NotBelowEachOther
      <4>2. folder \in t.items
        BY <4>1 DEF Kept
      <4> QED
        BY <1>1, <3>5, <4>2 DEF Hangs
    <3> QED
      BY <3>2, <3>3, <3>4, <3>5
  <2> QED
    BY <1>1, <2>1, <2>2
<1>6. ASSUME NEW f \in (u.items \cap Folder) \ {folder}, NEW p \in Below(f) \cap u.items
      PROVE  f \in u.open <=> f \in u.expanded
  <2>0. f \in Path
    BY DEF Path
  <2>1. CASE f \in new
    <3>1. p \in new
      BY <1>0, <1>1, <2>1, BelowBelow
    <3>2. Expanded(t, f) /\ ListFolder(t, f) # {}
      BY <2>1, <3>1, ParentIsOpened
    <3> QED
      BY <1>1, <2>1, <3>2 DEF Expanded
  <2>2. CASE f \notin new
    <3>1. ASSUME p \in new
          PROVE  \E item \in t.items : item \in Below(f)
      <4>1. f = folder \/ f \in Below(folder) \/ folder \in Below(f)
        BY <1>0, <2>0, <3>1, OneWay
      <4>2. f \notin Below(folder)
        BY <2>2, <3>1, InsertedIs
      <4>3. folder \in Below(f)
        BY <4>1, <4>2
      <4>4. folder # t.root
        BY <1>0, <1>1, <2>0, <2>2, <4>3, NotBelowEachOther DEF Hangs
      <4> QED
        BY <4>3, <4>4 DEF Kept
    <3>2. Below(f) \cap t.items # {}
      BY <1>1, <3>1
    <3>3. f \in t.open <=> f \in t.expanded
      BY <1>1, <2>2, <3>2 DEF Hangs
    <3> QED
      BY <1>1, <2>2, <3>3
  <2> QED
    BY <2>1, <2>2
<1>7. Hangs(u, folder)
  BY <1>1, <1>4, <1>5, <1>6 DEF Hangs
<1>8. Marked(t) => Marked(u)
  BY <1>1 DEF Marked
<1> QED
  BY <1>1, <1>2, <1>7, <1>8

-----------------------------------------------------------------------------
(* Reading the tree, or a folder of it, again. *)

SameFocus(t, u) == u.root = t.root /\ u.currentFile = t.currentFile /\ u.disk = t.disk

LEMMA DeleteItemsIs ==
    ASSUME NEW t \in Tree, NEW gone \in SUBSET Path
    PROVE  LET u == DeleteItems(t, gone) IN
           /\ u \in Tree
           /\ SameFocus(t, u) /\ u.stale = t.stale
           /\ u.expanded = t.expanded /\ u.placeholder = t.placeholder
           /\ u.items = t.items \ gone /\ u.loaded = t.loaded \ gone
           /\ u.open = t.open \ gone /\ u.bold = t.bold \ gone
           /\ u.currentItem = IF t.currentItem \in gone THEN None ELSE t.currentItem
<1> DEFINE items == t.items \ gone
           loaded == t.loaded \ gone
           open == t.open \ gone
           bold == t.bold \ gone
           item == IF t.currentItem \in gone THEN None ELSE t.currentItem
<1>1. items \in SUBSET Path /\ loaded \in SUBSET Path /\ open \in SUBSET Path /\ bold \in SUBSET Path
  BY DEF Tree
<1>2. item \in Path \cup {None}
  BY DEF Tree
<1>3. DeleteItems(t, gone) =
        [t EXCEPT !.items = items, !.loaded = loaded, !.open = open, !.bold = bold, !.currentItem = item]
  BY DEF DeleteItems
<1> HIDE DEF items, loaded, open, bold, item
<1>4. LET u == DeleteItems(t, gone) IN
      /\ u \in Tree
      /\ SameFocus(t, u) /\ u.stale = t.stale
      /\ u.expanded = t.expanded /\ u.placeholder = t.placeholder
      /\ u.items = items /\ u.loaded = loaded /\ u.open = open /\ u.bold = bold /\ u.currentItem = item
  BY <1>1, <1>2, <1>3, ZenonT(60) DEF Tree, SameFocus
<1> QED
  BY <1>4 DEF items, loaded, open, bold, item

LEMMA RebuildIsSound ==
    ASSUME NEW t \in Tree, Kept(t), NEW u, u = Rebuild(t)
    PROVE  Fresh(u) /\ Marked(u) /\ SameFocus(t, u)
<1> DEFINE bare == DeleteItems(t, t.items)
           r == [bare EXCEPT !.stale = FALSE, !.placeholder = FALSE]
<1>1. t.items \in SUBSET Path
  BY DEF Tree
<1>2. /\ bare \in Tree /\ SameFocus(t, bare)
      /\ bare.items = {} /\ bare.loaded = {} /\ bare.open = {} /\ bare.bold = {} /\ bare.currentItem = None
  BY <1>1, DeleteItemsIs DEF Kept
<1> HIDE DEF bare
<1>3. /\ r \in Tree /\ SameFocus(t, r) /\ ~r.stale /\ r.placeholder = FALSE
      /\ r.items = {} /\ r.loaded = {} /\ r.open = {} /\ r.bold = {} /\ r.currentItem = None
  BY <1>2 DEF Tree, SameFocus
<1>4. u = FillRoot(r)
  BY DEF Rebuild, bare
<1> HIDE DEF r
<1>5. CASE u = [r EXCEPT !.placeholder = TRUE]
  <2>1. /\ u \in Tree /\ SameFocus(t, u) /\ ~u.stale /\ u.placeholder
        /\ u.items = {} /\ u.loaded = {} /\ u.open = {} /\ u.bold = {} /\ u.currentItem = None
    BY <1>3, <1>5 DEF Tree, SameFocus
  <2> QED
    BY <2>1 DEF Fresh, Marked, Kept, Hangs, Filled
<1>6. CASE u = InsertEntries(r, r.root) /\ r.root \in Folder /\ ListFolder(r, r.root) # {}
  <2>1. Kept(r) /\ Hangs(r, r.root) /\ Marked(r)
    BY <1>3 DEF Kept, Hangs, Marked
  <2>2. u \in Tree /\ Kept(u) /\ Hangs(u, r.root) /\ Marked(u)
    BY <1>3, <1>6, <2>1, InsertKeeps
  <2>4. SameFocus(r, u) /\ ~u.stale /\ u.placeholder = FALSE /\ u.items = Inserted(r, r.root)
    <3>1. /\ u.root = r.root /\ u.currentFile = r.currentFile /\ u.disk = r.disk /\ u.stale = r.stale
          /\ u.placeholder = r.placeholder /\ u.items = r.items \cup Inserted(r, r.root)
      BY <1>3, <1>6, InsertFrame, ZenonT(60)
    <3>2. r.items \cup Inserted(r, r.root) = Inserted(r, r.root)
      BY <1>3
    <3> QED
      BY <1>3, <3>1, <3>2 DEF SameFocus
  <2>5. PICK p : p \in ListFolder(r, r.root)
    BY <1>6
  <2>6. Len(p) \in Nat /\ Len(r.root) \in Nat
    BY <1>6, <2>5, PathIsSeq DEF ListFolder, Below, Path
  <2>7. p \in Inserted(r, r.root)
    BY <2>5, <2>6 DEF ListFolder, Inserted
  <2>8. r.root \notin u.items
    BY <1>6, <2>2, <2>4, NotBelowEachOther DEF Hangs, SameFocus, Path
  <2>9. Hangs(u, None)
    BY <2>2, <2>8 DEF Hangs
  <2> QED
    BY <1>3, <2>2, <2>4, <2>7, <2>9 DEF Fresh, Filled, SameFocus
<1> QED
  BY <1>4, <1>5, <1>6 DEF FillRoot, Readable

\* A folder of the tree is read, if it was not; it may not show its entries yet.
LEMMA EnsureLoadedIsSound ==
    ASSUME NEW t \in Tree, Kept(t), Hangs(t, None), NEW folder \in t.items \cap Folder,
           NEW l, l = EnsureLoaded(t, folder)
    PROVE  /\ l \in Tree /\ Kept(l) /\ Hangs(l, folder) /\ SameFocus(t, l)
           /\ Marked(t) => Marked(l)
           /\ l.stale = t.stale /\ l.placeholder = t.placeholder /\ t.items \subseteq l.items
<1>0. folder \in Path /\ None \notin Folder
  BY PathAssumption DEF Path
<1>1. Hangs(t, folder)
  BY <1>0 DEF Hangs
<1>2. CASE folder \in t.loaded
  BY <1>1, <1>2 DEF EnsureLoaded, SameFocus
<1>3. CASE folder \notin t.loaded
  <2> DEFINE r == [t EXCEPT !.loaded = @ \cup {folder}]
  <2>1. /\ r \in Tree /\ SameFocus(t, r) /\ r.stale = t.stale /\ r.placeholder = t.placeholder
        /\ r.items = t.items /\ r.loaded = t.loaded \cup {folder} /\ r.open = t.open /\ r.bold = t.bold
        /\ r.currentItem = t.currentItem /\ r.expanded = t.expanded
    BY <1>0 DEF Tree, SameFocus
  <2>2. l = InsertEntries(r, folder)
    BY <1>3 DEF EnsureLoaded
  <2> HIDE DEF r
  <2>3. Kept(r) /\ Hangs(r, folder) /\ (Marked(t) => Marked(r))
    BY <1>1, <2>1 DEF Kept, Hangs, Marked, SameFocus
  <2>4. Below(folder) \cap r.items = {}
    BY <1>3, <2>1 DEF Hangs
  <2>5. l \in Tree /\ Kept(l) /\ Hangs(l, folder) /\ (Marked(r) => Marked(l))
    BY <2>1, <2>2, <2>3, <2>4, InsertKeeps
  <2>6. SameFocus(r, l) /\ l.stale = r.stale /\ l.placeholder = r.placeholder /\ r.items \subseteq l.items
    BY <2>1, <2>2, InsertFrame DEF SameFocus
  <2> QED
    BY <2>1, <2>3, <2>5, <2>6 DEF SameFocus
<1> QED
  BY <1>2, <1>3

\* Its item is expanded, and remembered as expanded.
LEMMA ExpandIsSound ==
    ASSUME NEW t \in Tree, Kept(t), Hangs(t, None), NEW folder \in t.items \cap Folder,
           NEW u, u = ExpandItem(t, folder)
    PROVE  /\ u \in Tree /\ Kept(u) /\ Hangs(u, None) /\ SameFocus(t, u)
           /\ Marked(t) => Marked(u)
           /\ u.stale = t.stale /\ u.placeholder = t.placeholder /\ t.items \subseteq u.items
<1> DEFINE l == EnsureLoaded(t, folder)
           e == TreeExpand(l, folder)
<1>0. folder \in Path
  BY DEF Path
<1>1. /\ l \in Tree /\ Kept(l) /\ Hangs(l, folder) /\ SameFocus(t, l)
      /\ Marked(t) => Marked(l)
      /\ l.stale = t.stale /\ l.placeholder = t.placeholder /\ t.items \subseteq l.items
  BY EnsureLoadedIsSound
<1>2. u = AddExpanded(e, {folder})
  BY DEF ExpandItem
<1> HIDE DEF l
<1>3. /\ e \in Tree /\ SameFocus(l, e)
      /\ e.stale = l.stale /\ e.placeholder = l.placeholder /\ e.items = l.items /\ e.loaded = l.loaded
      /\ e.bold = l.bold /\ e.currentItem = l.currentItem /\ e.expanded = l.expanded
      /\ e.open = l.open \cup (IF Below(folder) \cap l.items = {} THEN {} ELSE {folder})
  BY <1>0, <1>1 DEF TreeExpand, Tree, SameFocus
<1> HIDE DEF e
<1>4. /\ u \in Tree /\ SameFocus(l, u)
      /\ u.stale = l.stale /\ u.placeholder = l.placeholder /\ u.items = l.items /\ u.loaded = l.loaded
      /\ u.bold = l.bold /\ u.currentItem = l.currentItem /\ u.expanded = l.expanded \cup {folder}
      /\ u.open = l.open \cup (IF Below(folder) \cap l.items = {} THEN {} ELSE {folder})
  BY <1>0, <1>2, <1>3 DEF AddExpanded, Tree, SameFocus
<1>5. Kept(u) /\ (Marked(l) => Marked(u))
  BY <1>1, <1>4 DEF Kept, Marked, SameFocus
<1>6. Hangs(u, None)
  BY <1>1, <1>4 DEF Hangs, SameFocus
<1> QED
  BY <1>1, <1>4, <1>5, <1>6 DEF SameFocus


\* A folder is read again from an item without entries.
LEMMA UnreadIsSound ==
    ASSUME NEW t, Fresh(t), NEW folder \in t.loaded \cap Folder, folder # t.root,
           NEW reset, reset = Unread(t, folder)
    PROVE  /\ Fresh(reset) /\ SameFocus(t, reset) /\ folder \in t.items \cap reset.items
           /\ reset.items = t.items \ Below(folder) /\ reset.loaded = (t.loaded \ Below(folder)) \ {folder}
           /\ reset.expanded = t.expanded
<1> DEFINE closed == TreeCollapse(t, folder)
           bare == DeleteItems(closed, Below(folder))
<1>1. t \in Tree /\ Kept(t) /\ Hangs(t, None) /\ Filled(t) /\ ~t.stale /\ folder \in Path
  BY DEF Fresh, Path
<1>2. /\ closed \in Tree /\ SameFocus(t, closed) /\ closed.stale = t.stale
      /\ closed.placeholder = t.placeholder /\ closed.items = t.items /\ closed.loaded = t.loaded
      /\ closed.open = t.open \ {folder} /\ closed.bold = t.bold
      /\ closed.currentItem = t.currentItem /\ closed.expanded = t.expanded
  BY <1>1 DEF TreeCollapse, Tree, SameFocus
<1> HIDE DEF closed
<1>3. /\ bare \in Tree /\ SameFocus(closed, bare) /\ bare.stale = closed.stale
      /\ bare.placeholder = closed.placeholder /\ bare.expanded = closed.expanded
      /\ bare.items = closed.items \ Below(folder) /\ bare.loaded = closed.loaded \ Below(folder)
      /\ bare.open = closed.open \ Below(folder) /\ bare.bold = closed.bold \ Below(folder)
      /\ bare.currentItem = IF closed.currentItem \in Below(folder) THEN None ELSE closed.currentItem
  <2>1. Below(folder) \in SUBSET Path
    BY DEF Below
  <2> QED
    BY <1>2, <2>1, DeleteItemsIs
<1>4. reset = [bare EXCEPT !.loaded = @ \ {folder}]
  BY DEF Unread, bare, closed
<1> HIDE DEF bare
<1>5. /\ reset \in Tree /\ SameFocus(t, reset) /\ ~reset.stale /\ reset.placeholder = t.placeholder
      /\ reset.expanded = t.expanded
      /\ reset.items = t.items \ Below(folder) /\ reset.loaded = (t.loaded \ Below(folder)) \ {folder}
      /\ reset.open = (t.open \ {folder}) \ Below(folder) /\ reset.bold = t.bold \ Below(folder)
      /\ reset.currentItem = IF t.currentItem \in Below(folder) THEN None ELSE t.currentItem
  BY <1>1, <1>2, <1>3, <1>4 DEF Tree, SameFocus
<1>6. Kept(reset)
  BY <1>1, <1>5 DEF Kept
<1>7. folder \in reset.items /\ folder \in t.items
  BY <1>1, <1>5, NotBelowEachOther DEF Kept
<1>8. Hangs(reset, None)
  <2>1. ASSUME NEW i \in reset.items, NEW f \in Below(t.root), i \in Below(f)
        PROVE  f \in reset.loaded
    <3>1. f \in t.loaded /\ i \notin Below(folder)
      BY <1>1, <1>5, <2>1 DEF Hangs
    <3>2. f \notin Below(folder) /\ f # folder
      BY <1>1, <2>1, <3>1, BelowBelow
    <3> QED
      BY <1>5, <3>1, <3>2
  <2>2. ASSUME NEW f \in (reset.items \cap Folder) \ {None}, Below(f) \cap reset.items # {}
        PROVE  f \in reset.open <=> f \in reset.expanded
    <3>1. f # folder /\ f \notin Below(folder) /\ Below(f) \cap t.items # {} /\ f \in t.items
      BY <1>5, <2>2
    <3>2. f \in t.open <=> f \in t.expanded
      BY <1>1, <3>1, <2>2 DEF Hangs
    <3> QED
      BY <1>5, <3>1, <3>2
  <2> QED
    BY <1>1, <1>5, <2>1, <2>2 DEF Hangs, SameFocus
<1>9. Filled(reset)
  BY <1>1, <1>5, <1>7 DEF Filled
<1> QED
  BY <1>5, <1>6, <1>7, <1>8, <1>9 DEF Fresh

LEMMA RelistIsSound ==
    ASSUME NEW t, Fresh(t), NEW folder \in (t.items \cup {t.root}) \cap Folder, NEW u, u = Relist(t, folder)
    PROVE  Fresh(u) /\ SameFocus(t, u)
<1>1. t \in Tree /\ Kept(t)
  BY DEF Fresh
<1>2. CASE folder = t.root
  BY <1>1, <1>2, RebuildIsSound DEF Relist
<1>3. CASE folder # t.root /\ folder \notin t.loaded
  BY <1>3 DEF Relist, SameFocus
<1>4. CASE folder # t.root /\ folder \in t.loaded
  <2> DEFINE reset == Unread(t, folder)
  <2>1. u = ExpandItem(reset, folder) \/ u = reset
    BY <1>4 DEF Relist
  <2>2. Fresh(reset) /\ SameFocus(t, reset) /\ folder \in reset.items
    BY <1>4, UnreadIsSound
  <2> HIDE DEF reset
  <2>3. CASE u = reset
    BY <2>2, <2>3
  <2>4. CASE u = ExpandItem(reset, folder)
    <3>1. reset \in Tree /\ Kept(reset) /\ Hangs(reset, None) /\ Filled(reset) /\ ~reset.stale
      BY <2>2 DEF Fresh
    <3>2. /\ u \in Tree /\ Kept(u) /\ Hangs(u, None) /\ SameFocus(reset, u)
          /\ u.stale = reset.stale /\ u.placeholder = reset.placeholder /\ reset.items \subseteq u.items
      BY <2>2, <2>4, <3>1, ExpandIsSound
    <3>3. Filled(u)
      BY <2>2, <3>1, <3>2 DEF Filled
    <3> QED
      BY <2>2, <3>1, <3>2, <3>3 DEF Fresh, SameFocus
  <2> QED
    BY <2>1, <2>3, <2>4
<1> QED
  BY <1>2, <1>3, <1>4

-----------------------------------------------------------------------------
(* Finding the item of a path. *)

\* One step of FindItem: it finds the item of this part of the path, or the path has no item.
LEMMA GoDownIsSound ==
    ASSUME NEW s, Fresh(s.tree), NEW path \in Path, NEW here \in Below(s.tree.root),
           here = path \/ (here \in Folder /\ path \in Below(here)),
           s.item = None => path \notin s.tree.items,
           s.item # None => ParentOf(here) \in s.tree.items \cup {s.tree.root},
           NEW v, v = GoDown(s, here, path)
    PROVE  /\ Fresh(v.tree) /\ SameFocus(s.tree, v.tree)
           /\ v.item = None => path \notin v.tree.items
           /\ v.item # None => v.item = here /\ here \in v.tree.items
<1>1. CASE s.item = None
  BY <1>1 DEF GoDown, SameFocus
<1>2. CASE s.item # None
  <2> DEFINE t == Sought(s, here, path)
  <2>1. s.tree.root \in Path /\ here \in Path
    BY NothingBelowNone DEF Fresh, Tree, Path, Below
  <2>2. Fresh(t) /\ SameFocus(s.tree, t)
    <3>1. ParentOf(here) \in Folder
      BY <2>1, ParentIs
    <3>2. t = s.tree \/ t = Relist(s.tree, ParentOf(here))
      BY DEF Sought
    <3> QED
      BY <1>2, <3>1, <3>2, RelistIsSound DEF SameFocus
  <2>3. v = Enter(t, here, path)
    BY <1>2 DEF GoDown
  <2> HIDE DEF t
  <2>4. here # None
    BY <2>1, PathIsSeq
  <2>5. CASE here \notin t.items
    <3>1. v.tree = t /\ v.item = None
      BY <2>3, <2>5 DEF Enter, Search
    <3>2. path \notin t.items
      <4>1. t.loaded \subseteq t.items /\ here \in Below(t.root)
        BY <2>2 DEF Fresh, Kept, SameFocus
      <4> QED
        BY <2>2, <2>5, <4>1 DEF Fresh, Hangs
    <3> QED
      BY <2>2, <3>1, <3>2
  <2>6. CASE here \in t.items /\ here = path
    <3>1. v.tree = t /\ v.item = here
      BY <2>3, <2>6 DEF Enter, Search
    <3> QED
      BY <2>2, <2>4, <2>6, <3>1
  <2>7. CASE here \in t.items /\ here # path
    <3>1. v.tree = ExpandItem(t, here) /\ v.item = here
      BY <2>3, <2>7 DEF Enter, Search
    <3>2. t \in Tree /\ Kept(t) /\ Hangs(t, None) /\ Filled(t) /\ ~t.stale
      BY <2>2 DEF Fresh
    <3>3. /\ v.tree \in Tree /\ Kept(v.tree) /\ Hangs(v.tree, None) /\ SameFocus(t, v.tree)
          /\ v.tree.stale = t.stale /\ v.tree.placeholder = t.placeholder /\ t.items \subseteq v.tree.items
      BY <2>7, <3>1, <3>2, ExpandIsSound
    <3>4. Fresh(v.tree)
      BY <2>7, <3>2, <3>3 DEF Fresh, Filled
    <3> QED
      BY <2>2, <2>4, <2>7, <3>1, <3>3, <3>4 DEF SameFocus
  <2> QED
    BY <2>5, <2>6, <2>7
<1> QED
  BY <1>1, <1>2


LEMMA LeastNatural ==
    ASSUME NEW S \in SUBSET Nat, S # {}
    PROVE  \E x \in S : \A y \in S : x <= y
<1>1. PICK x \in S : \A y \in S : ~(<<y, x>> \in OpToRel(<, Nat))
  BY NatLessThanWellFounded, WFMin
<1>2. \A y \in S : ~(y < x)
  BY <1>1 DEF OpToRel
<1> QED
  BY <1>2

\* Induction, for a set of numbers.
LEMMA AllNaturals ==
    ASSUME NEW S \in SUBSET Nat, 0 \in S, \A n \in S : n + 1 \in S
    PROVE  S = Nat
<1> SUFFICES ASSUME Nat \ S # {}
             PROVE  FALSE
  OBVIOUS
<1>1. PICK x \in Nat \ S : \A y \in Nat \ S : x <= y
  BY LeastNatural, Nat \ S \in SUBSET Nat
<1>2. x # 0 /\ x - 1 \in S
  BY <1>1
<1> QED
  BY <1>2

\* The steps of FindItem exist: those up to a name determine the next one.
LEMMA FindItemIs ==
    ASSUME NEW t, NEW path, Len(path) - Len(t.root) \in Nat
    PROVE  \E F : /\ F[0] = Search(t, t.root, FALSE, FALSE)
                  /\ \A n \in Nat : F[n + 1] = GoDown(F[n], SubSeq(path, 1, Len(t.root) + (n + 1)), path)
                  /\ FindItem(t, path) = F[Len(path) - Len(t.root)]
<1> DEFINE First == Search(t, t.root, FALSE, FALSE)
           Then(s, n) == GoDown(s, SubSeq(path, 1, Len(t.root) + n), path)
           IsRun(g, k) == g = [n \in 0 .. k |-> IF n = 0 THEN First ELSE Then(g[n - 1], n)]
           Runs == {k \in Nat : \E g : IsRun(g, k)}
           Run(k) == CHOOSE g : IsRun(g, k)
           F == [n \in Nat |-> Run(n)[n]]
           IsFound(f) == f = [n \in Nat |-> IF n = 0 THEN First ELSE Then(f[n - 1], n)]
<1>1. FindItem(t, path) = (CHOOSE f : IsFound(f))[Len(path) - Len(t.root)]
  BY DEF FindItem
<1> HIDE DEF First, Then
<1>2. 0 \in Runs
  <2>1. IsRun([n \in 0 .. 0 |-> First], 0)
    OBVIOUS
  <2> QED
    BY <2>1
<1>3. ASSUME NEW k \in Runs
      PROVE  k + 1 \in Runs
  <2>1. PICK g : IsRun(g, k)
    OBVIOUS
  <2> DEFINE h == [n \in 0 .. k + 1 |-> IF n <= k THEN g[n] ELSE Then(g[k], n)]
  <2>2. ASSUME NEW n \in 0 .. k + 1
        PROVE  h[n] = IF n = 0 THEN First ELSE Then(h[n - 1], n)
    BY <2>1
  <2>3. IsRun(h, k + 1)
    BY <2>2
  <2> HIDE DEF h, IsRun
  <2> QED
    BY <2>3
<1>4. Runs = Nat
  <2> HIDE DEF Runs
  <2>1. Runs \in SUBSET Nat
    BY DEF Runs
  <2> QED
    BY <1>2, <1>3, <2>1, AllNaturals
<1>5. ASSUME NEW k \in Nat
      PROVE  IsRun(Run(k), k)
  BY <1>4
<1> HIDE DEF Run, Runs
<1>6. ASSUME NEW k \in Nat
      PROVE  Run(k + 1)[k] = Run(k)[k]
  <2> DEFINE Same == {n \in Nat : n <= k => Run(k + 1)[n] = Run(k)[n]}
  <2>1. 0 \in Same
    BY <1>5
  <2>2. ASSUME NEW n \in Same
        PROVE  n + 1 \in Same
    <3>1. ASSUME n + 1 <= k
          PROVE  Run(k + 1)[n + 1] = Run(k)[n + 1]
      <4>1. Run(k + 1)[n] = Run(k)[n]
        BY <3>1
      <4>2. Run(k + 1)[n + 1] = Then(Run(k + 1)[n], n + 1)
        BY <1>5, <3>1
      <4>3. Run(k)[n + 1] = Then(Run(k)[n], n + 1)
        BY <1>5, <3>1
      <4> QED
        BY <4>1, <4>2, <4>3
    <3> QED
      BY <3>1
  <2>3. Same = Nat
    <3> HIDE DEF Same
    <3>1. Same \in SUBSET Nat
      BY DEF Same
    <3> QED
      BY <2>1, <2>2, <3>1, AllNaturals
  <2> QED
    BY <2>3
<1>7. ASSUME NEW n \in Nat
      PROVE  F[n] = IF n = 0 THEN First ELSE Then(F[n - 1], n)
  <2>1. CASE n = 0
    BY <1>5, <2>1
  <2>2. CASE n # 0
    <3>1. n - 1 \in Nat /\ (n - 1) + 1 = n
      BY <2>2
    <3>2. Run(n)[n] = Then(Run(n)[n - 1], n)
      BY <1>5, <2>2
    <3>3. Run(n)[n - 1] = Run(n - 1)[n - 1]
      BY <1>6, <3>1
    <3> QED
      BY <2>2, <3>1, <3>2, <3>3
  <2> QED
    BY <2>1, <2>2
<1>8. IsFound(F)
  BY <1>7
<1> HIDE DEF F
<1> DEFINE G == CHOOSE f : IsFound(f)
<1>9. IsFound(G)
  BY <1>8
<1> HIDE DEF G
<1>10. G[0] = First
  BY <1>9
<1>11. ASSUME NEW n \in Nat
       PROVE  G[n + 1] = Then(G[n], n + 1)
  <2>1. n + 1 \in Nat /\ n + 1 # 0 /\ (n + 1) - 1 = n
    OBVIOUS
  <2>2. G[n + 1] = Then(G[(n + 1) - 1], n + 1)
    BY <1>9, <2>1
  <2> QED
    BY <2>1, <2>2
<1>12. FindItem(t, path) = G[Len(path) - Len(t.root)]
  BY <1>1 DEF G
<1> QED
  BY <1>10, <1>11, <1>12 DEF First, Then


\* The parts of the path FindItem goes through.
LEMMA OnTheWay ==
    ASSUME NEW root \in Path, NEW path \in Below(root), NEW n \in 1 .. Len(path) - Len(root)
    PROVE  LET here == SubSeq(path, 1, Len(root) + n) IN
           /\ here \in Below(root)
           /\ here = path \/ (here \in Folder /\ path \in Below(here))
           /\ here = path <=> n = Len(path) - Len(root)
           /\ ParentOf(here) = SubSeq(path, 1, Len(root) + (n - 1))
<1> DEFINE here == SubSeq(path, 1, Len(root) + n)
           k == Len(root) + n
<1>1. /\ path \in Path /\ Len(root) \in 1 .. Len(path) - 1 /\ root = SubSeq(path, 1, Len(root))
      /\ Len(path) \in Nat
  BY BelowIs, PathIsSeq
<1>2. k \in 1 .. Len(path) /\ Len(root) \in 1 .. k - 1 /\ (k = Len(path) <=> n = Len(path) - Len(root))
  BY <1>1
<1>3. k - 1 = Len(root) + (n - 1) /\ k - 1 \in 1 .. k
  BY <1>1
<1>4. here = SubSeq(path, 1, k)
  OBVIOUS
<1> HIDE DEF here, k
<1>5. /\ Len(here) = k
      /\ here = path \/ (here \in Folder /\ path \in Below(here))
      /\ here = path <=> k = Len(path)
  <2>1. CASE k = Len(path)
    <3>1. SubSeq(path, 1, Len(path)) = path
      BY <1>1, PathIsSeq
    <3> QED
      BY <1>4, <2>1, <3>1
  <2>2. CASE k # Len(path)
    <3>1. k \in 1 .. Len(path) - 1
      BY <1>1, <1>2, <2>2
    <3>2. here \in Folder /\ Len(here) = k /\ path \in Below(here)
      BY <1>1, <1>4, <3>1, Ancestor
    <3> QED
      BY <2>2, <3>2
  <2> QED
    BY <2>1, <2>2
<1>6. here \in Path /\ here # None
  BY <1>1, <1>5, PathIsSeq DEF Path
<1>7. SubSeq(here, 1, Len(root)) = SubSeq(path, 1, Len(root))
  <2>1. Len(root) \in 1 .. k
    BY <1>1, <1>2
  <2> QED
    BY <1>1, <1>2, <1>4, <2>1, AncestorOfAncestor
<1>8. here \in Below(root)
  BY <1>1, <1>2, <1>5, <1>6, <1>7, IsBelow
<1>9. ParentOf(here) = SubSeq(path, 1, k - 1)
  <2>1. ParentOf(here) = SubSeq(here, 1, k - 1)
    BY <1>5, <1>6 DEF ParentOf, Front
  <2> QED
    BY <1>1, <1>2, <1>3, <1>4, <2>1, AncestorOfAncestor
<1> QED
  BY <1>2, <1>3, <1>5, <1>8, <1>9 DEF here

\* FindItem finds the item of a path if the tree has one once the folders on the way were read.
LEMMA FindIsSound ==
    ASSUME NEW t, Fresh(t), NEW path \in Below(t.root), NEW s, s = FindItem(t, path)
    PROVE  /\ Fresh(s.tree) /\ SameFocus(t, s.tree)
           /\ s.item = None => path \notin s.tree.items
           /\ s.item # None => s.item = path /\ path \in s.tree.items
<1> DEFINE len == Len(path) - Len(t.root)
           Here(n) == SubSeq(path, 1, Len(t.root) + n)
<1>1. t.root \in Path /\ path \in Path
  BY NothingBelowNone DEF Fresh, Tree, Path, Below
<1>2. Len(t.root) \in 1 .. Len(path) - 1 /\ t.root = SubSeq(path, 1, Len(t.root)) /\ Len(path) \in Nat
  BY <1>1, BelowIs, PathIsSeq
<1>3. len \in Nat \ {0} /\ Len(path) = Len(t.root) + len
  BY <1>2
<1>4. PICK F : /\ F[0] = Search(t, t.root, FALSE, FALSE)
               /\ \A n \in Nat : F[n + 1] = GoDown(F[n], SubSeq(path, 1, Len(t.root) + (n + 1)), path)
               /\ FindItem(t, path) = F[len]
  BY <1>3, FindItemIs
<1> HIDE DEF len
<1> DEFINE Good(n) ==
               /\ Fresh(F[n].tree) /\ SameFocus(t, F[n].tree)
               /\ F[n].item = None => path \notin F[n].tree.items
               /\ F[n].item # None => /\ F[n].item = Here(n)
                                      /\ F[n].item \in F[n].tree.items \cup {t.root}
           Goods == {n \in Nat : n <= len => Good(n)}
<1>5. ASSUME NEW n \in 1 .. len
      PROVE  /\ Here(n) \in Below(t.root)
             /\ Here(n) = path \/ (Here(n) \in Folder /\ path \in Below(Here(n)))
             /\ Here(n) = path <=> n = len
             /\ ParentOf(Here(n)) = Here(n - 1)
  BY <1>1, OnTheWay DEF len
<1>6. Good(0)
  <2>1. F[0].tree = t /\ F[0].item = t.root
    BY <1>4 DEF Search
  <2>2. t.root # None /\ Here(0) = t.root
    BY <1>1, <1>2, PathIsSeq
  <2> QED
    BY <2>1, <2>2 DEF SameFocus
<1>7. ASSUME NEW n \in Nat, n + 1 <= len, Good(n)
      PROVE  Good(n + 1)
  <2> DEFINE here == Here(n + 1)
             s1 == F[n]
             v == F[n + 1]
  <2>1. /\ n + 1 \in 1 .. len /\ (n + 1) - 1 = n
    BY <1>3, <1>7
  <2>2. /\ here \in Below(t.root)
        /\ here = path \/ (here \in Folder /\ path \in Below(here))
        /\ ParentOf(here) = Here(n)
    BY <1>5, <2>1
  <2>3. v = GoDown(s1, here, path)
    BY <1>4
  <2>4. /\ Fresh(s1.tree) /\ SameFocus(t, s1.tree)
        /\ s1.item = None => path \notin s1.tree.items
        /\ s1.item # None => s1.item = Here(n) /\ s1.item \in s1.tree.items \cup {t.root}
    BY <1>7
  <2> HIDE DEF here, s1, v, Here
  <2>5. s1.tree.root = t.root
    BY <2>4 DEF SameFocus
  <2>6. /\ Fresh(v.tree) /\ SameFocus(s1.tree, v.tree)
        /\ v.item = None => path \notin v.tree.items
        /\ v.item # None => v.item = here /\ here \in v.tree.items
    BY <1>1, <2>2, <2>3, <2>4, <2>5, GoDownIsSound
  <2>7. SameFocus(t, v.tree)
    BY <2>4, <2>6 DEF SameFocus
  <2> QED
    BY <2>6, <2>7 DEF here, v
<1>8. Goods = Nat
  <2> HIDE DEF Good
  <2>1. 0 \in Goods
    BY <1>6
  <2>2. ASSUME NEW n \in Goods
        PROVE  n + 1 \in Goods
    <3>1. n + 1 <= len => n <= len
      BY <1>3
    <3> QED
      BY <1>7, <3>1
  <2>3. Goods \in SUBSET Nat
    OBVIOUS
  <2> HIDE DEF Goods
  <2> QED
    BY <2>1, <2>2, <2>3, AllNaturals
<1>9. Good(len)
  <2> HIDE DEF Good
  <2>1. len \in Goods
    BY <1>3, <1>8
  <2> QED
    BY <1>3, <2>1
<1>10. Here(len) = path /\ path # t.root
  <2>1. path # t.root
    BY <1>1, NotBelowEachOther
  <2>2. len \in 1 .. len
    BY <1>3
  <2> QED
    BY <1>5, <2>1, <2>2
<1> HIDE DEF Here
<1> QED
  BY <1>4, <1>9, <1>10


-----------------------------------------------------------------------------
(* Showing the document in the tree. *)

LEMMA SetBoldIs ==
    ASSUME NEW t \in Tree, Kept(t), NEW item \in t.items \cup {None}, NEW u, u = SetBoldItem(t, item)
    PROVE  /\ u \in Tree /\ Kept(u) /\ SameFocus(t, u)
           /\ u.stale = t.stale /\ u.placeholder = t.placeholder /\ u.items = t.items
           /\ u.loaded = t.loaded /\ u.open = t.open /\ u.expanded = t.expanded
           /\ item # None => item \in u.bold
<1>1. CASE item = t.currentItem
  BY <1>1 DEF SetBoldItem, SameFocus, Kept
<1>2. CASE item # t.currentItem
  <2> DEFINE bold == (t.bold \ {t.currentItem}) \cup ({item} \ {None})
  <2>1. bold \subseteq t.items /\ bold \in SUBSET Path /\ item \in Path \cup {None}
    BY DEF Kept, Tree
  <2>2. u = [t EXCEPT !.bold = bold, !.currentItem = item]
    BY <1>2 DEF SetBoldItem
  <2>3. item # None => item \in bold
    OBVIOUS
  <2> HIDE DEF bold
  <2>4. /\ u \in Tree /\ SameFocus(t, u) /\ u.bold = bold /\ u.currentItem = item
        /\ u.stale = t.stale /\ u.placeholder = t.placeholder /\ u.items = t.items
        /\ u.loaded = t.loaded /\ u.open = t.open /\ u.expanded = t.expanded
    BY <2>1, <2>2 DEF Tree, SameFocus
  <2> QED
    BY <2>1, <2>3, <2>4 DEF Kept
<1> QED
  BY <1>1, <1>2

\* The document is bold if it is in the tree, wherever it is and whatever was read on the way.
LEMMA RevealIsSound ==
    ASSUME NEW t, Fresh(t), NEW s, s = RevealCurrentFile(t)
    PROVE  Fresh(s.tree) /\ Marked(s.tree) /\ SameFocus(t, s.tree)
<1>0. t \in Tree /\ Kept(t)
  BY DEF Fresh
<1>1. CASE t.currentFile = None \/ t.root = None \/ ~IsWithinFolder(t.currentFile, t.root)
  <2>1. s.tree = SetBoldItem(t, None)
    BY <1>1 DEF RevealCurrentFile, Search
  <2>2. /\ s.tree \in Tree /\ Kept(s.tree) /\ SameFocus(t, s.tree)
        /\ s.tree.stale = t.stale /\ s.tree.placeholder = t.placeholder /\ s.tree.items = t.items
        /\ s.tree.loaded = t.loaded /\ s.tree.open = t.open /\ s.tree.expanded = t.expanded
    BY <1>0, <2>1, SetBoldIs
  <2>3. t.currentFile \notin t.items
    BY <1>1 DEF Fresh, Hangs, Below, IsWithinFolder
  <2> QED
    BY <2>2, <2>3 DEF Fresh, Marked, SameFocus, Hangs, Filled
<1>2. CASE t.currentFile # None /\ t.root # None /\ IsWithinFolder(t.currentFile, t.root)
  <2> DEFINE f == FindItem(t, t.currentFile)
  <2>1. t.currentFile \in File /\ t.root \in Folder
    BY <1>0, <1>2 DEF Tree
  <2>2. t.currentFile # t.root /\ t.currentFile \in Path
    BY <2>1, PathAssumption DEF File, Path
  <2>3. t.currentFile \in Below(t.root)
    BY <1>2, <2>2 DEF Below
  <2>4. /\ Fresh(f.tree) /\ SameFocus(t, f.tree)
        /\ f.item = None => t.currentFile \notin f.tree.items
        /\ f.item # None => f.item = t.currentFile /\ t.currentFile \in f.tree.items
    BY <2>3, FindIsSound
  <2>5. s = Revealed(f)
    BY <1>2 DEF RevealCurrentFile
  <2>6. s.tree = SetBoldItem(f.tree, f.item)
    BY <2>5 DEF Revealed, Search
  <2> HIDE DEF f
  <2>7. f.tree \in Tree /\ Kept(f.tree) /\ f.item \in f.tree.items \cup {None}
    BY <2>4 DEF Fresh
  <2>8. /\ s.tree \in Tree /\ Kept(s.tree) /\ SameFocus(f.tree, s.tree)
        /\ s.tree.stale = f.tree.stale /\ s.tree.placeholder = f.tree.placeholder
        /\ s.tree.items = f.tree.items
        /\ s.tree.loaded = f.tree.loaded /\ s.tree.open = f.tree.open /\ s.tree.expanded = f.tree.expanded
        /\ f.item # None => f.item \in s.tree.bold
    BY <2>6, <2>7, SetBoldIs
  <2>9. Fresh(s.tree)
    BY <2>4, <2>8 DEF Fresh, Hangs, Filled, SameFocus
  <2>10. Marked(s.tree)
    BY <2>4, <2>8 DEF Marked, SameFocus
  <2> QED
    BY <2>4, <2>8, <2>9, <2>10 DEF SameFocus
<1> QED
  BY <1>1, <1>2


LEMMA ParentIsFolder ==
    ASSUME NEW p \in Path \cup {None}
    PROVE  ParentOf(p) \in Folder \cup {None}
<1>1. CASE p = None
  BY <1>1 DEF ParentOf
<1>2. CASE p # None
  <2>1. ParentOf(p) = SubSeq(p, 1, Len(p) - 1) /\ p \in Seq(Name) /\ Len(p) \in Nat \ {0}
    BY <1>2, PathIsSeq DEF ParentOf, Front
  <2>2. CASE Len(p) = 1
    BY <2>1, <2>2 DEF None
  <2>3. CASE Len(p) # 1
    <3> DEFINE n == Len(p)
    <3>1. n \in Nat \ {0} /\ n # 1
      BY <2>1, <2>3
    <3> HIDE DEF n
    <3>2. n - 1 \in 1 .. n - 1
      BY <3>1
    <3>3. Len(p) - 1 \in 1 .. Len(p) - 1
      BY <3>2 DEF n
    <3> QED
      BY <1>2, <2>1, <3>3, Ancestor
  <2> QED
    BY <2>2, <2>3
<1> QED
  BY <1>1, <1>2

LEMMA SetRootIs ==
    ASSUME NEW t \in Tree, Kept(t), NEW folder \in Folder \cup {None}, NEW u, u = SetRoot(t, folder)
    PROVE  /\ u \in Tree /\ Kept(u) /\ u.root = folder
           /\ u.currentFile = t.currentFile /\ u.disk = t.disk /\ u.stale = t.stale
  BY DEF SetRoot, Tree, Kept

LEMMA ShowIsSound ==
    ASSUME NEW t, Fresh(t), NEW u, u = ShowCurrentFile(t)
    PROVE  Fresh(u) /\ Marked(u) /\ u.disk = t.disk /\ u.currentFile = t.currentFile
<1> DEFINE s == RevealCurrentFile(t)
           moved == SetRoot(s.tree, ParentOf(s.tree.currentFile))
<1>1. Fresh(s.tree) /\ Marked(s.tree) /\ s.tree.disk = t.disk /\ s.tree.currentFile = t.currentFile
  BY RevealIsSound DEF SameFocus
<1> HIDE DEF s
<1>2. ParentOf(s.tree.currentFile) \in Folder \cup {None}
  <2>1. s.tree.currentFile \in Path \cup {None}
    BY <1>1 DEF Fresh, Tree, File, Path
  <2> QED
    BY <2>1, ParentIsFolder
<1>3. moved \in Tree /\ Kept(moved) /\ moved.disk = t.disk /\ moved.currentFile = t.currentFile
  BY <1>1, <1>2, SetRootIs DEF Fresh
<1> HIDE DEF moved
<1>4. Fresh(Rebuild(moved)) /\ Rebuild(moved).disk = t.disk /\ Rebuild(moved).currentFile = t.currentFile
  BY <1>3, RebuildIsSound DEF SameFocus
<1> DEFINE again == RevealCurrentFile(Rebuild(moved)).tree
<1>5. Fresh(again) /\ Marked(again) /\ again.disk = t.disk /\ again.currentFile = t.currentFile
  BY <1>4, RevealIsSound DEF SameFocus
<1>6. u = s.tree \/ u = RevealCurrentFile(Rebuild(moved)).tree
  BY DEF ShowCurrentFile, ShowIfRevealed, s, moved
<1> QED
  BY <1>1, <1>5, <1>6

LEMMA AppearIsSound ==
    ASSUME NEW t, Sound(t)
    PROVE  Sound(Appear(t)) /\ ~Appear(t).stale /\ Appear(t).disk = t.disk
<1>1. CASE t.stale
  <2>1. Fresh(Rebuild(t)) /\ Rebuild(t).disk = t.disk
    BY RebuildIsSound DEF Sound, SameFocus
  <2>2. Fresh(Appear(t)) /\ Marked(Appear(t)) /\ Appear(t).disk = t.disk
    BY <1>1, <2>1, ShowIsSound DEF Appear
  <2> QED
    BY <2>2 DEF Sound, Fresh
<1>2. CASE ~t.stale
  BY <1>2 DEF Appear
<1> QED
  BY <1>1, <1>2

\* A panel with nothing known of whether the document is marked.
Ready(t) == t \in Tree /\ Kept(t) /\ (~t.stale => Fresh(t))

LEMMA StaleIsSound ==
    ASSUME NEW t \in Tree, Kept(t), NEW u, u = [t EXCEPT !.stale = TRUE]
    PROVE  Sound(u) /\ u.stale /\ SameFocus(t, u)
<1>1. u \in Tree /\ Kept(u) /\ u.stale /\ SameFocus(t, u)
  BY DEF Tree, Kept, SameFocus
<1> QED
  BY <1>1 DEF Sound

LEMMA MovedRootIs ==
    ASSUME NEW t \in Tree, Kept(t), NEW folder \in Folder \cup {None},
           NEW u, u = SetRoot(AddExpanded(t, WayDown(t.root, folder)), folder)
    PROVE  /\ u \in Tree /\ Kept(u) /\ u.root = folder /\ u.currentFile = t.currentFile /\ u.disk = t.disk
<1> DEFINE e == AddExpanded(t, WayDown(t.root, folder))
<1>1. WayDown(t.root, folder) \in SUBSET Path
  <2>1. ASSUME IsWithinFolder(t.root, folder), NEW n \in Len(folder) + 1 .. Len(t.root)
        PROVE  SubSeq(t.root, 1, n) \in Path
    <3>1. t.root \in Path /\ folder \in Path
      BY <2>1 DEF IsWithinFolder, Tree, Path
    <3>2. t.root \in Seq(Name) /\ Len(t.root) \in Nat /\ Len(folder) \in Nat
      BY <3>1, PathIsSeq
    <3>3. CASE n = Len(t.root)
      <4>1. SubSeq(t.root, 1, Len(t.root)) = t.root
        BY <3>2
      <4> QED
        BY <3>1, <3>3, <4>1
    <3>4. CASE n # Len(t.root)
      <4>1. n \in 1 .. Len(t.root) - 1
        BY <3>2, <3>4
      <4> QED
        BY <3>1, <4>1, Ancestor DEF Path
    <3> QED
      BY <3>3, <3>4
  <2> QED
    BY <2>1 DEF WayDown
<1>2. e \in Tree /\ Kept(e) /\ e.currentFile = t.currentFile /\ e.disk = t.disk
  BY <1>1 DEF AddExpanded, Tree, Kept
<1> HIDE DEF e
<1> QED
  BY <1>2, SetRootIs DEF e

LEMMA NewRootIsSound ==
    ASSUME NEW t, Ready(t), NEW folder \in Folder \cup {None}, NEW isShown, NEW u, u = NewRoot(t, folder, isShown)
    PROVE  /\ Ready(u) /\ u.currentFile = t.currentFile /\ u.disk = t.disk
           /\ Sound(t) => Sound(u)
           /\ isShown /\ ~t.stale => ~u.stale
<1>1. CASE folder = t.root
  BY <1>1 DEF NewRoot
<1>2. CASE folder # t.root
  <2> DEFINE moved == SetRoot(AddExpanded(t, WayDown(t.root, folder)), folder)
  <2>3. moved \in Tree /\ Kept(moved) /\ moved.currentFile = t.currentFile /\ moved.disk = t.disk
    BY MovedRootIs DEF Ready
  <2> HIDE DEF moved
  <2>4. (u = Rebuild(moved) /\ isShown) \/ (u = [moved EXCEPT !.stale = TRUE] /\ ~isShown)
    BY <1>2 DEF NewRoot, moved
  <2>5. CASE u = Rebuild(moved)
    <3>1. Fresh(u) /\ Marked(u) /\ u.currentFile = moved.currentFile /\ u.disk = moved.disk
      BY <2>3, <2>5, RebuildIsSound DEF SameFocus
    <3> QED
      BY <2>3, <3>1 DEF Sound, Ready, Fresh
  <2>6. CASE u = [moved EXCEPT !.stale = TRUE] /\ ~isShown
    <3>1. Sound(u) /\ u.stale /\ u.currentFile = moved.currentFile /\ u.disk = moved.disk
      BY <2>3, <2>6, StaleIsSound DEF SameFocus
    <3> QED
      BY <2>3, <2>6, <3>1 DEF Sound, Ready
  <2> QED
    BY <2>4, <2>5, <2>6
<1> QED
  BY <1>1, <1>2


-----------------------------------------------------------------------------
(* What the panel is told and asked. *)

LEMMA CurrentFileIsSound ==
    ASSUME NEW t, Sound(t), NEW file \in File \cup {None}, NEW isShown, isShown => ~t.stale,
           NEW u, u = CurrentFile(t, file, isShown)
    PROVE  Sound(u) /\ (isShown => ~u.stale) /\ u.disk = t.disk /\ u.currentFile = file
<1> DEFINE r == [t EXCEPT !.currentFile = file]
           changed == file # t.currentFile
<1>1. /\ r \in Tree /\ r.root = t.root /\ r.currentFile = file /\ r.stale = t.stale /\ r.disk = t.disk
      /\ r.placeholder = t.placeholder /\ r.items = t.items /\ r.loaded = t.loaded /\ r.open = t.open
      /\ r.bold = t.bold /\ r.currentItem = t.currentItem /\ r.expanded = t.expanded
  BY DEF Sound, Tree
<1>2. u = Follow(r, file, changed, isShown)
  BY DEF CurrentFile
<1> HIDE DEF r
<1>3. Ready(r)
  BY <1>1 DEF Sound, Ready, Fresh, Kept, Hangs, Filled
<1>4. ~changed => Sound(r)
  BY <1>1, <1>3 DEF Sound, Marked, Ready
<1> HIDE DEF changed
<1>5. CASE file = None
  <2>1. u = SetBoldItem(r, None)
    BY <1>2, <1>5 DEF Follow
  <2>2. /\ u \in Tree /\ Kept(u) /\ SameFocus(r, u)
        /\ u.stale = r.stale /\ u.placeholder = r.placeholder /\ u.items = r.items
        /\ u.loaded = r.loaded /\ u.open = r.open /\ u.expanded = r.expanded
    BY <1>3, <2>1, SetBoldIs DEF Ready
  <2>3. None \notin u.items
    BY <2>2, PathAssumption DEF Tree
  <2> QED
    BY <1>1, <1>3, <1>5, <2>2, <2>3 DEF Sound, Ready, Fresh, Hangs, Filled, Marked, SameFocus
<1>6. CASE file # None /\ IsWithinFolder(ParentOf(file), r.root) /\ ~changed
  BY <1>1, <1>2, <1>4, <1>6 DEF Follow
<1>7. CASE file # None /\ ~(IsWithinFolder(ParentOf(file), r.root) /\ ~changed)
  <2> DEFINE v == IF IsWithinFolder(ParentOf(file), r.root) THEN r ELSE NewRoot(r, ParentOf(file), isShown)
  <2>1. u = IF isShown THEN ShowCurrentFile(RebuildIfStale(v)) ELSE [v EXCEPT !.stale = TRUE]
    BY <1>2, <1>7 DEF Follow
  <2>2. ParentOf(file) \in Folder \cup {None}
    BY ParentIsFolder DEF File, Path
  <2>3. Ready(v) /\ v.disk = t.disk /\ v.currentFile = file
    BY <1>1, <1>3, <2>2, NewRootIsSound
  <2> HIDE DEF v
  <2>4. CASE isShown
    <3>1. /\ Fresh(RebuildIfStale(v)) /\ RebuildIfStale(v).disk = t.disk
          /\ RebuildIfStale(v).currentFile = file
      BY <2>3, RebuildIsSound DEF RebuildIfStale, Ready, SameFocus
    <3>2. Fresh(u) /\ Marked(u) /\ u.disk = t.disk /\ u.currentFile = file
      BY <2>1, <2>4, <3>1, ShowIsSound
    <3> QED
      BY <3>2 DEF Sound, Fresh
  <2>5. CASE ~isShown
    BY <2>1, <2>3, <2>5, StaleIsSound DEF Ready, SameFocus
  <2> QED
    BY <2>4, <2>5
<1> QED
  BY <1>5, <1>6, <1>7

\* A folder is read when its item is expanded; one that shows nothing then is not expanded.
LEMMA UserExpandIsSound ==
    ASSUME NEW t, Sound(t), ~t.stale, NEW f \in t.items \cap Folder,
           NEW l, l = EnsureLoaded(t, f), NEW e, e = TreeExpand(l, f),
           NEW u, u = IF f \in e.open THEN AddExpanded(e, {f}) ELSE e
    PROVE  Sound(u) /\ ~u.stale /\ SameFocus(t, u)
<1>1. t \in Tree /\ Kept(t) /\ Hangs(t, None) /\ Filled(t) /\ Marked(t)
  BY DEF Sound, Fresh
<1>2. CASE f \in e.open
  <2>1. u = ExpandItem(t, f)
    BY <1>2 DEF ExpandItem
  <2>2. /\ u \in Tree /\ Kept(u) /\ Hangs(u, None) /\ SameFocus(t, u)
        /\ Marked(t) => Marked(u)
        /\ u.stale = t.stale /\ u.placeholder = t.placeholder /\ t.items \subseteq u.items
    BY <1>1, <2>1, ExpandIsSound
  <2> QED
    BY <1>1, <2>2 DEF Sound, Fresh, Filled
<1>3. CASE f \notin e.open
  <2>1. /\ l \in Tree /\ Kept(l) /\ Hangs(l, f) /\ SameFocus(t, l)
        /\ Marked(t) => Marked(l)
        /\ l.stale = t.stale /\ l.placeholder = t.placeholder /\ t.items \subseteq l.items
    BY <1>1, EnsureLoadedIsSound
  <2>2. Below(f) \cap l.items = {} /\ e = l /\ u = l
    <3>1. CASE Below(f) \cap l.items # {}
      <4>1. e = [l EXCEPT !.open = @ \cup {f}]
        BY <3>1 DEF TreeExpand
      <4>2. e.open = l.open \cup {f}
        BY <2>1, <4>1 DEF Tree
      <4> QED
        BY <1>3, <4>2
    <3>2. CASE Below(f) \cap l.items = {}
      BY <1>3, <3>2 DEF TreeExpand
    <3> QED
      BY <3>1, <3>2
  <2>3. Hangs(l, None)
    BY <2>1, <2>2 DEF Hangs
  <2> QED
    BY <1>1, <2>1, <2>2, <2>3 DEF Sound, Fresh, Filled
<1> QED
  BY <1>2, <1>3

LEMMA CollapseIsSound ==
    ASSUME NEW t, Sound(t), ~t.stale, NEW f, NEW u, u = RemoveExpanded(TreeCollapse(t, f), f)
    PROVE  Sound(u) /\ ~u.stale /\ SameFocus(t, u)
<1>1. t \in Tree /\ Kept(t) /\ Hangs(t, None) /\ Filled(t) /\ Marked(t)
  BY DEF Sound, Fresh
<1> DEFINE c == TreeCollapse(t, f)
<1>2. /\ c \in Tree /\ SameFocus(t, c) /\ c.stale = t.stale /\ c.placeholder = t.placeholder
      /\ c.items = t.items /\ c.loaded = t.loaded /\ c.bold = t.bold /\ c.currentItem = t.currentItem
      /\ c.open = t.open \ {f} /\ c.expanded = t.expanded
  BY <1>1 DEF TreeCollapse, Tree, SameFocus
<1> HIDE DEF c
<1>3. /\ u \in Tree /\ SameFocus(t, u) /\ u.stale = t.stale /\ u.placeholder = t.placeholder
      /\ u.items = t.items /\ u.loaded = t.loaded /\ u.bold = t.bold /\ u.currentItem = t.currentItem
      /\ u.open = t.open \ {f} /\ u.expanded = t.expanded \ {f}
  BY <1>2 DEF RemoveExpanded, Tree, SameFocus, c
<1>4. Hangs(u, None)
  BY <1>1, <1>3 DEF Hangs, SameFocus
<1> QED
  BY <1>1, <1>3, <1>4 DEF Sound, Fresh, Kept, Filled, Marked, SameFocus

LEMMA DiskIsSound ==
    ASSUME NEW t, Sound(t), NEW d \in SUBSET Path, NEW u, u = [t EXCEPT !.disk = d]
    PROVE  Sound(u) /\ u.stale = t.stale
<1>1. /\ u \in Tree /\ u.root = t.root /\ u.currentFile = t.currentFile /\ u.stale = t.stale /\ u.placeholder = t.placeholder
      /\ u.items = t.items /\ u.loaded = t.loaded /\ u.bold = t.bold /\ u.currentItem = t.currentItem
      /\ u.open = t.open /\ u.expanded = t.expanded
  BY DEF Sound, Tree
<1> QED
  BY <1>1 DEF Sound, Fresh, Kept, Hangs, Filled, Marked, SameFocus


-----------------------------------------------------------------------------
(* The path bar: its targets are folders on the way to the root. *)

LEMMA FirstVisibleIsThere ==
    ASSUME NEW folder \in Path, NEW available
    PROVE  FirstVisibleSegment(folder, available) \in 1 .. Len(folder)
<1> DEFINE len == Len(folder)
           Fitting == {first \in 2 .. len : FitFrom(folder, first, available)}
<1>1. len \in Nat \ {0}
  BY PathIsSeq
<1>2. CASE len <= 1 \/ SegmentsWidth(folder, 1) <= available
  BY <1>1, <1>2 DEF FirstVisibleSegment
<1>3. CASE ~(len <= 1 \/ SegmentsWidth(folder, 1) <= available)
  <2>1. Fitting \in SUBSET Nat /\ len \in Fitting
    BY <1>1, <1>3 DEF FitFrom
  <2>2. PICK first \in Fitting : \A other \in Fitting : first <= other
    <3> HIDE DEF Fitting
    <3> QED
      BY <2>1, LeastNatural
  <2>3. \A other \in 2 .. first - 1 : ~FitFrom(folder, other, available)
    BY <1>1, <2>1, <2>2
  <2>4. FirstVisibleSegment(folder, available) \in 2 .. len
    BY <1>3, <2>2, <2>3 DEF FirstVisibleSegment
  <2> QED
    BY <1>1, <2>4
<1> QED
  BY <1>2, <1>3


LEMMA ChainIsFolders ==
    ASSUME NEW folder \in Folder \cup {None}, NEW i \in 1 .. Len(folder)
    PROVE  FolderChain(folder)[i] \in Folder
<1>1. folder # None
  BY DEF None
<1>2. folder \in Path /\ Len(folder) \in Nat
  BY <1>1, PathIsSeq DEF Path
<1>3. FolderChain(folder)[i] = SubSeq(folder, 1, i)
  BY DEF FolderChain
<1>4. CASE i = Len(folder)
  <2>1. SubSeq(folder, 1, Len(folder)) = folder
    BY <1>2, PathIsSeq
  <2> QED
    BY <1>1, <1>3, <1>4, <2>1
<1>5. CASE i # Len(folder)
  <2>1. i \in 1 .. Len(folder) - 1
    BY <1>2, <1>5
  <2> QED
    BY <1>2, <1>3, <2>1, Ancestor
<1> QED
  BY <1>4, <1>5

\* Every folder of the path bar and of its overflow menu.
LEMMA BarIsFolders ==
    ASSUME NEW folder \in Folder \cup {None}, NEW available,
           NEW i, \/ i \in 1 .. FirstVisibleSegment(folder, available) - 1
                  \/ i \in FirstVisibleSegment(folder, available) .. Len(folder) - 1
    PROVE  FolderChain(folder)[i] \in Folder
<1>1. CASE folder = None
  <2>1. FirstVisibleSegment(folder, available) = 1 /\ Len(folder) = 0
    BY <1>1 DEF FirstVisibleSegment, None
  <2> QED
    BY <2>1
<1>2. CASE folder # None
  <2>1. FirstVisibleSegment(folder, available) \in 1 .. Len(folder) /\ Len(folder) \in Nat
    BY <1>2, FirstVisibleIsThere, PathIsSeq DEF Path
  <2>2. i \in 1 .. Len(folder)
    BY <2>1
  <2> QED
    BY <2>2, ChainIsFolders
<1> QED
  BY <1>1, <1>2

-----------------------------------------------------------------------------
(* Every step keeps the panel sound. *)

LEMMA MovedIsSound ==
    ASSUME PanelOK, NEW folder \in Folder \cup {None}, Become(NewRoot(panel, folder, shown)), UNCHANGED shown
    PROVE  PanelOK'
<1>1. Ready(panel) /\ panel' = NewRoot(panel, folder, shown)
  BY DEF PanelOK, Sound, Ready, Become
<1>2. /\ Sound(panel) => Sound(panel')
      /\ shown /\ ~panel.stale => ~panel'.stale
  BY <1>1, NewRootIsSound
<1> QED
  BY <1>2 DEF PanelOK, Sound

LEMMA DocumentIsSound ==
    ASSUME PanelOK, NEW d \in SUBSET Path, NEW file \in File \cup {None},
           Become(CurrentFile([panel EXCEPT !.disk = d], file, shown)), UNCHANGED shown
    PROVE  PanelOK'
<1> DEFINE t == [panel EXCEPT !.disk = d]
<1>1. Sound(t) /\ t.stale = panel.stale
  BY DiskIsSound DEF PanelOK
<1>2. panel' = CurrentFile(t, file, shown)
  BY DEF Become
<1> HIDE DEF t
<1>3. Sound(panel') /\ (shown => ~panel'.stale)
  BY <1>1, <1>2, CurrentFileIsSound DEF PanelOK
<1> QED
  BY <1>3 DEF PanelOK

LEMMA OutsideKeeps ==
    ASSUME PanelOK, DiskChanges \/ OpenDocument \/ SaveDocument
    PROVE  PanelOK'
<1>0. panel \in Tree /\ panel.disk \in SUBSET Path /\ panel = [panel EXCEPT !.disk = panel.disk]
  BY DEF PanelOK, Sound, Tree
<1>1. CASE DiskChanges
  <2>1. PICK p \in Changing : panel' = IF p \in panel.disk THEN [panel EXCEPT !.disk = @ \ ({p} \cup Below(p))]
                                       ELSE [panel EXCEPT !.disk = @ \cup {p}]
    BY <1>1 DEF DiskChanges
  <2>2. panel.disk \ ({p} \cup Below(p)) \in SUBSET Path /\ panel.disk \cup {p} \in SUBSET Path
    BY <1>0, PathAssumption
  <2>3. Sound(panel') /\ panel'.stale = panel.stale
    BY <2>1, <2>2, DiskIsSound DEF PanelOK
  <2> QED
    BY <1>1, <2>3 DEF PanelOK, DiskChanges
<1>2. CASE OpenDocument
  <2>1. PICK f \in ((Markdown \cup OtherFile) \cap panel.disk) \cup {None} : Become(CurrentFile(panel, f, shown))
    BY <1>2 DEF OpenDocument
  <2>2. f \in File \cup {None} /\ UNCHANGED shown
    BY <1>2 DEF File, OpenDocument
  <2> QED
    BY <1>0, <2>1, <2>2, DocumentIsSound
<1>3. CASE SaveDocument
  <2>1. PICK f \in Markdown \cup OtherFile : Become(CurrentFile([panel EXCEPT !.disk = @ \cup {f}], f, shown))
    BY <1>3 DEF SaveDocument
  <2>2. f \in File \cup {None} /\ UNCHANGED shown /\ panel.disk \cup {f} \in SUBSET Path
    BY <1>0, <1>3 DEF File, SaveDocument, Path
  <2> QED
    BY <2>1, <2>2, DocumentIsSound
<1> QED
  BY <1>1, <1>2, <1>3

LEMMA UserKeeps ==
    ASSUME PanelOK, shown, UserActs
    PROVE  PanelOK'
<1>0. /\ panel \in Tree /\ panel.disk \in SUBSET Path /\ panel = [panel EXCEPT !.disk = panel.disk]
      /\ panel.root \in Folder \cup {None} /\ panel.items \in SUBSET Path
      /\ Sound(panel) /\ ~panel.stale
  BY DEF PanelOK, Sound, Tree
<1>1. CASE UserExpands
  <2>1. PICK f \in (panel.items \cap Folder) \ panel.open :
            panel' = LET t == TreeExpand(EnsureLoaded(panel, f), f) IN
                     IF f \in t.open THEN AddExpanded(t, {f}) ELSE t
    BY <1>1 DEF UserExpands
  <2> DEFINE l == EnsureLoaded(panel, f)
             e == TreeExpand(l, f)
  <2>2. panel' = IF f \in e.open THEN AddExpanded(e, {f}) ELSE e
    BY <2>1
  <2> HIDE DEF l, e
  <2>3. l = EnsureLoaded(panel, f) /\ e = TreeExpand(l, f)
    BY DEF l, e
  <2>4. Sound(panel') /\ ~panel'.stale
    BY <1>0, <2>2, <2>3, UserExpandIsSound
  <2> QED
    BY <2>4 DEF PanelOK
<1>2. CASE UserCollapses
  <2>1. PICK f : panel' = RemoveExpanded(TreeCollapse(panel, f), f)
    BY <1>2 DEF UserCollapses
  <2> QED
    BY <1>0, <2>1, CollapseIsSound DEF PanelOK
<1>3. CASE UserOpens
  <2>1. PICK f \in panel.items \ Folder : Become(CurrentFile(panel, f, shown)) /\ UNCHANGED shown
    BY <1>3 DEF UserOpens
  <2>2. f \in File \cup {None}
    BY <1>0 DEF File, Path
  <2> QED
    BY <1>0, <2>1, <2>2, DocumentIsSound
<1>4. CASE ToggleItem
  <2>1. PICK f \in panel.items \cap Folder :
            panel' = IF f \in panel.open THEN RemoveExpanded(TreeCollapse(panel, f), f) ELSE ExpandItem(panel, f)
    BY <1>4 DEF ToggleItem
  <2>2. CASE f \in panel.open
    BY <1>0, <2>1, <2>2, CollapseIsSound DEF PanelOK
  <2>3. CASE f \notin panel.open
    <3>1. Kept(panel) /\ Hangs(panel, None) /\ Filled(panel) /\ Marked(panel)
      BY <1>0 DEF Sound, Fresh
    <3>2. panel' = ExpandItem(panel, f)
      BY <2>1, <2>3
    <3>3. /\ panel' \in Tree /\ Kept(panel') /\ Hangs(panel', None) /\ Marked(panel')
          /\ panel'.stale = panel.stale /\ panel'.placeholder = panel.placeholder
          /\ panel.items \subseteq panel'.items
      BY <1>0, <3>1, <3>2, ExpandIsSound
    <3> QED
      BY <1>0, <3>1, <3>3 DEF PanelOK, Sound, Fresh, Filled
  <2> QED
    BY <2>2, <2>3
<1>5. CASE GoUp \/ EnterFolder \/ OverflowMenu \/ \E folder \in Folder \cap panel.disk : FolderPicked(folder)
  <2>1. PICK folder \in Folder \cup {None} : Become(NewRoot(panel, folder, shown)) /\ UNCHANGED shown
    <3>1. CASE GoUp
      BY <1>0, <3>1, ParentIsFolder DEF GoUp, GoTo, Path
    <3>2. CASE EnterFolder
      BY <3>2 DEF EnterFolder, GoTo
    <3>3. CASE OverflowMenu
      BY <1>0, <3>3, BarIsFolders DEF OverflowMenu, GoTo
    <3>4. CASE \E folder \in Folder \cap panel.disk : FolderPicked(folder)
      BY <3>4 DEF FolderPicked
    <3> QED
      BY <1>5, <3>1, <3>2, <3>3, <3>4
  <2> QED
    BY <2>1, MovedIsSound
<1>6. CASE Refresh
  <2>1. panel' = Rebuild(panel) /\ UNCHANGED shown
    BY <1>6 DEF Refresh, RefreshTree
  <2>2. Fresh(panel') /\ Marked(panel')
    BY <1>0, <2>1, RebuildIsSound DEF Sound
  <2> QED
    BY <2>2 DEF PanelOK, Sound, Fresh
<1>7. CASE Press \/ LoseCapture
  BY <1>7 DEF Press, LoseCapture, PanelOK
<1>8. CASE Release
  <2>1. pressed.index \in {target.index : target \in Targets}
    BY <1>8 DEF Release
  <2>2. PICK i \in FirstVisibleSegment(panel.root, barWidth) .. Len(panel.root) - 1 : pressed.index = i
    BY <2>1 DEF Targets, Segment
  <2>3. FolderChain(panel.root)[pressed.index] \in Folder
    BY <1>0, <2>2, BarIsFolders
  <2>4. panel' = NewRoot(panel, FolderChain(panel.root)[pressed.index], shown) /\ UNCHANGED shown
    BY <1>8 DEF Release
  <2>5. Ready(panel)
    BY <1>0 DEF Sound, Ready
  <2> DEFINE to == FolderChain(panel.root)[pressed.index]
  <2> HIDE DEF to
  <2>6. to \in Folder \cup {None} /\ panel' = NewRoot(panel, to, shown)
    BY <2>3, <2>4 DEF to
  <2>7. /\ Sound(panel) => Sound(panel')
        /\ shown /\ ~panel.stale => ~panel'.stale
    BY <2>5, <2>6, NewRootIsSound
  <2> QED
    BY <1>0, <2>7 DEF PanelOK
<1> QED
  BY <1>1, <1>2, <1>3, <1>4, <1>5, <1>6, <1>7, <1>8 DEF UserActs


-----------------------------------------------------------------------------
(* The main window. *)

LEMMA EmptyIsSound ==
    ASSUME NEW d \in SUBSET Path
    PROVE  Sound(EmptyPanel(d)) /\ ~EmptyPanel(d).stale
  BY DEF EmptyPanel, Sound, Fresh, Tree, Kept, Hangs, Filled, Marked, None

\* Laying out again shows the panel, as it was or with its root moved, or hides it.
LEMMA RelaidIsSound ==
    ASSUME NEW t, Sound(t), NEW width, shown' = (width > 0), Become(IF width > 0 THEN Appear(t) ELSE t)
    PROVE  PanelOK'
<1>1. CASE width > 0
  <2>1. panel' = Appear(t)
    BY <1>1 DEF Become
  <2> QED
    BY <2>1, AppearIsSound DEF PanelOK
<1>2. CASE ~(width > 0)
  BY <1>2 DEF Become, PanelOK
<1> QED
  BY <1>1, <1>2

LEMMA RelayoutKeeps ==
    ASSUME PanelOK, NEW s, NEW mode, NEW r, NEW w, RelayoutTo(s, mode, r, w)
    PROVE  PanelOK'
<1> DEFINE width == ExplorerW(s, w)
<1>1. shown' = (width > 0) /\ Become(IF width > 0 THEN Appear(panel) ELSE panel)
  BY DEF RelayoutTo
<1> HIDE DEF width
<1> QED
  BY <1>1, RelaidIsSound DEF PanelOK

LEMMA RearrangeKeeps ==
    ASSUME IInv, Rearrange \/ ToggleSetting("showExplorer") \/ Resize
    PROVE  PanelOK'
<1> USE RelayoutKeeps DEF IInv
<1>1. CASE \E name \in Toggled \cup {"showExplorer"} : ToggleSetting(name)
  BY <1>1 DEF ToggleSetting, SetSettings
<1>2. CASE SetViewMode
  BY <1>2 DEF SetViewMode
<1>3. CASE Resize
  BY <1>3 DEF Resize
<1>4. CASE StartDrag \/ EndDrag
  BY <1>4 DEF StartDrag, EndDrag, explorerVars, PanelOK
<1>5. CASE Drag
  <2>1. PICK x \in MousePositions : DragDividerTo(x)
    BY <1>5 DEF Drag
  <2>2. drag = "Split" \/ drag = "Outline" \/ drag = "Explorer"
    BY <1>5 DEF Drag
  <2> QED
    BY <2>1, <2>2 DEF DragDividerTo, SetSettings
<1>6. CASE ResetDivider
  BY <1>6, ZenonT(60) DEF ResetDivider, SetSettings, DividerOf
<1> QED
  BY <1>1, <1>2, <1>3, <1>4, <1>5, <1>6 DEF Rearrange

LEMMA OpenFolderKeeps ==
    ASSUME PanelOK, OpenFolder
    PROVE  PanelOK'
<1>1. PICK folder \in Folder \cap panel.disk :
          LET s == [settings EXCEPT !.showExplorer = TRUE]
              width == ExplorerW(s, client)
              t == NewRoot(panel, folder, shown)
          IN  shown' = (width > 0) /\ Become(IF width > 0 THEN Appear(t) ELSE t)
  BY DEF OpenFolder
<1> DEFINE width == ExplorerW([settings EXCEPT !.showExplorer = TRUE], client)
           t == NewRoot(panel, folder, shown)
<1>2. shown' = (width > 0) /\ Become(IF width > 0 THEN Appear(t) ELSE t)
  BY <1>1
<1>3. Sound(t)
  <2>1. Ready(panel)
    BY DEF PanelOK, Sound, Ready
  <2> QED
    BY <2>1, NewRootIsSound DEF PanelOK
<1> HIDE DEF width, t
<1> QED
  BY <1>2, <1>3, RelaidIsSound

LEMMA StartKeeps ==
    ASSUME IInv, Start
    PROVE  PanelOK' /\ running'
<1>1. PICK reopen \in BOOLEAN : StartFrom(Parsed(ini), reopen)
  BY DEF Start
<1> DEFINE s == Parsed(ini)
           isShown == ExplorerW(s.settings, s.client) > 0
           file == IF reopen /\ s.lastFile \in panel.disk THEN s.lastFile ELSE None
<1>2. panel' = StartedPanel(panel.disk, s.explorerFolder, file, isShown) /\ shown' = isShown /\ running'
  BY <1>1 DEF StartFrom
<1>3. s.explorerFolder \in Folder \cup {None} /\ file \in File \cup {None}
  BY DEF Parsed, IInv, Start
<1> DEFINE folder == s.explorerFolder
<1>4. folder \in Folder \cup {None}
  BY <1>3
<1> HIDE DEF isShown, file, folder
<1>5. panel.disk \in SUBSET Path
  BY DEF IInv, PanelOK, Sound, Tree
<1> DEFINE e == EmptyPanel(panel.disk)
           t == NewRoot(e, folder, isShown)
<1>6. Sound(e) /\ ~e.stale
  BY <1>5, EmptyIsSound
<1> HIDE DEF e
<1>7. Ready(e)
  BY <1>6 DEF Sound, Ready
<1>8. Sound(t) /\ (isShown => ~t.stale)
  BY <1>4, <1>6, <1>7, NewRootIsSound
<1>9. panel' = t \/ panel' = CurrentFile(t, file, isShown)
  BY <1>2 DEF StartedPanel, e, folder
<1> HIDE DEF t
<1>10. Sound(CurrentFile(t, file, isShown)) /\ (isShown => ~CurrentFile(t, file, isShown).stale)
  BY <1>3, <1>8, CurrentFileIsSound
<1>11. Sound(panel') /\ (isShown => ~panel'.stale)
  BY <1>8, <1>9, <1>10
<1> QED
  BY <1>2, <1>11 DEF PanelOK

LEMMA CloseKeeps ==
    ASSUME IInv, Close
    PROVE  /\ PanelOK'
           /\ ini'.explorerFolder \in Folder \cup {None} /\ ini'.lastFile \in File \cup {None}
<1>1. panel' = EmptyPanel(panel.disk) /\ ini' = Serialized /\ panel \in Tree
  BY DEF Close, IInv, PanelOK, Sound
<1>2. Sound(panel') /\ ~panel'.stale
  BY <1>1, EmptyIsSound DEF Tree
<1>3. Serialized.explorerFolder \in Folder \cup {None} /\ Serialized.lastFile \in File \cup {None}
  BY <1>1 DEF Serialized, Tree
<1> QED
  BY <1>1, <1>2, <1>3 DEF PanelOK

LEMMA DragKeeps ==
    ASSUME IInv, [Next]_vars
    PROVE  drag' \in {"None", "Split", "Outline", "Explorer"}
<1>1. CASE UNCHANGED drag
  BY <1>1 DEF IInv
<1>2. CASE StartDrag \/ EndDrag
  BY <1>2 DEF StartDrag, EndDrag, DividerOf
<1>3. CASE Rearrange \/ ToggleSetting("showExplorer") \/ Resize \/ OpenFolder \/ Close \/ Start
  <2>1. UNCHANGED drag \/ StartDrag \/ EndDrag
    BY <1>3 DEF Rearrange, ToggleSetting, SetViewMode, Drag, ResetDivider, Resize, OpenFolder, Close,
                Start, StartFrom
  <2> QED
    BY <1>1, <1>2, <2>1
<1> QED
  BY <1>1, <1>3 DEF Next, vars, windowVars

\* Whatever happens to the panel, its window and the disk, the tree hangs together.
THEOREM PanelInvariant == Spec => []IInv
<1>1. Init => IInv
  BY EmptyIsSound, PathAssumption DEF Init, IInv, PanelOK
<1>2. ASSUME IInv, [Next]_vars
      PROVE  IInv'
  <2> USE DragKeeps, <1>2
  <2>1. CASE running /\ \/ (DiskChanges \/ OpenDocument \/ SaveDocument) /\ UNCHANGED windowVars
                        \/ shown /\ UserActs /\ UNCHANGED windowVars
    BY <2>1, OutsideKeeps, UserKeeps DEF IInv, windowVars
  <2>2. CASE running /\ OpenFolder
    BY <2>2, OpenFolderKeeps DEF IInv, OpenFolder
  <2>3. CASE running /\ (Rearrange \/ ToggleSetting("showExplorer") \/ Resize)
    <3>1. PanelOK'
      BY <2>3, RearrangeKeeps
    <3>2. running'
      BY <2>3 DEF Rearrange, ToggleSetting, SetViewMode, StartDrag, Drag, EndDrag, ResetDivider, Resize
    <3> QED
      BY <3>1, <3>2 DEF IInv
  <2>4. CASE running /\ Close
    BY <2>4, CloseKeeps DEF IInv, Close
  <2>5. CASE Start
    BY <2>5, StartKeeps DEF IInv
  <2>6. CASE UNCHANGED vars
    BY <2>6 DEF IInv, PanelOK, vars, explorerVars, windowVars
  <2> QED
    BY <2>1, <2>2, <2>3, <2>4, <2>5, <2>6 DEF Next
<1> QED
  BY <1>1, <1>2, PTL DEF Spec

\* The tree of an up-to-date panel hangs together, and a panel that is shown is up to date, on every
\* drive, with every change other programs make to it and in every arrangement of the window
\* (Rebuild, InsertEntries, FindItem, RevealCurrentFile, Relayout).
THEOREM TreeStaysSound == Spec => []TreeIsSound
<1>1. IInv => TreeIsSound
  <2> SUFFICES ASSUME IInv
               PROVE  TreeIsSound
    OBVIOUS
  <2>1. running /\ shown => ~panel.stale
    BY DEF IInv, PanelOK
  <2>2. ASSUME ~panel.stale
        PROVE  /\ \A i \in panel.items : ParentOf(i) \in panel.loaded \cup {panel.root}
               /\ \A f \in panel.items \cap Folder :
                     Below(f) \cap panel.items # {} => (f \in panel.open <=> f \in panel.expanded)
               /\ panel.currentFile \in panel.items => panel.currentFile \in panel.bold
               /\ panel.currentItem \in (panel.items \cap panel.bold) \cup {None}
               /\ panel.placeholder <=> panel.items = {}
    <3>1. panel \in Tree /\ Kept(panel) /\ Hangs(panel, None) /\ Filled(panel) /\ Marked(panel)
      BY <2>2 DEF IInv, PanelOK, Sound, Fresh
    <3>2. ASSUME NEW i \in panel.items
          PROVE  ParentOf(i) \in panel.loaded \cup {panel.root}
      <4>1. i \in Below(panel.root) /\ panel.root \in Path
        BY <3>1, NothingBelowNone DEF Hangs, Tree, Path
      <4> QED
        BY <3>1, <4>1, ParentIs DEF Hangs
    <3>3. None \notin Folder
      BY PathAssumption DEF Path
    <3> QED
      BY <3>1, <3>2, <3>3 DEF Hangs, Kept, Marked, Filled
  <2> QED
    BY <2>1, <2>2 DEF TreeIsSound
<1> QED
  BY <1>1, PanelInvariant, PTL


-----------------------------------------------------------------------------
(* Revealing the document although the disk changed since its folders were *)
(* read.                                                                   *)

\* The tree shows what is in the folder now.
Current(t, f) == ListFolder(t, f) \subseteq t.items

\* The folders on the way that were read show what is in them, or at least something.
Promising(t, path) == \A f \in t.loaded : path \in Below(f) => Current(t, f) \/ Below(f) \cap t.items # {}

\* The tree was read on: the folders that were read anew are current.
ReadOn(t, u) ==
    /\ u.disk = t.disk /\ t.items \subseteq u.items /\ t.expanded \subseteq u.expanded
    /\ \A f \in u.loaded \ t.loaded : Current(u, f)

LEMMA ReadOnIsPromising ==
    ASSUME NEW t, NEW u, NEW path, ReadOn(t, u), Promising(t, path)
    PROVE  Promising(u, path)
<1>1. ASSUME NEW f \in u.loaded, path \in Below(f)
      PROVE  Current(u, f) \/ Below(f) \cap u.items # {}
  <2>1. ListFolder(u, f) = ListFolder(t, f)
    BY DEF ListFolder, Listable, ReadOn
  <2> QED
    BY <1>1, <2>1 DEF Promising, ReadOn, Current
<1> QED
  BY <1>1 DEF Promising

LEMMA ListedIsInserted ==
    ASSUME NEW t \in Tree, NEW folder \in Folder, NEW f \in Inserted(t, folder) \cap Folder, Expanded(t, f),
           NEW c \in ListFolder(t, f)
    PROVE  c \in Inserted(t, folder)
<1>1. /\ folder \in Path /\ f \in Path /\ c \in Path /\ f \in Below(folder) /\ c \in Below(f)
      /\ Len(c) = Len(f) + 1 /\ Listable(t, c) /\ Listable(t, f)
  BY DEF Inserted, ListFolder, Below, Path
<1>2. c \in Below(folder)
  BY <1>1, BelowBelow
<1>3. Len(c) \in Nat /\ Len(f) \in Nat \ {0} /\ Len(folder) \in Nat \ {0} /\ f = SubSeq(c, 1, Len(f))
  BY <1>1, BelowIs, PathIsSeq
<1>4. ASSUME NEW m \in Len(folder) + 1 .. Len(c) - 1
      PROVE  Listable(t, SubSeq(c, 1, m)) /\ Expanded(t, SubSeq(c, 1, m))
  <2>1. CASE m = Len(f)
    BY <1>1, <1>3, <2>1
  <2>2. CASE m # Len(f)
    <3> DEFINE k == Len(folder)
               n == Len(f)
               l == Len(c)
    <3>0. k \in Nat \ {0} /\ n \in Nat \ {0} /\ l = n + 1 /\ m \in k + 1 .. l - 1 /\ m # n
      BY <1>1, <1>3, <1>4, <2>2
    <3> HIDE DEF k, n, l
    <3>5. m \in k + 1 .. n - 1 /\ m \in 1 .. n /\ n \in 1 .. l
      BY <3>0
    <3>1. m \in Len(folder) + 1 .. Len(f) - 1 /\ m \in 1 .. Len(f) /\ Len(f) \in 1 .. Len(c)
      BY <3>5 DEF k, n, l
    <3>2. SubSeq(SubSeq(c, 1, Len(f)), 1, m) = SubSeq(c, 1, m)
      BY <1>1, <3>1, AncestorOfAncestor
    <3>3. SubSeq(f, 1, m) = SubSeq(c, 1, m)
      BY <1>3, <3>2
    <3>4. Listable(t, SubSeq(f, 1, m)) /\ Expanded(t, SubSeq(f, 1, m))
      BY <3>1 DEF Inserted
    <3> QED
      BY <3>3, <3>4
  <2> QED
    BY <2>1, <2>2
<1> QED
  BY <1>1, <1>2, <1>4 DEF Inserted

LEMMA InsertReads ==
    ASSUME NEW t \in Tree, NEW folder \in Folder, NEW u, u = InsertEntries(t, folder)
    PROVE  ReadOn(t, u) /\ Current(u, folder) /\ u.expanded = t.expanded /\ t.loaded \subseteq u.loaded
<1> DEFINE new == Inserted(t, folder)
<1>1. new \in SUBSET Path
  BY DEF Inserted, Below
<1>2. /\ u.disk = t.disk /\ u.expanded = t.expanded /\ u.items = t.items \cup new
      /\ u.loaded = t.loaded \cup {f \in new \cap Folder : Expanded(t, f)}
  BY <1>1, AddEntriesIs DEF InsertEntries
<1>3. ASSUME NEW f
      PROVE  ListFolder(u, f) = ListFolder(t, f)
  BY <1>2 DEF ListFolder, Listable
<1>4. ListFolder(t, folder) \subseteq new
  <2>1. ASSUME NEW p \in ListFolder(t, folder)
        PROVE  p \in new
    <3>1. Len(p) \in Nat /\ Len(folder) \in Nat /\ Len(p) = Len(folder) + 1
      BY PathIsSeq DEF ListFolder, Below, Path
    <3> QED
      BY <3>1 DEF ListFolder, Inserted
  <2> QED
    BY <2>1
<1>5. ASSUME NEW f \in u.loaded \ t.loaded
      PROVE  Current(u, f)
  <2>1. f \in new \cap Folder /\ Expanded(t, f)
    BY <1>2
  <2>2. ListFolder(t, f) \subseteq new
    BY <2>1, ListedIsInserted
  <2> QED
    BY <1>2, <1>3, <2>2 DEF Current
<1> HIDE DEF new
<1> QED
  BY <1>2, <1>3, <1>4, <1>5 DEF ReadOn, Current

LEMMA RebuildReads ==
    ASSUME NEW t \in Tree, Kept(t), NEW u, u = Rebuild(t)
    PROVE  /\ \A f \in u.loaded : Current(u, f)
           /\ u.root \in Folder \cap u.disk => Current(u, u.root)
           /\ u.expanded = t.expanded
<1> DEFINE bare == DeleteItems(t, t.items)
           r == [bare EXCEPT !.stale = FALSE, !.placeholder = FALSE]
<1>1. t.items \in SUBSET Path
  BY DEF Tree
<1>2. bare \in Tree /\ bare.items = {} /\ bare.loaded = {} /\ bare.expanded = t.expanded
  BY <1>1, DeleteItemsIs DEF Kept
<1> HIDE DEF bare
<1>3. r \in Tree /\ r.items = {} /\ r.loaded = {} /\ r.expanded = t.expanded
  BY <1>2 DEF Tree
<1>4. u = FillRoot(r)
  BY DEF Rebuild, bare
<1> HIDE DEF r
<1>5. CASE /\ u = [r EXCEPT !.placeholder = TRUE]
           /\ r.root = None \/ ~Readable(r, r.root) \/ ListFolder(r, r.root) = {}
  <2>1. u.loaded = {} /\ u.items = {} /\ u.expanded = t.expanded /\ u.root = r.root /\ u.disk = r.disk
    BY <1>3, <1>5 DEF Tree
  <2>2. ListFolder(u, u.root) = ListFolder(r, r.root)
    BY <2>1 DEF ListFolder, Listable
  <2>3. u.root \in Folder \cap u.disk => ListFolder(u, u.root) = {}
    BY <1>5, <2>1, <2>2, PathAssumption DEF Readable, Path
  <2> QED
    BY <2>1, <2>3 DEF Current
<1>6. CASE u = InsertEntries(r, r.root) /\ r.root \in Folder
  <2>1. ReadOn(r, u) /\ Current(u, r.root) /\ u.expanded = r.expanded
    BY <1>3, <1>6, InsertReads
  <2>2. u.root = r.root
    BY <1>3, <1>6, InsertFrame
  <2> QED
    BY <1>3, <2>1, <2>2 DEF ReadOn
<1> QED
  BY <1>4, <1>5, <1>6 DEF FillRoot, Readable

LEMMA ExpandReads ==
    ASSUME NEW t \in Tree, Kept(t), Hangs(t, None), NEW folder \in t.items \cap Folder,
           NEW u, u = ExpandItem(t, folder)
    PROVE  ReadOn(t, u) /\ folder \in u.loaded /\ folder \in u.expanded
<1> DEFINE l == EnsureLoaded(t, folder)
           e == TreeExpand(l, folder)
<1>0. folder \in Path
  BY DEF Path
<1>1. l \in Tree /\ ReadOn(t, l) /\ folder \in l.loaded
  <2>1. l \in Tree
    BY EnsureLoadedIsSound
  <2>2. CASE folder \in t.loaded
    BY <2>1, <2>2 DEF EnsureLoaded, ReadOn
  <2>3. CASE folder \notin t.loaded
    <3> DEFINE r == [t EXCEPT !.loaded = @ \cup {folder}]
    <3>1. /\ r \in Tree /\ r.items = t.items /\ r.loaded = t.loaded \cup {folder} /\ r.disk = t.disk
          /\ r.expanded = t.expanded
      BY <1>0 DEF Tree
    <3>2. l = InsertEntries(r, folder)
      BY <2>3 DEF EnsureLoaded
    <3> HIDE DEF r, l
    <3>3. ReadOn(r, l) /\ Current(l, folder) /\ l.expanded = r.expanded /\ r.loaded \subseteq l.loaded
      BY <3>1, <3>2, InsertReads
    <3> QED
      BY <2>1, <3>1, <3>3 DEF ReadOn
  <2> QED
    BY <2>2, <2>3
<1>2. u = AddExpanded(e, {folder})
  BY DEF ExpandItem
<1> HIDE DEF l
<1>3. e \in Tree /\ e.items = l.items /\ e.loaded = l.loaded /\ e.expanded = l.expanded /\ e.disk = l.disk
  BY <1>0, <1>1 DEF TreeExpand, Tree
<1> HIDE DEF e
<1>4. u.items = l.items /\ u.loaded = l.loaded /\ u.expanded = l.expanded \cup {folder} /\ u.disk = l.disk
  BY <1>0, <1>2, <1>3 DEF AddExpanded, Tree
<1>5. ASSUME NEW f
      PROVE  ListFolder(u, f) = ListFolder(l, f)
  BY <1>4 DEF ListFolder, Listable
<1> QED
  BY <1>1, <1>4, <1>5 DEF ReadOn, Current


LEMMA RelistReads ==
    ASSUME NEW t, Fresh(t), NEW folder \in (t.items \cup {t.root}) \cap Folder, NEW path \in Path,
           Promising(t, path), NEW u, u = Relist(t, folder)
    PROVE  /\ Promising(u, path) /\ t.expanded \subseteq u.expanded
           /\ folder = t.root /\ folder \in t.disk => Current(u, folder)
           /\ folder # t.root /\ folder \in t.loaded \cap t.open => Current(u, folder)
<1>1. t \in Tree /\ Kept(t) /\ Hangs(t, None) /\ Filled(t) /\ ~t.stale /\ folder \in Path
  BY DEF Fresh, Path
<1>2. CASE folder = t.root
  <2>1. u = Rebuild(t)
    BY <1>2 DEF Relist
  <2>2. SameFocus(t, u)
    BY <1>1, <2>1, RebuildIsSound
  <2>3. /\ \A f \in u.loaded : Current(u, f)
        /\ u.root \in Folder \cap u.disk => Current(u, u.root)
        /\ u.expanded = t.expanded
    BY <1>1, <2>1, RebuildReads
  <2> QED
    BY <1>2, <2>2, <2>3 DEF Promising, SameFocus
<1>3. CASE folder # t.root /\ folder \notin t.loaded
  BY <1>3 DEF Relist
<1>4. CASE folder # t.root /\ folder \in t.loaded
  <2> DEFINE reset == Unread(t, folder)
  <2>1. u = IF folder \in t.open THEN ExpandItem(reset, folder) ELSE reset
    BY <1>4 DEF Relist
  <2>4. /\ Fresh(reset) /\ SameFocus(t, reset) /\ folder \in t.items \cap reset.items
        /\ reset.items = t.items \ Below(folder) /\ reset.loaded = (t.loaded \ Below(folder)) \ {folder}
        /\ reset.expanded = t.expanded
    BY <1>4, UnreadIsSound
  <2> HIDE DEF reset
  <2>5. reset \in Tree /\ Kept(reset) /\ Hangs(reset, None) /\ reset.disk = t.disk
    BY <2>4 DEF Fresh, SameFocus
  <2>6. Promising(reset, path)
    <3>1. ASSUME NEW f \in reset.loaded, path \in Below(f)
          PROVE  Current(reset, f) \/ Below(f) \cap reset.items # {}
      <4>1. f \in t.loaded /\ f # folder /\ f \notin Below(folder)
        BY <2>4
      <4>2. f \in Path
        BY <1>1, <4>1 DEF Tree
      <4>3. CASE Current(t, f)
        <5>1. ListFolder(reset, f) = ListFolder(t, f)
          BY <2>5 DEF ListFolder, Listable
        <5>2. ASSUME NEW c \in ListFolder(t, f)
              PROVE  c \notin Below(folder)
          <6>1. c \in Below(f) /\ c \in Path /\ Len(c) = Len(f) + 1
            BY DEF ListFolder, Below
          <6>2. ASSUME c \in Below(folder)
                PROVE  FALSE
            <7>1. folder \in Below(f)
              BY <1>1, <4>1, <4>2, <6>1, <6>2, OneWay
            <7>2. Len(f) \in 1 .. Len(folder) - 1
              BY <4>2, <7>1, BelowIs
            <7>3. Len(folder) \in 1 .. Len(c) - 1
              BY <1>1, <6>2, BelowIs
            <7> QED
              BY <6>1, <7>2, <7>3
          <6> QED
            BY <6>2
        <5> QED
          BY <2>4, <4>3, <5>1, <5>2 DEF Current
      <4>4. CASE Below(f) \cap t.items # {}
        <5>1. PICK i \in Below(f) \cap t.items : TRUE
          BY <4>4
        <5>2. CASE i \in Below(folder)
          <6>1. folder \in Below(f)
            BY <1>1, <4>1, <4>2, <5>1, <5>2, OneWay
          <6> QED
            BY <2>4, <6>1
        <5>3. CASE i \notin Below(folder)
          BY <2>4, <5>1, <5>3
        <5> QED
          BY <5>2, <5>3
      <4> QED
        BY <3>1, <4>1, <4>3, <4>4 DEF Promising
    <3> QED
      BY <3>1 DEF Promising
  <2>7. CASE folder \notin t.open
    BY <1>4, <2>1, <2>4, <2>6, <2>7
  <2>8. CASE folder \in t.open
    <3>1. ReadOn(reset, u) /\ folder \in u.loaded
      BY <2>1, <2>4, <2>5, <2>8, ExpandReads
    <3>2. folder \notin reset.loaded
      BY <2>4
    <3> QED
      BY <1>4, <2>4, <2>6, <3>1, <3>2, ReadOnIsPromising DEF ReadOn
  <2> QED
    BY <2>7, <2>8
<1> QED
  BY <1>2, <1>3, <1>4

\* Where a folder on the way is, so are the folders above it.
DiskClosed(t) == \A p \in t.disk : \A n \in 1 .. Len(p) - 1 : SubSeq(p, 1, n) \in t.disk

LEMMA OnDisk ==
    ASSUME NEW t, DiskClosed(t), NEW p \in t.disk, NEW f \in Path, p \in Below(f)
    PROVE  f \in t.disk /\ f \in Folder
<1>1. p \in Path /\ Len(f) \in 1 .. Len(p) - 1 /\ f = SubSeq(p, 1, Len(f))
  BY BelowIs
<1> QED
  BY <1>1, IsBelow DEF DiskClosed

\* A name that exists is listed, unless it is left out.
LEMMA CurrentHas ==
    ASSUME NEW t \in Tree, NEW here \in t.disk \ LeftOut, here \in Folder \cup Markdown,
           NEW f \in Folder, here \in Below(f), ParentOf(here) = f, Current(t, f)
    PROVE  here \in t.items
<1>1. here \in Path /\ here # None /\ Len(here) \in Nat \ {0} /\ here \in Seq(Name)
  BY PathIsSeq DEF Path
<1>2. Len(here) = Len(f) + 1
  <2>1. f = SubSeq(here, 1, Len(here) - 1)
    BY <1>1 DEF ParentOf, Front
  <2>2. Len(f) \in 1 .. Len(here) - 1 /\ Len(f) \in Nat
    BY <1>1, BelowIs, PathIsSeq DEF Path
  <2>3. Len(here) - 1 \in 1 .. Len(here) - 1
    BY <1>1, <2>2
  <2>4. Len(SubSeq(here, 1, Len(here) - 1)) = Len(here) - 1
    BY <1>1, <2>3, Ancestor
  <2> QED
    BY <1>1, <2>1, <2>4
<1>3. here \in ListFolder(t, f)
  BY <1>2 DEF ListFolder, Listable
<1> QED
  BY <1>3 DEF Current

\* What FindItem knows on its way to a document that is on the disk: every folder it passed was read
\* and is remembered as expanded, and it gave up only at a folder that is left out.
OnTrack(s, path, here) ==
    /\ Fresh(s.tree) /\ DiskClosed(s.tree) /\ path \in s.tree.disk
    /\ s.item # None =>
          /\ s.item = here /\ Promising(s.tree, path)
          /\ s.fresh => Current(s.tree, here)
          /\ here # s.tree.root /\ here # path => here \in s.tree.loaded
          /\ \A f \in Below(s.tree.root) : f # path /\ (f = here \/ here \in Below(f)) => f \in s.tree.expanded
          /\ here # s.tree.root => here \in s.tree.items
          /\ here = path => s.folderShown
    /\ s.item = None => ~s.folderShown /\ \E f \in LeftOut \cap Below(s.tree.root) : path \in Below(f)


LEMMA SoughtReveals ==
    ASSUME NEW s, NEW path \in Markdown, NEW here \in Below(s.tree.root), here \in s.tree.disk,
           here \in Folder \cup Markdown, here = path \/ path \in Below(here),
           path \in Below(ParentOf(here)), ParentOf(here) # path,
           OnTrack(s, path, ParentOf(here)), s.item # None,
           NEW t, t = Sought(s, here, path)
    PROVE  /\ Fresh(t) /\ SameFocus(s.tree, t) /\ Promising(t, path)
           /\ s.tree.expanded \subseteq t.expanded
           /\ here \in t.items \cup LeftOut
<1> DEFINE up == ParentOf(here)
           r == s.tree
<1>1. /\ Fresh(r) /\ DiskClosed(r) /\ path \in r.disk /\ s.item = up /\ Promising(r, path)
      /\ s.fresh => Current(r, up)
      /\ up # r.root => up \in r.items /\ up \in r.loaded
      /\ up \in Below(r.root) => up \in r.expanded
  BY DEF OnTrack
<1>2. r \in Tree /\ Hangs(r, None) /\ r.root \in Path /\ here \in Path
  BY <1>1, NothingBelowNone DEF Fresh, Tree, Path, Below
<1>3. up \in Folder /\ here \in Below(up) /\ up \in r.disk /\ (up = r.root \/ up \in Below(r.root))
  <2>1. up \in Folder /\ here \in Below(up) /\ (up = r.root \/ up \in Below(r.root))
    BY <1>2, ParentIs
  <2> QED
    BY <1>1, <2>1, OnDisk DEF Path
<1>4. up # None /\ up \in Path /\ path \in Path
  BY <1>3, PathAssumption DEF Path
<1> HIDE DEF up, r
<1>5. CASE here \in r.items
  <2>1. t = r
    BY <1>5 DEF Sought, r
  <2> QED
    BY <1>1, <1>5, <2>1 DEF SameFocus, r
<1>6. CASE here \notin r.items /\ s.fresh
  <2>1. t = r
    BY <1>6 DEF Sought, r
  <2>2. here \in r.items \cup LeftOut
    BY <1>1, <1>2, <1>3, <1>6, CurrentHas DEF r, up
  <2> QED
    BY <1>1, <2>1, <2>2 DEF SameFocus, r
<1>7. CASE here \notin r.items /\ ~s.fresh
  <2>1. t = Relist(r, up)
    BY <1>7 DEF Sought, r, up
  <2>2. up \in (r.items \cup {r.root}) \cap Folder
    BY <1>1, <1>3
  <2>3. Fresh(t) /\ SameFocus(r, t)
    BY <1>1, <2>1, <2>2, RelistIsSound
  <2>4. /\ Promising(t, path) /\ r.expanded \subseteq t.expanded
        /\ up = r.root /\ up \in r.disk => Current(t, up)
        /\ up # r.root /\ up \in r.loaded \cap r.open => Current(t, up)
    BY <1>1, <1>4, <2>1, <2>2, RelistReads
  <2>5. ASSUME here \notin LeftOut
        PROVE  here \in t.items
    <3>1. Current(t, up)
      <4>1. CASE up = r.root
        BY <1>3, <2>4, <4>1
      <4>2. CASE up # r.root
        <5>1. ~Current(r, up)
          BY <1>2, <1>3, <1>7, <2>5, CurrentHas DEF r, up
        <5>2. up \in r.items \cap Folder /\ up \in r.loaded /\ up \in r.expanded
          BY <1>1, <1>3, <4>2
        <5>3. Below(up) \cap r.items # {}
          BY <1>1, <5>1, <5>2 DEF Promising, up
        <5>4. up \in r.open
          BY <1>2, <1>4, <5>2, <5>3 DEF Hangs
        <5> QED
          BY <2>4, <4>2, <5>2, <5>4
      <4> QED
        BY <4>1, <4>2
    <3>2. t \in Tree /\ here \in t.disk \ LeftOut
      BY <2>3, <2>5 DEF Fresh, SameFocus, r
    <3> QED
      BY <1>3, <3>1, <3>2, CurrentHas DEF up
  <2> QED
    BY <2>3, <2>4, <2>5 DEF r
<1> QED
  BY <1>5, <1>6, <1>7

LEMMA GoDownReveals ==
    ASSUME NEW s, NEW path \in Markdown, path \in Below(s.tree.root), NEW here \in Below(s.tree.root),
           here = path \/ (here \in Folder /\ path \in Below(here)),
           OnTrack(s, path, ParentOf(here)),
           NEW v, v = GoDown(s, here, path)
    PROVE  OnTrack(v, path, here) /\ SameFocus(s.tree, v.tree)
<1>1. CASE s.item = None
  <2>1. v = s
    BY <1>1 DEF GoDown
  <2> QED
    BY <1>1, <2>1 DEF OnTrack, SameFocus
<1>2. CASE s.item # None
  <2> DEFINE t == Sought(s, here, path)
             up == ParentOf(here)
             root == s.tree.root
  <2>1. root \in Path /\ here \in Path /\ path \in Path /\ path \notin Folder /\ LeftOut \subseteq Folder
    BY NothingBelowNone, PathAssumption DEF OnTrack, Fresh, Tree, Path, Below
  <2>2. up \in Folder /\ here \in Below(up) /\ (up = root \/ up \in Below(root))
    BY <2>1, ParentIs
  <2>3. Fresh(s.tree) /\ DiskClosed(s.tree) /\ path \in s.tree.disk /\ here \in s.tree.disk
    <3>1. Fresh(s.tree) /\ DiskClosed(s.tree) /\ path \in s.tree.disk
      BY DEF OnTrack
    <3> QED
      BY <2>1, <3>1, OnDisk
  <2>4. path \in Below(up) /\ up # path
    BY <2>1, <2>2, BelowBelow DEF Path
  <2>5. /\ Fresh(t) /\ SameFocus(s.tree, t) /\ Promising(t, path)
        /\ s.tree.expanded \subseteq t.expanded
        /\ here \in t.items \cup LeftOut
    BY <1>2, <2>1, <2>3, <2>4, SoughtReveals
  <2>6. v = Enter(t, here, path)
    BY <1>2 DEF GoDown
  <2>7. Fresh(v.tree) /\ SameFocus(s.tree, v.tree)
    <3>1. up \in s.tree.items \cup {root}
      BY <1>2 DEF OnTrack
    <3> QED
      BY <1>2, <2>1, <2>3, <3>1, GoDownIsSound
  <2>8. DiskClosed(v.tree) /\ path \in v.tree.disk /\ v.tree.root = root
    BY <2>3, <2>7 DEF SameFocus, DiskClosed
  <2>9. here # None
    BY <2>1, PathIsSeq
  <2>10. ASSUME NEW f \in Below(root), here \in Below(f)
         PROVE  f \in t.expanded
    <3>1. up = f \/ up \in Below(f)
      BY <2>10, ParentIs DEF Below
    <3>2. f # path
      BY <2>1, <2>10, IsBelow, BelowIs
    <3>3. f \in s.tree.expanded
      BY <1>2, <2>10, <3>1, <3>2 DEF OnTrack
    <3> QED
      BY <2>5, <3>3
  <2> HIDE DEF t, up, root
  <2>11. CASE here \notin t.items
    <3>1. v.item = None /\ v.folderShown = (here = path)
      <4>1. v = Search(t, None, FALSE, here = path)
        BY <2>6, <2>11 DEF Enter
      <4> QED
        BY <4>1 DEF Search
    <3>2. here \in LeftOut /\ here # path /\ path \in Below(here)
      BY <2>1, <2>5, <2>11
    <3> QED
      BY <2>7, <2>8, <3>1, <3>2 DEF OnTrack, root
  <2>12. CASE here \in t.items /\ here = path
    <3>1. v.tree = t /\ v.item = here /\ v.fresh = FALSE /\ v.folderShown = TRUE
      BY <2>6, <2>12 DEF Enter, Search
    <3> QED
      BY <2>5, <2>7, <2>8, <2>9, <2>10, <2>12, <3>1 DEF OnTrack
  <2>13. CASE here \in t.items /\ here # path
    <3>1. v.tree = ExpandItem(t, here) /\ v.item = here /\ v.fresh = (here \notin t.loaded)
      <4>1. v = Search(ExpandItem(t, here), here, here \notin t.loaded, FALSE)
        BY <2>6, <2>13 DEF Enter
      <4> QED
        BY <4>1 DEF Search
    <3>2. t \in Tree /\ Kept(t) /\ Hangs(t, None) /\ here \in t.items \cap Folder
      BY <2>5, <2>13 DEF Fresh
    <3>3. ReadOn(t, v.tree) /\ here \in v.tree.loaded /\ here \in v.tree.expanded
      BY <3>1, <3>2, ExpandReads
    <3>4. Promising(v.tree, path)
      BY <2>5, <3>3, ReadOnIsPromising
    <3>5. v.fresh => Current(v.tree, here)
      BY <3>1, <3>3 DEF ReadOn
    <3>6. t.expanded \subseteq v.tree.expanded /\ here \in v.tree.items
      BY <2>13, <3>3 DEF ReadOn
    <3> QED
      BY <2>7, <2>8, <2>9, <2>10, <2>13, <3>1, <3>3, <3>4, <3>5, <3>6 DEF OnTrack
  <2> QED
    BY <2>11, <2>12, <2>13
<1> QED
  BY <1>1, <1>2


\* FindItem reveals a document that is on the disk, or gives up at a folder that is left out.
LEMMA FindReveals ==
    ASSUME NEW t, Fresh(t), DiskClosed(t), NEW path \in Markdown \cap t.disk, path \in Below(t.root),
           Promising(t, path), NEW s, s = FindItem(t, path)
    PROVE  OnTrack(s, path, path) /\ SameFocus(t, s.tree)
<1> DEFINE len == Len(path) - Len(t.root)
           Here(n) == SubSeq(path, 1, Len(t.root) + n)
<1>1. t.root \in Path /\ path \in Path
  BY NothingBelowNone DEF Fresh, Tree, Path, Below
<1>2. Len(t.root) \in 1 .. Len(path) - 1 /\ t.root = SubSeq(path, 1, Len(t.root)) /\ Len(path) \in Nat
  BY <1>1, BelowIs, PathIsSeq
<1>3. len \in Nat \ {0} /\ Len(path) = Len(t.root) + len
  BY <1>2
<1>4. PICK F : /\ F[0] = Search(t, t.root, FALSE, FALSE)
               /\ \A n \in Nat : F[n + 1] = GoDown(F[n], SubSeq(path, 1, Len(t.root) + (n + 1)), path)
               /\ FindItem(t, path) = F[len]
  BY <1>3, FindItemIs
<1> HIDE DEF len
<1> DEFINE Good(n) == OnTrack(F[n], path, Here(n)) /\ SameFocus(t, F[n].tree)
           Goods == {n \in Nat : n <= len => Good(n)}
<1>5. ASSUME NEW n \in 1 .. len
      PROVE  /\ Here(n) \in Below(t.root)
             /\ Here(n) = path \/ (Here(n) \in Folder /\ path \in Below(Here(n)))
             /\ Here(n) = path <=> n = len
             /\ ParentOf(Here(n)) = Here(n - 1)
  BY <1>1, OnTheWay DEF len
<1>6. Good(0)
  <2>1. F[0].tree = t /\ F[0].item = t.root /\ F[0].fresh = FALSE /\ F[0].folderShown = FALSE
    BY <1>4 DEF Search
  <2>2. t.root # None /\ Here(0) = t.root /\ t.root # path
    BY <1>1, <1>2, PathIsSeq, NotBelowEachOther
  <2>3. ASSUME NEW f \in Below(t.root)
        PROVE  f # t.root /\ t.root \notin Below(f)
    BY <1>1, NotBelowEachOther DEF Below
  <2> QED
    BY <2>1, <2>2, <2>3 DEF OnTrack, SameFocus
<1>7. ASSUME NEW n \in Nat, n + 1 <= len, Good(n)
      PROVE  Good(n + 1)
  <2> DEFINE here == Here(n + 1)
             s1 == F[n]
             v == F[n + 1]
  <2>1. n + 1 \in 1 .. len /\ (n + 1) - 1 = n
    BY <1>3, <1>7
  <2>2. /\ here \in Below(t.root)
        /\ here = path \/ (here \in Folder /\ path \in Below(here))
        /\ ParentOf(here) = Here(n)
    BY <1>5, <2>1
  <2>3. v = GoDown(s1, here, path)
    BY <1>4
  <2>4. OnTrack(s1, path, ParentOf(here)) /\ SameFocus(t, s1.tree)
    BY <1>7, <2>2
  <2> HIDE DEF here, s1, v, Here
  <2>5. s1.tree.root = t.root
    BY <2>4 DEF SameFocus
  <2>6. OnTrack(v, path, here) /\ SameFocus(s1.tree, v.tree)
    BY <2>2, <2>3, <2>4, <2>5, GoDownReveals
  <2>7. SameFocus(t, v.tree)
    BY <2>4, <2>6 DEF SameFocus
  <2> QED
    BY <2>6, <2>7 DEF here, v
<1>8. Goods = Nat
  <2> HIDE DEF Good
  <2>1. 0 \in Goods
    BY <1>6
  <2>2. ASSUME NEW n \in Goods
        PROVE  n + 1 \in Goods
    <3>1. n + 1 <= len => n <= len
      BY <1>3
    <3> QED
      BY <1>7, <3>1
  <2>3. Goods \in SUBSET Nat
    OBVIOUS
  <2> HIDE DEF Goods
  <2> QED
    BY <2>1, <2>2, <2>3, AllNaturals
<1>9. Good(len)
  <2> HIDE DEF Good
  <2>1. len \in Goods
    BY <1>3, <1>8
  <2> QED
    BY <1>3, <2>1
<1>10. Here(len) = path
  <2>1. len \in 1 .. len
    BY <1>3
  <2> QED
    BY <1>5, <2>1
<1> HIDE DEF Here
<1> QED
  BY <1>4, <1>9, <1>10

LEMMA RevealReveals ==
    ASSUME NEW t, Fresh(t), DiskClosed(t), NEW path \in Markdown \cap t.disk, path = t.currentFile,
           path \in Below(t.root), Promising(t, path), NEW s, s = RevealCurrentFile(t)
    PROVE  /\ Fresh(s.tree) /\ SameFocus(t, s.tree)
           /\ s.folderShown => Reveals(s.tree, path)
           /\ ~s.folderShown => \E f \in LeftOut \cap Below(t.root) : path \in Below(f)
<1> DEFINE f == FindItem(t, path)
<1>1. Fresh(s.tree) /\ SameFocus(t, s.tree)
  BY RevealIsSound
<1>2. t.root \in Path /\ path \in Path /\ t.root # None /\ path # None /\ IsWithinFolder(path, t.root)
  BY NothingBelowNone, PathIsSeq DEF Fresh, Tree, Path, Below
<1>3. s = Revealed(f)
  BY <1>2 DEF RevealCurrentFile
<1>4. OnTrack(f, path, path) /\ SameFocus(t, f.tree)
  BY FindReveals
<1> HIDE DEF f
<1>5. s.tree = SetBoldItem(f.tree, f.item) /\ s.folderShown = f.folderShown
  BY <1>3 DEF Revealed, Search
<1>6. CASE f.item = None
  BY <1>1, <1>4, <1>5, <1>6 DEF OnTrack, SameFocus
<1>7. CASE f.item # None
  <2>1. /\ f.item = path /\ path \in f.tree.items /\ f.folderShown /\ f.tree \in Tree /\ Kept(f.tree)
        /\ Hangs(f.tree, None)
        /\ \A g \in Below(t.root) : g # path /\ path \in Below(g) => g \in f.tree.expanded
    <3>1. path # t.root
      BY <1>2, NotBelowEachOther
    <3> QED
      BY <1>4, <1>7, <3>1 DEF OnTrack, Fresh, SameFocus
  <2>2. /\ s.tree.items = f.tree.items /\ s.tree.open = f.tree.open /\ path \in s.tree.bold
        /\ s.tree.root = t.root
    <3>1. /\ s.tree.items = f.tree.items /\ s.tree.open = f.tree.open /\ f.item \in s.tree.bold
      BY <1>5, <1>7, <2>1, SetBoldIs
    <3> QED
      BY <1>1, <2>1, <3>1 DEF SameFocus
  <2>3. ASSUME NEW n \in Len(t.root) + 1 .. Len(path) - 1
        PROVE  SubSeq(path, 1, n) \in f.tree.open
    <3> DEFINE g == SubSeq(path, 1, n)
    <3>1. Len(t.root) \in 1 .. Len(path) - 1 /\ Len(path) \in Nat /\ t.root = SubSeq(path, 1, Len(t.root))
      BY <1>2, BelowIs, PathIsSeq
    <3>2. n \in 1 .. Len(path) - 1 /\ n \in 1 .. Len(path) /\ Len(t.root) \in 1 .. n - 1 /\ Len(t.root) \in 1 .. n
      BY <3>1
    <3>3. g \in Folder /\ Len(g) = n /\ path \in Below(g)
      BY <1>2, <3>2, Ancestor
    <3>4. SubSeq(g, 1, Len(t.root)) = t.root
      BY <1>2, <3>1, <3>2, AncestorOfAncestor
    <3> HIDE DEF g
    <3>5. g \in Below(t.root)
      BY <1>2, <3>2, <3>3, <3>4, IsBelow DEF Path
    <3>6. g # path /\ g # None
      BY <1>2, <3>3, NotBelowEachOther, PathIsSeq DEF Path
    <3>7. g \in f.tree.loaded
      BY <1>4, <2>1, <3>3, <3>5 DEF Hangs, SameFocus
    <3>8. g \in f.tree.items /\ g \in f.tree.expanded /\ Below(g) \cap f.tree.items # {}
      BY <2>1, <3>3, <3>5, <3>6, <3>7 DEF Kept
    <3>9. g \in f.tree.open
      BY <2>1, <3>3, <3>6, <3>8 DEF Hangs
    <3> QED
      BY <3>9 DEF g
  <2> QED
    BY <1>1, <1>5, <2>1, <2>2, <2>3 DEF Reveals
<1> QED
  BY <1>6, <1>7

\* A document below a folder that is left out is revealed in its own folder, which becomes the root.
LEMMA ShowReveals ==
    ASSUME NEW t, Fresh(t), DiskClosed(t), NEW path \in Markdown \cap t.disk, path = t.currentFile,
           path \in Below(t.root), Promising(t, path), NEW u, u = ShowCurrentFile(t)
    PROVE  Reveals(u, path)
<1> DEFINE s == RevealCurrentFile(t)
           up == ParentOf(path)
           moved == SetRoot(s.tree, up)
           r == Rebuild(moved)
           again == RevealCurrentFile(r)
<1>1. u = IF s.folderShown THEN s.tree
          ELSE RevealCurrentFile(Rebuild(SetRoot(s.tree, ParentOf(s.tree.currentFile)))).tree
  BY DEF ShowCurrentFile, ShowIfRevealed
<1>2. /\ Fresh(s.tree) /\ SameFocus(t, s.tree)
      /\ s.folderShown => Reveals(s.tree, path)
  BY RevealReveals
<1> HIDE DEF s
<1>3. CASE s.folderShown
  BY <1>1, <1>2, <1>3
<1>4. CASE ~s.folderShown
  <2>1. up \in Folder /\ path \in Below(up)
    <3>1. t.root \in Path /\ path \in Path
      BY NothingBelowNone DEF Fresh, Tree, Path, Below
    <3> QED
      BY <3>1, ParentIs
  <2>2. s.tree.currentFile = path
    BY <1>2 DEF SameFocus
  <2>3. u = again.tree
    BY <1>1, <1>4, <2>2
  <2> HIDE DEF again
  <2>4. s.tree \in Tree /\ Kept(s.tree) /\ s.tree.disk = t.disk
    BY <1>2 DEF Fresh, SameFocus
  <2>5. moved \in Tree /\ Kept(moved) /\ moved.root = up /\ moved.currentFile = path /\ moved.disk = t.disk
    BY <2>1, <2>2, <2>4, SetRootIs
  <2> HIDE DEF moved, up
  <2>6. Fresh(r) /\ r.root = up /\ r.currentFile = path /\ r.disk = t.disk
    BY <2>5, RebuildIsSound DEF SameFocus
  <2>7. Promising(r, path)
    BY <2>5, RebuildReads DEF Promising
  <2> HIDE DEF r
  <2>8. DiskClosed(r)
    BY <2>6 DEF DiskClosed
  <2>9. again = RevealCurrentFile(r)
    BY DEF again
  <2>10. /\ again.folderShown => Reveals(again.tree, path)
         /\ ~again.folderShown => \E f \in LeftOut \cap Below(up) : path \in Below(f)
    BY <2>1, <2>6, <2>7, <2>8, <2>9, RevealReveals
  <2>11. ASSUME NEW f \in Below(up)
         PROVE  path \notin Below(f)
    <3>1. f \in Path /\ up \in Path
      BY <2>1 DEF Below, Path
    <3>2. path \in Below(f) => up = f \/ up \in Below(f)
      BY <3>1, ParentIs DEF up
    <3> QED
      BY <3>1, <3>2, NotBelowEachOther
  <2> QED
    BY <2>3, <2>10, <2>11
<1> QED
  BY <1>3, <1>4

\* The folders on the way that were read when they were empty are the exception.
LEMMA CurrentFileReveals ==
    ASSUME NEW t, Sound(t), ~t.stale, DiskClosed(t), NEW file \in Markdown \cap t.disk, file # t.currentFile,
           \A n \in 1 .. Len(file) - 1 :
              ~(SubSeq(file, 1, n) \in t.loaded /\ Below(SubSeq(file, 1, n)) \cap t.items = {}),
           NEW u, u = CurrentFile(t, file, TRUE)
    PROVE  Reveals(u, file)
<1> DEFINE r == [t EXCEPT !.currentFile = file]
           up == ParentOf(file)
           v == IF IsWithinFolder(up, r.root) THEN r ELSE NewRoot(r, up, TRUE)
<1>1. /\ r \in Tree /\ r.root = t.root /\ r.currentFile = file /\ r.stale = t.stale /\ r.disk = t.disk
      /\ r.placeholder = t.placeholder /\ r.items = t.items /\ r.loaded = t.loaded /\ r.open = t.open
      /\ r.bold = t.bold /\ r.currentItem = t.currentItem /\ r.expanded = t.expanded
  BY DEF Sound, Tree, File
<1>2. Fresh(r) /\ DiskClosed(r)
  BY <1>1 DEF Sound, Fresh, Kept, Hangs, Filled, DiskClosed
<1>3. u = Follow(r, file, TRUE, TRUE)
  BY DEF CurrentFile
<1>4. file \in Path /\ file # None /\ up \in Folder /\ up \in Path /\ up # None /\ file \in Below(up)
  <2>1. file \in Path /\ file # None /\ Len(file) \in Nat /\ Len(file) > 1
    BY PathAssumption, PathIsSeq DEF Path
  <2>2. up = SubSeq(file, 1, Len(file) - 1) /\ Len(file) - 1 \in 1 .. Len(file) - 1
    BY <2>1 DEF ParentOf, Front
  <2>3. up \in Folder /\ file \in Below(up)
    BY <2>1, <2>2, Ancestor
  <2>4. up \in Path /\ up # None
    BY <2>3, PathAssumption DEF Path
  <2> QED
    BY <2>1, <2>3, <2>4
<1>5. u = ShowCurrentFile(RebuildIfStale(v))
  BY <1>3, <1>4 DEF Follow
<1> HIDE DEF r
<1>6. CASE IsWithinFolder(up, r.root)
  <2>1. v = r /\ RebuildIfStale(v) = r
    BY <1>2, <1>6 DEF RebuildIfStale, Fresh
  <2>2. r.root \in Path
    BY <1>2, <1>6 DEF IsWithinFolder, Fresh, Tree, Path
  <2>3. file \in Below(r.root)
    <3>1. CASE up = r.root
      BY <1>4, <3>1
    <3>2. CASE up # r.root
      BY <1>4, <1>6, <2>2, <3>2, BelowBelow DEF Below
    <3> QED
      BY <3>1, <3>2
  <2>4. Promising(r, file)
    <3>1. ASSUME NEW f \in r.loaded, file \in Below(f)
          PROVE  Below(f) \cap r.items # {}
      <4>1. f \in Path
        BY <1>1, <3>1 DEF Tree
      <4>2. Len(f) \in 1 .. Len(file) - 1 /\ f = SubSeq(file, 1, Len(f))
        BY <3>1, <4>1, BelowIs
      <4> QED
        BY <1>1, <3>1, <4>2
    <3> QED
      BY <3>1 DEF Promising
  <2> QED
    BY <1>1, <1>2, <1>5, <2>1, <2>3, <2>4, ShowReveals
<1>7. CASE ~IsWithinFolder(up, r.root)
  <2> DEFINE moved == SetRoot(AddExpanded(r, WayDown(r.root, up)), up)
  <2>1. up # r.root
    <3>1. IsPrefix(up, up)
      BY <1>4, PathIsSeq DEF IsPrefix
    <3> QED
      BY <1>4, <1>7, <3>1 DEF IsWithinFolder
  <2>2. v = Rebuild(moved)
    BY <1>7, <2>1 DEF NewRoot
  <2>3. moved \in Tree /\ Kept(moved) /\ moved.root = up /\ moved.currentFile = file /\ moved.disk = t.disk
    BY <1>1, <1>2, <1>4, MovedRootIs DEF Fresh
  <2> HIDE DEF moved, v, up
  <2>4. Fresh(v) /\ v.root = up /\ v.currentFile = file /\ v.disk = t.disk
    BY <2>2, <2>3, RebuildIsSound DEF SameFocus
  <2>5. Promising(v, file) /\ DiskClosed(v)
    BY <2>2, <2>3, <2>4, RebuildReads DEF Promising, DiskClosed
  <2>6. RebuildIfStale(v) = v
    BY <2>4 DEF RebuildIfStale, Fresh
  <2> QED
    BY <1>4, <1>5, <2>4, <2>5, <2>6, ShowReveals
<1> QED
  BY <1>6, <1>7


-----------------------------------------------------------------------------
(* What a step does to the disk and to the document. *)

\* Nothing is written, and no document takes the place of the one in a panel that is shown.
Undisturbed ==
    /\ panel'.disk = panel.disk
    /\ running /\ running' /\ shown /\ shown' => panel'.currentFile = panel.currentFile

\* The panel is told of a document, which may just have been written.
Told(file, d) ==
    /\ panel' = CurrentFile([panel EXCEPT !.disk = d], file, shown)
    /\ d = panel.disk \/ (d = panel.disk \cup {file} /\ file \in File /\ ParentOf(file) \in panel.disk)

LEMMA RelaidFrame ==
    ASSUME NEW t, Sound(t), shown => ~t.stale, t.disk = panel.disk, t.currentFile = panel.currentFile,
           NEW width, Become(IF width > 0 THEN Appear(t) ELSE t)
    PROVE  Undisturbed
<1>1. panel' = Appear(t) \/ panel' = t
  BY DEF Become
<1>2. Appear(t).disk = t.disk
  BY AppearIsSound
<1>3. shown => Appear(t) = t
  BY DEF Appear
<1> QED
  BY <1>1, <1>2, <1>3 DEF Undisturbed

LEMMA MovedFrame ==
    ASSUME PanelOK, NEW folder \in Folder \cup {None}, panel' = NewRoot(panel, folder, shown)
    PROVE  Undisturbed
  BY NewRootIsSound DEF PanelOK, Sound, Ready, Undisturbed

LEMMA RelayoutFrame ==
    ASSUME PanelOK, NEW s, NEW mode, NEW r, NEW w, RelayoutTo(s, mode, r, w)
    PROVE  Undisturbed
<1> DEFINE width == ExplorerW(s, w)
<1>1. Become(IF width > 0 THEN Appear(panel) ELSE panel)
  BY DEF RelayoutTo
<1> HIDE DEF width
<1> QED
  BY <1>1, RelaidFrame DEF PanelOK

LEMMA RearrangeFrame ==
    ASSUME IInv, Rearrange \/ ToggleSetting("showExplorer") \/ Resize
    PROVE  Undisturbed
<1> USE RelayoutFrame DEF IInv
<1>1. CASE \E name \in Toggled \cup {"showExplorer"} : ToggleSetting(name)
  BY <1>1 DEF ToggleSetting, SetSettings
<1>2. CASE SetViewMode
  BY <1>2 DEF SetViewMode
<1>3. CASE Resize
  BY <1>3 DEF Resize
<1>4. CASE StartDrag \/ EndDrag
  BY <1>4 DEF StartDrag, EndDrag, explorerVars, Undisturbed
<1>5. CASE Drag
  <2>1. PICK x \in MousePositions : DragDividerTo(x)
    BY <1>5 DEF Drag
  <2>2. drag = "Split" \/ drag = "Outline" \/ drag = "Explorer"
    BY <1>5 DEF Drag
  <2> QED
    BY <2>1, <2>2 DEF DragDividerTo, SetSettings
<1>6. CASE ResetDivider
  BY <1>6, ZenonT(60) DEF ResetDivider, SetSettings, DividerOf
<1> QED
  BY <1>1, <1>2, <1>3, <1>4, <1>5, <1>6 DEF Rearrange

LEMMA OpenFolderFrame ==
    ASSUME PanelOK, OpenFolder
    PROVE  Undisturbed
<1>1. PICK folder \in Folder \cap panel.disk :
          LET s == [settings EXCEPT !.showExplorer = TRUE]
              width == ExplorerW(s, client)
              t == NewRoot(panel, folder, shown)
          IN  Become(IF width > 0 THEN Appear(t) ELSE t)
  BY DEF OpenFolder
<1> DEFINE width == ExplorerW([settings EXCEPT !.showExplorer = TRUE], client)
           t == NewRoot(panel, folder, shown)
<1>2. Become(IF width > 0 THEN Appear(t) ELSE t)
  BY <1>1
<1>3. Sound(t) /\ (shown => ~t.stale) /\ t.disk = panel.disk /\ t.currentFile = panel.currentFile
  <2>1. Ready(panel)
    BY DEF PanelOK, Sound, Ready
  <2> QED
    BY <2>1, NewRootIsSound DEF PanelOK
<1> HIDE DEF width, t
<1> QED
  BY <1>2, <1>3, RelaidFrame

LEMMA UserFrame ==
    ASSUME PanelOK, shown, UserActs
    PROVE  Undisturbed \/ \E f \in File : Told(f, panel.disk)
<1>0. /\ panel \in Tree /\ panel = [panel EXCEPT !.disk = panel.disk]
      /\ panel.root \in Folder \cup {None} /\ panel.items \in SUBSET Path
      /\ Sound(panel) /\ ~panel.stale
  BY DEF PanelOK, Sound, Tree
<1>1. CASE UserExpands
  <2>1. PICK f \in (panel.items \cap Folder) \ panel.open :
            panel' = LET t == TreeExpand(EnsureLoaded(panel, f), f) IN
                     IF f \in t.open THEN AddExpanded(t, {f}) ELSE t
    BY <1>1 DEF UserExpands
  <2> DEFINE l == EnsureLoaded(panel, f)
             e == TreeExpand(l, f)
  <2>2. panel' = IF f \in e.open THEN AddExpanded(e, {f}) ELSE e
    BY <2>1
  <2> HIDE DEF l, e
  <2>3. l = EnsureLoaded(panel, f) /\ e = TreeExpand(l, f)
    BY DEF l, e
  <2>4. SameFocus(panel, panel')
    BY <1>0, <2>2, <2>3, UserExpandIsSound
  <2> QED
    BY <2>4 DEF Undisturbed, SameFocus
<1>2. CASE UserCollapses
  <2>1. PICK f : panel' = RemoveExpanded(TreeCollapse(panel, f), f)
    BY <1>2 DEF UserCollapses
  <2> QED
    BY <1>0, <2>1, CollapseIsSound DEF Undisturbed, SameFocus
<1>3. CASE UserOpens
  <2>1. PICK f \in panel.items \ Folder : Become(CurrentFile(panel, f, shown))
    BY <1>3 DEF UserOpens
  <2>2. f \in File
    BY <1>0 DEF File, Path
  <2>3. panel' = CurrentFile([panel EXCEPT !.disk = panel.disk], f, shown)
    BY <1>0, <2>1 DEF Become
  <2> QED
    BY <2>2, <2>3 DEF Told
<1>4. CASE ToggleItem
  <2>1. PICK f \in panel.items \cap Folder :
            panel' = IF f \in panel.open THEN RemoveExpanded(TreeCollapse(panel, f), f) ELSE ExpandItem(panel, f)
    BY <1>4 DEF ToggleItem
  <2>2. CASE f \in panel.open
    BY <1>0, <2>1, <2>2, CollapseIsSound DEF Undisturbed, SameFocus
  <2>3. CASE f \notin panel.open
    <3>1. Kept(panel) /\ Hangs(panel, None)
      BY <1>0 DEF Sound, Fresh
    <3>2. panel' = ExpandItem(panel, f)
      BY <2>1, <2>3
    <3>3. SameFocus(panel, panel')
      BY <1>0, <3>1, <3>2, ExpandIsSound
    <3> QED
      BY <3>3 DEF Undisturbed, SameFocus
  <2> QED
    BY <2>2, <2>3
<1>5. CASE GoUp \/ EnterFolder \/ OverflowMenu \/ \E folder \in Folder \cap panel.disk : FolderPicked(folder)
  <2>1. PICK folder \in Folder \cup {None} : Become(NewRoot(panel, folder, shown))
    <3>1. CASE GoUp
      BY <1>0, <3>1, ParentIsFolder DEF GoUp, GoTo, Path
    <3>2. CASE EnterFolder
      BY <3>2 DEF EnterFolder, GoTo
    <3>3. CASE OverflowMenu
      BY <1>0, <3>3, BarIsFolders DEF OverflowMenu, GoTo
    <3>4. CASE \E folder \in Folder \cap panel.disk : FolderPicked(folder)
      BY <3>4 DEF FolderPicked
    <3> QED
      BY <1>5, <3>1, <3>2, <3>3, <3>4
  <2> QED
    BY <2>1, MovedFrame DEF Become
<1>6. CASE Refresh
  <2>1. panel' = Rebuild(panel)
    BY <1>6 DEF Refresh, RefreshTree
  <2>2. SameFocus(panel, panel')
    BY <1>0, <2>1, RebuildIsSound DEF Sound
  <2> QED
    BY <2>2 DEF Undisturbed, SameFocus
<1>7. CASE Press \/ LoseCapture
  BY <1>7 DEF Press, LoseCapture, Undisturbed
<1>8. CASE Release
  <2>1. pressed.index \in {target.index : target \in Targets}
    BY <1>8 DEF Release
  <2>2. PICK i \in FirstVisibleSegment(panel.root, barWidth) .. Len(panel.root) - 1 : pressed.index = i
    BY <2>1 DEF Targets, Segment
  <2> DEFINE to == FolderChain(panel.root)[pressed.index]
  <2>3. to \in Folder \cup {None}
    BY <1>0, <2>2, BarIsFolders
  <2>4. panel' = NewRoot(panel, to, shown)
    BY <1>8 DEF Release
  <2> HIDE DEF to
  <2> QED
    BY <2>3, <2>4, MovedFrame
<1> QED
  BY <1>1, <1>2, <1>3, <1>4, <1>5, <1>6, <1>7, <1>8 DEF UserActs

LEMMA StartFrame ==
    ASSUME IInv, Start
    PROVE  Undisturbed
<1>1. PICK reopen \in BOOLEAN : StartFrom(Parsed(ini), reopen)
  BY DEF Start
<1> DEFINE s == Parsed(ini)
           isShown == ExplorerW(s.settings, s.client) > 0
           file == IF reopen /\ s.lastFile \in panel.disk THEN s.lastFile ELSE None
           folder == s.explorerFolder
           e == EmptyPanel(panel.disk)
           t == NewRoot(e, folder, isShown)
<1>2. panel' = StartedPanel(panel.disk, folder, file, isShown)
  BY <1>1 DEF StartFrom
<1>3. folder \in Folder \cup {None} /\ file \in File \cup {None}
  BY DEF Parsed, IInv, Start
<1> HIDE DEF isShown, file, folder
<1>4. Sound(e) /\ ~e.stale /\ e.disk = panel.disk
  BY EmptyIsSound DEF IInv, PanelOK, Sound, Tree, EmptyPanel
<1> HIDE DEF e
<1>5. Sound(t) /\ (isShown => ~t.stale) /\ t.disk = panel.disk
  <2>1. Ready(e)
    BY <1>4 DEF Sound, Ready
  <2> QED
    BY <1>3, <1>4, <2>1, NewRootIsSound
<1>6. panel' = t \/ panel' = CurrentFile(t, file, isShown)
  BY <1>2 DEF StartedPanel, e
<1> HIDE DEF t
<1>7. CurrentFile(t, file, isShown).disk = t.disk
  BY <1>3, <1>5, CurrentFileIsSound
<1> QED
  BY <1>5, <1>6, <1>7 DEF Undisturbed, Start

LEMMA StepIs ==
    ASSUME IInv, [Next]_vars
    PROVE  \/ Undisturbed \/ DiskChanges
           \/ \E f \in File \cup {None} : \E d : Told(f, d)
<1>0. PanelOK /\ panel = [panel EXCEPT !.disk = panel.disk]
  BY DEF IInv, PanelOK, Sound, Tree
<1>1. CASE OpenDocument
  <2>1. PICK f \in (File \cap panel.disk) \cup {None} : Become(CurrentFile(panel, f, shown))
    BY <1>1 DEF OpenDocument, File
  <2>2. Told(f, panel.disk)
    BY <1>0, <2>1 DEF Become, Told
  <2> QED
    BY <2>2
<1>2. CASE SaveDocument
  <2>1. PICK f \in File : /\ ParentOf(f) \in panel.disk
                          /\ Become(CurrentFile([panel EXCEPT !.disk = @ \cup {f}], f, shown))
    BY <1>2 DEF SaveDocument, File
  <2>2. Told(f, panel.disk \cup {f})
    BY <2>1 DEF Become, Told
  <2> QED
    BY <2>2
<1>3. CASE shown /\ UserActs
  BY <1>0, <1>3, UserFrame
<1>4. CASE OpenFolder
  BY <1>0, <1>4, OpenFolderFrame
<1>5. CASE Rearrange \/ ToggleSetting("showExplorer") \/ Resize
  BY <1>5, RearrangeFrame
<1>6. CASE Close
  BY <1>6 DEF Close, EmptyPanel, Undisturbed
<1>7. CASE Start
  BY <1>7, StartFrame
<1>8. CASE UNCHANGED vars
  BY <1>8 DEF vars, explorerVars, Undisturbed
<1> QED
  BY <1>1, <1>2, <1>3, <1>4, <1>5, <1>6, <1>7, <1>8 DEF Next

\* The disk stays closed whatever other programs delete.
LEMMA WrittenIsClosed ==
    ASSUME NEW t \in Tree, DiskClosed(t), NEW p \in Path, ParentOf(p) \in t.disk,
           NEW u, u.disk = t.disk \cup {p}
    PROVE  DiskClosed(u)
<1> DEFINE up == ParentOf(p)
<1>1. up \in Path /\ up # None /\ Len(up) \in Nat \ {0} /\ Len(p) \in Nat \ {0} /\ p # None
  BY PathIsSeq, PathAssumption DEF Tree
<1>2. up = SubSeq(p, 1, Len(p) - 1)
  BY <1>1 DEF ParentOf, Front
<1> HIDE DEF up
<1>3. ASSUME NEW n \in 1 .. Len(p) - 1
      PROVE  SubSeq(p, 1, n) \in t.disk
  <2>1. up \in t.disk /\ Len(p) - 1 \in 1 .. Len(p) - 1 /\ Len(p) - 1 \in 1 .. Len(p) /\ n \in 1 .. Len(p) - 1
    BY <1>1 DEF up
  <2>2. Len(up) = Len(p) - 1
    BY <1>2, <2>1, Ancestor
  <2>3. CASE n = Len(p) - 1
    BY <1>2, <2>1, <2>3
  <2>4. CASE n # Len(p) - 1
    <3>1. n \in 1 .. Len(up) - 1
      BY <1>1, <2>2, <2>4
    <3>2. SubSeq(up, 1, n) = SubSeq(p, 1, n)
      BY <1>2, <2>1, AncestorOfAncestor
    <3> QED
      BY <2>1, <3>1, <3>2 DEF DiskClosed
  <2> QED
    BY <2>3, <2>4
<1> QED
  BY <1>3 DEF DiskClosed

LEMMA DeletedIsClosed ==
    ASSUME NEW t \in Tree, DiskClosed(t), NEW p \in Path, NEW u, u.disk = t.disk \ ({p} \cup Below(p))
    PROVE  DiskClosed(u)
<1>1. ASSUME NEW q \in u.disk, NEW n \in 1 .. Len(q) - 1
      PROVE  SubSeq(q, 1, n) \in u.disk
  <2> DEFINE f == SubSeq(q, 1, n)
  <2>1. q \in Path /\ q \in t.disk /\ q # p /\ q \notin Below(p)
    BY DEF Tree
  <2>2. f \in t.disk /\ f \in Folder /\ q \in Below(f)
    BY <2>1, Ancestor DEF DiskClosed
  <2> HIDE DEF f
  <2>3. f # p /\ f \notin Below(p)
    BY <2>1, <2>2, BelowBelow
  <2> QED
    BY <2>2, <2>3 DEF f
<1> QED
  BY <1>1 DEF DiskClosed

LEMMA ToldIs ==
    ASSUME IInv, NEW f \in File \cup {None}, NEW d, Told(f, d), NEW t, t = [panel EXCEPT !.disk = d]
    PROVE  /\ panel'.disk = d /\ panel'.currentFile = f
           /\ panel' = CurrentFile(t, f, shown)
           /\ Sound(t) /\ (shown => ~t.stale) /\ t.disk = d
           /\ t.loaded = panel.loaded /\ t.items = panel.items /\ t.currentFile = panel.currentFile
<1>1. panel \in Tree /\ Sound(panel) /\ panel.disk \in SUBSET Path /\ (shown => ~panel.stale)
  BY DEF IInv, PanelOK, Sound, Tree
<1>2. d \in SUBSET Path
  BY <1>1 DEF Told, File, Path
<1>3. /\ Sound(t) /\ (shown => ~t.stale) /\ t.disk = d
      /\ t.loaded = panel.loaded /\ t.items = panel.items /\ t.currentFile = panel.currentFile
  BY <1>1, <1>2, DiskIsSound DEF Tree
<1>4. panel' = CurrentFile(t, f, shown)
  BY DEF Told
<1>5. ASSUME NEW r, Sound(r), shown => ~r.stale
      PROVE  CurrentFile(r, f, shown).disk = r.disk /\ CurrentFile(r, f, shown).currentFile = f
  BY <1>5, CurrentFileIsSound
<1>6. panel'.disk = d /\ panel'.currentFile = f
  BY <1>3, <1>4, <1>5
<1> QED
  BY <1>3, <1>4, <1>6

LEMMA DiskStaysClosed ==
    ASSUME IInv, DiskClosed(panel), [Next]_vars
    PROVE  DiskClosed(panel')
<1>0. panel \in Tree /\ Sound(panel) /\ panel.disk \in SUBSET Path
  BY DEF IInv, PanelOK, Sound, Tree
<1>1. CASE Undisturbed
  BY <1>1 DEF Undisturbed, DiskClosed
<1>2. CASE DiskChanges
  <2>1. PICK p \in Changing :
            /\ panel' = IF p \in panel.disk THEN [panel EXCEPT !.disk = @ \ ({p} \cup Below(p))]
                        ELSE [panel EXCEPT !.disk = @ \cup {p}]
            /\ p \in panel.disk \/ ParentOf(p) \in panel.disk
    BY <1>2 DEF DiskChanges
  <2>2. p \in Path
    BY PathAssumption
  <2>3. CASE p \in panel.disk
    <3>1. panel'.disk = panel.disk \ ({p} \cup Below(p))
      BY <1>0, <2>1, <2>3 DEF Tree
    <3> QED
      BY <1>0, <2>2, <3>1, DeletedIsClosed
  <2>4. CASE p \notin panel.disk
    <3>1. panel'.disk = panel.disk \cup {p} /\ ParentOf(p) \in panel.disk
      BY <1>0, <2>1, <2>4 DEF Tree
    <3> QED
      BY <1>0, <2>2, <3>1, WrittenIsClosed
  <2> QED
    BY <2>3, <2>4
<1>3. ASSUME NEW f \in File \cup {None}, NEW d, Told(f, d)
      PROVE  DiskClosed(panel')
  <2>4. panel'.disk = d
    BY <1>3, ToldIs
  <2>5. CASE d = panel.disk
    BY <2>4, <2>5 DEF DiskClosed
  <2>6. CASE d = panel.disk \cup {f} /\ f \in File /\ ParentOf(f) \in panel.disk
    BY <1>0, <2>4, <2>6, WrittenIsClosed DEF File, Path
  <2> QED
    BY <1>3, <2>5, <2>6 DEF Told
<1> QED
  BY <1>1, <1>2, <1>3, StepIs

LEMMA StepReveals ==
    ASSUME IInv, DiskClosed(panel), [Next]_vars,
           running, running', shown, shown', panel'.currentFile # panel.currentFile,
           panel'.currentFile \in panel'.disk \cap Markdown,
           \A n \in 1 .. Len(panel'.currentFile) - 1 : ~ListedEmpty(SubSeq(panel'.currentFile, 1, n))
    PROVE  Reveals(panel', panel'.currentFile)
<1>1. panel \in Tree /\ Sound(panel) /\ ~panel.stale /\ panel.disk \in SUBSET Path
  BY DEF IInv, PanelOK, Sound, Tree
<1>2. ~Undisturbed
  BY DEF Undisturbed
<1>3. ~DiskChanges
  BY <1>1 DEF DiskChanges, Tree
<1>4. PICK f \in File \cup {None} : \E disk : Told(f, disk)
  BY <1>2, <1>3, StepIs
<1>5. PICK d : Told(f, d)
  BY <1>4
<1> DEFINE t == [panel EXCEPT !.disk = d]
<1>6. /\ Sound(t) /\ ~t.stale /\ t.disk = d
      /\ t.loaded = panel.loaded /\ t.items = panel.items /\ t.currentFile = panel.currentFile
  BY <1>5, ToldIs
<1>7. panel' = CurrentFile(t, f, shown)
  BY <1>5, ToldIs, ZenonT(60)
<1>8. panel'.currentFile = f /\ panel'.disk = d
  BY <1>5, ToldIs
<1> HIDE DEF t
<1>9. DiskClosed(t)
  <2>1. DiskClosed(panel')
    BY DiskStaysClosed
  <2> QED
    BY <1>6, <1>8, <2>1 DEF DiskClosed
<1>10. panel' = CurrentFile(t, f, TRUE)
  <2>1. shown = TRUE
    BY DEF IInv, PanelOK
  <2> QED
    BY <1>7, <2>1
<1> QED
  BY <1>6, <1>8, <1>9, <1>10, CurrentFileReveals DEF ListedEmpty

\* Where a path exists, the folders above it exist, whatever other programs create and delete.
THEOREM DiskIsClosed == Spec => []DiskClosed(panel)
<1>1. Init => DiskClosed(panel)
  BY PathAssumption DEF Init, EmptyPanel, DiskClosed
<1>2. IInv /\ DiskClosed(panel) /\ [Next]_vars => DiskClosed(panel)'
  BY DiskStaysClosed
<1> QED
  BY <1>1, <1>2, PanelInvariant, PTL DEF Spec

\* A Markdown document that becomes the open one is revealed, on every drive, wherever it is and
\* whatever other programs did since the folders on the way were read, unless one of them was read
\* when it was empty (CurrentFile, FindItem, Relist, ShowCurrentFile).
THEOREM DocumentIsRevealed == Spec => FileIsRevealed
<1>1. IInv /\ DiskClosed(panel) /\ [Next]_vars =>
        ( /\ running /\ running' /\ shown /\ shown'
          /\ panel'.currentFile # panel.currentFile
          /\ panel'.currentFile \in panel'.disk \cap Markdown
          /\ \A n \in 1 .. Len(panel'.currentFile) - 1 : ~ListedEmpty(SubSeq(panel'.currentFile, 1, n))
          => Reveals(panel', panel'.currentFile) )
  BY StepReveals
<1> QED
  BY <1>1, PanelInvariant, DiskIsClosed, PTL DEF Spec, FileIsRevealed

-----------------------------------------------------------------------------
(* The toolbar. *)

\* The running sum over the widths exists: each place is determined by the one before.
LEMMA NextXIs ==
    ASSUME NEW i \in 0 .. Len(Items)
    PROVE  NextX[i] = IF i = 0 THEN Pad ELSE NextX[i - 1] + Items[i].width + After(Items[i])
<1> DEFINE N == Len(Items)
           Then(x, n) == x + Items[n].width + After(Items[n])
           IsRun(g, k) == g = [n \in 0 .. k |-> IF n = 0 THEN Pad ELSE Then(g[n - 1], n)]
           Runs == {k \in Nat : \E g : IsRun(g, k)}
<1>0. N \in Nat
  BY ToolbarAssumption
<1>1. NextX = CHOOSE g : IsRun(g, N)
  BY DEF NextX
<1> HIDE DEF Then, N
<1>2. 0 \in Runs
  <2>1. IsRun([n \in 0 .. 0 |-> Pad], 0)
    OBVIOUS
  <2> QED
    BY <2>1
<1>3. ASSUME NEW k \in Runs
      PROVE  k + 1 \in Runs
  <2>1. PICK g : IsRun(g, k)
    OBVIOUS
  <2> DEFINE h == [n \in 0 .. k + 1 |-> IF n <= k THEN g[n] ELSE Then(g[k], n)]
  <2>2. ASSUME NEW n \in 0 .. k + 1
        PROVE  h[n] = IF n = 0 THEN Pad ELSE Then(h[n - 1], n)
    BY <2>1
  <2>3. IsRun(h, k + 1)
    BY <2>2
  <2> HIDE DEF h, IsRun
  <2> QED
    BY <2>3
<1>4. Runs = Nat
  <2> HIDE DEF Runs
  <2>1. Runs \in SUBSET Nat
    BY DEF Runs
  <2> QED
    BY <1>2, <1>3, <2>1, AllNaturals
<1>5. IsRun(NextX, N)
  <2>1. \E g : IsRun(g, N)
    BY <1>0, <1>4
  <2> HIDE DEF IsRun
  <2> QED
    BY <1>1, <2>1
<1>6. NextX[i] = IF i = 0 THEN Pad ELSE Then(NextX[i - 1], i)
  BY <1>5 DEF N
<1> QED
  BY <1>6 DEF Then

\* An item is a record.
LEMMA ItemIs ==
    ASSUME NEW i \in DOMAIN Items
    PROVE  /\ i \in 1 .. Len(Items) /\ Items[i].width \in Nat /\ Items[i].width > 0
           /\ Items[i].alignRight \in BOOLEAN /\ After(Items[i]) \in Nat
<1> DEFINE Item == [kind : {"Button", "Toggle", "Dropdown", "Segment", "Separator"}, width : Nat \ {0},
                    alignRight : BOOLEAN]
<1>1. i \in 1 .. Len(Items) /\ Items[i] \in Item
  <2>1. Items \in Seq(Item)
    BY ToolbarAssumption
  <2> HIDE DEF Item
  <2> QED
    BY <2>1
<1>2. Items[i].width \in Nat \ {0} /\ Items[i].alignRight \in BOOLEAN
  BY <1>1
<1>3. After(Items[i]) \in Nat
  BY ToolbarAssumption DEF After
<1> QED
  BY <1>1, <1>2, <1>3

\* Items are laid out from left to right.
LEMMA NextXGrows ==
    \A i \in 0 .. Len(Items) : NextX[i] \in Nat
<1> DEFINE Good == {k \in Nat : k <= Len(Items) => NextX[k] \in Nat}
<1>1. Len(Items) \in Nat
  BY ToolbarAssumption
<1>2. 0 \in Good
  BY <1>1, NextXIs, ToolbarAssumption
<1>3. ASSUME NEW k \in Good
      PROVE  k + 1 \in Good
  <2>1. CASE k + 1 <= Len(Items)
    <3>1. k + 1 \in 0 .. Len(Items) /\ k + 1 \in DOMAIN Items /\ NextX[k] \in Nat
      BY <1>1, <2>1, ToolbarAssumption
    <3>2. NextX[k + 1] = NextX[k] + Items[k + 1].width + After(Items[k + 1])
      <4>1. (k + 1) - 1 = k /\ k + 1 # 0
        OBVIOUS
      <4> QED
        BY <3>1, <4>1, NextXIs
    <3> QED
      BY <3>1, <3>2, ItemIs
  <2> QED
    BY <2>1
<1>4. Good = Nat
  <2>1. Good \in SUBSET Nat
    OBVIOUS
  <2> HIDE DEF Good
  <2> QED
    BY <1>2, <1>3, <2>1, AllNaturals
<1> QED
  BY <1>1, <1>4

LEMMA RightOfGrows ==
    ASSUME NEW i \in DOMAIN Items
    PROVE  /\ RightOf(i) \in Nat
           /\ \A j \in DOMAIN Items : j <= i => RightOf(j) <= RightOf(i)
<1>1. Len(Items) \in Nat /\ DOMAIN Items = 1 .. Len(Items)
  BY ToolbarAssumption
<1>2. ASSUME NEW k \in DOMAIN Items
      PROVE  RightOf(k) \in Nat /\ k - 1 \in 0 .. Len(Items)
  BY <1>1, NextXGrows, ItemIs DEF RightOf
<1>3. ASSUME NEW k \in DOMAIN Items, k + 1 \in DOMAIN Items
      PROVE  RightOf(k) <= RightOf(k + 1)
  <2>1. (k + 1) - 1 = k /\ k \in 0 .. Len(Items) /\ k # 0
    BY <1>1
  <2>2. NextX[k] = RightOf(k) + After(Items[k])
    BY <2>1, NextXIs DEF RightOf
  <2>3. RightOf(k + 1) = NextX[k] + Items[k + 1].width
    BY <2>1 DEF RightOf
  <2>4. RightOf(k) \in Nat /\ Items[k + 1].width \in Nat /\ After(Items[k]) \in Nat
    BY <1>2, <1>3, ItemIs
  <2> QED
    BY <2>2, <2>3, <2>4
<1> DEFINE Good == {d \in Nat : \A j \in DOMAIN Items : j + d \in DOMAIN Items => RightOf(j) <= RightOf(j + d)}
<1>4. 0 \in Good
  BY <1>1, <1>2
<1>5. ASSUME NEW d \in Good
      PROVE  d + 1 \in Good
  <2>1. ASSUME NEW j \in DOMAIN Items, j + (d + 1) \in DOMAIN Items
        PROVE  RightOf(j) <= RightOf(j + (d + 1))
    <3>1. j + d \in DOMAIN Items /\ j + (d + 1) = (j + d) + 1
      BY <1>1, <2>1
    <3>2. RightOf(j) <= RightOf(j + d)
      BY <3>1
    <3>3. RightOf(j + d) <= RightOf(j + (d + 1))
      BY <1>3, <2>1, <3>1
    <3>4. RightOf(j) \in Nat /\ RightOf(j + d) \in Nat /\ RightOf(j + (d + 1)) \in Nat
      BY <1>2, <2>1, <3>1
    <3> QED
      BY <3>2, <3>3, <3>4
  <2> QED
    BY <2>1
<1>6. Good = Nat
  <2>1. Good \in SUBSET Nat
    OBVIOUS
  <2> HIDE DEF Good
  <2> QED
    BY <1>4, <1>5, <2>1, AllNaturals
<1>7. ASSUME NEW j \in DOMAIN Items, j <= i
      PROVE  RightOf(j) <= RightOf(i)
  <2>1. i - j \in Nat /\ j + (i - j) = i
    BY <1>1, <1>7
  <2> QED
    BY <1>6, <2>1
<1> QED
  BY <1>2, <1>7

\* A set of integers with a lower and an upper bound has a least and a greatest member.
LEMMA GreatestIs ==
    ASSUME NEW n \in Nat, NEW S \in SUBSET (1 .. n), S # {}
    PROVE  Max(S) \in S /\ \A x \in S : x <= Max(S)
<1> DEFINE T == {n - x : x \in S}
<1>1. T \in SUBSET Nat /\ T # {}
  <2>1. \A x \in S : n - x \in Nat
    OBVIOUS
  <2> QED
    BY <2>1
<1>2. PICK y \in T : \A x \in T : y <= x
  <2> HIDE DEF T
  <2> QED
    BY <1>1, LeastNatural
<1>3. PICK m \in S : y = n - m
  BY <1>2
<1>4. \A x \in S : m >= x
  BY <1>2, <1>3
<1> QED
  BY <1>3, <1>4 DEF Max

LEMMA LeastIs ==
    ASSUME NEW S \in SUBSET Nat, S # {}
    PROVE  Min(S) \in S /\ \A x \in S : Min(S) <= x
BY LeastNatural DEF Min

\* Stepping back ends at the last place at or before the start that holds nothing back.
LEMMA BackIs ==
    ASSUME NEW n \in Nat \ {0}, NEW held
    PROVE  /\ Back(n, held) \in 1 .. n
           /\ Back(n, held) = 1 \/ Back(n, held) \notin held
           /\ \A c \in 1 .. n : c > Back(n, held) => c \in held
<1> DEFINE S == {c \in 1 .. n : c = 1 \/ c \notin held}
<1>1. S \in SUBSET (1 .. n) /\ 1 \in S
  OBVIOUS
<1>2. Max(S) \in S /\ \A x \in S : x <= Max(S)
  <2> HIDE DEF S
  <2> QED
    BY <1>1, GreatestIs
<1>3. Back(n, held) = Max(S)
  BY DEF Back
<1>4. \A c \in 1 .. n : c > Max(S) => c \in held
  BY <1>2
<1> QED
  BY <1>2, <1>3, <1>4

\* Left is a beginning of the items.
LEMMA LeftIsFirst ==
    ASSUME NEW i \in Left, NEW j \in 1 .. i
    PROVE  j \in Left
<1>1. Len(Items) \in Nat /\ DOMAIN Items = 1 .. Len(Items)
  BY ToolbarAssumption
<1>2. i \in 1 .. Len(Items) /\ ~Items[i].alignRight
  BY <1>1 DEF Left
<1> DEFINE Good == {d \in Nat : d < i => ~Items[i - d].alignRight}
<1>3. 0 \in Good
  BY <1>2
<1>4. ASSUME NEW d \in Good
      PROVE  d + 1 \in Good
  <2>1. CASE d + 1 < i
    <3>1. i - d \in 2 .. Len(Items) /\ (i - d) - 1 = i - (d + 1)
      BY <1>2, <2>1
    <3>2. Items[(i - d) - 1].alignRight => Items[i - d].alignRight
      BY <3>1, ToolbarAssumption
    <3>3. ~Items[i - d].alignRight
      BY <1>2, <2>1
    <3> QED
      BY <3>1, <3>2, <3>3
  <2> QED
    BY <2>1
<1>5. Good = Nat
  <2>1. Good \in SUBSET Nat
    OBVIOUS
  <2> HIDE DEF Good
  <2> QED
    BY <1>3, <1>4, <2>1, AllNaturals
<1>6. i - j \in Good /\ i - (i - j) = j /\ i - j < i
  <2>1. i - j \in Nat /\ i - (i - j) = j /\ i - j < i
    BY <1>2
  <2> QED
    BY <1>5, <2>1
<1> QED
  BY <1>1, <1>2, <1>6 DEF Left

\* Nothing that stays on the toolbar is cut off: with everything, or before the overflow button.
LEMMA ToolbarFits ==
    ASSUME NEW w \in Int, RightLimit(w) \in Int, RightLimit(w) >= Pad + ButtonWidth
    PROVE  Fit(w)
<1> DEFINE limit == RightLimit(w)
           first == Min(TooFar(w))
           room == MakeRoom(first, w)
           whole == NoSplit(room)
           cut == NoDangling(whole)
<1>0. /\ Len(Items) \in Nat /\ DOMAIN Items = 1 .. Len(Items)
      /\ Pad \in Nat /\ Gap \in Nat /\ ButtonWidth \in Nat /\ limit \in Int
  BY ToolbarAssumption
<1>1. \A i \in DOMAIN Items : RightOf(i) \in Nat
  BY RightOfGrows
<1>2. CASE ~Overflows(w)
  <2>1. Hidden(w) = {} /\ TooFar(w) = {}
    BY <1>2 DEF Hidden, Overflows
  <2>2. \A i \in Left : RightOf(i) <= limit
    BY <1>0, <1>1, <2>1 DEF TooFar, Left
  <2> QED
    BY <1>2, <2>1, <2>2 DEF Fit
<1>3. CASE Overflows(w)
  <2>1. first \in TooFar(w) /\ \A i \in TooFar(w) : first <= i
    <3>1. TooFar(w) \in SUBSET Nat /\ TooFar(w) # {}
      BY <1>0, <1>3 DEF Overflows, TooFar, Left
    <3> QED
      BY <3>1, LeastIs
  <2>2. first \in Left /\ first \in 1 .. Len(Items) /\ RightOf(first) > limit
    BY <1>0, <2>1 DEF TooFar, Left
  <2> HIDE DEF first
  <2>3. /\ room \in 1 .. first
        /\ room = 1 \/ ~(RightOf(room - 1) > (limit - ButtonWidth) - Gap)
    <3> DEFINE held == {c \in 2 .. first : RightOf(c - 1) > (RightLimit(w) - ButtonWidth) - Gap}
    <3>1. room = Back(first, held)
      BY DEF MakeRoom
    <3>2. Back(first, held) \in 1 .. first /\ (Back(first, held) = 1 \/ Back(first, held) \notin held)
      <4> HIDE DEF held
      <4> QED
        BY <2>2, BackIs
    <3> HIDE DEF room
    <3> QED
      BY <2>2, <3>1, <3>2
  <2> HIDE DEF room
  <2>4. /\ whole \in 1 .. room
        /\ whole = 1 \/ ~(Items[whole].kind = "Segment" /\ Items[whole - 1].kind = "Segment")
    <3> DEFINE held == {c \in 2 .. room : Items[c].kind = "Segment" /\ Items[c - 1].kind = "Segment"}
    <3>1. whole = Back(room, held)
      BY DEF NoSplit
    <3>2. Back(room, held) \in 1 .. room /\ (Back(room, held) = 1 \/ Back(room, held) \notin held)
      <4> HIDE DEF held
      <4> QED
        BY <2>2, <2>3, BackIs
    <3> HIDE DEF whole
    <3> QED
      BY <2>2, <2>3, <3>1, <3>2
  <2> HIDE DEF whole
  <2>5. /\ cut \in 1 .. whole
        /\ cut = 1 \/ Items[cut - 1].kind # "Separator"
        /\ cut < whole => Items[cut].kind = "Separator"
    <3> DEFINE held == {c \in 2 .. whole : Items[c - 1].kind = "Separator"}
    <3>1. cut = Back(whole, held)
      BY DEF NoDangling
    <3>2. /\ Back(whole, held) \in 1 .. whole /\ (Back(whole, held) = 1 \/ Back(whole, held) \notin held)
          /\ \A c \in 1 .. whole : c > Back(whole, held) => c \in held
      <4> HIDE DEF held
      <4> QED
        BY <2>2, <2>3, <2>4, BackIs
    <3> HIDE DEF cut
    <3>0. whole \in Int /\ cut \in 1 .. whole /\ \A c \in 1 .. whole : c > cut => c \in held
      BY <2>2, <2>3, <2>4, <3>1, <3>2
    <3>3. cut < whole => cut + 1 \in held
      <4> HIDE DEF held
      <4>1. cut < whole => cut + 1 \in 1 .. whole /\ cut + 1 > cut
        BY <3>0
      <4> QED
        BY <3>0, <4>1
    <3>4. cut + 1 \in held => Items[cut].kind = "Separator"
      <4>1. cut \in Int => (cut + 1) - 1 = cut
        OBVIOUS
      <4> QED
        BY <2>2, <2>3, <2>4, <3>1, <3>2, <4>1
    <3> QED
      BY <2>2, <2>3, <2>4, <3>1, <3>2, <3>3, <3>4
  <2>6. cut = Cut(w)
    BY DEF Cut, cut, whole, room, first
  <2>7. Hidden(w) = {i \in Left : i >= cut}
    BY <1>3, <2>6 DEF Hidden
  <2> HIDE DEF cut
  <2>8. cut \in 1 .. first /\ cut <= whole /\ whole <= room /\ room <= first /\ first <= Len(Items)
    BY <2>2, <2>3, <2>4, <2>5
  <2>9. \A i \in Left \ Hidden(w) : RightOf(i) <= limit
    <3> SUFFICES ASSUME NEW i \in Left \ Hidden(w)
                 PROVE  RightOf(i) <= limit
      OBVIOUS
    <3>1. i \in 1 .. Len(Items) /\ i < first
      <4>1. i \in Left /\ i \in 1 .. Len(Items) /\ ~(i >= cut)
        BY <1>0, <2>7 DEF Left
      <4> QED
        BY <1>0, <2>2, <2>3, <2>4, <2>5, <4>1
    <3>2. i \notin TooFar(w)
      BY <2>1, <2>2, <3>1
    <3> QED
      BY <1>0, <1>1, <3>1, <3>2 DEF TooFar
  <2>10. ASSUME NEW j \in Left \ {1}, Items[j - 1].kind = "Segment", Items[j].kind = "Segment"
         PROVE  j - 1 \in Hidden(w) <=> j \in Hidden(w)
    <3>1. j \in 2 .. Len(Items) /\ j - 1 \in 1 .. j
      BY <1>0 DEF Left
    <3>2. cut # j
      BY <2>4, <2>5, <2>8, <2>10, <3>1
    <3>3. j - 1 \in Left
      BY <3>1, LeftIsFirst
    <3> QED
      BY <2>7, <2>8, <3>1, <3>2, <3>3
  <2>11. OverflowCommands(w) # {}
    <3>1. CASE Items[first].kind # "Separator"
      BY <2>2, <2>7, <2>8, <3>1 DEF OverflowCommands
    <3>2. CASE Items[first].kind = "Separator"
      <4>1. first < Len(Items) /\ Items[first + 1].kind # "Separator" /\ ~Items[first + 1].alignRight
        BY <1>0, <2>2, <3>2, ToolbarAssumption
      <4>2. first + 1 \in Left /\ first + 1 >= cut
        BY <1>0, <2>2, <2>8, <4>1 DEF Left
      <4> QED
        BY <2>7, <4>1, <4>2 DEF OverflowCommands
    <3> QED
      BY <3>1, <3>2
  <2>12. OverflowRight(w) <= limit
    <3>1. CASE cut = 1
      BY <1>0, <2>6, <3>1 DEF OverflowRight
    <3>2. CASE cut # 1
      <4>1. /\ cut - 1 \in DOMAIN Items /\ room - 1 \in DOMAIN Items /\ cut - 1 <= room - 1 /\ room # 1
            /\ room \in Int
        BY <1>0, <2>2, <2>3, <2>4, <2>8, <3>2
      <4>2. RightOf(cut - 1) <= RightOf(room - 1)
        BY <4>1, RightOfGrows
      <4>3. RightOf(room - 1) <= (limit - ButtonWidth) - Gap
        BY <1>0, <1>1, <2>3, <4>1
      <4>4. OverflowRight(w) = RightOf(cut - 1) + Gap + ButtonWidth
        BY <2>6, <3>2 DEF OverflowRight
      <4>5. RightOf(cut - 1) \in Nat /\ RightOf(room - 1) \in Nat
        BY <1>1, <4>1
      <4> HIDE DEF limit
      <4> QED
        BY <1>0, <4>2, <4>3, <4>4, <4>5
    <3> QED
      BY <3>1, <3>2
  <2>13. Cut(w) > 1 => Items[Cut(w) - 1].kind # "Separator"
    BY <2>5, <2>6, <2>8
  <2> QED
    BY <2>9, <2>10, <2>11, <2>12, <2>13 DEF Fit
<1> QED
  BY <1>2, <1>3

-----------------------------------------------------------------------------
(* The panes. *)

Panel == MinPanelWidth .. MaxPanelWidth
Settings ==
    [showExplorer : BOOLEAN, showOutline : BOOLEAN, showToolbar : BOOLEAN, showFormatBar : BOOLEAN,
     outlineWidth : Panel, explorerWidth : Panel]

\* Fractions with a positive denominator.
Ratio == Int \X (Nat \ {0})

LEMMA ScaleIs ==
    /\ \A n \in Int : Scale(n) \in Int
    /\ DividerW \in Nat /\ DividerW >= 6 /\ MinPanelW >= 80 /\ MinPanelW \in Nat
    /\ MinContentW \in Nat /\ MinContentW >= 100 + DividerW
<1>1. Dpi \in Nat /\ Dpi >= 96
  BY WindowAssumption
<1>2. ASSUME NEW n \in Int
      PROVE  Scale(n) \in Int
  <2>1. n * Dpi \in Int /\ 2 * n * Dpi + 96 \in Int /\ 2 * (-n) * Dpi + 96 \in Int
    BY <1>1
  <2>2. (2 * n * Dpi + 96) \div (2 * 96) \in Int /\ (2 * (-n) * Dpi + 96) \div (2 * 96) \in Int
    BY <2>1
  <2> QED
    BY <2>2 DEF Scale, MulDiv
<1>3. DividerW = (12 * Dpi + 96) \div 192
  BY <1>1 DEF DividerW, Scale, MulDiv
<1>4. MinContentW = (320 * Dpi + 96) \div 192
  BY <1>1 DEF MinContentW, Scale, MulDiv
<1>5. MinPanelW = (160 * Dpi + 96) \div 192
  BY <1>1 DEF MinPanelW, Scale, MulDiv
<1>6. DividerW \in Nat /\ DividerW >= 6 /\ MinPanelW >= 80 /\ MinPanelW \in Nat
  BY <1>1, <1>3, <1>5
<1>7. MinContentW \in Nat /\ MinContentW >= 100 + DividerW
  BY <1>1, <1>3, <1>4
<1> QED
  BY <1>2, <1>6, <1>7

\* The editor of a split document leaves the divider and the preview their room.
LEMMA EditorWIs ==
    ASSUME NEW contentW \in Int, contentW >= 100 + DividerW, NEW r \in Ratio
    PROVE  EditorW(contentW, r) \in 50 .. contentW - DividerW - 50
<1>1. DividerW \in Nat
  BY ScaleIs
<1>2. ((contentW - DividerW) * r[1]) \div r[2] \in Int
  <2>1. r[1] \in Int /\ r[2] \in Nat \ {0}
    BY DEF Ratio
  <2>2. (contentW - DividerW) * r[1] \in Int
    BY <1>1, <2>1
  <2> HIDE DEF Ratio
  <2> QED
    BY <2>1, <2>2
<1> DEFINE v == ((contentW - DividerW) * r[1]) \div r[2]
<1>3. EditorW(contentW, r) = ClampTo(50, Greatest(50, contentW - DividerW - 50), v)
  BY DEF EditorW
<1> HIDE DEF v
<1> QED
  BY <1>1, <1>2, <1>3 DEF ClampTo, Greatest, v

LEMMA FormatBarIs ==
    ASSUME NEW s \in Settings, NEW l \in Int, NEW r \in Int, NEW t \in Int, NEW b \in Int, t < b
    PROVE  FormatBarH(s, Rect(l, t, r, b)) \in 0 .. (b - t) - 1
<1>1. FormatBarHeight \in Nat
  BY WindowAssumption
<1>2. Rect(l, t, r, b).bottom = b /\ Rect(l, t, r, b).top = t
  BY DEF Rect
<1>3. (b - t) \div 2 \in 0 .. (b - t) - 1
  OBVIOUS
<1>4. Least(FormatBarHeight, (b - t) \div 2) \in 0 .. (b - t) - 1
  BY <1>1, <1>3 DEF Least
<1> QED
  BY <1>2, <1>4 DEF FormatBarH

\* A pane between two places, which is empty when they are the same.
Spans(rc, from, to) == rc.left = (IF from < to THEN from ELSE 0) /\ rc.right = (IF from < to THEN to ELSE 0)

LEMMA SpansIs ==
    ASSUME NEW i \in Int, NEW j \in Int, NEW t, NEW b, NEW rc, rc = IF i < j THEN Rect(i, t, j, b) ELSE Empty
    PROVE  Spans(rc, i, j)
<1>1. CASE i < j
  BY <1>1 DEF Spans, Rect
<1>2. CASE ~(i < j)
  BY <1>2 DEF Spans, Rect, Empty
<1> QED
  BY <1>1, <1>2

LEMMA SpansApart ==
    ASSUME NEW rc, NEW other, NEW i \in Int, NEW j \in Int, NEW m \in Int, NEW n \in Int,
           Spans(rc, i, j), Spans(other, m, n), i <= j, j <= m, m <= n
    PROVE  ~Overlap(rc, other) /\ ~Overlap(other, rc)
BY DEF Spans, Overlap, IsEmpty

LEMMA SpanInside ==
    ASSUME NEW rc, NEW i \in Nat, NEW j \in Nat, NEW w \in Nat, Spans(rc, i, j), i <= j, j <= w
    PROVE  Width(rc) = j - i /\ rc.left >= 0 /\ rc.right <= w
BY DEF Spans, Width

\* The panes follow one another from 0 to w.
InARow(l, w, a, b, c, d, e, f) ==
    /\ Spans(l.outline, 0, a) /\ Spans(l.outlineDivider, a, b) /\ Spans(l.editor, b, c)
    /\ Spans(l.splitDivider, c, d) /\ Spans(l.preview, d, e) /\ Spans(l.explorerDivider, e, f)
    /\ Spans(l.explorer, f, w)
    /\ a <= b /\ b <= c /\ c <= d /\ d <= e /\ e <= f /\ f <= w

LEMMA InOrder ==
    ASSUME NEW l, NEW w \in Nat, NEW a \in Nat, NEW b \in Nat, NEW c \in Nat, NEW d \in Nat, NEW e \in Nat, NEW f \in Nat,
           InARow(l, w, a, b, c, d, e, f)
    PROVE  /\ Width(l.explorer) + Width(l.explorerDivider) + Width(l.outline) + Width(l.outlineDivider)
                + Width(l.editor) + Width(l.splitDivider) + Width(l.preview) = w
           /\ Width(l.editor) + Width(l.splitDivider) + Width(l.preview) = e - b
           /\ \A p, q \in Columns : p # q => ~Overlap(l[p], l[q])
           /\ \A p \in Columns : l[p].left >= 0 /\ l[p].right <= w
<1> USE DEF InARow
<1>1. /\ Width(l.outline) = a /\ Width(l.outlineDivider) = b - a /\ Width(l.editor) = c - b
      /\ Width(l.splitDivider) = d - c /\ Width(l.preview) = e - d
      /\ Width(l.explorerDivider) = f - e /\ Width(l.explorer) = w - f
  BY SpanInside
<1>0. w <= w /\ a <= w /\ b <= w /\ c <= w /\ d <= w /\ e <= w /\ 0 <= a
  OBVIOUS
<1>2. \A p \in Columns : l[p].left >= 0 /\ l[p].right <= w
  <2>1. l.outline.left >= 0 /\ l.outline.right <= w
    BY <1>0, SpanInside
  <2>2. l.outlineDivider.left >= 0 /\ l.outlineDivider.right <= w
    BY <1>0, SpanInside
  <2>3. l.editor.left >= 0 /\ l.editor.right <= w
    BY <1>0, SpanInside
  <2>4. l.splitDivider.left >= 0 /\ l.splitDivider.right <= w
    BY <1>0, SpanInside
  <2>5. l.preview.left >= 0 /\ l.preview.right <= w
    BY <1>0, SpanInside
  <2>6. l.explorerDivider.left >= 0 /\ l.explorerDivider.right <= w
    BY <1>0, SpanInside
  <2>7. l.explorer.left >= 0 /\ l.explorer.right <= w
    BY <1>0, SpanInside
  <2> QED
    BY <2>1, <2>2, <2>3, <2>4, <2>5, <2>6, <2>7 DEF Columns
<1>3. /\ ~Overlap(l.outline, l.outlineDivider) /\ ~Overlap(l.outlineDivider, l.outline)
      /\ ~Overlap(l.outline, l.editor) /\ ~Overlap(l.editor, l.outline)
      /\ ~Overlap(l.outline, l.splitDivider) /\ ~Overlap(l.splitDivider, l.outline)
      /\ ~Overlap(l.outline, l.preview) /\ ~Overlap(l.preview, l.outline)
      /\ ~Overlap(l.outline, l.explorerDivider) /\ ~Overlap(l.explorerDivider, l.outline)
      /\ ~Overlap(l.outline, l.explorer) /\ ~Overlap(l.explorer, l.outline)
  <2>1. /\ a <= c /\ a <= d /\ a <= e /\ a <= f /\ a <= a /\ 0 <= a
    OBVIOUS
  <2>2. /\ ~Overlap(l.outline, l.outlineDivider) /\ ~Overlap(l.outlineDivider, l.outline)
        /\ ~Overlap(l.outline, l.editor) /\ ~Overlap(l.editor, l.outline)
        /\ ~Overlap(l.outline, l.splitDivider) /\ ~Overlap(l.splitDivider, l.outline)
    BY <2>1, SpansApart
  <2>3. /\ ~Overlap(l.outline, l.preview) /\ ~Overlap(l.preview, l.outline)
        /\ ~Overlap(l.outline, l.explorerDivider) /\ ~Overlap(l.explorerDivider, l.outline)
        /\ ~Overlap(l.outline, l.explorer) /\ ~Overlap(l.explorer, l.outline)
    BY <2>1, SpansApart
  <2> QED
    BY <2>2, <2>3
<1>4. /\ ~Overlap(l.outlineDivider, l.editor) /\ ~Overlap(l.editor, l.outlineDivider)
      /\ ~Overlap(l.outlineDivider, l.splitDivider) /\ ~Overlap(l.splitDivider, l.outlineDivider)
      /\ ~Overlap(l.outlineDivider, l.preview) /\ ~Overlap(l.preview, l.outlineDivider)
      /\ ~Overlap(l.outlineDivider, l.explorerDivider) /\ ~Overlap(l.explorerDivider, l.outlineDivider)
      /\ ~Overlap(l.outlineDivider, l.explorer) /\ ~Overlap(l.explorer, l.outlineDivider)
  BY SpansApart
<1>5. /\ ~Overlap(l.editor, l.splitDivider) /\ ~Overlap(l.splitDivider, l.editor)
      /\ ~Overlap(l.editor, l.preview) /\ ~Overlap(l.preview, l.editor)
      /\ ~Overlap(l.editor, l.explorerDivider) /\ ~Overlap(l.explorerDivider, l.editor)
      /\ ~Overlap(l.editor, l.explorer) /\ ~Overlap(l.explorer, l.editor)
  BY SpansApart
<1>6. /\ ~Overlap(l.splitDivider, l.preview) /\ ~Overlap(l.preview, l.splitDivider)
      /\ ~Overlap(l.splitDivider, l.explorerDivider) /\ ~Overlap(l.explorerDivider, l.splitDivider)
      /\ ~Overlap(l.splitDivider, l.explorer) /\ ~Overlap(l.explorer, l.splitDivider)
      /\ ~Overlap(l.preview, l.explorerDivider) /\ ~Overlap(l.explorerDivider, l.preview)
      /\ ~Overlap(l.preview, l.explorer) /\ ~Overlap(l.explorer, l.preview)
      /\ ~Overlap(l.explorerDivider, l.explorer) /\ ~Overlap(l.explorer, l.explorerDivider)
  BY SpansApart
<1>7. \A p, q \in Columns : p # q => ~Overlap(l[p], l[q])
  BY <1>3, <1>4, <1>5, <1>6 DEF Columns
<1>8. /\ w = (w - f) + (f - e) + a + (b - a) + (c - b) + (d - c) + (e - d)
      /\ e - b = (c - b) + (d - c) + (e - d)
  OBVIOUS
<1> QED
  BY <1>1, <1>2, <1>7, <1>8

LEMMA PanesAre ==
    ASSUME NEW s, NEW mode, NEW w, NEW right, NEW x, NEW y, NEW bottom,
           NEW i \in Int, NEW t \in Int, NEW j \in Int, NEW k \in Int, NEW f \in Int, f = FormatBarH(s, Rect(i, t, j, k)),
           NEW l, l = Panes(s, mode, w, right, x, y, bottom, Rect(i, t, j, k))
    PROVE  /\ l.explorer = IF right < w THEN Rect(right + DividerW, y, w, bottom) ELSE Empty
           /\ l.explorerDivider = IF right < w THEN Rect(right, y, right + DividerW, bottom) ELSE Empty
           /\ l.outline = IF x > 0 THEN Rect(0, y, x - DividerW, bottom) ELSE Empty
           /\ l.outlineDivider = IF x > 0 THEN Rect(x - DividerW, y, x, bottom) ELSE Empty
           /\ l.formatBar = Rect(i, t, j, t + f)
           /\ l.editor = Rect(i, t + f, j, k)
           /\ l.splitDivider = IF mode = "Split" THEN Rect(j, y, j + DividerW, bottom) ELSE Empty
           /\ l.preview = PreviewRect(mode, j, x, Greatest(1, right - x), y, bottom)
<1> DEFINE e == Rect(i, t, j, k)
           g == [e EXCEPT !.top = @ + FormatBarH(s, e)]
<1>1. g = Rect(i, t + f, j, k)
  BY DEF Rect
<1>2. e.left = i /\ e.top = t /\ e.right = j
  BY DEF Rect
<1>3. l = [toolbar |-> IF s.showToolbar THEN Rect(0, 0, w, ToolbarHeight) ELSE Empty,
           explorer |-> IF right < w THEN Rect(right + DividerW, y, w, bottom) ELSE Empty,
           explorerDivider |-> IF right < w THEN Rect(right, y, right + DividerW, bottom) ELSE Empty,
           outline |-> IF x > 0 THEN Rect(0, y, x - DividerW, bottom) ELSE Empty,
           outlineDivider |-> IF x > 0 THEN Rect(x - DividerW, y, x, bottom) ELSE Empty,
           formatBar |-> Rect(e.left, e.top, e.right, e.top + FormatBarH(s, e)),
           editor |-> g,
           splitDivider |-> IF mode = "Split" THEN Rect(e.right, y, e.right + DividerW, bottom) ELSE Empty,
           preview |-> PreviewRect(mode, e.right, x, Greatest(1, right - x), y, bottom)]
  BY Zenon DEF Panes
<1> HIDE DEF g
<1>4. FormatBarH(s, e) = f
  OBVIOUS
<1> HIDE DEF e
<1> QED
  BY <1>1, <1>2, <1>3, <1>4

\* Between two edges the panes of a document fill the window.
LEMMA TileBetween ==
    ASSUME NEW s \in Settings, NEW mode \in VIEW, NEW r \in Ratio, NEW w \in Nat,
           NEW right \in Int, NEW x \in Int, NEW y \in Nat, NEW bottom \in Nat, y < bottom,
           right = w \/ right + DividerW < w, x = 0 \/ DividerW < x,
           right - x >= Least(w, MinContentW), w >= 100 + DividerW
    PROVE  Tile(LayoutBetween(s, mode, r, w, right, x, y, bottom), w, mode)
<1> DEFINE D == DividerW
           cw == right - x
           l == LayoutBetween(s, mode, r, w, right, x, y, bottom)
           a == IF x > 0 THEN x - D ELSE 0
           f == IF right < w THEN right + D ELSE w
           WindowIsFull ==
               /\ Width(l.explorer) + Width(l.explorerDivider) + Width(l.outline) + Width(l.outlineDivider)
                    + Width(l.editor) + Width(l.splitDivider) + Width(l.preview) = w
               /\ \A p, q \in Columns : p # q => ~Overlap(l[p], l[q])
               /\ \A p \in Columns : l[p].left >= 0 /\ l[p].right <= w
               /\ Width(l.editor) + Width(l.splitDivider) + Width(l.preview) >= Least(w, MinContentW)
<1>0. D \in Nat /\ D >= 6 /\ MinContentW \in Nat /\ MinContentW >= 100 + D
  BY ScaleIs
<1>1. cw \in Int /\ cw >= 100 + D /\ Greatest(1, cw) = cw /\ cw >= Least(w, MinContentW)
  BY <1>0 DEF Greatest, Least
<1>2. l = Panes(s, mode, w, right, x, y, bottom, EditorRect(mode, r, x, cw, y, bottom))
  BY <1>1, Zenon DEF LayoutBetween
<1>3. ASSUME NEW c \in Nat, NEW d \in Nat, x <= c, c <= d, d <= right, Spans(l.editor, x, c), Spans(l.splitDivider, c, d),
             Spans(l.preview, d, right), NEW i \in Int, NEW t \in Int, NEW j \in Int, NEW k \in Int,
             EditorRect(mode, r, x, cw, y, bottom) = Rect(i, t, j, k), FormatBarH(s, Rect(i, t, j, k)) \in Int
      PROVE  WindowIsFull
  <2>1. /\ l.explorer = IF right < w THEN Rect(right + D, y, w, bottom) ELSE Empty
        /\ l.explorerDivider = IF right < w THEN Rect(right, y, right + D, bottom) ELSE Empty
        /\ l.outline = IF x > 0 THEN Rect(0, y, x - D, bottom) ELSE Empty
        /\ l.outlineDivider = IF x > 0 THEN Rect(x - D, y, x, bottom) ELSE Empty
    BY <1>2, <1>3, PanesAre
  <2> HIDE DEF l, D
  <2>2. a \in Nat /\ f \in Nat /\ right \in Nat /\ x \in Nat /\ a <= x /\ right <= f /\ f <= w
    BY <1>0, <1>1, <1>3 DEF D
  <2>3. Spans(l.explorer, f, w) /\ Spans(l.explorerDivider, right, f) /\ Spans(l.outline, 0, a) /\ Spans(l.outlineDivider, a, x)
    <3>1. right < w <=> (right < f /\ f < w)
      BY <1>0 DEF D
    <3>2. x > 0 <=> (0 < a /\ a < x)
      BY <1>0, <2>2 DEF D
    <3>3. /\ l.explorer = IF f < w THEN Rect(f, y, w, bottom) ELSE Empty
          /\ l.explorerDivider = IF right < f THEN Rect(right, y, f, bottom) ELSE Empty
      BY <2>1, <3>1
    <3>4. /\ l.outline = IF 0 < a THEN Rect(0, y, a, bottom) ELSE Empty
          /\ l.outlineDivider = IF a < x THEN Rect(a, y, x, bottom) ELSE Empty
      BY <2>1, <3>2
    <3>5. w \in Int /\ f \in Int /\ right \in Int /\ 0 \in Int /\ a \in Int /\ x \in Int
      BY <2>2
    <3> HIDE DEF a, f
    <3> QED
      BY <3>3, <3>4, <3>5, SpansIs, Zenon
  <2> HIDE DEF a, f
  <2>4. /\ Width(l.explorer) + Width(l.explorerDivider) + Width(l.outline) + Width(l.outlineDivider)
             + Width(l.editor) + Width(l.splitDivider) + Width(l.preview) = w
        /\ Width(l.editor) + Width(l.splitDivider) + Width(l.preview) = right - x
        /\ \A p, q \in Columns : p # q => ~Overlap(l[p], l[q])
        /\ \A p \in Columns : l[p].left >= 0 /\ l[p].right <= w
    <3> HIDE DEF Spans
    <3>1. w \in Nat /\ a \in Nat /\ x \in Nat /\ c \in Nat /\ d \in Nat /\ right \in Nat /\ f \in Nat
      BY <1>3, <2>2
    <3>2. a <= x /\ x <= c /\ c <= d /\ d <= right /\ right <= f /\ f <= w
      BY <1>3, <2>2
    <3> QED
      <4>1. InARow(l, w, a, x, c, d, right, f)
        BY <1>3, <2>3, <3>2 DEF InARow
      <4> QED
        BY <3>1, <4>1, InOrder, Zenon
  <2> QED
    BY <1>1, <2>4
<1> HIDE DEF l
<1>4. CASE mode = "EditorOnly"
  <2>1. EditorRect(mode, r, x, cw, y, bottom) = Rect(x, y, right, bottom)
    <3>1. x + cw = right
      OBVIOUS
    <3> QED
      BY <1>4, <3>1 DEF EditorRect
  <2>2. FormatBarH(s, Rect(x, y, right, bottom)) \in 0 .. (bottom - y) - 1
    BY FormatBarIs
  <2> DEFINE h == FormatBarH(s, Rect(x, y, right, bottom))
  <2>3. l.editor = Rect(x, y + h, right, bottom) /\ l.splitDivider = Empty /\ l.formatBar = Rect(x, y, right, y + h)
        /\ l.preview = PreviewRect(mode, right, x, Greatest(1, right - x), y, bottom)
    <3> HIDE DEF h
    <3> QED
      BY <1>2, <1>4, <2>1, <2>2, PanesAre DEF h
  <2>4. l.preview = Empty
    BY <1>4, <2>3 DEF PreviewRect
  <2> HIDE DEF h
  <2>5. /\ Spans(l.editor, x, right) /\ Spans(l.splitDivider, right, right) /\ Spans(l.preview, right, right)
        /\ x \in Nat /\ right \in Nat
    BY <1>0, <1>1, <2>3, <2>4 DEF Spans, Rect, Empty
  <2>6. Width(l.editor) >= 50 /\ l.formatBar.bottom = l.editor.top
    BY <1>0, <1>1, <2>3 DEF Width, Rect
  <2>7. x <= right /\ right <= right
    BY <1>0, <1>1
  <2> QED
    <3>1. y \in Int /\ bottom \in Int /\ FormatBarH(s, Rect(x, y, right, bottom)) \in Int
      BY <2>2
    <3>2. WindowIsFull
      BY <1>3, <2>1, <2>5, <2>7, <3>1, Zenon
    <3> QED
      BY <1>4, <2>6, <3>2 DEF Tile, l
<1>5. CASE mode = "PreviewOnly"
  <2>1. EditorRect(mode, r, x, cw, y, bottom) = Rect(0, 0, 0, 0)
    BY <1>5 DEF EditorRect, Empty
  <2>2. FormatBarH(s, Rect(0, 0, 0, 0)) = 0
    BY DEF FormatBarH, IsEmpty, Rect
  <2>3. l.editor = Rect(0, 0 + 0, 0, 0) /\ l.splitDivider = Empty
        /\ l.preview = PreviewRect(mode, 0, x, Greatest(1, right - x), y, bottom)
    BY <1>2, <1>5, <2>1, <2>2, PanesAre
  <2>4. l.preview = Rect(x, y, right, bottom)
    <3>1. x + cw = right
      OBVIOUS
    <3> QED
      BY <1>1, <1>5, <2>3, <3>1 DEF PreviewRect
  <2>5. /\ Spans(l.editor, x, x) /\ Spans(l.splitDivider, x, x) /\ Spans(l.preview, x, right)
        /\ x \in Nat /\ right \in Nat
    BY <1>0, <1>1, <2>3, <2>4 DEF Spans, Rect, Empty
  <2>6. Width(l.preview) >= 50
    BY <1>0, <1>1, <2>4 DEF Width, Rect
  <2>7. x <= x /\ x <= right
    BY <1>0, <1>1
  <2> QED
    <3>1. 0 \in Int /\ FormatBarH(s, Rect(0, 0, 0, 0)) \in Int
      BY <2>2
    <3>2. WindowIsFull
      BY <1>3, <2>1, <2>5, <2>7, <3>1, Zenon
    <3> QED
      BY <1>5, <2>6, <3>2 DEF Tile, l
<1>6. CASE mode = "Split"
  <2> DEFINE ew == EditorW(cw, r)
             c == x + ew
  <2>1. ew \in 50 .. cw - D - 50
    BY <1>1, EditorWIs
  <2> HIDE DEF ew
  <2>2. c \in Int /\ x < c /\ c + D < right /\ c + D \in Int
    BY <1>0, <2>1
  <2>3. EditorRect(mode, r, x, cw, y, bottom) = Rect(x, y, c, bottom)
    BY <1>6 DEF EditorRect, ew
  <2>4. FormatBarH(s, Rect(x, y, c, bottom)) \in 0 .. (bottom - y) - 1
    <3>1. x \in Int /\ y \in Int /\ c \in Int /\ bottom \in Int /\ y < bottom
      BY <2>2
    <3> HIDE DEF c
    <3> QED
      BY <3>1, FormatBarIs, Zenon
  <2> DEFINE h == FormatBarH(s, Rect(x, y, c, bottom))
  <2>5. l.editor = Rect(x, y + h, c, bottom) /\ l.splitDivider = Rect(c, y, c + D, bottom) /\ l.formatBar = Rect(x, y, c, y + h)
        /\ l.preview = PreviewRect(mode, c, x, Greatest(1, right - x), y, bottom)
    <3>1. x \in Int /\ y \in Int /\ c \in Int /\ bottom \in Int /\ h \in Int
      BY <2>2, <2>4
    <3>2. l = Panes(s, mode, w, right, x, y, bottom, Rect(x, y, c, bottom))
      BY <1>2, <2>3, Zenon
    <3>3. /\ l.formatBar = Rect(x, y, c, y + h)
          /\ l.editor = Rect(x, y + h, c, bottom)
          /\ l.splitDivider = IF mode = "Split" THEN Rect(c, y, c + D, bottom) ELSE Empty
          /\ l.preview = PreviewRect(mode, c, x, Greatest(1, right - x), y, bottom)
      <4>1. h = FormatBarH(s, Rect(x, y, c, bottom))
        OBVIOUS
      <4> HIDE DEF c, h
      <4> QED
        BY <3>1, <3>2, <4>1, PanesAre
    <3> QED
      BY <1>6, <3>3
  <2>6. l.preview = Rect(c + D, y, right, bottom)
    <3>1. x + cw = right /\ Greatest(c + D + 50, right) = right
      BY <1>0, <1>1, <2>1, <2>2 DEF Greatest
    <3> QED
      BY <1>1, <1>6, <2>5, <3>1 DEF PreviewRect
  <2> HIDE DEF h
  <2>7. /\ Spans(l.editor, x, c) /\ Spans(l.splitDivider, c, c + D) /\ Spans(l.preview, c + D, right)
        /\ x \in Nat /\ right \in Nat /\ c \in Nat /\ c + D \in Nat
    BY <1>0, <1>1, <2>2, <2>5, <2>6, ScaleIs DEF Spans, Rect
  <2>8. Width(l.editor) >= 50 /\ l.formatBar.bottom = l.editor.top /\ Width(l.preview) >= 50
    BY <1>0, <1>1, <2>1, <2>2, <2>5, <2>6 DEF Width, Rect
  <2>9. x <= c /\ c <= c + D /\ c + D <= right
    BY <1>0, <2>2
  <2> HIDE DEF c
  <2> QED
    <3>1. y \in Int /\ bottom \in Int /\ FormatBarH(s, Rect(x, y, c, bottom)) \in Int
      BY <2>4
    <3>2. WindowIsFull
      BY <1>3, <2>2, <2>3, <2>7, <2>9, <3>1, Zenon
    <3> QED
      BY <1>6, <2>8, <3>2 DEF Tile, l
<1> QED
  BY <1>4, <1>5, <1>6 DEF VIEW

\* A side panel that is shown leaves the document its room.
LEMMA PanelWidthIs ==
    ASSUME NEW show \in BOOLEAN, NEW wanted \in Int, NEW room \in Int, Shows(show, wanted, room)
    PROVE  PanelWidth(wanted, room) \in 80 .. room - DividerW - MinContentW
<1>1. Scale(wanted) \in Int /\ DividerW \in Nat /\ MinContentW \in Nat /\ MinPanelW >= 80 /\ MinPanelW \in Nat
  BY ScaleIs
<1> QED
  BY <1>1 DEF Shows, PanelWidth, Least

LEMMA ContentRightIs ==
    ASSUME NEW s \in Settings, NEW w \in Nat
    PROVE  /\ ExplorerW(s, w) \in Nat /\ ContentRight(s, w) \in Int
           /\ ContentRight(s, w) = w \/ (ContentRight(s, w) + DividerW < w /\ ContentRight(s, w) >= MinContentW)
<1>1. s.showExplorer \in BOOLEAN /\ s.explorerWidth \in Int
  BY DEF Settings, Panel, MinPanelWidth, MaxPanelWidth
<1>2. DividerW \in Nat /\ MinContentW \in Nat
  BY ScaleIs
<1> DEFINE e == PanelWidth(s.explorerWidth, w)
<1>3. CASE Shows(s.showExplorer, s.explorerWidth, w)
  <2>1. e \in 80 .. w - DividerW - MinContentW
    BY <1>1, <1>3, PanelWidthIs
  <2>2. ExplorerW(s, w) = e
    BY <1>3 DEF ExplorerW
  <2> HIDE DEF e
  <2> QED
    BY <1>2, <2>1, <2>2 DEF ContentRight
<1>4. CASE ~Shows(s.showExplorer, s.explorerWidth, w)
  BY <1>4 DEF ExplorerW, ContentRight
<1> QED
  BY <1>3, <1>4

LEMMA ContentXIs ==
    ASSUME NEW s \in Settings, NEW right \in Int
    PROVE  /\ ContentX(s, right) \in Int
           /\ ContentX(s, right) = 0 \/ (ContentX(s, right) > DividerW /\ right - ContentX(s, right) >= MinContentW)
<1>1. s.showOutline \in BOOLEAN /\ s.outlineWidth \in Int
  BY DEF Settings, Panel, MinPanelWidth, MaxPanelWidth
<1>2. DividerW \in Nat /\ MinContentW \in Nat
  BY ScaleIs
<1> DEFINE e == PanelWidth(s.outlineWidth, right)
<1>3. CASE Shows(s.showOutline, s.outlineWidth, right)
  <2>1. e \in 80 .. right - DividerW - MinContentW
    BY <1>1, <1>3, PanelWidthIs
  <2>2. OutlineW(s, right) = e
    BY <1>3 DEF OutlineW
  <2> HIDE DEF e
  <2> QED
    BY <1>2, <2>1, <2>2 DEF ContentX
<1>4. CASE ~Shows(s.showOutline, s.outlineWidth, right)
  BY <1>4 DEF OutlineW, ContentX
<1> QED
  BY <1>3, <1>4

LEMMA TopIs ==
    ASSUME NEW s \in Settings
    PROVE  Top(s) \in Nat /\ Greatest(10, Height - Top(s)) \in Nat /\ Greatest(10, Height - Top(s)) >= 10
<1>1. Height \in Nat /\ ToolbarHeight \in Nat
  BY WindowAssumption
<1>2. Top(s) \in Nat
  BY <1>1 DEF Top
<1> QED
  BY <1>1, <1>2 DEF Greatest

LEMMA LayoutTiles ==
    ASSUME NEW s \in Settings, NEW mode \in VIEW, NEW r \in Ratio, NEW w \in Nat, w >= 100 + DividerW
    PROVE  Tile(ComputeLayout(s, mode, r, w), w, mode)
<1> DEFINE right == ContentRight(s, w)
           x == ContentX(s, right)
           y == Top(s)
           bottom == Top(s) + Greatest(10, Height - Top(s))
<1>1. DividerW \in Nat /\ MinContentW \in Nat
  BY ScaleIs
<1>2. right \in Int /\ (right = w \/ (right + DividerW < w /\ right >= MinContentW))
  BY ContentRightIs
<1>3. x \in Int /\ (x = 0 \/ (x > DividerW /\ right - x >= MinContentW))
  <2> HIDE DEF right
  <2> QED
    BY <1>2, ContentXIs DEF x
<1>4. y \in Nat /\ bottom \in Nat /\ y < bottom
  <2> DEFINE g == Greatest(10, Height - Top(s))
  <2>1. y \in Nat /\ g \in Nat /\ g >= 10
    BY TopIs
  <2>2. bottom = y + g
    OBVIOUS
  <2> HIDE DEF y, g, bottom
  <2> QED
    BY <2>1, <2>2
<1>5. ComputeLayout(s, mode, r, w) = LayoutBetween(s, mode, r, w, right, x, y, bottom)
  BY DEF ComputeLayout
<1> HIDE DEF right, x, y, bottom
<1>6. right - x >= Least(w, MinContentW)
  BY <1>1, <1>2, <1>3 DEF Least
<1>7. /\ right = w \/ right + DividerW < w
      /\ x = 0 \/ DividerW < x
  BY <1>1, <1>2, <1>3
<1> QED
  BY <1>2, <1>3, <1>4, <1>5, <1>6, <1>7, TileBetween

LEMMA EditorWIsNumber ==
    ASSUME NEW contentW \in Int, NEW r \in Ratio
    PROVE  EditorW(contentW, r) \in Int
<1>1. DividerW \in Nat
  BY ScaleIs
<1> DEFINE v == ((contentW - DividerW) * r[1]) \div r[2]
<1>2. v \in Int
  <2>1. r[1] \in Int /\ r[2] \in Nat \ {0}
    BY DEF Ratio
  <2>2. (contentW - DividerW) * r[1] \in Int
    BY <1>1, <2>1
  <2> HIDE DEF Ratio
  <2> QED
    BY <2>1, <2>2
<1>3. EditorW(contentW, r) = ClampTo(50, Greatest(50, contentW - DividerW - 50), v)
  BY DEF EditorW
<1> HIDE DEF v
<1> QED
  BY <1>1, <1>2, <1>3 DEF ClampTo, Greatest

\* The edges of the panes a divider is dragged between are numbers, however narrow the window.
LEMMA EdgesAreNumbers ==
    ASSUME NEW s \in Settings, NEW mode \in VIEW, NEW r \in Ratio, NEW w \in Nat,
           NEW l, l = ComputeLayout(s, mode, r, w)
    PROVE  l.editor.left \in Int /\ l.preview.right \in Int /\ l.outline.left \in Int /\ l.explorer.right \in Int
<1> DEFINE right == ContentRight(s, w)
           x == ContentX(s, right)
           y == Top(s)
           bottom == Top(s) + Greatest(10, Height - Top(s))
           cw == Greatest(1, right - x)
           e == EditorRect(mode, r, x, cw, y, bottom)
<1>1. DividerW \in Nat
  BY ScaleIs
<1>2. right \in Int
  BY ContentRightIs
<1>3. x \in Int
  <2> HIDE DEF right
  <2> QED
    BY <1>2, ContentXIs DEF x
<1>4. y \in Int /\ bottom \in Int
  <2> DEFINE g == Greatest(10, Height - Top(s))
  <2>1. y \in Nat /\ g \in Nat
    BY TopIs
  <2>2. bottom = y + g
    OBVIOUS
  <2> HIDE DEF y, g, bottom
  <2> QED
    BY <2>1, <2>2
<1>5. l = Panes(s, mode, w, right, x, y, bottom, e)
  BY DEF ComputeLayout, LayoutBetween
<1> HIDE DEF right, x, y, bottom
<1>6. cw \in Int
  BY <1>2, <1>3 DEF Greatest
<1>7. EditorW(cw, r) \in Int
  BY <1>6, EditorWIsNumber
<1> HIDE DEF cw
<1>8. \E i, t, j, k \in Int : e = Rect(i, t, j, k)
  <2>1. CASE mode = "EditorOnly"
    <3>1. e = Rect(x, y, x + cw, bottom)
      BY <2>1 DEF EditorRect
    <3> QED
      BY <1>3, <1>4, <1>6, <3>1
  <2>2. CASE mode = "PreviewOnly"
    <3>1. e = Rect(0, 0, 0, 0)
      BY <2>2 DEF EditorRect, Empty
    <3> QED
      BY <3>1
  <2>3. CASE mode = "Split"
    <3> DEFINE ew == EditorW(cw, r)
    <3>1. e = Rect(x, y, x + ew, bottom)
      BY <2>3 DEF EditorRect
    <3> HIDE DEF ew
    <3>2. x + ew \in Int
      BY <1>3, <1>7 DEF ew
    <3> QED
      BY <1>3, <1>4, <3>1, <3>2
  <2> QED
    BY <2>1, <2>2, <2>3 DEF VIEW
<1> HIDE DEF e
<1>9. PICK i, t, j, k \in Int : e = Rect(i, t, j, k)
  BY <1>8
<1> DEFINE f == FormatBarH(s, Rect(i, t, j, k))
<1>10. f \in Int
  <2>1. Rect(i, t, j, k).bottom = k /\ Rect(i, t, j, k).top = t
    BY DEF Rect
  <2>2. (k - t) \div 2 \in Int /\ FormatBarHeight \in Int
    BY WindowAssumption
  <2>3. Least(FormatBarHeight, (k - t) \div 2) \in Int
    BY <2>2 DEF Least
  <2> QED
    BY <2>1, <2>3 DEF FormatBarH
<1>11. /\ l.editor = Rect(i, t + f, j, k)
       /\ l.preview = PreviewRect(mode, j, x, Greatest(1, right - x), y, bottom)
       /\ l.outline = IF x > 0 THEN Rect(0, y, x - DividerW, bottom) ELSE Empty
       /\ l.explorer = IF right < w THEN Rect(right + DividerW, y, w, bottom) ELSE Empty
  <2>1. l = Panes(s, mode, w, right, x, y, bottom, Rect(i, t, j, k))
    BY <1>5, <1>9
  <2>2. f = FormatBarH(s, Rect(i, t, j, k))
    OBVIOUS
  <2> HIDE DEF f
  <2> QED
    BY <1>10, <2>1, <2>2, PanesAre
<1> HIDE DEF f
<1>12. l.preview.right \in Int
  <2> DEFINE g == Greatest(1, right - x)
  <2>1. l.preview = PreviewRect(mode, j, x, g, y, bottom) /\ g \in Int
    BY <1>11, <1>6 DEF cw
  <2> HIDE DEF g
  <2>2. CASE mode = "EditorOnly"
    BY <2>1, <2>2 DEF PreviewRect, Empty, Rect
  <2>3. CASE mode = "PreviewOnly"
    <3>1. l.preview = Rect(x, y, x + g, bottom)
      BY <2>1, <2>3 DEF PreviewRect
    <3> QED
      BY <1>3, <2>1, <3>1 DEF Rect
  <2>4. CASE mode = "Split"
    <3> DEFINE to == Greatest(j + DividerW + 50, x + g)
    <3>1. l.preview = Rect(j + DividerW, y, to, bottom)
      BY <2>1, <2>4 DEF PreviewRect
    <3>2. to \in Int
      BY <1>1, <1>3, <2>1 DEF Greatest
    <3> HIDE DEF to
    <3> QED
      BY <3>1, <3>2 DEF Rect
  <2> QED
    BY <2>2, <2>3, <2>4 DEF VIEW
<1>13. l.editor.left \in Int /\ l.outline.left \in Int /\ l.explorer.right \in Int
  BY <1>11 DEF Rect, Empty
<1> QED
  BY <1>12, <1>13

-----------------------------------------------------------------------------

\* What is saved when the window closes can be laid out again.
Saved(file) ==
    file.settings \in Settings /\ file.lastView \in VIEW /\ file.splitRatio \in Int /\ file.client \in Nat

WindowInv ==
    /\ client \in Nat /\ settings \in Settings /\ viewMode \in VIEW /\ ratio \in Ratio
    /\ drag \in {"None", "Split", "Outline", "Explorer"}
    /\ running \in BOOLEAN /\ (~running => Saved(ini))

LEMMA LogicalIs ==
    ASSUME NEW n \in Int
    PROVE  Logical(n) \in Panel
<1>1. Dpi \in Nat /\ Dpi > 0
  BY WindowAssumption
<1>2. 2 * n * 96 + Dpi \in Int /\ 2 * (-n) * 96 + Dpi \in Int /\ 2 * Dpi \in Nat \ {0}
  BY <1>1
<1>3. (2 * n * 96 + Dpi) \div (2 * Dpi) \in Int /\ (2 * (-n) * 96 + Dpi) \div (2 * Dpi) \in Int
  BY <1>2
<1>4. MulDiv(n, 96, Dpi) \in Int
  BY <1>3 DEF MulDiv
<1> DEFINE m == MulDiv(n, 96, Dpi)
<1>5. Logical(n) = ClampTo(140, 600, m)
  BY DEF Logical, MinPanelWidth, MaxPanelWidth
<1>6. m \in Int
  BY <1>4
<1> HIDE DEF m
<1> QED
  BY <1>5, <1>6 DEF ClampTo, Panel, MinPanelWidth, MaxPanelWidth

LEMMA DraggedRatioIs ==
    ASSUME WindowInv, NEW x \in Int
    PROVE  DraggedRatio(Layout, x) \in Ratio
<1> DEFINE l == Layout
           d == l.preview.right - l.editor.left - DividerW
           n == x - l.editor.left - DividerW \div 2
<1>1. l.preview.right \in Int /\ l.editor.left \in Int
  BY EdgesAreNumbers DEF Layout, WindowInv
<1>2. DividerW \in Nat
  BY ScaleIs
<1>3. CASE l.preview.right - l.editor.left > DividerW
  <2>1. d \in Nat \ {0} /\ n \in Int
    BY <1>1, <1>2, <1>3
  <2>2. DraggedRatio(l, x) = ClampRatio(n, d)
    BY <1>3 DEF DraggedRatio
  <2> HIDE DEF n, d
  <2> QED
    BY <2>1, <2>2 DEF ClampRatio, Ratio, MinSplitRatio, MaxSplitRatio
<1>4. CASE ~(l.preview.right - l.editor.left > DividerW)
  BY <1>4 DEF DraggedRatio, WindowInv
<1> QED
  BY <1>3, <1>4

LEMMA SettingsWith ==
    ASSUME NEW s \in Settings
    PROVE  /\ \A name \in {"showExplorer", "showOutline", "showToolbar", "showFormatBar"} :
                 [s EXCEPT ![name] = ~@] \in Settings
           /\ [s EXCEPT !.showExplorer = TRUE] \in Settings
           /\ \A n \in Panel : [s EXCEPT !.outlineWidth = n] \in Settings /\ [s EXCEPT !.explorerWidth = n] \in Settings
           /\ Sanitize(s) \in Settings
<1>1. \A name \in {"showExplorer", "showOutline", "showToolbar", "showFormatBar"} : [s EXCEPT ![name] = ~@] \in Settings
  BY DEF Settings
<1>2. [s EXCEPT !.showExplorer = TRUE] \in Settings
  BY DEF Settings
<1>3. \A n \in Panel : [s EXCEPT !.outlineWidth = n] \in Settings /\ [s EXCEPT !.explorerWidth = n] \in Settings
  BY DEF Settings
<1>4. Sanitize(s) \in Settings
  <2>1. s.outlineWidth \in Panel /\ s.explorerWidth \in Panel
    BY DEF Settings
  <2>2. /\ ClampTo(MinPanelWidth, MaxPanelWidth, s.outlineWidth) \in Panel
        /\ ClampTo(MinPanelWidth, MaxPanelWidth, s.explorerWidth) \in Panel
    BY <2>1 DEF ClampTo, Panel, MinPanelWidth, MaxPanelWidth
  <2> QED
    BY <2>2 DEF Sanitize, Settings
<1> QED
  BY <1>1, <1>2, <1>3, <1>4

LEMMA RearrangeKeepsWindow ==
    ASSUME WindowInv, running, Rearrange \/ ToggleSetting("showExplorer") \/ Resize
    PROVE  WindowInv'
<1> USE DEF WindowInv
<1>1. ASSUME NEW name \in {"showExplorer", "showOutline", "showToolbar", "showFormatBar"}, ToggleSetting(name)
      PROVE  WindowInv'
  <2>1. settings' = [settings EXCEPT ![name] = ~@]
    BY <1>1 DEF ToggleSetting, SetSettings
  <2>2. settings' \in Settings
    BY <2>1, SettingsWith
  <2> QED
    BY <1>1, <2>2 DEF ToggleSetting
<1>2. CASE SetViewMode
  BY <1>2 DEF SetViewMode
<1>3. CASE Resize
  BY <1>3, WindowAssumption DEF Resize
<1>4. CASE StartDrag
  BY <1>4 DEF StartDrag, DividerOf
<1>5. CASE EndDrag
  BY <1>5 DEF EndDrag
<1>6. CASE Drag
  <2>1. PICK x \in Int : drag # "None" /\ DragDividerTo(x)
    BY <1>6, WindowAssumption DEF Drag
  <2>2. UNCHANGED <<running, client, viewMode, drag, ini>>
    BY <1>6 DEF Drag
  <2>3. CASE drag = "Split"
    <3>1. ratio' = DraggedRatio(Layout, x) /\ UNCHANGED settings
      BY <2>1, <2>3 DEF DragDividerTo
    <3> QED
      BY <2>2, <3>1, DraggedRatioIs
  <2>4. CASE drag = "Outline"
    <3> DEFINE n == x - Layout.outline.left - DividerW \div 2
    <3>1. settings' = [settings EXCEPT !.outlineWidth = Logical(n)] /\ UNCHANGED ratio
      BY <2>1, <2>4 DEF DragDividerTo, SetSettings
    <3>2. n \in Int
      BY EdgesAreNumbers, ScaleIs DEF Layout
    <3> HIDE DEF n
    <3>3. settings' \in Settings
      BY <3>1, <3>2, LogicalIs, SettingsWith
    <3> QED
      BY <2>2, <3>1, <3>3
  <2>5. CASE drag = "Explorer"
    <3> DEFINE n == Layout.explorer.right - x - DividerW \div 2
    <3>1. settings' = [settings EXCEPT !.explorerWidth = Logical(n)] /\ UNCHANGED ratio
      BY <2>1, <2>5 DEF DragDividerTo, SetSettings
    <3>2. n \in Int
      BY EdgesAreNumbers, ScaleIs DEF Layout
    <3> HIDE DEF n
    <3>3. settings' \in Settings
      BY <3>1, <3>2, LogicalIs, SettingsWith
    <3> QED
      BY <2>2, <3>1, <3>3
  <2> QED
    BY <2>1, <2>3, <2>4, <2>5
<1>7. CASE ResetDivider
  <2>1. PICK d \in DOMAIN DividerOf :
            CASE d = "Split" -> ratio' = <<500, 1000>> /\ RelayoutTo(settings, viewMode, ratio', client) /\ UNCHANGED settings
              [] d = "Outline" -> SetSettings([settings EXCEPT !.outlineWidth = DefaultPanelWidth]) /\ UNCHANGED ratio
              [] d = "Explorer" -> SetSettings([settings EXCEPT !.explorerWidth = DefaultPanelWidth]) /\ UNCHANGED ratio
    BY <1>7 DEF ResetDivider
  <2>2. UNCHANGED <<running, client, viewMode, drag, ini>>
    BY <1>7 DEF ResetDivider
  <2>3. DefaultPanelWidth \in Panel
    BY DEF DefaultPanelWidth, Panel, MinPanelWidth, MaxPanelWidth
  <2>4. CASE d = "Split"
    <3>1. ratio' = <<500, 1000>> /\ UNCHANGED settings
      BY <2>1, <2>4
    <3> QED
      BY <2>2, <3>1 DEF Ratio
  <2>5. CASE d = "Outline"
    <3>1. settings' = [settings EXCEPT !.outlineWidth = DefaultPanelWidth] /\ UNCHANGED ratio
      BY <2>1, <2>5 DEF SetSettings
    <3> QED
      BY <2>2, <2>3, <3>1, SettingsWith
  <2>6. CASE d = "Explorer"
    <3>1. settings' = [settings EXCEPT !.explorerWidth = DefaultPanelWidth] /\ UNCHANGED ratio
      BY <2>1, <2>6 DEF SetSettings
    <3> QED
      BY <2>2, <2>3, <3>1, SettingsWith
  <2> QED
    BY <2>4, <2>5, <2>6 DEF DividerOf
<1>8. ASSUME NEW name \in Toggled
      PROVE  name \in {"showExplorer", "showOutline", "showToolbar", "showFormatBar"}
  BY WindowAssumption
<1> QED
  BY <1>1, <1>2, <1>3, <1>4, <1>5, <1>6, <1>7, <1>8 DEF Rearrange

LEMMA CloseKeepsWindow ==
    ASSUME WindowInv, Close
    PROVE  WindowInv'
<1> USE DEF WindowInv
<1>1. ini' = Serialized /\ ~running'
  BY DEF Close
<1>2. Thousandths(ratio) \in Int
  <2>1. ratio[1] \in Int /\ ratio[2] \in Nat \ {0}
    BY DEF Ratio
  <2>2. 2000 * ratio[1] + ratio[2] \in Int /\ 2 * ratio[2] \in Nat \ {0}
    BY <2>1
  <2> QED
    BY <2>2 DEF Thousandths
<1>3. Saved(Serialized)
  <2>1. Sanitize(settings) \in Settings
    BY SettingsWith
  <2> QED
    BY <1>2, <2>1 DEF Saved, Serialized
<1> QED
  BY <1>1, <1>3 DEF Close

LEMMA StartKeepsWindow ==
    ASSUME WindowInv, Start
    PROVE  WindowInv'
<1> USE DEF WindowInv
<1>1. Saved(ini)
  BY DEF Start
<1> DEFINE s == Parsed(ini)
<1>2. running' = TRUE /\ client' = s.client /\ settings' = s.settings /\ viewMode' = s.lastView /\ ratio' = s.splitRatio
      /\ UNCHANGED drag
  BY DEF Start, StartFrom
<1>3. /\ s.client = ini.client /\ s.settings = Sanitize(ini.settings) /\ s.lastView = ini.lastView
      /\ s.splitRatio = <<ClampTo(MinSplitRatio, MaxSplitRatio, ini.splitRatio), 1000>>
  BY DEF Parsed
<1> HIDE DEF s
<1>4. Sanitize(ini.settings) \in Settings
  BY <1>1, SettingsWith DEF Saved
<1>5. s.splitRatio \in Ratio
  <2>1. ClampTo(MinSplitRatio, MaxSplitRatio, ini.splitRatio) \in Int
    BY <1>1 DEF Saved, ClampTo, MinSplitRatio, MaxSplitRatio
  <2> QED
    BY <1>3, <2>1 DEF Ratio
<1> QED
  BY <1>1, <1>2, <1>3, <1>4, <1>5 DEF Saved

\* The window keeps a layout that can be laid out: the widths of the panels are within their limits,
\* the ratio is a fraction, and what is saved is as sound as what is shown (ParseSettings, Create).
THEOREM WindowInvariant == Spec => []WindowInv
<1>1. Init => WindowInv
  BY WindowAssumption DEF Init, WindowInv, Defaults, DefaultPanelWidth, Settings, Panel, MinPanelWidth, MaxPanelWidth, VIEW, Ratio
<1>2. ASSUME WindowInv, [Next]_vars
      PROVE  WindowInv'
  <2>1. CASE UNCHANGED windowVars
    BY <1>2, <2>1 DEF windowVars, WindowInv, Saved
  <2>2. CASE running /\ OpenFolder
    <3>1. settings' = [settings EXCEPT !.showExplorer = TRUE] /\ UNCHANGED <<running, client, viewMode, ratio, drag, ini>>
      BY <2>2 DEF OpenFolder
    <3> QED
      BY <1>2, <2>2, <3>1, SettingsWith DEF WindowInv
  <2>3. CASE running /\ (Rearrange \/ ToggleSetting("showExplorer") \/ Resize)
    BY <1>2, <2>3, RearrangeKeepsWindow
  <2>4. CASE Close
    BY <1>2, <2>4, CloseKeepsWindow
  <2>5. CASE Start
    BY <1>2, <2>5, StartKeepsWindow
  <2> QED
    BY <1>2, <2>1, <2>2, <2>3, <2>4, <2>5 DEF Next, vars
<1> QED
  BY <1>1, <1>2, PTL DEF Spec

LEMMA LimitIsNumber ==
    ASSUME NEW w \in Int
    PROVE  RightLimit(w) \in Int
<1>1. Len(Items) \in Nat /\ DOMAIN Items = 1 .. Len(Items) /\ Pad \in Nat /\ Gap \in Nat /\ ButtonWidth \in Nat
  BY ToolbarAssumption
<1> DEFINE others == DOMAIN Items \ Left
<1>2. IsFiniteSet(others)
  <2>1. IsFiniteSet(1 .. Len(Items))
    BY <1>1, FS_Interval
  <2> QED
    BY <1>1, <2>1, FS_Subset
<1>3. Cardinality(others) \in Nat
  BY <1>2, FS_CardinalityType
<1> DEFINE n == Cardinality(others)
<1>4. RightLimit(w) = (w - Pad) - n * (ButtonWidth + Gap)
  BY DEF RightLimit
<1> HIDE DEF others, n
<1>5. n \in Nat
  BY <1>3 DEF n
<1> QED
  BY <1>1, <1>4, <1>5

\* At any width, view, ratio and widths of the panels, and on any toolbar: in a window wide enough the
\* panes fill it side by side and the toolbar shows or offers every command (ComputeLayout,
\* Toolbar::Layout).
THEOREM PanesAlwaysTile == Spec => []PanesTile
<1>1. WindowInv => PanesTile
  <2> SUFFICES ASSUME WindowInv, running, WideEnough(client)
               PROVE  Tile(Layout, client, viewMode) /\ Fit(client)
    BY DEF PanesTile
  <2>1. Tile(Layout, client, viewMode)
    BY LayoutTiles DEF Layout, WindowInv, WideEnough
  <2>2. client \in Int
    BY DEF WindowInv
  <2>3. Fit(client)
    BY <2>2, LimitIsNumber, ToolbarFits DEF WideEnough
  <2> QED
    BY <2>1, <2>3
<1> QED
  BY <1>1, WindowInvariant, PTL
=============================================================================
