----------------------------- MODULE DiskProofs -----------------------------
(***************************************************************************)
(* Theorems about the blocks, directories and open files of FileSystem,    *)
(* for a disk, a table and a set of names of any size: no block is shared, *)
(* chains are as long as files, the open file table has no stale copy and  *)
(* is a path from the root, and all searches of a directory agree; what is *)
(* typed into a file only follows what was there; a my_cd that fails stops *)
(* on the way to the working directory; only do_write loses blocks; and    *)
(* no command changes the text of a file that is not open.                 *)
(*                                                                         *)
(* The invariant FsInv describes disk and table by a set D of directories  *)
(* that is closed under entries.  Each operation is shown to leave such a  *)
(* set: createfile adds the new directory's block to it, deleteFile takes  *)
(* away those that hang from the entry, and the others leave it as it is.  *)
(* DirsHold then turns to the set Dirs of those that can be reached, which *)
(* the properties speak of.                                                *)
(***************************************************************************)
EXTENDS FileSystemProofs, FiniteSetTheorems

(* The links of the table lead from block to block, to no free one, and    *)
(* no two to the same.                                                     *)
LinksSound(fat) ==
  /\ \A c \in Block : fat[c] \in Block \cup {END, FREE}
  /\ \A c \in Block : fat[c] \in Block => fat[fat[c]] # FREE
  /\ \A b, c \in Block : fat[b] \in Block /\ fat[b] = fat[c] => b = c

(* Block b is taken, and no link leads to it. *)
Begins(fat, b) == b \in Block /\ fat[b] # FREE /\ \A c \in Block : fat[c] # b

StoredNames == {Stored[n] : n \in Names}

(* Block b holds a directory: "." and "..", then entries, and the names    *)
(* that an earlier file or directory left in it only behind them.          *)
DirBlock(fat, d, b) ==
  /\ Begins(fat, b) /\ fat[b] = END
  /\ \A s \in Slot : d[b][s] \in Fcb
  /\ d[b][0].name = "." /\ d[b][0].use /\ judgeDir(d[b][0]) /\ d[b][0].s_block = b
  /\ d[b][1].name = ".." /\ d[b][1].use /\ judgeDir(d[b][1])
  /\ \A s \in UsedSlots(d[b]) : d[b][s].name \in StoredNames
  /\ \A s \in EntrySlot : ~d[b][s].use /\ d[b][s].name # "" =>
       \A r \in UsedSlots(d[b]) : r < s

(* f is the FCB of a directory among D, with its length; or of a file      *)
(* with a chain of its own that is as long as its length needs.            *)
EntrySound(fat, d, D, f) ==
  /\ judgeDir(f) => f.s_block \in D \ {Root} /\ f.len = Cardinality(UsedSlots(d[f.s_block]))
  /\ ~judgeDir(f) => /\ f.s_block \in Block \ D /\ Begins(fat, f.s_block)
                     /\ f.len >= 0 /\ Walks(fat, f.s_block, f.len \div FCB_NUM) # {}

(* D is a set of directories that is closed under entries; no two entries  *)
(* are of the same block, or have the same name in one directory.          *)
TreeSound(fat, d, D) ==
  /\ D \subseteq Block /\ Root \in D
  /\ \A b \in D : DirBlock(fat, d, b)
  /\ d[Root][0].len = Cardinality(UsedSlots(d[Root]))
  /\ \A b \in D : \A s \in UsedSlots(d[b]) : EntrySound(fat, d, D, d[b][s])
  /\ \A b, c \in D : \A s \in UsedSlots(d[b]), r \in UsedSlots(d[c]) :
       d[b][s].s_block = d[c][r].s_block => b = c /\ s = r
  /\ \A b \in D : \A s, r \in UsedSlots(d[b]) :
       d[b][s].name = d[b][r].name /\ judgeDir(d[b][s]) = judgeDir(d[b][r]) => s = r

(* The entries 0 .. k of the table o are copies of entries of the disk, a  *)
(* path from the root, and those above are blank.                          *)
PathSound(d, D, o, k) ==
  /\ \A i \in OftIdx : i > k => o[i] = BlankOft
  /\ o[0].pdfBlockNo = Root /\ o[0].fdEntryNo = 0 /\ o[0].dirName = <<"root">>
  /\ \A i \in 0 .. k : /\ o[i].isUse /\ Len(o[i].dirName) = i + 1
                       /\ d[o[i].pdfBlockNo][o[i].fdEntryNo] = o[i].fcb
  /\ \A i \in 1 .. k :
       /\ judgeDir(o[i - 1].fcb)
       /\ o[i].pdfBlockNo = o[i - 1].fcb.s_block /\ o[i].pdfBlockNo \in D
       /\ o[i].fdEntryNo \in UsedSlots(d[o[i].pdfBlockNo])
       /\ \E n \in Names : /\ Stored[n] = o[i].fcb.name
                           /\ o[i].dirName = Append(o[i - 1].dirName, n)
  /\ \A i, j \in 0 .. k : o[i].fcb.s_block = o[j].fcb.s_block => i = j

(* Text is typed into a file, at its end. *)
TextSound(m, f, p) == m = "text" => ~judgeDir(f) /\ p = f.len

(* The invariant, for a set of directories. *)
Holds(D) ==
  /\ LinksSound(fat1)
  /\ TextSound(mode, cur.fcb, cur.filePtr)
  /\ TreeSound(fat1, disk, D)
  /\ PathSound(disk, D, oft, currOftIndex)

FsInv == TypeOK /\ \E D \in SUBSET Block : Holds(D)

(* The uses that the theorems are about: my_open is typed in directories   *)
(* only, and names are not cut.                                            *)
GoodUse == ~OpenInsideFile /\ \A n \in Names : Stored[n] = n

(* The store behind the table stays out of the directories.                *)
StrayMisses == StrayBlock \notin Dirs
-----------------------------------------------------------------------------
(* The allocation table. *)

(* FatChain without its pairs: a set that holds b and is closed under the  *)
(* links holds the chain of b, and the chain is such a set.                *)
LEMMA ChainIsLeast ==
  ASSUME NEW fat, NEW b \in Block
  PROVE  /\ FatChain(fat, b) \subseteq Block
         /\ b \in FatChain(fat, b)
         /\ \A c \in FatChain(fat, b) : fat[c] \in Block => fat[c] \in FatChain(fat, b)
         /\ \A S \in SUBSET Block :
              b \in S /\ (\A c \in S : fat[c] \in Block => fat[c] \in S)
                => FatChain(fat, b) \subseteq S
<1> DEFINE links == {<<c, fat[c]>> : c \in {c \in Block : fat[c] \in Block}}
           Closed(S) == \A p \in links : p[1] \in S => p[2] \in S
<1>1. FatChain(fat, b) = {y \in Block : \A S \in SUBSET Block : b \in S /\ Closed(S) => y \in S}
  BY DEF FatChain, Reachable
<1>2. ASSUME NEW S \in SUBSET Block
      PROVE  Closed(S) <=> \A c \in S : fat[c] \in Block => fat[c] \in S
  <2>1. ASSUME Closed(S), NEW c \in S, fat[c] \in Block PROVE fat[c] \in S
    <3>1. <<c, fat[c]>> \in links
      BY <2>1
    <3>2. <<c, fat[c]>>[1] \in S => <<c, fat[c]>>[2] \in S
      BY <2>1, <3>1
    <3> QED
      BY <3>2, <2>1
  <2>2. ASSUME \A c \in S : fat[c] \in Block => fat[c] \in S, NEW p \in links, p[1] \in S
        PROVE  p[2] \in S
    <3>1. PICK c \in Block : fat[c] \in Block /\ p = <<c, fat[c]>>
      BY <2>2
    <3> QED
      BY <2>2, <3>1
  <2> QED
    BY <2>1, <2>2
<1> HIDE DEF Closed
<1>3. ASSUME NEW c \in FatChain(fat, b), fat[c] \in Block
      PROVE  fat[c] \in FatChain(fat, b)
  <2>1. ASSUME NEW S \in SUBSET Block, b \in S, Closed(S) PROVE fat[c] \in S
    BY <1>1, <1>2, <1>3, <2>1
  <2> QED
    BY <1>1, <1>3, <2>1
<1>4. ASSUME NEW S \in SUBSET Block, b \in S,
             \A c \in S : fat[c] \in Block => fat[c] \in S
      PROVE  FatChain(fat, b) \subseteq S
  <2>1. Closed(S)
    BY <1>2, <1>4
  <2> QED
    BY <1>1, <1>4, <2>1
<1>5. FatChain(fat, b) \subseteq Block /\ b \in FatChain(fat, b)
  BY <1>1
<1> QED
  BY <1>3, <1>4, <1>5

(* Every block of a chain but the first has the one before it in it.       *)
LEMMA ChainHasPredecessors ==
  ASSUME NEW fat, NEW b \in Block, NEW c \in FatChain(fat, b), c # b
  PROVE  \E a \in FatChain(fat, b) : fat[a] = c
<1> SUFFICES ASSUME \A a \in FatChain(fat, b) : fat[a] # c PROVE FALSE
  OBVIOUS
<1> DEFINE S == FatChain(fat, b) \ {c}
<1>1. S \in SUBSET Block /\ b \in S
  BY ChainIsLeast
<1>2. \A a \in S : fat[a] \in Block => fat[a] \in S
  BY ChainIsLeast
<1> HIDE DEF S
<1>3. FatChain(fat, b) \subseteq S
  BY <1>1, <1>2, ChainIsLeast
<1> QED
  BY <1>3 DEF S

(* A block that no link leads to is in no other block's chain.             *)
LEMMA BeginsOnlyItsChain ==
  ASSUME NEW fat, NEW b \in Block, NEW c, Begins(fat, c), c \in FatChain(fat, b)
  PROVE  c = b
BY ChainHasPredecessors, ChainIsLeast DEF Begins

(* Where a link leads into a chain it comes from the chain.                *)
LEMMA ChainIsClosedBackwards ==
  ASSUME NEW fat, LinksSound(fat), NEW b, Begins(fat, b),
         NEW a \in Block, fat[a] \in FatChain(fat, b)
  PROVE  a \in FatChain(fat, b)
<1>1. b \in Block /\ fat[a] # b /\ fat[a] \in Block
  BY ChainIsLeast DEF Begins
<1>2. PICK c \in FatChain(fat, b) : fat[c] = fat[a]
  BY <1>1, ChainHasPredecessors
<1>3. c = a
  BY <1>1, <1>2, ChainIsLeast DEF LinksSound
<1> QED
  BY <1>2, <1>3

(* Chains of blocks that no link leads to are disjoint.                    *)
LEMMA ChainsAreDisjoint ==
  ASSUME NEW fat, LinksSound(fat), NEW b, NEW c, Begins(fat, b), Begins(fat, c), b # c
  PROVE  FatChain(fat, b) \cap FatChain(fat, c) = {}
<1> DEFINE S == FatChain(fat, b) \ FatChain(fat, c)
<1>0. b \in Block /\ c \in Block
  BY DEF Begins
<1>1. S \in SUBSET Block /\ b \in S
  BY <1>0, ChainIsLeast, BeginsOnlyItsChain
<1>2. ASSUME NEW a \in S, fat[a] \in Block PROVE fat[a] \in S
  BY <1>0, <1>1, <1>2, ChainIsLeast, ChainIsClosedBackwards
<1>3. FatChain(fat, b) \subseteq S
  BY <1>0, <1>1, <1>2, ChainIsLeast
<1> QED
  BY <1>3

(* Taken blocks lead to taken blocks. *)
LEMMA ChainIsTaken ==
  ASSUME NEW fat, LinksSound(fat), NEW b \in Block, fat[b] # FREE
  PROVE  \A c \in FatChain(fat, b) : fat[c] # FREE
<1> DEFINE S == {c \in Block : fat[c] # FREE}
<1>1. S \in SUBSET Block /\ b \in S
  OBVIOUS
<1>2. \A a \in S : fat[a] \in Block => fat[a] \in S
  BY DEF LinksSound
<1>3. FatChain(fat, b) \subseteq S
  BY <1>1, <1>2, ChainIsLeast
<1> QED
  BY <1>3

(* END and FREE are marks, not numbers of blocks. *)
LEMMA MarksAreNoBlocks == END \notin Block /\ FREE \notin Block /\ END # FREE
BY BlockNum DEF Block, BLOCK_INDEX_ROOT_DIR, END, FREE

(* A chain that begins somewhere ends: were each of its blocks linked to   *)
(* another of them, the links would make a permutation of the chain, and   *)
(* one would lead to its first block.                                      *)
LEMMA ChainEnds ==
  ASSUME NEW fat, LinksSound(fat), NEW b, Begins(fat, b)
  PROVE  \E c \in FatChain(fat, b) : fat[c] = END
<1> DEFINE S == FatChain(fat, b)
           next == [c \in S |-> fat[c]]
<1>0. b \in Block /\ fat[b] # FREE
  BY DEF Begins
<1>1. S \subseteq Block /\ b \in S /\ \A c \in S : fat[c] \in Block => fat[c] \in S
  BY <1>0, ChainIsLeast
<1> SUFFICES ASSUME \A c \in S : fat[c] # END PROVE FALSE
  OBVIOUS
<1>2. \A c \in S : fat[c] \in S
  BY <1>0, <1>1, ChainIsTaken DEF LinksSound
<1>3. IsFiniteSet(S)
  <2>1. IsFiniteSet(Block)
    BY BlockNum, FS_Interval DEF Block, BLOCK_INDEX_ROOT_DIR
  <2> QED
    BY <2>1, <1>1, FS_Subset
<1>4. next \in [S -> S]
  BY <1>2
<1>5. \A c, e \in S : next[c] = next[e] => c = e
  BY <1>1, <1>2 DEF LinksSound
<1>6. \A c \in S : next[c] # b
  BY <1>1 DEF Begins
<1> HIDE DEF S, next
<1>7. next \in Injection(S, S)
  BY <1>4, <1>5, Zenon DEF Injection, IsInjective
<1>8. next \in Surjection(S, S)
  BY <1>3, <1>7, FS_Injection
<1>9. \E c \in S : next[c] = b
  BY ONLY <1>8, <1>1, Zenon DEF Surjection
<1> QED
  BY <1>6, <1>9
-----------------------------------------------------------------------------
(* Walks along the table. *)

(* A walk, link by link. *)
LEMMA WalkIs ==
  ASSUME NEW fat, NEW b, NEW n \in Nat, NEW w \in Walks(fat, b, n)
  PROVE  /\ w \in [0 .. n -> Block] /\ w[0] = b
         /\ \A k \in 0 .. n - 1 : fat[w[k]] = w[k + 1]
         /\ \A k \in 0 .. n : k # 0 => k - 1 \in 0 .. n - 1 /\ fat[w[k - 1]] = w[k]
<1>1. /\ w \in [0 .. n -> Block] /\ w[0] = b
      /\ \A k \in 0 .. n - 1 : fat[w[k]] = w[k + 1]
  BY DEF Walks
<1>2. ASSUME NEW k \in 0 .. n, k # 0 PROVE k - 1 \in 0 .. n - 1 /\ fat[w[k - 1]] = w[k]
  <2>1. k - 1 \in 0 .. n - 1 /\ (k - 1) + 1 = k
    BY <1>2
  <2> QED
    BY <2>1, <1>1
<1> QED
  BY <1>1, <1>2

(* A set of positions of a walk that begins with none of them, and has     *)
(* with each the one before it, is empty.                                  *)
LEMMA NoFirstPosition ==
  ASSUME NEW n \in Nat, NEW S \in SUBSET (0 .. n), 0 \notin S,
         \A k \in S : k # 0 => k - 1 \in S
  PROVE  S = {}
<1> SUFFICES ASSUME S # {} PROVE FALSE
  OBVIOUS
<1>1. S \in SUBSET Nat
  OBVIOUS
<1>2. PICK k \in S : \A m \in S : k <= m
  BY <1>1, MinInSet
<1>3. k # 0 /\ k - 1 \in S
  BY <1>2
<1>4. k <= k - 1 /\ k \in Int
  BY <1>2, <1>3
<1> QED
  BY <1>4

(* A walk that does not begin in S, which links enter only from within,    *)
(* never comes there.                                                      *)
LEMMA WalkAvoids ==
  ASSUME NEW fat, NEW b, NEW n \in Nat, NEW w \in Walks(fat, b, n),
         NEW S, b \notin S, \A c \in Block : fat[c] \in S => c \in S
  PROVE  \A k \in 0 .. n : w[k] \notin S
<1> DEFINE P == {k \in 0 .. n : w[k] \in S}
<1>1. w[0] \notin S
  BY WalkIs
<1>2. ASSUME NEW k \in P, k # 0 PROVE k - 1 \in P
  <2>1. k - 1 \in 0 .. n /\ w[k - 1] \in Block /\ fat[w[k - 1]] = w[k]
    BY <1>2, WalkIs
  <2> QED
    BY <2>1
<1>3. P = {}
  <2>1. P \in SUBSET (0 .. n) /\ 0 \notin P
    BY <1>1
  <2> HIDE DEF P
  <2> QED
    BY <2>1, <1>2, NoFirstPosition
<1> QED
  BY <1>3

(* A walk stays in the chain of its first block. *)
LEMMA WalkInChain ==
  ASSUME NEW fat, NEW b \in Block, NEW n \in Nat, NEW w \in Walks(fat, b, n)
  PROVE  \A k \in 0 .. n : w[k] \in FatChain(fat, b)
<1> DEFINE P == {k \in 0 .. n : w[k] \notin FatChain(fat, b)}
<1>1. w[0] \in FatChain(fat, b)
  BY WalkIs, ChainIsLeast
<1>2. ASSUME NEW k \in P, k # 0 PROVE k - 1 \in P
  <2>1. k - 1 \in 0 .. n /\ w[k] \in Block /\ fat[w[k - 1]] = w[k]
    BY <1>2, WalkIs
  <2> QED
    BY <2>1, ChainIsLeast
<1>3. P = {}
  <2>1. P \in SUBSET (0 .. n) /\ 0 \notin P
    BY <1>1
  <2> HIDE DEF P
  <2> QED
    BY <2>1, <1>2, NoFirstPosition
<1> QED
  BY <1>3

(* Two walks from a block are the same as far as both go.                  *)
LEMMA WalksAgree ==
  ASSUME NEW fat, NEW b, NEW n \in Nat, NEW m \in Nat, n <= m,
         NEW w \in Walks(fat, b, n), NEW v \in Walks(fat, b, m)
  PROVE  \A k \in 0 .. n : w[k] = v[k]
<1> DEFINE P == {k \in 0 .. n : w[k] # v[k]}
<1>1. w[0] = v[0]
  BY WalkIs
<1>2. ASSUME NEW k \in P, k # 0 PROVE k - 1 \in P
  <2>1. k \in 0 .. m
    BY <1>2
  <2>2. k - 1 \in 0 .. n /\ fat[w[k - 1]] = w[k] /\ fat[v[k - 1]] = v[k]
    BY <1>2, <2>1, WalkIs
  <2> QED
    BY <1>2, <2>2
<1>3. P = {}
  <2>1. P \in SUBSET (0 .. n) /\ 0 \notin P
    BY <1>1
  <2> HIDE DEF P
  <2> QED
    BY <2>1, <1>2, NoFirstPosition
<1> QED
  BY <1>3

(* A walk comes to no block twice: the blocks before two equal ones would  *)
(* be equal, and so on to the first, to which no link leads.               *)
LEMMA WalkIsInjective ==
  ASSUME NEW fat, LinksSound(fat), NEW b, Begins(fat, b), NEW n \in Nat,
         NEW w \in Walks(fat, b, n)
  PROVE  \A i, j \in 0 .. n : w[i] = w[j] => i = j
<1> DEFINE P == {i \in 0 .. n : \E j \in 0 .. n : i < j /\ w[i] = w[j]}
<1>1. 0 \notin P
  <2> SUFFICES ASSUME NEW j \in 0 .. n, 0 < j, w[0] = w[j] PROVE FALSE
    OBVIOUS
  <2>1. j - 1 \in 0 .. n - 1 /\ fat[w[j - 1]] = b /\ w[j - 1] \in Block
    BY WalkIs
  <2> QED
    BY <2>1 DEF Begins
<1>2. ASSUME NEW i \in P, i # 0 PROVE i - 1 \in P
  <2>1. PICK j \in 0 .. n : i < j /\ w[i] = w[j]
    BY <1>2
  <2>2. /\ i - 1 \in 0 .. n /\ fat[w[i - 1]] = w[i] /\ w[i - 1] \in Block /\ w[i] \in Block
        /\ j - 1 \in 0 .. n /\ fat[w[j - 1]] = w[j] /\ w[j - 1] \in Block
    BY <1>2, <2>1, WalkIs
  <2>3. w[i - 1] = w[j - 1]
    BY <2>1, <2>2 DEF LinksSound
  <2> QED
    BY <2>1, <2>2, <2>3
<1>3. P = {}
  <2>1. P \in SUBSET (0 .. n)
    OBVIOUS
  <2> HIDE DEF P
  <2> QED
    BY <2>1, <1>1, <1>2, NoFirstPosition
<1>4. ASSUME NEW i \in 0 .. n, NEW j \in 0 .. n, i < j PROVE w[i] # w[j]
  BY <1>3, <1>4
<1> QED
  BY <1>4

(* The chain from the end of a walk has none of the blocks before it.      *)
LEMMA WalkIsBeforeRest ==
  ASSUME NEW fat, LinksSound(fat), NEW b, Begins(fat, b), NEW n \in Nat,
         NEW w \in Walks(fat, b, n)
  PROVE  \A k \in 0 .. n - 1 : w[k] \notin FatChain(fat, w[n])
<1> DEFINE rest == FatChain(fat, w[n])
           P == {k \in 0 .. n : k # n /\ w[k] \in rest}
<1>0. n \in 0 .. n /\ w[n] \in Block /\ w \in [0 .. n -> Block] /\ w[0] = b
  BY WalkIs
<1>1. 0 \notin P
  <2> SUFFICES ASSUME 0 # n, w[0] \in rest PROVE FALSE
    OBVIOUS
  <2>1. b = w[n]
    BY <1>0, BeginsOnlyItsChain
  <2> QED
    BY <1>0, <2>1, WalkIsInjective
<1>2. ASSUME NEW k \in P, k # 0 PROVE k - 1 \in P
  <2>1. k - 1 \in 0 .. n /\ k - 1 # n /\ fat[w[k - 1]] = w[k] /\ w[k - 1] \in Block
        /\ w[k] \in Block /\ k \in 0 .. n /\ k # n /\ w[k] \in rest
    BY <1>2, WalkIs
  <2>2. w[k] # w[n]
    BY <1>0, <2>1, WalkIsInjective
  <2>3. PICK c \in rest : fat[c] = w[k]
    BY <1>0, <2>1, <2>2, ChainHasPredecessors
  <2>4. c \in Block
    BY <1>0, <2>3, ChainIsLeast
  <2>5. c = w[k - 1]
    BY <2>1, <2>3, <2>4 DEF LinksSound
  <2> QED
    BY <2>1, <2>3, <2>5
<1>3. P = {}
  <2>1. P \in SUBSET (0 .. n)
    OBVIOUS
  <2> HIDE DEF P
  <2> QED
    BY <2>1, <1>1, <1>2, NoFirstPosition
<1>4. ASSUME NEW k \in 0 .. n - 1 PROVE w[k] \notin rest
  <2>1. k \in 0 .. n /\ k # n
    OBVIOUS
  <2> QED
    BY <2>1, <1>3
<1> QED
  BY <1>4

(* A walk is one in every table that has the same links on its way.        *)
LEMMA WalkStays ==
  ASSUME NEW fat, NEW g, NEW b, NEW n \in Nat, NEW w \in Walks(fat, b, n),
         \A k \in 0 .. n - 1 : g[w[k]] = fat[w[k]]
  PROVE  w \in Walks(g, b, n)
BY DEF Walks
-----------------------------------------------------------------------------
(* Directories. *)

(* An FCB is not read as text, and its use field says whether it is in     *)
(* use.                                                                    *)
LEMMA FcbIsNoText == \A c \in Fcb : c \notin Texts /\ (InUse(c) <=> c.use)
BY TextAssumption DEF InUse

(* Less is asymmetric. *)
LEMMA NotBothLess == \A x, y \in Int : ~(x < y /\ y < x)
OBVIOUS

(* Slots are integers. *)
LEMMA SlotsAreInts == EntrySlot \subseteq Int /\ Slot \subseteq Int /\ EntrySlot \subseteq Slot
BY SizeAssumption DEF EntrySlot, Slot

(* Names and stored names are neither empty nor those of the own and the   *)
(* parent entry.                                                           *)
LEMMA NamesAreNames ==
  /\ \A n \in StoredNames : n # "" /\ n # "." /\ n # ".."
  /\ \A n \in Names : n # "" /\ n # "." /\ n # ".." /\ Stored[n] \in StoredNames
BY NameAssumption DEF StoredNames

(* The entries of a block can be counted. *)
LEMMA UsedIsFinite ==
  ASSUME NEW cells
  PROVE  /\ UsedSlots(cells) \subseteq EntrySlot /\ IsFiniteSet(UsedSlots(cells))
         /\ Cardinality(UsedSlots(cells)) \in Nat
<1>1. IsFiniteSet(EntrySlot)
  BY SizeAssumption, FS_Interval DEF EntrySlot
<1>2. UsedSlots(cells) \subseteq EntrySlot
  BY DEF UsedSlots
<1> QED
  BY <1>1, <1>2, FS_Subset, FS_CardinalityType

(* With a length that counts the entries, the search loops come to every   *)
(* entry and go no further than the last.                                  *)
LEMMA ScanIsExact ==
  ASSUME NEW cells
  PROVE  LET used == UsedSlots(cells)
             seen == Scanned(cells, Cardinality(used))
         IN  /\ used \subseteq seen /\ seen \subseteq EntrySlot
             /\ \A s \in seen : s \in used \/ \E r \in used : s < r
<1> DEFINE used == UsedSlots(cells)
           before(s) == {r \in used : r < s}
<1>1. used \subseteq EntrySlot /\ IsFiniteSet(used) /\ EntrySlot \subseteq Int
  BY UsedIsFinite, SizeAssumption DEF EntrySlot
<1>2. ASSUME NEW s \in used PROVE Cardinality(before(s)) < Cardinality(used)
  <2>a. s \in Int
    BY <1>1, Zenon
  <2>0. ~(s < s)
    BY <2>a
  <2>1. before(s) \in SUBSET used /\ s \notin before(s)
    BY <2>0, Zenon
  <2>2. before(s) # used
    BY <2>1
  <2> HIDE DEF before
  <2>3. /\ Cardinality(before(s)) <= Cardinality(used)
        /\ Cardinality(used) = Cardinality(before(s)) => used = before(s)
        /\ IsFiniteSet(before(s))
    BY <1>1, <2>1, FS_Subset
  <2>4. Cardinality(before(s)) \in Nat /\ Cardinality(used) \in Nat
    BY <1>1, <2>3, FS_CardinalityType
  <2> QED
    BY <2>2, <2>3, <2>4
<1>3. ASSUME NEW s \in EntrySlot, s \notin used, \A r \in used : ~(s < r)
      PROVE  ~(Cardinality(before(s)) < Cardinality(used))
  <2>0. ASSUME NEW r \in used PROVE r < s
    <3>1. r \in Int /\ s \in Int /\ r # s /\ ~(s < r)
      BY <1>1, <1>3
    <3> QED
      BY <3>1
  <2>1. before(s) = used
    BY <2>0
  <2>2. Cardinality(used) \in Nat
    BY <1>1, FS_CardinalityType
  <2> QED
    BY <2>1, <2>2
<1>4. Scanned(cells, Cardinality(used)) =
        {s \in EntrySlot : Cardinality(before(s)) < Cardinality(used)}
  BY DEF Scanned
<1> HIDE DEF used, before
<1>5. /\ used \subseteq Scanned(cells, Cardinality(used))
      /\ Scanned(cells, Cardinality(used)) \subseteq EntrySlot
      /\ \A s \in Scanned(cells, Cardinality(used)) : s \in used \/ \E r \in used : s < r
  BY <1>1, <1>2, <1>3, <1>4
<1> QED
  BY <1>5 DEF used

(* The slots of block b in use that have name n and the kind isdir.        *)
Matching(d, b, n, isdir) == {s \in UsedSlots(d[b]) : fileNameMatch(d[b][s], n, isdir)}

(* What the cells of a directory are. *)
LEMMA DirBlockIs ==
  ASSUME NEW fat, NEW d, NEW b, DirBlock(fat, d, b)
  PROVE  /\ \A s \in Slot : d[b][s] \in Fcb /\ d[b][s] \notin Texts
         /\ \A s \in Slot : InUse(d[b][s]) <=> d[b][s].use
         /\ \A s \in EntrySlot : s \in UsedSlots(d[b]) <=> d[b][s].use
         /\ EntrySlot \subseteq Slot /\ UsedSlots(d[b]) \subseteq EntrySlot
         /\ 0 \in Slot /\ 1 \in Slot /\ EntrySlot \subseteq Nat \ {0, 1}
<1>1. EntrySlot \subseteq Slot /\ 0 \in Slot /\ 1 \in Slot /\ EntrySlot \subseteq Nat \ {0, 1}
  BY SizeAssumption DEF Slot, EntrySlot
<1>2. \A s \in Slot : /\ d[b][s] \in Fcb /\ d[b][s] \notin Texts
                      /\ InUse(d[b][s]) <=> d[b][s].use
  BY FcbIsNoText DEF DirBlock
<1>3. \A s \in EntrySlot : s \in UsedSlots(d[b]) <=> d[b][s].use
  BY <1>1, <1>2 DEF UsedSlots
<1> QED
  BY <1>1, <1>2, <1>3 DEF UsedSlots

(* All searches for a name go over the entries in use that have it: what   *)
(* an unused slot among the entries has is the empty name.                 *)
LEMMA SearchedIsMatching ==
  ASSUME NEW fat, NEW d, NEW b, DirBlock(fat, d, b), NEW len,
         len = Cardinality(UsedSlots(d[b])), NEW n, n # "", NEW isdir
  PROVE  /\ Matching(d, b, n, isdir) \subseteq Scanned(d[b], len)
         /\ \A s \in Scanned(d[b], len) :
              /\ fileNameMatch(d[b][s], n, isdir) <=> s \in Matching(d, b, n, isdir)
              /\ s \in Matching(d, b, n, isdir) => InUse(d[b][s])
<1> DEFINE used == UsedSlots(d[b])
           seen == Scanned(d[b], len)
<1>1. /\ used \subseteq seen /\ seen \subseteq EntrySlot
      /\ \A s \in seen : s \in used \/ \E r \in used : s < r
  BY ScanIsExact
<1>2. \A s \in seen : s \in used <=> InUse(d[b][s])
  BY <1>1, DirBlockIs
<1>3. ASSUME NEW s \in seen, NEW k, fileNameMatch(d[b][s], n, k) PROVE s \in used
  <2> SUFFICES ASSUME s \notin used PROVE FALSE
    OBVIOUS
  <2>1. PICK r \in used : s < r
    BY <1>1
  <2>2. s \in EntrySlot /\ ~d[b][s].use
    BY <1>1, DirBlockIs
  <2>3. d[b][s].name # ""
    BY <1>3 DEF fileNameMatch
  <2>4. r < s
    BY <2>2, <2>3 DEF DirBlock
  <2>5. s \in Int /\ r \in Int
    <3>1. used \subseteq EntrySlot
      BY DEF UsedSlots
    <3> QED
      BY <3>1, <2>2, SlotsAreInts, Zenon
  <2> QED
    BY <2>1, <2>4, <2>5, NotBothLess, Zenon
<1>4. Matching(d, b, n, isdir) \subseteq seen
  BY <1>1 DEF Matching
<1>5. ASSUME NEW s \in seen
      PROVE  /\ fileNameMatch(d[b][s], n, isdir) <=> s \in Matching(d, b, n, isdir)
             /\ s \in Matching(d, b, n, isdir) => InUse(d[b][s])
  BY <1>2, <1>3 DEF Matching
<1> QED
  BY ONLY <1>4, <1>5

(* So findFileAtDir finds the first of them.                               *)
LEMMA FindFindsEntries ==
  ASSUME NEW fat, NEW d, NEW b, DirBlock(fat, d, b), NEW n, n # "", NEW isdir
  PROVE  findFileAtDir(d[b], Cardinality(UsedSlots(d[b])), n, isdir)
           = FirstOf(Matching(d, b, n, isdir))
<1> DEFINE seen == Scanned(d[b], Cardinality(UsedSlots(d[b])))
<1>1. /\ Matching(d, b, n, isdir) \subseteq seen
      /\ \A s \in seen : fileNameMatch(d[b][s], n, isdir) <=> s \in Matching(d, b, n, isdir)
  BY SearchedIsMatching
<1>2. {s \in seen : fileNameMatch(d[b][s], n, isdir)} = Matching(d, b, n, isdir)
  BY ONLY <1>1
<1> QED
  BY ONLY <1>2 DEF findFileAtDir

(* So does getIndexOfFcb,                                                  *)
LEMMA IndexFindsEntries ==
  ASSUME NEW fat, NEW d, NEW b, DirBlock(fat, d, b), NEW n, n # "", NEW isdir
  PROVE  getIndexOfFcb(d[b], Cardinality(UsedSlots(d[b])), n, isdir)
           = FirstOf(Matching(d, b, n, isdir))
<1> DEFINE seen == Scanned(d[b], Cardinality(UsedSlots(d[b])))
<1>1. /\ Matching(d, b, n, isdir) \subseteq seen
      /\ \A s \in seen : /\ fileNameMatch(d[b][s], n, isdir) <=> s \in Matching(d, b, n, isdir)
                         /\ s \in Matching(d, b, n, isdir) => InUse(d[b][s])
  BY SearchedIsMatching
<1>2. {s \in seen : InUse(d[b][s]) /\ fileNameMatch(d[b][s], n, isdir)} = Matching(d, b, n, isdir)
  BY ONLY <1>1
<1> QED
  BY ONLY <1>2 DEF getIndexOfFcb

(* and so does changeDir's loop, for a name other than "." and "..".       *)
LEMMA SubdirFindsEntries ==
  ASSUME NEW fat, NEW d, NEW b, DirBlock(fat, d, b), NEW n, n # "", n # ".", n # ".."
  PROVE  IndexOfSubdir(d[b], Cardinality(UsedSlots(d[b])), n)
           = FirstOf(Matching(d, b, n, TRUE))
<1> DEFINE seen == Scanned(d[b], Cardinality(UsedSlots(d[b])))
<1>1. /\ Matching(d, b, n, TRUE) \subseteq seen
      /\ \A s \in seen : /\ fileNameMatch(d[b][s], n, TRUE) <=> s \in Matching(d, b, n, TRUE)
                         /\ s \in Matching(d, b, n, TRUE) => InUse(d[b][s])
  BY SearchedIsMatching
<1>2. ~fileNameMatch(d[b][0], n, TRUE) /\ ~fileNameMatch(d[b][1], n, TRUE)
  BY DEF fileNameMatch, DirBlock
<1>3. {s \in {0, 1} \cup seen : InUse(d[b][s]) /\ fileNameMatch(d[b][s], n, TRUE)}
        = Matching(d, b, n, TRUE)
  BY ONLY <1>1, <1>2
<1> QED
  BY ONLY <1>3 DEF IndexOfSubdir

(* Either no entry matches, or the first that matches is found. *)
LEMMA MatchingIs ==
  ASSUME NEW d, NEW b, NEW n, NEW isdir
  PROVE  /\ FirstOf(Matching(d, b, n, isdir)) = NOT_FOUND => Matching(d, b, n, isdir) = {}
         /\ FirstOf(Matching(d, b, n, isdir)) # NOT_FOUND =>
              FirstOf(Matching(d, b, n, isdir)) \in Matching(d, b, n, isdir)
<1>1. Matching(d, b, n, isdir) \in SUBSET Nat
  BY SizeAssumption DEF Matching, UsedSlots, EntrySlot
<1> QED
  BY <1>1, FirstOfInSet, FirstOfNone

(* my_ls shows the entries in use. *)
LEMMA ListedIsUsed ==
  ASSUME NEW fat, NEW d, NEW b, DirBlock(fat, d, b)
  PROVE  Listed(d[b], Cardinality(UsedSlots(d[b])), TRUE) = UsedSlots(d[b])
BY DirBlockIs, ScanIsExact DEF Listed
-----------------------------------------------------------------------------
(* The open entries. *)

(* The root of a sound tree. *)
LEMMA TreeIs ==
  ASSUME NEW fat, NEW d, NEW D, TreeSound(fat, d, D)
  PROVE  /\ D \subseteq Block /\ Root \in D /\ \A b \in D : DirBlock(fat, d, b)
         /\ d[Root][0].len = Cardinality(UsedSlots(d[Root]))
         /\ d[Root][0].s_block = Root /\ judgeDir(d[Root][0])
BY DEF TreeSound, DirBlock

(* An open entry: in a directory, a copy of the disk, and sound. *)
LEMMA PathIs ==
  ASSUME TypeOK, NEW D, TreeSound(fat1, disk, D), PathSound(disk, D, oft, currOftIndex),
         NEW i \in 0 .. currOftIndex
  PROVE  /\ i \in OftIdx /\ oft[i] \in Oft
         /\ oft[i].pdfBlockNo \in D /\ oft[i].fdEntryNo \in Slot
         /\ disk[oft[i].pdfBlockNo][oft[i].fdEntryNo] = oft[i].fcb
         /\ i = 0 => /\ oft[i].fcb.s_block = Root /\ judgeDir(oft[i].fcb)
                     /\ oft[i].pdfBlockNo = Root /\ oft[i].fdEntryNo = 0
         /\ i # 0 => /\ oft[i].fdEntryNo \in UsedSlots(disk[oft[i].pdfBlockNo])
                     /\ EntrySound(fat1, disk, D, oft[i].fcb)
                     /\ i - 1 \in 0 .. currOftIndex
                     /\ oft[i].pdfBlockNo = oft[i - 1].fcb.s_block
                     /\ oft[i].fcb.s_block # oft[i].pdfBlockNo
         /\ judgeDir(oft[i].fcb) =>
              /\ oft[i].fcb.s_block \in D
              /\ oft[i].fcb.len = Cardinality(UsedSlots(disk[oft[i].fcb.s_block]))
<1>1. currOftIndex \in Nat /\ currOftIndex <= OFT_MAX_LEN - 1 /\ OFT_MAX_LEN \in Nat
  BY SizeAssumption DEF TypeOK, OftIdx
<1>2. i \in OftIdx /\ i \in Nat
  BY <1>1 DEF OftIdx
<1>3. oft[i] \in Oft
  BY <1>2 DEF TypeOK
<1>4. oft[i].fdEntryNo \in Slot
  BY <1>3 DEF Oft
<1>5. disk[oft[i].pdfBlockNo][oft[i].fdEntryNo] = oft[i].fcb
  BY DEF PathSound
<1>6. CASE i = 0
  <2>1. oft[i].pdfBlockNo = Root /\ oft[i].fdEntryNo = 0
    BY <1>6 DEF PathSound
  <2> QED
    BY <2>1, <1>2, <1>3, <1>4, <1>5, <1>6, TreeIs
<1>7. CASE i # 0
  <2>1. i \in 1 .. currOftIndex /\ i - 1 \in 0 .. currOftIndex /\ i - 1 # i
    BY <1>7, <1>1, <1>2
  <2>2. /\ oft[i].pdfBlockNo = oft[i - 1].fcb.s_block /\ oft[i].pdfBlockNo \in D
        /\ oft[i].fdEntryNo \in UsedSlots(disk[oft[i].pdfBlockNo])
    BY <2>1 DEF PathSound
  <2>3. EntrySound(fat1, disk, D, oft[i].fcb)
    BY <2>2, <1>5 DEF TreeSound
  <2>4. oft[i].fcb.s_block # oft[i].pdfBlockNo
    BY <2>1, <2>2 DEF PathSound
  <2>5. judgeDir(oft[i].fcb) =>
          /\ oft[i].fcb.s_block \in D
          /\ oft[i].fcb.len = Cardinality(UsedSlots(disk[oft[i].fcb.s_block]))
    BY <2>3 DEF EntrySound
  <2> QED
    BY <2>1, <2>2, <2>3, <2>4, <2>5, <1>2, <1>3, <1>4, <1>5, <1>7
<1> QED
  BY <1>6, <1>7

(* The current entry; when it is a directory, its block is what the        *)
(* commands look at.                                                       *)
LEMMA CurIs ==
  ASSUME TypeOK, NEW D, TreeSound(fat1, disk, D), PathSound(disk, D, oft, currOftIndex)
  PROVE  /\ currOftIndex \in 0 .. currOftIndex /\ 0 .. currOftIndex \subseteq OftIdx
         /\ currOftIndex \in OftIdx /\ currOftIndex \in Nat
         /\ cur.pdfBlockNo = cur.fcb.s_block <=> currOftIndex = 0
         /\ judgeDir(cur.fcb) =>
              /\ cur.fcb.s_block \in D /\ cur.fcb.s_block \in Block
              /\ curDir = disk[cur.fcb.s_block] /\ DirBlock(fat1, disk, cur.fcb.s_block)
              /\ cur.fcb.len = Cardinality(UsedSlots(disk[cur.fcb.s_block]))
         /\ ~judgeDir(cur.fcb) => currOftIndex # 0
<1>1. currOftIndex \in Nat /\ currOftIndex <= OFT_MAX_LEN - 1 /\ OFT_MAX_LEN \in Nat
  BY SizeAssumption DEF TypeOK, OftIdx
<1>2. currOftIndex \in 0 .. currOftIndex /\ 0 .. currOftIndex \subseteq OftIdx
  BY <1>1 DEF OftIdx
<1>3. cur.pdfBlockNo = cur.fcb.s_block <=> currOftIndex = 0
  BY <1>2, PathIs DEF cur
<1>4. ~judgeDir(cur.fcb) => currOftIndex # 0
  BY <1>2, PathIs DEF cur
<1>5. judgeDir(cur.fcb) =>
        /\ cur.fcb.s_block \in D
        /\ cur.fcb.len = Cardinality(UsedSlots(disk[cur.fcb.s_block]))
  BY <1>2, PathIs DEF cur
<1>6. judgeDir(cur.fcb) =>
        /\ cur.fcb.s_block \in Block /\ curDir = disk[cur.fcb.s_block]
        /\ DirBlock(fat1, disk, cur.fcb.s_block)
  BY <1>5, TreeIs DEF curDir
<1> QED
  BY <1>1, <1>2, <1>3, <1>4, <1>5, <1>6

(* No open entry lies in the block of the current directory, but for the   *)
(* root's own in slot 0.                                                   *)
LEMMA OpenIsNotInCur ==
  ASSUME TypeOK, NEW D, TreeSound(fat1, disk, D), PathSound(disk, D, oft, currOftIndex),
         NEW i \in 0 .. currOftIndex, oft[i].pdfBlockNo = cur.fcb.s_block
  PROVE  i = 0 /\ oft[i].fdEntryNo = 0
<1>1. CASE i = 0
  BY <1>1, PathIs
<1>2. CASE i # 0
  <2>1. i - 1 \in 0 .. currOftIndex /\ oft[i - 1].fcb.s_block = cur.fcb.s_block
    BY <1>2, PathIs
  <2>2. currOftIndex \in 0 .. currOftIndex /\ i - 1 # currOftIndex
    BY <2>1, CurIs
  <2> QED
    BY <2>1, <2>2 DEF PathSound, cur
<1> QED
  BY <1>1, <1>2

(* Open entries are in different places. *)
LEMMA OpenPlacesDiffer ==
  ASSUME TypeOK, NEW D, TreeSound(fat1, disk, D), PathSound(disk, D, oft, currOftIndex),
         NEW i \in 0 .. currOftIndex, NEW j \in 0 .. currOftIndex,
         oft[i].pdfBlockNo = oft[j].pdfBlockNo, oft[i].fdEntryNo = oft[j].fdEntryNo
  PROVE  i = j
<1>1. oft[i].fcb = oft[j].fcb
  BY PathIs
<1> QED
  BY <1>1 DEF PathSound

(* The current entry's parent is the one before it in the table.           *)
LEMMA ParentIsBefore ==
  ASSUME TypeOK, NEW D, TreeSound(fat1, disk, D), PathSound(disk, D, oft, currOftIndex),
         NEW i \in 0 .. currOftIndex
  PROVE  /\ i # 0 => findParentOft(i) = i - 1
         /\ i = 0 => findParentOft(i) = 0
<1> DEFINE S == {j \in OftIdx : oft[j].fcb.s_block = oft[i].pdfBlockNo}
<1>1. oft[i].pdfBlockNo \in Block /\ 0 \notin Block
  BY PathIs, TreeIs, BlockNum DEF Block, BLOCK_INDEX_ROOT_DIR
<1>2. ASSUME NEW j \in OftIdx, j > currOftIndex PROVE j \notin S
  <2>0. oft[j] = BlankOft
    BY <1>2 DEF PathSound
  <2>1. BlankOft.fcb.s_block = 0
    BY DEF BlankOft, BlankFcb
  <2> QED
    BY <2>0, <2>1, <1>1
<1>3. \A j \in S : j \in 0 .. currOftIndex
  <2> SUFFICES ASSUME NEW j \in S PROVE j \in 0 .. currOftIndex
    OBVIOUS
  <2>1. ~(j > currOftIndex) /\ j \in OftIdx
    BY <1>2
  <2> QED
    BY <2>1, CurIs, SizeAssumption DEF OftIdx
<1>4. ASSUME NEW p \in 0 .. currOftIndex, oft[p].fcb.s_block = oft[i].pdfBlockNo
      PROVE  findParentOft(i) = p
  <2>1. S = {p}
    <3>1. p \in S
      BY <1>4, CurIs
    <3>2. \A j \in S : j = p
      BY <1>3, <1>4 DEF PathSound
    <3> QED
      BY <3>1, <3>2
  <2>2. p \in Nat /\ {p} \in SUBSET Nat
    BY <1>4, CurIs
  <2>3. FirstOf({p}) = p
    BY <2>2, MinInSet DEF FirstOf
  <2> QED
    BY <2>1, <2>3 DEF findParentOft
<1>5. CASE i = 0
  BY <1>4, <1>5, PathIs
<1>6. CASE i # 0
  BY <1>4, <1>6, PathIs
<1> QED
  BY <1>5, <1>6
-----------------------------------------------------------------------------
(* What changes neither directories nor the path. *)

SameEntry(f, g) ==
  /\ g \in Fcb /\ g.name = f.name /\ g.use = f.use /\ g.s_block = f.s_block
  /\ judgeDir(g) = judgeDir(f)

(* Cells that differ in length or attributes only are in use or not alike. *)
LEMMA SameUsed ==
  ASSUME NEW fat, NEW d, NEW b, DirBlock(fat, d, b), NEW e,
         \A s \in Slot : SameEntry(d[b][s], e[b][s])
  PROVE  UsedSlots(e[b]) = UsedSlots(d[b])
BY DirBlockIs, FcbIsNoText DEF UsedSlots, SameEntry

(* A directory stays one when its cells change in length or attributes     *)
(* only.                                                                   *)
LEMMA DirBlockStays ==
  ASSUME NEW fat, NEW d, NEW b, DirBlock(fat, d, b), NEW e, NEW g,
         Begins(g, b), g[b] = END, \A s \in Slot : SameEntry(d[b][s], e[b][s])
  PROVE  DirBlock(g, e, b)
<1>1. UsedSlots(e[b]) = UsedSlots(d[b])
  BY SameUsed
<1>2. UsedSlots(d[b]) \subseteq Slot /\ EntrySlot \subseteq Slot /\ 0 \in Slot /\ 1 \in Slot
  BY DirBlockIs
<1>3. \A s \in UsedSlots(e[b]) : e[b][s].name \in StoredNames
  BY <1>1, <1>2 DEF SameEntry, DirBlock
<1>4. \A s \in EntrySlot : ~e[b][s].use /\ e[b][s].name # "" =>
        \A r \in UsedSlots(e[b]) : r < s
  BY <1>1, <1>2 DEF SameEntry, DirBlock
<1>5. /\ e[b][0].name = "." /\ e[b][0].use /\ judgeDir(e[b][0]) /\ e[b][0].s_block = b
      /\ e[b][1].name = ".." /\ e[b][1].use /\ judgeDir(e[b][1])
  BY <1>2 DEF SameEntry, DirBlock
<1>6. \A s \in Slot : e[b][s] \in Fcb
  BY DEF SameEntry
<1> QED
  BY <1>3, <1>4, <1>5, <1>6 DEF DirBlock

(* A tree stays sound when its cells change in this way and each entry is  *)
(* sound again.                                                            *)
LEMMA TreeStays ==
  ASSUME NEW fat, NEW d, NEW D, TreeSound(fat, d, D), NEW g, NEW e,
         \A b \in D : Begins(g, b) /\ g[b] = END,
         \A b \in D : \A s \in Slot : SameEntry(d[b][s], e[b][s]),
         e[Root][0].len = d[Root][0].len,
         \A b \in D : \A s \in UsedSlots(d[b]) : EntrySound(g, e, D, e[b][s])
  PROVE  TreeSound(g, e, D)
<1>1. D \subseteq Block /\ Root \in D
  BY TreeIs
<1>2. \A b \in D : DirBlock(fat, d, b)
  BY TreeIs
<1>3. \A b \in D : UsedSlots(e[b]) = UsedSlots(d[b])
  BY <1>2, SameUsed
<1>4. \A b \in D : DirBlock(g, e, b)
  BY <1>2, DirBlockStays
<1>5. e[Root][0].len = Cardinality(UsedSlots(e[Root]))
  BY <1>1, <1>3, TreeIs
<1>6. \A b \in D : \A s \in UsedSlots(e[b]) : EntrySound(g, e, D, e[b][s])
  BY <1>3
<1>7. \A b \in D : \A s \in UsedSlots(d[b]) : SameEntry(d[b][s], e[b][s])
  BY <1>2, DirBlockIs
<1>8. \A b, c \in D : \A s \in UsedSlots(e[b]), r \in UsedSlots(e[c]) :
        e[b][s].s_block = e[c][r].s_block => b = c /\ s = r
  BY <1>3, <1>7 DEF SameEntry, TreeSound
<1>9. \A b \in D : \A s, r \in UsedSlots(e[b]) :
        e[b][s].name = e[b][r].name /\ judgeDir(e[b][s]) = judgeDir(e[b][r]) => s = r
  BY <1>3, <1>7 DEF SameEntry, TreeSound
<1> QED
  BY <1>1, <1>4, <1>5, <1>6, <1>8, <1>9 DEF TreeSound

(* An entry whose length stays is sound if the rest of the disk is.        *)
LEMMA EntryStays ==
  ASSUME NEW fat, NEW d, NEW D, NEW f, EntrySound(fat, d, D, f), NEW g, NEW e, NEW f2,
         SameEntry(f, f2), f2.len = f.len,
         \A b \in D : UsedSlots(e[b]) = UsedSlots(d[b]),
         ~judgeDir(f) => /\ Begins(g, f.s_block)
                         /\ Walks(fat, f.s_block, f.len \div FCB_NUM) \cap
                            Walks(g, f.s_block, f.len \div FCB_NUM) # {}
  PROVE  EntrySound(g, e, D, f2)
<1>1. CASE judgeDir(f)
  BY <1>1 DEF EntrySound, SameEntry
<1>2. CASE ~judgeDir(f)
  BY <1>2 DEF EntrySound, SameEntry
<1> QED
  BY <1>1, <1>2

(* The open entries stay a path when their FCBs change in this way, on the *)
(* disk and in the table alike.                                            *)
LEMMA PathStays ==
  ASSUME NEW d, NEW D, NEW o, NEW k \in OftIdx, PathSound(d, D, o, k), NEW e, NEW E, NEW p,
         \A i \in OftIdx : i > k => p[i] = BlankOft,
         \A i \in 0 .. k :
           /\ p[i].pdfBlockNo = o[i].pdfBlockNo /\ p[i].fdEntryNo = o[i].fdEntryNo
           /\ p[i].dirName = o[i].dirName /\ p[i].isUse = o[i].isUse
           /\ SameEntry(o[i].fcb, p[i].fcb)
           /\ e[o[i].pdfBlockNo][o[i].fdEntryNo] = p[i].fcb,
         \A i \in 1 .. k : /\ o[i].pdfBlockNo \in E
                           /\ o[i].fdEntryNo \in UsedSlots(e[o[i].pdfBlockNo])
  PROVE  PathSound(e, E, p, k)
<1>0. k \in Nat
  BY SizeAssumption DEF OftIdx
<1>1. p[0].pdfBlockNo = Root /\ p[0].fdEntryNo = 0 /\ p[0].dirName = <<"root">>
  BY <1>0 DEF PathSound
<1>2. \A i \in 0 .. k : /\ p[i].isUse /\ Len(p[i].dirName) = i + 1
                        /\ e[p[i].pdfBlockNo][p[i].fdEntryNo] = p[i].fcb
  BY DEF PathSound
<1>3. ASSUME NEW i \in 1 .. k
      PROVE  /\ judgeDir(p[i - 1].fcb)
             /\ p[i].pdfBlockNo = p[i - 1].fcb.s_block /\ p[i].pdfBlockNo \in E
             /\ p[i].fdEntryNo \in UsedSlots(e[p[i].pdfBlockNo])
             /\ \E n \in Names : /\ Stored[n] = p[i].fcb.name
                                 /\ p[i].dirName = Append(p[i - 1].dirName, n)
  <2>1. i \in 0 .. k /\ i - 1 \in 0 .. k
    BY <1>0
  <2>2. /\ judgeDir(o[i - 1].fcb) /\ o[i].pdfBlockNo = o[i - 1].fcb.s_block
        /\ \E n \in Names : /\ Stored[n] = o[i].fcb.name
                            /\ o[i].dirName = Append(o[i - 1].dirName, n)
    BY DEF PathSound
  <2> QED
    BY <2>1, <2>2 DEF SameEntry
<1>4. \A i, j \in 0 .. k : p[i].fcb.s_block = p[j].fcb.s_block => i = j
  BY DEF PathSound, SameEntry
<1> QED
  BY <1>1, <1>2, <1>3, <1>4 DEF PathSound

(* The entry that is opened next is the one above the current. *)
LEMMA NextOftIsAbove ==
  ASSUME TypeOK, NEW D, TreeSound(fat1, disk, D), PathSound(disk, D, oft, currOftIndex),
         getNextOft # NOT_FOUND
  PROVE  getNextOft = currOftIndex + 1 /\ currOftIndex + 1 \in OftIdx
<1> DEFINE S == {i \in OftIdx : ~oft[i].isUse}
<1>1. OftIdx \subseteq Nat /\ currOftIndex \in Nat /\ currOftIndex \in OftIdx
  BY CurIs, SlotsAreNumbers
<1>2. \A i \in S : i > currOftIndex
  <2> SUFFICES ASSUME NEW i \in S, ~(i > currOftIndex) PROVE FALSE
    OBVIOUS
  <2>1. i \in 0 .. currOftIndex
    BY <1>1
  <2> QED
    BY <2>1 DEF PathSound
<1>3. getNextOft \in S /\ \A i \in S : getNextOft <= i
  <2>1. S \in SUBSET Nat
    BY <1>1
  <2> QED
    BY <2>1, FirstOfInSet DEF getNextOft
<1>4. currOftIndex + 1 \in OftIdx
  <2>1. getNextOft \in OftIdx /\ getNextOft > currOftIndex
    BY <1>2, <1>3
  <2> QED
    BY <2>1, <1>1, SizeAssumption DEF OftIdx
<1>5. currOftIndex + 1 \in S
  <2>1. oft[currOftIndex + 1] = BlankOft
    BY <1>1, <1>4 DEF PathSound
  <2> QED
    BY <2>1, <1>4 DEF BlankOft
<1> QED
  BY <1>1, <1>2, <1>3, <1>4, <1>5

(* Opening slot s of the current directory under a name that it has.       *)
LEMMA PathGrows ==
  ASSUME TypeOK, NEW D, TreeSound(fat1, disk, D), PathSound(disk, D, oft, currOftIndex),
         judgeDir(cur.fcb), getNextOft # NOT_FOUND,
         NEW s \in UsedSlots(curDir), NEW n \in Names, Stored[n] = curDir[s].name
  PROVE  PathSound(disk, D, [oft EXCEPT ![getNextOft] = OpenedEntry(s, n)], getNextOft)
<1> DEFINE k == currOftIndex
           x == OpenedEntry(s, n)
           p == [oft EXCEPT ![k + 1] = x]
           b == cur.fcb.s_block
<1>1. getNextOft = k + 1 /\ k + 1 \in OftIdx
  BY NextOftIsAbove
<1>2. k \in Nat /\ k \in OftIdx /\ b \in D /\ curDir = disk[b] /\ k \in 0 .. k
  BY CurIs
<1>3. /\ x.fcb = disk[b][s] /\ x.pdfBlockNo = b /\ x.fdEntryNo = s
      /\ x.dirName = Append(oft[k].dirName, n) /\ x.isUse
  BY <1>2 DEF OpenedEntry, cur
<1>4. oft \in [OftIdx -> Oft]
  BY DEF TypeOK
<1> HIDE DEF x
<1>5. p[k + 1] = x /\ \A i \in OftIdx : i # k + 1 => p[i] = oft[i]
  BY <1>1, <1>4
<1>6. \A i \in 0 .. k : i \in OftIdx /\ i # k + 1 /\ p[i] = oft[i]
  <2>1. \A i \in 0 .. k : i \in OftIdx /\ i # k + 1
    BY <1>2, CurIs
  <2> QED
    BY <2>1, <1>5
<1> HIDE DEF p
<1>7. \A i \in OftIdx : i > k + 1 => p[i] = BlankOft
  <2> SUFFICES ASSUME NEW i \in OftIdx, i > k + 1 PROVE p[i] = BlankOft
    OBVIOUS
  <2>1. i > k /\ i # k + 1
    BY <1>2, SlotsAreNumbers
  <2> QED
    BY <2>1, <1>5 DEF PathSound
<1>8. \A i \in 0 .. k + 1 : i = k + 1 \/ i \in 0 .. k
  BY <1>2
<1>9. Len(x.dirName) = (k + 1) + 1
  <2>1. oft[k].dirName \in Seq(Component) /\ Len(oft[k].dirName) = k + 1
    BY <1>2, <1>4 DEF Oft, PathSound
  <2> QED
    BY <2>1, <1>2, <1>3
<1>10. \A i \in 0 .. k + 1 : /\ p[i].isUse /\ Len(p[i].dirName) = i + 1
                             /\ disk[p[i].pdfBlockNo][p[i].fdEntryNo] = p[i].fcb
  BY <1>3, <1>5, <1>6, <1>8, <1>9 DEF PathSound
<1>11. ASSUME NEW i \in 1 .. k + 1
       PROVE  /\ judgeDir(p[i - 1].fcb)
              /\ p[i].pdfBlockNo = p[i - 1].fcb.s_block /\ p[i].pdfBlockNo \in D
              /\ p[i].fdEntryNo \in UsedSlots(disk[p[i].pdfBlockNo])
              /\ \E m \in Names : /\ Stored[m] = p[i].fcb.name
                                  /\ p[i].dirName = Append(p[i - 1].dirName, m)
  <2>1. CASE i = k + 1
    <3>1. i - 1 = k /\ p[i] = x /\ p[i - 1] = oft[k]
      BY <2>1, <1>2, <1>5, <1>6
    <3>2. judgeDir(oft[k].fcb) /\ b = oft[k].fcb.s_block
      BY DEF cur
    <3> QED
      BY <3>1, <3>2, <1>2, <1>3
  <2>2. CASE i # k + 1
    <3>1. i \in 1 .. k /\ i \in 0 .. k /\ i - 1 \in 0 .. k
      BY <2>2, <1>2
    <3>2. p[i] = oft[i] /\ p[i - 1] = oft[i - 1]
      BY <3>1, <1>6
    <3> QED
      BY <3>1, <3>2 DEF PathSound
  <2> QED
    BY <2>1, <2>2
<1>12. \A i \in 0 .. k : oft[i].fcb.s_block # x.fcb.s_block
  <2> SUFFICES ASSUME NEW i \in 0 .. k, oft[i].fcb.s_block = disk[b][s].s_block PROVE FALSE
    BY <1>3
  <2>1. EntrySound(fat1, disk, D, disk[b][s])
    BY <1>2 DEF TreeSound
  <2>2. disk[b][s].s_block # Root
    BY <2>1, TreeIs DEF EntrySound
  <2>3. i # 0
    BY <2>2, PathIs
  <2>4. /\ oft[i].fcb = disk[oft[i].pdfBlockNo][oft[i].fdEntryNo]
        /\ oft[i].fdEntryNo \in UsedSlots(disk[oft[i].pdfBlockNo]) /\ oft[i].pdfBlockNo \in D
    BY <2>3, PathIs
  <2>5. oft[i].pdfBlockNo = b
    BY <2>4, <1>2 DEF TreeSound
  <2> QED
    BY <2>3, <2>5, OpenIsNotInCur
<1>13. \A i, j \in 0 .. k + 1 : p[i].fcb.s_block = p[j].fcb.s_block => i = j
  BY <1>5, <1>6, <1>8, <1>12 DEF PathSound
<1>14. p[0].pdfBlockNo = Root /\ p[0].fdEntryNo = 0 /\ p[0].dirName = <<"root">>
  <2>1. 0 \in 0 .. k
    BY <1>2
  <2> QED
    BY <2>1, <1>6 DEF PathSound
<1>15. PathSound(disk, D, p, k + 1)
  BY <1>7, <1>10, <1>11, <1>13, <1>14 DEF PathSound
<1> QED
  BY <1>1, <1>15 DEF x, p

(* my_close writes back what the disk has, and takes the last entry off.   *)
LEMMA CloseShrinks ==
  ASSUME TypeOK, NEW D, TreeSound(fat1, disk, D), PathSound(disk, D, oft, currOftIndex),
         currOftIndex # 0, my_close
  PROVE  /\ disk' = disk /\ currOftIndex' = currOftIndex - 1
         /\ PathSound(disk, D, oft', currOftIndex')
<1> DEFINE k == currOftIndex
<1>1. /\ k \in 0 .. k /\ k \in Nat /\ k \in OftIdx /\ k - 1 \in 0 .. k /\ k - 1 \in OftIdx
      /\ \A i \in 0 .. k - 1 : i \in 0 .. k /\ i \in OftIdx /\ i # k
      /\ \A i \in 1 .. k - 1 : i \in 1 .. k /\ i - 1 \in 0 .. k - 1 /\ i \in 0 .. k - 1
      /\ \A i \in OftIdx : i > k - 1 => i > k \/ i = k
      /\ 0 \in 0 .. k - 1
  BY CurIs, SlotsAreNumbers
<1>2. findParentOft(k) = k - 1
  BY <1>1, ParentIsBefore
<1>3. /\ cur.pdfBlockNo = oft[k - 1].fcb.s_block
      /\ disk[cur.pdfBlockNo][cur.fdEntryNo] = cur.fcb
  BY <1>1, PathIs DEF cur
<1>4. disk \in [Block -> [Slot -> Cell]] /\ oft \in [OftIdx -> Oft]
  BY DEF TypeOK
<1>5. disk' = disk
  <2>1. disk' = IF cur.isUpate
                 THEN [disk EXCEPT ![oft[k - 1].fcb.s_block][cur.fdEntryNo] = cur.fcb]
                 ELSE disk
    BY <1>2 DEF my_close
  <2>2. [disk EXCEPT ![cur.pdfBlockNo][cur.fdEntryNo] = cur.fcb] = disk
    BY <1>3, <1>4
  <2> QED
    BY <2>1, <2>2, <1>3
<1>6. currOftIndex' = k - 1 /\ oft' = [oft EXCEPT ![k] = BlankOft]
  BY <1>2 DEF my_close
<1>7. oft'[k] = BlankOft /\ \A i \in OftIdx : i # k => oft'[i] = oft[i]
  BY <1>1, <1>4, <1>6
<1>8. \A i \in 0 .. k - 1 : oft'[i] = oft[i]
  BY <1>1, <1>7
<1> DEFINE p == oft'
<1> HIDE DEF p
<1>9. PathSound(disk, D, p, k - 1)
  <2>1. \A i \in OftIdx : i > k - 1 => p[i] = BlankOft
    <3>1. \A i \in OftIdx : i > k => p[i] = BlankOft
      BY <1>1, <1>7 DEF PathSound, p
    <3> QED
      BY <3>1, <1>1, <1>7 DEF p
  <2>2. p[0].pdfBlockNo = Root /\ p[0].fdEntryNo = 0 /\ p[0].dirName = <<"root">>
    BY <1>1, <1>8 DEF PathSound, p
  <2>3. \A i \in 0 .. k - 1 : /\ p[i].isUse /\ Len(p[i].dirName) = i + 1
                              /\ disk[p[i].pdfBlockNo][p[i].fdEntryNo] = p[i].fcb
    BY <1>1, <1>8 DEF PathSound, p
  <2>4. ASSUME NEW i \in 1 .. k - 1
        PROVE  /\ judgeDir(p[i - 1].fcb)
               /\ p[i].pdfBlockNo = p[i - 1].fcb.s_block /\ p[i].pdfBlockNo \in D
               /\ p[i].fdEntryNo \in UsedSlots(disk[p[i].pdfBlockNo])
               /\ \E m \in Names : /\ Stored[m] = p[i].fcb.name
                                   /\ p[i].dirName = Append(p[i - 1].dirName, m)
    <3>1. i \in 1 .. k /\ p[i] = oft[i] /\ p[i - 1] = oft[i - 1]
      BY <1>1, <1>8 DEF p
    <3>2. /\ judgeDir(oft[i - 1].fcb)
          /\ oft[i].pdfBlockNo = oft[i - 1].fcb.s_block /\ oft[i].pdfBlockNo \in D
          /\ oft[i].fdEntryNo \in UsedSlots(disk[oft[i].pdfBlockNo])
          /\ \E m \in Names : /\ Stored[m] = oft[i].fcb.name
                              /\ oft[i].dirName = Append(oft[i - 1].dirName, m)
      BY <3>1 DEF PathSound
    <3> QED
      BY <3>1, <3>2
  <2>5. ASSUME NEW i \in 0 .. k - 1, NEW j \in 0 .. k - 1,
               p[i].fcb.s_block = p[j].fcb.s_block
        PROVE  i = j
    <3>1. i \in 0 .. k /\ j \in 0 .. k /\ oft[i].fcb.s_block = oft[j].fcb.s_block
      BY <2>5, <1>1, <1>8 DEF p
    <3> QED
      BY <3>1 DEF PathSound
  <2> QED
    BY <2>1, <2>2, <2>3, <2>4, <2>5 DEF PathSound
<1> QED
  BY <1>5, <1>6, <1>9 DEF p
-----------------------------------------------------------------------------
(* The actions that make or remove no entry and write no text.             *)

(* A step that leaves all as it is keeps the invariant. *)
LEMMA NothingHolds ==
  ASSUME TypeOK, NEW D, Holds(D), UNCHANGED <<fat1, disk, oft, currOftIndex>>,
         mode' # "text" \/ UNCHANGED mode
  PROVE  Holds(D)'
BY DEF Holds, TextSound, cur

(* my_read, which moves the position only, keeps the invariant. *)
LEMMA RewindHolds ==
  ASSUME TypeOK, NEW D, Holds(D), Rewind
  PROVE  Holds(D)'
<1> DEFINE k == currOftIndex
<1>1. TreeSound(fat1, disk, D) /\ PathSound(disk, D, oft, k)
  BY DEF Holds
<1>2. /\ k \in OftIdx /\ oft \in [OftIdx -> Oft]
      /\ UNCHANGED <<mode, fat1, disk, currOftIndex>> /\ mode = "cmd"
      /\ oft' = [oft EXCEPT ![k].filePtr = 0]
  BY DEF TypeOK, Rewind
<1>3. /\ \A i \in OftIdx : i # k => oft'[i] = oft[i]
      /\ oft'[k] = [oft[k] EXCEPT !.filePtr = 0]
  BY <1>2
<1>4. /\ oft'[k].fcb = oft[k].fcb /\ oft'[k].pdfBlockNo = oft[k].pdfBlockNo
      /\ oft'[k].fdEntryNo = oft[k].fdEntryNo /\ oft'[k].dirName = oft[k].dirName
      /\ oft'[k].isUse = oft[k].isUse
  BY <1>2, <1>3 DEF Oft
<1>5. \A i \in OftIdx : /\ oft'[i].fcb = oft[i].fcb /\ oft'[i].pdfBlockNo = oft[i].pdfBlockNo
                        /\ oft'[i].fdEntryNo = oft[i].fdEntryNo
                        /\ oft'[i].dirName = oft[i].dirName /\ oft'[i].isUse = oft[i].isUse
  BY <1>3, <1>4
<1> DEFINE p == oft'
<1> HIDE DEF p
<1>6. PathSound(disk, D, p, k)
  <2>1. \A i \in OftIdx : i > k => p[i] = BlankOft
    <3> SUFFICES ASSUME NEW i \in OftIdx, i > k PROVE p[i] = BlankOft
      OBVIOUS
    <3>1. i # k
      BY <1>1, CurIs
    <3> QED
      BY <3>1, <1>1, <1>3 DEF PathSound, p
  <2>2. \A i \in 0 .. k :
          /\ p[i].pdfBlockNo = oft[i].pdfBlockNo /\ p[i].fdEntryNo = oft[i].fdEntryNo
          /\ p[i].dirName = oft[i].dirName /\ p[i].isUse = oft[i].isUse
          /\ SameEntry(oft[i].fcb, p[i].fcb)
          /\ disk[oft[i].pdfBlockNo][oft[i].fdEntryNo] = p[i].fcb
    <3> SUFFICES ASSUME NEW i \in 0 .. k
                 PROVE  /\ p[i].pdfBlockNo = oft[i].pdfBlockNo
                        /\ p[i].fdEntryNo = oft[i].fdEntryNo
                        /\ p[i].dirName = oft[i].dirName /\ p[i].isUse = oft[i].isUse
                        /\ SameEntry(oft[i].fcb, p[i].fcb)
                        /\ disk[oft[i].pdfBlockNo][oft[i].fdEntryNo] = p[i].fcb
      OBVIOUS
    <3>1. i \in OftIdx /\ oft[i].fcb \in Fcb
      BY <1>1, PathIs DEF Oft
    <3>2. disk[oft[i].pdfBlockNo][oft[i].fdEntryNo] = oft[i].fcb
      BY <1>1, PathIs
    <3> QED
      BY <3>1, <3>2, <1>5 DEF SameEntry, p
  <2>3. \A i \in 1 .. k : /\ oft[i].pdfBlockNo \in D
                          /\ oft[i].fdEntryNo \in UsedSlots(disk[oft[i].pdfBlockNo])
    BY <1>1 DEF PathSound
  <2> QED
    BY <2>1, <2>2, <2>3, <1>1, <1>2, PathStays
<1> QED
  BY <1>2, <1>6 DEF Holds, TextSound, p

(* my_close keeps the invariant. *)
LEMMA CloseHolds ==
  ASSUME TypeOK, NEW D, Holds(D), currOftIndex # 0, my_close, fat1' = fat1, mode' # "text"
  PROVE  Holds(D)'
<1>1. disk' = disk /\ PathSound(disk, D, oft', currOftIndex')
  BY CloseShrinks DEF Holds
<1> QED
  BY <1>1 DEF Holds, TextSound

(* So does opening an entry that is there, *)
LEMMA OpenHolds ==
  ASSUME TypeOK, NEW D, Holds(D), judgeDir(cur.fcb), getNextOft # NOT_FOUND,
         NEW s \in UsedSlots(curDir), NEW n \in Names, Stored[n] = curDir[s].name,
         oft' = [oft EXCEPT ![getNextOft] = OpenedEntry(s, n)],
         currOftIndex' = getNextOft, UNCHANGED <<fat1, disk>>, mode' # "text"
  PROVE  Holds(D)'
BY PathGrows DEF Holds, TextSound

(* A name found is the name of an entry in use of its kind.                *)
LEMMA FoundIs ==
  ASSUME NEW fat, NEW d, NEW b, DirBlock(fat, d, b), NEW n, NEW isdir, NEW s,
         s = FirstOf(Matching(d, b, n, isdir))
  PROVE  /\ s # NOT_FOUND =>
              /\ s \in UsedSlots(d[b]) /\ s \in Slot /\ s \in EntrySlot
              /\ d[b][s].name = n /\ judgeDir(d[b][s]) = isdir
         /\ s = NOT_FOUND =>
              \A r \in UsedSlots(d[b]) :
                ~(d[b][r].name = n /\ judgeDir(d[b][r]) = isdir)
<1>1. EntrySlot \subseteq Slot /\ UsedSlots(d[b]) \subseteq EntrySlot
  BY DirBlockIs
<1>2. \A r \in Slot : d[b][r] \notin Texts
  BY DirBlockIs
<1>3. s # NOT_FOUND => s \in Matching(d, b, n, isdir)
  BY MatchingIs
<1>4. s = NOT_FOUND => Matching(d, b, n, isdir) = {}
  BY MatchingIs
<1>5. s # NOT_FOUND =>
        /\ s \in UsedSlots(d[b]) /\ s \in Slot /\ s \in EntrySlot
        /\ d[b][s].name = n /\ judgeDir(d[b][s]) = isdir
  BY <1>1, <1>3 DEF Matching, fileNameMatch
<1>6. s = NOT_FOUND =>
        \A r \in UsedSlots(d[b]) :
          ~(d[b][r].name = n /\ judgeDir(d[b][r]) = isdir)
  BY <1>1, <1>2, <1>4 DEF Matching, fileNameMatch
<1> QED
  BY <1>5, <1>6

(* by my_open, *)
LEMMA OpenFileHolds ==
  ASSUME TypeOK, NEW D, Holds(D), GoodUse, NEW n \in FileNames, my_open(n)
  PROVE  Holds(D)'
<1> DEFINE s == getIndexOfFcb(curDir, cur.fcb.len, n, FALSE)
<1>1. judgeDir(cur.fcb) /\ s # NOT_FOUND /\ getNextOft # NOT_FOUND /\ mode = "cmd"
  BY DEF my_open, GoodUse
<1>2. n \in Names /\ n # "" /\ Stored[n] = n
  BY NamesAreNames DEF Names, GoodUse
<1>3. PICK b : /\ DirBlock(fat1, disk, b) /\ cur.fcb.len = Cardinality(UsedSlots(disk[b]))
               /\ curDir = disk[b]
  BY <1>1, CurIs DEF Holds
<1>4. s \in UsedSlots(curDir) /\ curDir[s].name = n
  <2>0. PICK isdir : isdir = FALSE
    OBVIOUS
  <2>1. getIndexOfFcb(disk[b], cur.fcb.len, n, isdir) = FirstOf(Matching(disk, b, n, isdir))
    <3>1. DirBlock(fat1, disk, b) /\ cur.fcb.len = Cardinality(UsedSlots(disk[b]))
      BY <1>3
    <3>2. n # ""
      BY <1>2
    <3>3. getIndexOfFcb(disk[b], Cardinality(UsedSlots(disk[b])), n, isdir)
             = FirstOf(Matching(disk, b, n, isdir))
      BY ONLY <3>1, <3>2, IndexFindsEntries
    <3> QED
      BY ONLY <3>1, <3>3
  <2>2. s = FirstOf(Matching(disk, b, n, isdir))
    BY <2>0, <2>1, <1>3
  <2> HIDE DEF s
  <2> QED
    BY <2>2, <1>1, <1>3, FoundIs
<1>5. /\ oft' = [oft EXCEPT ![getNextOft] = OpenedEntry(s, n)]
      /\ currOftIndex' = getNextOft /\ UNCHANGED <<mode, fat1, disk>>
  BY DEF my_open
<1> HIDE DEF s
<1> QED
  BY <1>1, <1>2, <1>4, <1>5, OpenHolds

(* The first of a sequence is one of its elements. *)
LEMMA HeadIsElement == \A S : \A q \in Seq(S) : q # <<>> => Head(q) \in S
OBVIOUS

(* or by a step of cd down to a directory. *)
LEMMA CdDownHolds ==
  ASSUME TypeOK, NEW D, Holds(D), GoodUse, CdDown
  PROVE  Holds(D)'
<1> DEFINE n == dirname
           b == cur.fcb.s_block
           len == cur.fcb.len
           S == {r \in {0, 1} \cup Scanned(curDir, len) :
                   InUse(curDir[r]) /\ fileNameMatch(curDir[r], n, TRUE)}
<1>1. /\ judgeDir(cur.fcb) /\ getNextOft # NOT_FOUND /\ mode = "cd"
      /\ cd.path # <<>> /\ SubdirName \notin {"", ".", ".."}
      /\ oft' = [oft EXCEPT ![getNextOft] = OpenedEntry(Subdir, n)]
      /\ currOftIndex' = getNextOft /\ UNCHANGED <<mode, fat1, disk>>
  BY DEF CdDown, InDir
<1>2. Subdir # NOT_FOUND /\ curDir[Subdir].name \notin {"", ".", ".."}
  BY <1>1 DEF SubdirName
<1>3. DirBlock(fat1, disk, b) /\ curDir = disk[b] /\ len = Cardinality(UsedSlots(disk[b]))
  BY <1>1, CurIs DEF Holds
<1>4. Subdir \in S
  <2>1. Subdir = FirstOf(S)
    BY DEF Subdir, IndexOfSubdir
  <2>2. S \in SUBSET Nat
    <3>1. Scanned(curDir, len) \subseteq Nat /\ {0, 1} \subseteq Nat
      BY SizeAssumption DEF Scanned, EntrySlot
    <3> QED
      BY <3>1, Zenon
  <2> HIDE DEF S
  <2> QED
    BY <1>2, <2>1, <2>2, FirstOfInSet
<1>5. /\ Subdir \in {0, 1} \cup Scanned(curDir, len) /\ InUse(curDir[Subdir])
      /\ curDir[Subdir].name = n
  BY <1>4 DEF fileNameMatch
<1>6. Subdir \notin {0, 1}
  BY <1>2, <1>3 DEF DirBlock
<1>7. Subdir \in UsedSlots(curDir)
  BY <1>5, <1>6 DEF Scanned, UsedSlots
<1>8. n \in Names
  <2>1. cd.path \in Seq(Component)
    BY DEF TypeOK, Cd
  <2>2. Head(cd.path) \in Component
    BY <2>1, <1>1, HeadIsElement
  <2>3. n \notin {"", ".", ".."}
    BY <1>2, <1>5
  <2> QED
    BY <2>2, <2>3 DEF dirname, Component
<1>9. Stored[n] = curDir[Subdir].name
  BY <1>5, <1>8 DEF GoodUse
<1> HIDE DEF n
<1> QED
  BY <1>1, <1>7, <1>8, <1>9, OpenHolds
-----------------------------------------------------------------------------
(* Changing the FCB of one entry. *)

(* No link leads to a directory, and none from it. *)
LEMMA DirsBegin ==
  ASSUME NEW fat, NEW d, NEW D, TreeSound(fat, d, D), NEW b \in D
  PROVE  Begins(fat, b) /\ fat[b] = END /\ b \in Block /\ DirBlock(fat, d, b)
<1>1. DirBlock(fat, d, b)
  BY TreeIs
<1> QED
  BY <1>1, TreeIs DEF DirBlock

(* The cells of a directory are FCBs. *)
LEMMA CellsInTree ==
  ASSUME NEW fat, NEW d, NEW D, TreeSound(fat, d, D)
  PROVE  \A b \in D, s \in Slot : SameEntry(d[b][s], d[b][s])
<1>1. \A b \in D, s \in Slot : d[b][s] \in Fcb
  BY TreeIs, DirBlockIs
<1> QED
  BY <1>1 DEF SameEntry

(* An entry of a sound tree. *)
LEMMA EntryIsIn ==
  ASSUME NEW fat, NEW d, NEW D, TreeSound(fat, d, D), NEW b \in D, NEW s \in UsedSlots(d[b])
  PROVE  /\ b \in Block /\ s \in Slot /\ s \in EntrySlot /\ s # 0
         /\ d[b][s] \in Fcb /\ d[b][s].use /\ d[b][s].name \in StoredNames
         /\ EntrySound(fat, d, D, d[b][s])
         /\ d[b][s].s_block \in Block /\ d[b][s].s_block # Root
         /\ Begins(fat, d[b][s].s_block)
<1>1. DirBlock(fat, d, b) /\ b \in Block /\ D \subseteq Block /\ Root \in D
  BY TreeIs
<1>2. EntrySound(fat, d, D, d[b][s])
  BY DEF TreeSound
<1>3. s \in Slot /\ s \in EntrySlot /\ s # 0 /\ d[b][s] \in Fcb /\ d[b][s].use
  BY <1>1, DirBlockIs
<1>4. d[b][s].name \in StoredNames
  BY <1>1 DEF DirBlock
<1>5. CASE judgeDir(d[b][s])
  <2>1. d[b][s].s_block \in D /\ d[b][s].s_block # Root
    BY <1>2, <1>5 DEF EntrySound
  <2>2. Begins(fat, d[b][s].s_block)
    BY <2>1, DirsBegin
  <2> QED
    BY <2>1, <2>2, <1>1, <1>2, <1>3, <1>4
<1>6. CASE ~judgeDir(d[b][s])
  <2>1. d[b][s].s_block \in Block \ D /\ Begins(fat, d[b][s].s_block)
    BY <1>2, <1>6 DEF EntrySound
  <2> QED
    BY <2>1, <1>1, <1>2, <1>3, <1>4
<1> QED
  BY <1>5, <1>6

(* Storing a sound FCB of the same name, kind and block in an entry keeps  *)
(* the tree sound.                                                         *)
LEMMA TreeStores ==
  ASSUME NEW fat, NEW d, NEW D, TreeSound(fat, d, D), NEW b \in D,
         NEW s \in UsedSlots(d[b]), NEW e, SameEntry(d[b][s], e[b][s]),
         EntrySound(fat, d, D, e[b][s]),
         \A x \in D, r \in Slot : x # b \/ r # s => e[x][r] = d[x][r]
  PROVE  /\ TreeSound(fat, e, D)
         /\ \A x \in D : UsedSlots(e[x]) = UsedSlots(d[x])
<1>1. b \in Block /\ s \in Slot /\ s # 0 /\ D \subseteq Block /\ Root \in D
  BY EntryIsIn, TreeIs
<1>2. \A x \in D, r \in Slot : x # b \/ r # s => e[x][r] = d[x][r]
  OBVIOUS
<1>3. \A x \in D : \A r \in Slot : SameEntry(d[x][r], e[x][r])
  BY <1>2, CellsInTree
<1>4. ASSUME NEW x \in D PROVE UsedSlots(e[x]) = UsedSlots(d[x])
  BY <1>3, DirsBegin, SameUsed
<1>5. \A f : EntrySound(fat, d, D, f) => EntrySound(fat, e, D, f)
  BY <1>4 DEF EntrySound
<1>6. \A x \in D : \A r \in UsedSlots(d[x]) : EntrySound(fat, e, D, e[x][r])
  <2> SUFFICES ASSUME NEW x \in D, NEW r \in UsedSlots(d[x]) PROVE EntrySound(fat, d, D, e[x][r])
    BY <1>5
  <2>1. r \in Slot /\ EntrySound(fat, d, D, d[x][r])
    BY EntryIsIn
  <2> QED
    BY <2>1, <1>2
<1>7. \A x \in D : Begins(fat, x) /\ fat[x] = END
  BY DirsBegin
<1>8. e[Root][0].len = d[Root][0].len
  <2>1. 0 \in Slot
    BY SizeAssumption DEF Slot
  <2> QED
    BY <2>1, <1>1, <1>2
<1>9. TreeSound(fat, e, D)
  BY <1>3, <1>6, <1>7, <1>8, TreeStays
<1> QED
  BY <1>4, <1>9

(* Storing one in the current entry, on the disk and in the table, keeps   *)
(* tree and path sound.                                                    *)
LEMMA CurStores ==
  ASSUME NEW fat, NEW d, NEW D, NEW o, NEW k \in OftIdx, k # 0,
         TreeSound(fat, d, D), PathSound(d, D, o, k),
         NEW c, SameEntry(o[k].fcb, c), EntrySound(fat, d, D, c),
         NEW e, e[o[k].pdfBlockNo][o[k].fdEntryNo] = c,
         \A x \in D, r \in Slot :
           x # o[k].pdfBlockNo \/ r # o[k].fdEntryNo => e[x][r] = d[x][r],
         NEW p, \A i \in OftIdx : i # k => p[i] = o[i],
         p[k].pdfBlockNo = o[k].pdfBlockNo, p[k].fdEntryNo = o[k].fdEntryNo,
         p[k].dirName = o[k].dirName, p[k].isUse = o[k].isUse, p[k].fcb = c,
         \A i \in 0 .. k : o[i].pdfBlockNo \in D /\ o[i].fdEntryNo \in Slot
  PROVE  TreeSound(fat, e, D) /\ PathSound(e, D, p, k)
<1>1. /\ k \in Nat /\ k \in 1 .. k /\ k \in 0 .. k
      /\ \A i \in 0 .. k : i \in OftIdx
  BY SizeAssumption DEF OftIdx
<1>2. PICK b, s : b = o[k].pdfBlockNo /\ s = o[k].fdEntryNo
  OBVIOUS
<1>3. b \in D /\ s \in UsedSlots(d[b]) /\ d[b][s] = o[k].fcb
  BY <1>1, <1>2 DEF PathSound
<1>4. SameEntry(d[b][s], c)
  BY <1>2, <1>3
<1>b. /\ e[b][s] = c
      /\ \A x \in D, r \in Slot : x # b \/ r # s => e[x][r] = d[x][r]
  BY <1>2
<1>c. SameEntry(d[b][s], e[b][s]) /\ EntrySound(fat, d, D, e[b][s])
  BY <1>4, <1>b
<1>5. /\ TreeSound(fat, e, D)
      /\ \A x \in D : UsedSlots(e[x]) = UsedSlots(d[x])
      /\ e[b][s] = c
      /\ \A x \in D, r \in Slot : x # b \/ r # s => e[x][r] = d[x][r]
  <2>1. b \in D /\ s \in UsedSlots(d[b]) /\ TreeSound(fat, d, D)
    BY <1>3
  <2> QED
    BY ONLY <2>1, <1>b, <1>c, TreeStores
<1>6. \A i \in OftIdx : i > k => p[i] = BlankOft
  <2> SUFFICES ASSUME NEW i \in OftIdx, i > k PROVE p[i] = BlankOft
    OBVIOUS
  <2>1. i # k
    BY <1>1
  <2> QED
    BY <2>1 DEF PathSound
<1>7. ASSUME NEW i \in 0 .. k
      PROVE  /\ p[i].pdfBlockNo = o[i].pdfBlockNo /\ p[i].fdEntryNo = o[i].fdEntryNo
             /\ p[i].dirName = o[i].dirName /\ p[i].isUse = o[i].isUse
             /\ SameEntry(o[i].fcb, p[i].fcb)
             /\ e[o[i].pdfBlockNo][o[i].fdEntryNo] = p[i].fcb
  <2>1. CASE i = k
    BY <2>1, <1>2, <1>5
  <2>2. CASE i # k
    <3>1. p[i] = o[i] /\ d[o[i].pdfBlockNo][o[i].fdEntryNo] = o[i].fcb
      BY <2>2, <1>1 DEF PathSound
    <3>2. ~(o[i].pdfBlockNo = b /\ o[i].fdEntryNo = s)
      <4> SUFFICES ASSUME o[i].pdfBlockNo = b, o[i].fdEntryNo = s PROVE FALSE
        OBVIOUS
      <4>1. o[i].fcb = o[k].fcb
        BY <3>1, <1>3
      <4> QED
        BY <4>1, <2>2, <1>1 DEF PathSound
    <3>3. o[i].pdfBlockNo \in D /\ o[i].fdEntryNo \in Slot
      OBVIOUS
    <3>4. e[o[i].pdfBlockNo][o[i].fdEntryNo] = o[i].fcb
      BY <3>1, <3>2, <3>3, <1>5
    <3>5. SameEntry(o[i].fcb, o[i].fcb)
      BY <3>1, <3>3, CellsInTree
    <3> QED
      BY <3>1, <3>4, <3>5
  <2> QED
    BY <2>1, <2>2
<1>8. \A i \in 1 .. k : /\ o[i].pdfBlockNo \in D
                        /\ o[i].fdEntryNo \in UsedSlots(e[o[i].pdfBlockNo])
  BY <1>5 DEF PathSound
<1>9. PathSound(e, D, p, k)
  <2>1. k \in OftIdx /\ PathSound(d, D, o, k)
    OBVIOUS
  <2> QED
    BY ONLY <2>1, <1>6, <1>7, <1>8, PathStays
<1> QED
  BY <1>5, <1>9

(* From d to e entries change in attributes only, the one at place p in    *)
(* its length as well, and nothing else changes.                           *)
OnlyEntries(d, e, D, p) ==
  /\ \A c \in D, r \in Slot :
       SameEntry(d[c][r], e[c][r]) /\ (<<c, r>> # p => e[c][r].len = d[c][r].len)
  /\ \A x \in Block \ D : e[x] = d[x]

(* my_ctrl keeps the invariant. *)
LEMMA CtrlHolds ==
  ASSUME TypeOK, NEW D, Holds(D), NEW n \in Names, NEW isdir, NEW i \in CtrlArgs,
         my_ctrl(n, isdir, i)
  PROVE  Holds(D)' /\ OnlyEntries(disk, disk', D, PlaceOf(currOftIndex))
<1> DEFINE k == currOftIndex
<1>1. judgeDir(cur.fcb) /\ TreeSound(fat1, disk, D) /\ PathSound(disk, D, oft, k)
  BY DEF Holds, my_ctrl
<1>2. PICK b : b = cur.fcb.s_block
  OBVIOUS
<1>3. PICK s : s = getIndexOfFcb(curDir, cur.fcb.len, n, isdir)
  OBVIOUS
<1>4. PICK a : disk' = [disk EXCEPT ![b][s].attr = a]
               /\ ("DATA" \in a <=> "DATA" \in disk[b][s].attr) /\ a \in SUBSET AttrFlag
  <2>0. s # NOT_FOUND
    BY <1>3 DEF my_ctrl
  <2> DEFINE new(attr) == CASE i = 0 -> attr \ {"R"}
                            [] i = 1 -> attr \cup {"R"}
                            [] i = 2 -> attr \cup {"HIDE"}
                            [] i = 3 -> attr \ {"HIDE"}
  <2>1. disk' = [disk EXCEPT ![b][s].attr = new(@)]
    BY <1>2, <1>3 DEF my_ctrl
  <2>2. i = 0 \/ i = 1 \/ i = 2 \/ i = 3
    BY UseAssumption
  <2>3. "DATA" \in new(disk[b][s].attr) <=> "DATA" \in disk[b][s].attr
    BY <2>2
  <2>4. disk[b][s].attr \in SUBSET AttrFlag
    <3>1. b \in D /\ curDir = disk[b] /\ s \in Slot
      BY <1>1, <1>2, <1>3, <2>0, CurIs, IndexType
    <3>2. disk[b][s] \in Fcb
      BY <3>1, <1>1, TreeIs, DirBlockIs
    <3> QED
      BY <3>2 DEF Fcb
  <2>5. new(disk[b][s].attr) \in SUBSET AttrFlag
    BY <2>2, <2>4 DEF AttrFlag
  <2> HIDE DEF new
  <2> QED
    BY <2>1, <2>3, <2>5
<1>5. b \in D /\ b \in Block /\ DirBlock(fat1, disk, b) /\ s \in UsedSlots(disk[b])
  <2>1. /\ b \in D /\ b \in Block /\ DirBlock(fat1, disk, b) /\ curDir = disk[b]
        /\ cur.fcb.len = Cardinality(UsedSlots(disk[b]))
    BY <1>1, <1>2, CurIs
  <2>2. DirBlock(fat1, disk, b) /\ cur.fcb.len = Cardinality(UsedSlots(disk[b]))
    BY <2>1
  <2>3. n # ""
    BY NamesAreNames
  <2>4. getIndexOfFcb(disk[b], cur.fcb.len, n, isdir) = FirstOf(Matching(disk, b, n, isdir))
    <3>1. getIndexOfFcb(disk[b], Cardinality(UsedSlots(disk[b])), n, isdir)
             = FirstOf(Matching(disk, b, n, isdir))
      BY ONLY <2>2, <2>3, IndexFindsEntries
    <3> QED
      BY ONLY <2>2, <3>1
  <2>5. s = FirstOf(Matching(disk, b, n, isdir))
    BY <2>1, <2>4, <1>3
  <2>6. s # NOT_FOUND
    BY <1>3 DEF my_ctrl
  <2> QED
    BY <2>1, <2>5, <2>6, FoundIs
<1>6. PICK c : c = [disk[b][s] EXCEPT !.attr = a]
  OBVIOUS
<1>7. disk[b][s] \in Fcb /\ EntrySound(fat1, disk, D, disk[b][s]) /\ s \in Slot /\ s # 0
  BY <1>1, <1>5, EntryIsIn
<1>8. /\ c \in Fcb /\ c.name = disk[b][s].name /\ c.use = disk[b][s].use
      /\ c.s_block = disk[b][s].s_block /\ c.len = disk[b][s].len /\ c.attr = a
  BY <1>4, <1>6, <1>7 DEF Fcb
<1>9. judgeDir(c) = judgeDir(disk[b][s])
  BY <1>4, <1>8 DEF judgeDir
<1>10. SameEntry(disk[b][s], c)
  BY <1>8, <1>9 DEF SameEntry
<1>11. EntrySound(fat1, disk, D, c)
  BY <1>7, <1>8, <1>9 DEF EntrySound
<1>12. disk \in Memory /\ disk' = [disk EXCEPT ![b][s] = c]
  BY <1>4, <1>6 DEF TypeOK, Memory
<1> DEFINE e == disk'
<1> HIDE DEF e
<1>a. /\ e[b][s] = c
      /\ \A x \in D, r \in Slot : x # b \/ r # s => e[x][r] = disk[x][r]
  <2>1. D \subseteq Block
    BY <1>1, TreeIs
  <2> QED
    BY <2>1, <1>5, <1>7, <1>12 DEF Memory, e
<1>b. SameEntry(disk[b][s], e[b][s]) /\ EntrySound(fat1, disk, D, e[b][s])
  BY <1>10, <1>11, <1>a
<1>13. /\ TreeSound(fat1, e, D)
       /\ \A x \in D : UsedSlots(e[x]) = UsedSlots(disk[x])
       /\ \A x \in D, r \in Slot : x # b \/ r # s => e[x][r] = disk[x][r]
  BY <1>1, <1>5, <1>a, <1>b, TreeStores
<1>14. PathSound(e, D, oft, k)
  <2>1. \A j \in OftIdx : j > k => oft[j] = BlankOft
    BY <1>1 DEF PathSound
  <2>2. ASSUME NEW j \in 0 .. k
        PROVE  /\ SameEntry(oft[j].fcb, oft[j].fcb)
               /\ e[oft[j].pdfBlockNo][oft[j].fdEntryNo] = oft[j].fcb
    <3>1. /\ oft[j].pdfBlockNo \in D /\ oft[j].fdEntryNo \in Slot
          /\ disk[oft[j].pdfBlockNo][oft[j].fdEntryNo] = oft[j].fcb
      BY <1>1, PathIs
    <3>2. oft[j].pdfBlockNo # b \/ oft[j].fdEntryNo # s
      BY <1>1, <1>2, <1>7, OpenIsNotInCur
    <3>3. SameEntry(oft[j].fcb, oft[j].fcb)
      BY <3>1, <1>1, CellsInTree
    <3> QED
      BY <3>1, <3>2, <3>3, <1>13
  <2>3. \A j \in 1 .. k : /\ oft[j].pdfBlockNo \in D
                          /\ oft[j].fdEntryNo \in UsedSlots(e[oft[j].pdfBlockNo])
    BY <1>1, <1>13 DEF PathSound
  <2>4. k \in OftIdx
    BY DEF TypeOK
  <2> QED
    BY <2>1, <2>2, <2>3, <2>4, <1>1, PathStays
<1>15. OnlyEntries(disk, e, D, PlaceOf(k))
  <2>1. ASSUME NEW x \in D, NEW r \in Slot
        PROVE  SameEntry(disk[x][r], e[x][r]) /\ e[x][r].len = disk[x][r].len
    <3>1. SameEntry(disk[x][r], disk[x][r])
      BY <1>1, CellsInTree
    <3> QED
      BY <3>1, <1>8, <1>a, <1>b
  <2>2. \A x \in Block \ D : e[x] = disk[x]
    BY <1>5, <1>12 DEF Memory, e
  <2> QED
    BY <2>1, <2>2 DEF OnlyEntries
<1> QED
  BY <1>13, <1>14, <1>15 DEF Holds, TextSound, my_ctrl, e, cur
-----------------------------------------------------------------------------
(* Formatting. *)

(* What is out of use has an FCB that says so. *)
LEMMA MarkUnusedIs ==
  ASSUME NEW c \in Cell
  PROVE  MarkUnused(c) \in Fcb /\ ~MarkUnused(c).use
<1>1. BlankFcb \in Fcb /\ ~BlankFcb.use
  BY BlankTypes DEF BlankFcb
<1>2. ASSUME c \notin Texts PROVE c \in Fcb /\ [c EXCEPT !.use = FALSE] \in Fcb
  <2>1. c \in Fcb /\ 0 \in Int
    BY <1>2 DEF Cell
  <2> QED
    BY <2>1, FcbOps
<1>3. ASSUME c \notin Texts PROVE ~[c EXCEPT !.use = FALSE].use
  BY <1>2, <1>3 DEF Fcb
<1> QED
  BY <1>1, <1>2, <1>3 DEF MarkUnused

(* A new FCB is in use, has length 0, and is a directory unless it has the *)
(* flag DATA.                                                              *)
LEMMA InitFcbIs ==
  ASSUME NEW name, NEW attr, NEW b
  PROVE  /\ initFcb(name, attr, b).name = name /\ initFcb(name, attr, b).attr = attr
         /\ initFcb(name, attr, b).use /\ initFcb(name, attr, b).s_block = b
         /\ initFcb(name, attr, b).len = 0
         /\ judgeDir(initFcb(name, attr, b)) <=> "DATA" \notin attr
BY DEF initFcb, judgeDir

(* The root is a block. *)
LEMMA RootIsBlock == Root \in Block /\ Root \in 0 .. VD_BLOCK_NUM - 1
BY BlockNum DEF Root, Block, BLOCK_INDEX_ROOT_DIR

(* The formatted disk has an empty root directory. *)
LEMMA FormattedDiskIs ==
  ASSUME NEW m \in Memory
  PROVE  /\ FormattedDisk(m)[Root][0] = initFcb(".", {"ROOTDIR"}, Root)
         /\ FormattedDisk(m)[Root][1] = initFcb("..", {"ROOTDIR"}, Root)
         /\ \A s \in Slot : s # 0 /\ s # 1 =>
              FormattedDisk(m)[Root][s] \in Fcb /\ ~FormattedDisk(m)[Root][s].use
<1> DEFINE attr    == {"ROOTDIR"}
           entry   == [m EXCEPT ![Root][0] = initFcb("", attr, Root)]
           counted == [entry EXCEPT ![Root][0] = AddLen(@, 1)]
           cells   == [s \in Slot |-> CASE s = 0 -> initFcb(".", attr, Root)
                                        [] s = 1 -> initFcb("..", attr, Root)
                                        [] OTHER -> MarkUnused(counted[Root][s])]
<1>1. Root \in Block /\ 0 \in Slot /\ 1 \in Slot
  BY RootIsBlock, SlotsAreNumbers
<1>2. FormattedDisk(m) = [counted EXCEPT ![Root] = cells]
  BY DEF FormattedDisk, initFileFCB, Root
<1>3. entry \in [Block -> [Slot -> Cell]] /\ counted \in [Block -> [Slot -> Cell]]
  <2>1. initFcb("", attr, Root) \in Cell
    BY RootIsBlock, InitFcbType DEF Cell, Kept, AttrFlag
  <2>2. m \in [Block -> [Slot -> Cell]]
    BY DEF Memory
  <2> DEFINE c == initFcb("", attr, Root)
  <2> HIDE DEF c
  <2>3. [m EXCEPT ![Root][0] = c] \in [Block -> [Slot -> Cell]]
    BY <2>1, <2>2, <1>1 DEF c
  <2>4. entry \in [Block -> [Slot -> Cell]]
    BY <2>3 DEF c
  <2> HIDE DEF entry
  <2>5. entry[Root][0] \in Cell
    BY <2>4, <1>1
  <2>6. AddLen(entry[Root][0], 1) \in Cell
    BY <2>5, CellOps
  <2>7. counted \in [Block -> [Slot -> Cell]]
    BY <2>4, <2>6, <1>1
  <2> QED
    BY <2>4, <2>7 DEF entry
<1> HIDE DEF counted
<1>4. FormattedDisk(m)[Root] = cells
  BY <1>1, <1>2, <1>3
<1>5. ASSUME NEW s \in Slot, s # 0, s # 1
      PROVE  cells[s] \in Fcb /\ ~cells[s].use
  <2>1. cells[s] = MarkUnused(counted[Root][s])
    BY <1>5
  <2>2. counted[Root][s] \in Cell
    BY <1>1, <1>3
  <2> QED
    BY <2>1, <2>2, MarkUnusedIs
<1>6. cells[0] = initFcb(".", attr, Root) /\ cells[1] = initFcb("..", attr, Root)
  BY <1>1
<1> QED
  BY <1>4, <1>5, <1>6

(* The formatted table has one-block chains only. *)
LEMMA FormattedFatIs ==
  /\ LinksSound(FormattedFat)
  /\ Begins(FormattedFat, Root) /\ FormattedFat[Root] = END
<1> DEFINE f == FormattedFat
<1>1. \A c \in Block : f[c] = IF c = Root THEN END ELSE FREE
  BY DEF FormattedFat, Root
<1>2. \A c \in Block : f[c] \notin Block /\ f[c] \in {END, FREE}
  BY <1>1, MarksAreNoBlocks
<1> HIDE DEF f
<1>3. LinksSound(f)
  BY <1>2 DEF LinksSound
<1>4. Begins(f, Root) /\ f[Root] = END
  BY <1>1, <1>2, RootIsBlock, MarksAreNoBlocks DEF Begins
<1> QED
  BY <1>3, <1>4 DEF f

(* The root alone is a path. *)
LEMMA RootPath ==
  ASSUME NEW fat, NEW d, NEW D, TreeSound(fat, d, D)
  PROVE  PathSound(d, D, OnlyRootOpen(d), 0)
<1> DEFINE o == OnlyRootOpen(d)
<1>1. 0 \in OftIdx /\ OftIdx \subseteq Nat
  BY SlotsAreNumbers
<1>2. o[0] = RootOft(d) /\ \A i \in OftIdx : i > 0 => o[i] = BlankOft
  BY <1>1 DEF OnlyRootOpen
<1>3. /\ o[0].pdfBlockNo = Root /\ o[0].fdEntryNo = 0 /\ o[0].dirName = <<"root">>
      /\ o[0].isUse /\ o[0].fcb = d[Root][0]
  BY <1>2 DEF RootOft, Root
<1>4. Len(<<"root">>) = 0 + 1
  OBVIOUS
<1>5. \A i \in 0 .. 0 : i = 0
  OBVIOUS
<1>6. \A i \in 1 .. 0 : FALSE
  OBVIOUS
<1> HIDE DEF o
<1>7. PathSound(d, D, o, 0)
  BY <1>2, <1>3, <1>4, <1>5, <1>6 DEF PathSound
<1> QED
  BY <1>7 DEF o

(* The formatted disk is sound, the root being its only directory. *)
LEMMA FormattedTree ==
  ASSUME NEW m \in Memory
  PROVE  /\ TreeSound(FormattedFat, FormattedDisk(m), {Root})
         /\ PathSound(FormattedDisk(m), {Root}, OnlyRootOpen(FormattedDisk(m)), 0)
         /\ judgeDir(FormattedDisk(m)[Root][0])
<1> DEFINE d == FormattedDisk(m)
           f == FormattedFat
           o == OnlyRootOpen(d)
<1>1. /\ d[Root][0] = initFcb(".", {"ROOTDIR"}, Root)
      /\ d[Root][1] = initFcb("..", {"ROOTDIR"}, Root)
      /\ \A s \in Slot : s # 0 /\ s # 1 => d[Root][s] \in Fcb /\ ~d[Root][s].use
  BY FormattedDiskIs
<1>2. Begins(f, Root) /\ f[Root] = END
  BY FormattedFatIs
<1> HIDE DEF d, f
<1>3. /\ d[Root][0].name = "." /\ d[Root][0].use /\ judgeDir(d[Root][0])
      /\ d[Root][0].s_block = Root /\ d[Root][0].len = 0
      /\ d[Root][1].name = ".." /\ d[Root][1].use /\ judgeDir(d[Root][1])
  BY <1>1, InitFcbIs
<1>4. \A s \in Slot : d[Root][s] \in Fcb
  <2>1. d[Root][0] \in Fcb /\ d[Root][1] \in Fcb
    <3>1. "." \in Kept /\ ".." \in Kept /\ {"ROOTDIR"} \in SUBSET AttrFlag
      BY DEF Kept, AttrFlag
    <3> QED
      BY <3>1, <1>1, RootIsBlock, InitFcbType
  <2> QED
    BY <2>1, <1>1
<1>5. UsedSlots(d[Root]) = {}
  <2>1. \A s \in EntrySlot : s \in Slot /\ s # 0 /\ s # 1
    BY SizeAssumption DEF EntrySlot, Slot
  <2>2. \A s \in EntrySlot : d[Root][s] \notin Texts /\ ~d[Root][s].use
    BY <2>1, <1>1, FcbIsNoText
  <2> QED
    BY <2>2 DEF UsedSlots, InUse
<1>6. DirBlock(f, d, Root)
  BY <1>2, <1>3, <1>4, <1>5 DEF DirBlock
<1>7. d[Root][0].len = Cardinality(UsedSlots(d[Root]))
  BY <1>3, <1>5, FS_EmptySet
<1>8. TreeSound(f, d, {Root})
  BY <1>5, <1>6, <1>7, RootIsBlock DEF TreeSound
<1>9. PathSound(d, {Root}, o, 0)
  BY <1>8, RootPath DEF o
<1> QED
  BY <1>3, <1>8, <1>9 DEF d, f

(* The initial state satisfies the invariant. *)
LEMMA InitHolds == Init => Holds({Root})
<1> SUFFICES ASSUME Init PROVE Holds({Root})
  OBVIOUS
<1> DEFINE zero == [b \in Block |-> [s \in Slot |-> BlankFcb]]
<1>1. zero \in Memory
  BY BlankTypes DEF Memory, Cell
<1>2. /\ fat1 = FormattedFat /\ disk = FormattedDisk(zero)
      /\ oft = OnlyRootOpen(FormattedDisk(zero)) /\ currOftIndex = 0 /\ mode # "text"
  BY DEF Init
<1> HIDE DEF zero
<1> QED
  BY <1>1, <1>2, FormattedTree, FormattedFatIs DEF Holds, TextSound

(* So does the one that my_format leaves. *)
LEMMA FormatHolds ==
  ASSUME TypeOK, my_format
  PROVE  Holds({Root})'
<1>1. disk \in Memory
  BY DEF TypeOK, Memory
<1>2. /\ fat1' = FormattedFat /\ disk' = FormattedDisk(disk)
      /\ oft' = OnlyRootOpen(FormattedDisk(disk)) /\ currOftIndex' = 0 /\ mode' # "text"
  BY DEF my_format
<1> QED
  BY <1>1, <1>2, FormattedTree, FormattedFatIs DEF Holds, TextSound
-----------------------------------------------------------------------------
(* Beginning to write. *)

(* A walk over no links. *)
LEMMA ShortestWalk ==
  ASSUME NEW fat, NEW b \in Block
  PROVE  Walks(fat, b, 0 \div FCB_NUM) # {}
<1>1. 0 \div FCB_NUM = 0
  BY SizeAssumption
<1> DEFINE w == [k \in 0 .. 0 |-> b]
<1>2. w \in Walks(fat, b, 0)
  BY DEF Walks
<1> QED
  BY <1>1, <1>2

(* The open file's FCB with another length, as the disk and the table      *)
(* store it.                                                               *)
LEMMA WithLen ==
  ASSUME NEW f \in Fcb, NEW l \in Int
  PROVE  /\ SameEntry(f, [f EXCEPT !.len = l]) /\ [f EXCEPT !.len = l].len = l
         /\ [f EXCEPT !.len = l].s_block = f.s_block
         /\ judgeDir([f EXCEPT !.len = l]) = judgeDir(f)
<1>1. [f EXCEPT !.len = l] \in Fcb
  BY DEF Fcb
<1>2. /\ [f EXCEPT !.len = l].len = l /\ [f EXCEPT !.len = l].s_block = f.s_block
      /\ [f EXCEPT !.len = l].attr = f.attr /\ [f EXCEPT !.len = l].name = f.name
      /\ [f EXCEPT !.len = l].use = f.use
  BY DEF Fcb
<1>3. judgeDir([f EXCEPT !.len = l]) = judgeDir(f)
  BY <1>2 DEF judgeDir
<1> QED
  BY <1>1, <1>2, <1>3 DEF SameEntry

(* What AddLen does to an FCB. *)
LEMMA AddLenIs ==
  ASSUME NEW f \in Fcb
  PROVE  /\ AddLen(f, -LenOf(f)) = [f EXCEPT !.len = 0]
         /\ \A n \in Int : AddLen(f, n) = [f EXCEPT !.len = f.len + n]
<1>1. f \notin Texts /\ f.len \in Int
  BY FcbIsNoText DEF Fcb
<1>2. f.len + (-f.len) = 0
  BY <1>1
<1> QED
  BY <1>1, <1>2 DEF AddLen, LenOf

(* my_write, which empties a file or goes to its end, keeps the invariant. *)
LEMMA WriteHolds ==
  ASSUME TypeOK, NEW D, Holds(D), NEW rewrite \in BOOLEAN, my_write(rewrite)
  PROVE  Holds(D)' /\ OnlyEntries(disk, disk', D, PlaceOf(currOftIndex))
<1> DEFINE k == currOftIndex
           b == cur.pdfBlockNo
           s == cur.fdEntryNo
           len == IF rewrite THEN 0 ELSE cur.fcb.len
           c == [cur.fcb EXCEPT !.len = len]
<1>1. /\ TreeSound(fat1, disk, D) /\ PathSound(disk, D, oft, k) /\ LinksSound(fat1)
      /\ ~judgeDir(cur.fcb) /\ UNCHANGED <<fat1, currOftIndex>> /\ mode' = "text"
      /\ writePreProcess(rewrite)
  BY DEF Holds, my_write
<1>2. k \in OftIdx /\ k # 0 /\ k \in 0 .. k
  BY <1>1, CurIs
<1>3. /\ disk[b][s] = cur.fcb /\ cur \in Oft /\ cur.fcb \in Fcb /\ cur.fcb.len \in Int
      /\ EntrySound(fat1, disk, D, cur.fcb) /\ b \in D /\ s \in Slot /\ b \in Block
  <2>1. /\ disk[b][s] = cur.fcb /\ EntrySound(fat1, disk, D, cur.fcb) /\ b \in D /\ s \in Slot
    BY <1>1, <1>2, PathIs DEF cur
  <2> QED
    BY <2>1, <1>1, TreeIs, CurType DEF Oft, Fcb
<1>4. len \in Int
  BY <1>3
<1>5. disk \in Memory /\ oft \in [OftIdx -> Oft]
  BY DEF TypeOK, Memory
<1>6. disk' = [disk EXCEPT ![b][s] = c]
  <2>1. CASE rewrite
    <3>1. disk' = [disk EXCEPT ![b][s] = AddLen(disk[b][s], -LenOf(disk[b][s]))]
      BY <2>1, <1>1 DEF writePreProcess
    <3> QED
      BY <3>1, <2>1, <1>3, AddLenIs
  <2>2. CASE ~rewrite
    <3>1. c = cur.fcb
      BY <2>2, <1>3 DEF Fcb
    <3>2. disk' = disk
      BY <2>2, <1>1 DEF writePreProcess
    <3> QED
      BY <3>1, <3>2, <1>3, <1>5 DEF Memory
  <2> QED
    BY <2>1, <2>2
<1>7. /\ \A i \in OftIdx : i # k => oft'[i] = oft[i]
      /\ oft'[k].pdfBlockNo = oft[k].pdfBlockNo /\ oft'[k].fdEntryNo = oft[k].fdEntryNo
      /\ oft'[k].dirName = oft[k].dirName /\ oft'[k].isUse = oft[k].isUse
      /\ oft'[k].fcb = c /\ oft'[k].filePtr = len
  <2>1. oft' = [oft EXCEPT ![k].filePtr = len, ![k].fcb.len = IF rewrite THEN 0 ELSE @]
    BY <1>1 DEF writePreProcess
  <2>2. oft' = [oft EXCEPT ![k].filePtr = len, ![k].fcb.len = len]
    BY <2>1, <1>2, <1>5 DEF cur, Oft
  <2> HIDE DEF len
  <2>3. oft[k] = cur
    BY DEF cur
  <2> QED
    BY <2>2, <2>3, <1>2, <1>3, <1>5 DEF Oft
<1>8. SameEntry(cur.fcb, c) /\ c.len = len /\ judgeDir(c) = judgeDir(cur.fcb)
      /\ c.s_block = cur.fcb.s_block
  BY <1>3, <1>4, WithLen
<1>9. EntrySound(fat1, disk, D, c)
  <2>1. cur.fcb.s_block \in Block
    BY <1>1, <1>3 DEF EntrySound
  <2>2. CASE rewrite
    BY <2>1, <2>2, <1>1, <1>3, <1>8, ShortestWalk DEF EntrySound
  <2>3. CASE ~rewrite
    BY <2>3, <1>1, <1>3, <1>8 DEF EntrySound
  <2> QED
    BY <2>2, <2>3
<1> HIDE DEF c, len
<1> DEFINE e == disk'
           p == oft'
<1> HIDE DEF e, p
<1>10. TreeSound(fat1, e, D) /\ PathSound(e, D, p, k)
  <2>1. /\ e[oft[k].pdfBlockNo][oft[k].fdEntryNo] = c
        /\ \A x \in D, r \in Slot :
             x # oft[k].pdfBlockNo \/ r # oft[k].fdEntryNo => e[x][r] = disk[x][r]
    <3>1. D \subseteq Block
      BY <1>1, TreeIs
    <3>2. /\ e[b][s] = c
          /\ \A x \in D, r \in Slot : x # b \/ r # s => e[x][r] = disk[x][r]
      BY <3>1, <1>3, <1>5, <1>6 DEF Memory, e
    <3> QED
      BY <3>2 DEF cur
  <2>2. SameEntry(oft[k].fcb, c)
    BY <1>8 DEF cur
  <2>3. \A i \in 0 .. k : oft[i].pdfBlockNo \in D /\ oft[i].fdEntryNo \in Slot
    BY <1>1, PathIs
  <2>4. /\ \A i \in OftIdx : i # k => p[i] = oft[i]
        /\ p[k].pdfBlockNo = oft[k].pdfBlockNo /\ p[k].fdEntryNo = oft[k].fdEntryNo
        /\ p[k].dirName = oft[k].dirName /\ p[k].isUse = oft[k].isUse
        /\ p[k].fcb = c
    BY <1>7 DEF p
  <2>5. /\ k \in OftIdx /\ k # 0
        /\ TreeSound(fat1, disk, D) /\ PathSound(disk, D, oft, k)
    BY <1>1, <1>2
  <2> QED
    BY ONLY <2>1, <2>2, <2>3, <2>4, <2>5, <1>9, CurStores
<1>11. cur'.fcb = c /\ cur'.filePtr = len
  BY <1>1, <1>7 DEF cur
<1>12. OnlyEntries(disk, e, D, PlaceOf(k))
  <2>1. D \subseteq Block
    BY <1>1, TreeIs
  <2>2. ASSUME NEW x \in D, NEW r \in Slot
        PROVE  SameEntry(disk[x][r], e[x][r]) /\ (x # b \/ r # s => e[x][r] = disk[x][r])
    <3>1. SameEntry(disk[x][r], disk[x][r])
      BY <1>1, CellsInTree
    <3>2. e[b][s] = c /\ (x # b \/ r # s => e[x][r] = disk[x][r])
      BY <2>1, <1>3, <1>5, <1>6 DEF Memory, e
    <3> QED
      BY <3>1, <3>2, <1>3, <1>8
  <2>3. \A x \in Block \ D : e[x] = disk[x]
    BY <1>3, <1>5, <1>6 DEF Memory, e
  <2>4. PlaceOf(k) = <<b, s>>
    BY DEF PlaceOf, cur
  <2> QED
    BY <2>2, <2>3, <2>4 DEF OnlyEntries
<1> QED
  BY <1>1, <1>8, <1>10, <1>11, <1>12 DEF Holds, TextSound, e, p
-----------------------------------------------------------------------------
(* Creating. *)

(* Slot ps of block pb is where the directory b has its length.            *)
DirPlace(d, D, b, pb, ps) ==
  /\ b \in D /\ pb \in D /\ ps \in Slot
  /\ d[pb][ps].s_block = b /\ judgeDir(d[pb][ps])
  /\ b = Root => pb = Root /\ ps = 0
  /\ b # Root => ps \in UsedSlots(d[pb]) /\ pb # b

(* The current directory has its place where the open file table says. *)
LEMMA CurPlace ==
  ASSUME TypeOK, NEW D, TreeSound(fat1, disk, D), PathSound(disk, D, oft, currOftIndex),
         judgeDir(cur.fcb)
  PROVE  /\ DirPlace(disk, D, cur.fcb.s_block, cur.pdfBlockNo, cur.fdEntryNo)
         /\ disk[cur.pdfBlockNo][cur.fdEntryNo] = cur.fcb
<1> DEFINE k == currOftIndex
<1>1. k \in 0 .. k /\ cur.fcb.s_block \in D
  BY CurIs
<1>2. /\ cur.pdfBlockNo \in D /\ cur.fdEntryNo \in Slot
      /\ disk[cur.pdfBlockNo][cur.fdEntryNo] = cur.fcb
  BY <1>1, PathIs DEF cur
<1>3. ASSUME k = 0
      PROVE  cur.fcb.s_block = Root /\ cur.pdfBlockNo = Root /\ cur.fdEntryNo = 0
  BY <1>1, <1>3, PathIs DEF cur
<1>4. ASSUME k # 0
      PROVE  /\ cur.fcb.s_block # Root /\ cur.pdfBlockNo # cur.fcb.s_block
             /\ cur.fdEntryNo \in UsedSlots(disk[cur.pdfBlockNo])
  <2>1. /\ cur.fdEntryNo \in UsedSlots(disk[cur.pdfBlockNo])
        /\ cur.pdfBlockNo # cur.fcb.s_block /\ EntrySound(fat1, disk, D, cur.fcb)
    BY <1>1, <1>4, PathIs DEF cur
  <2> QED
    BY <2>1 DEF EntrySound
<1> QED
  BY <1>1, <1>2, <1>3, <1>4 DEF DirPlace

(* A directory's length is right, and no other entry is of its block.      *)
LEMMA DirPlaceIs ==
  ASSUME NEW fat, NEW d, NEW D, TreeSound(fat, d, D), NEW b, NEW pb, NEW ps,
         DirPlace(d, D, b, pb, ps)
  PROVE  /\ d[pb][ps].len = Cardinality(UsedSlots(d[b])) /\ d[pb][ps] \in Fcb
         /\ \A c \in D : \A r \in UsedSlots(d[c]) : d[c][r].s_block = b => c = pb /\ r = ps
<1>1. d[pb][ps] \in Fcb
  BY TreeIs, DirBlockIs DEF DirPlace
<1>2. CASE b = Root
  <2>1. pb = Root /\ ps = 0
    BY <1>2 DEF DirPlace
  <2>2. d[pb][ps].len = Cardinality(UsedSlots(d[b]))
    BY <2>1, <1>2, TreeIs
  <2>3. \A c \in D : \A r \in UsedSlots(d[c]) : d[c][r].s_block # b
    BY <1>2, EntryIsIn
  <2> QED
    BY <1>1, <2>2, <2>3
<1>3. CASE b # Root
  <2>1. pb \in D /\ ps \in UsedSlots(d[pb]) /\ d[pb][ps].s_block = b /\ judgeDir(d[pb][ps])
    BY <1>3 DEF DirPlace
  <2>2. EntrySound(fat, d, D, d[pb][ps])
    BY <2>1 DEF TreeSound
  <2>3. d[pb][ps].len = Cardinality(UsedSlots(d[b]))
    BY <2>1, <2>2 DEF EntrySound
  <2>4. \A c \in D : \A r \in UsedSlots(d[c]) : d[c][r].s_block = b => c = pb /\ r = ps
    BY <2>1 DEF TreeSound
  <2> QED
    BY <1>1, <2>3, <2>4
<1> QED
  BY <1>2, <1>3

(* The blocks that belong to the entry f, as BlocksOf has it. *)
Owned(fat, f) == IF judgeDir(f) THEN {f.s_block} ELSE FatChain(fat, f.s_block)

(* From fat and d to g and e each entry of D stays, with its blocks, or is *)
(* removed and they are freed; the directories removed are among R, and    *)
(* what is taken belongs to an entry of one that stays.                    *)
KeepsBlocks(fat, d, g, e, D, R) ==
  /\ Root \notin R
  /\ \A c \in D : \A r \in UsedSlots(d[c]) :
       \/ /\ \A x \in Owned(fat, d[c][r]) : g[x] = FREE
          /\ judgeDir(d[c][r]) => d[c][r].s_block \in R
       \/ /\ c \notin R /\ r \in UsedSlots(e[c]) /\ SameEntry(d[c][r], e[c][r])
          /\ Owned(fat, d[c][r]) \subseteq Owned(g, e[c][r])
  /\ \A x \in Block : fat[x] = FREE /\ g[x] # FREE =>
       \E c \in D \ R : \E r \in UsedSlots(e[c]) : x \in Owned(g, e[c][r])

(* From fat and d to g and e each file among the entries of D stays, with  *)
(* its length, its chain and what is in it, or its entry or directory is   *)
(* removed; but for the one at place p, and for what is in StrayBlock.     *)
KeepsFiles(fat, d, g, e, D, p) ==
  \A c \in D : \A r \in UsedSlots(d[c]) : ~judgeDir(d[c][r]) /\ <<c, r>> # p =>
    \/ g[c] = FREE \/ r \notin UsedSlots(e[c])
    \/ /\ e[c][r].len = d[c][r].len
       /\ \A n \in Nat : Walks(fat, d[c][r].s_block, n) \subseteq Walks(g, d[c][r].s_block, n)
       /\ \A a \in FatChain(fat, d[c][r].s_block) : \A t \in Slot :
            a # StrayBlock => e[a][t] = d[a][t]

(* Files have no block of a directory, and no free one.                    *)
LEMMA FilesAreApart ==
  ASSUME NEW fat, NEW d, NEW D, LinksSound(fat), TreeSound(fat, d, D),
         NEW c \in D, NEW r \in UsedSlots(d[c]), ~judgeDir(d[c][r]),
         NEW a \in FatChain(fat, d[c][r].s_block)
  PROVE  a \in Block /\ a \notin D /\ fat[a] # FREE
<1>1. PICK b : b = d[c][r].s_block
  OBVIOUS
<1>2. b \in Block /\ b \notin D /\ Begins(fat, b)
  BY <1>1, EntryIsIn DEF EntrySound
<1>3. a \in Block /\ fat[a] # FREE
  BY <1>1, <1>2, ChainIsLeast, ChainIsTaken DEF Begins
<1>4. ASSUME a \in D PROVE FALSE
  <2>1. Begins(fat, a)
    BY <1>4, DirsBegin
  <2>2. a = b
    BY <2>1, <1>1, <1>2, BeginsOnlyItsChain
  <2> QED
    BY <2>2, <1>2, <1>4
<1> QED
  BY <1>3, <1>4

(* A chain none of whose links is lost stays.                              *)
LEMMA ChainGrows ==
  ASSUME NEW fat, NEW g, NEW b \in Block, NEW F, b \notin F,
         \A a \in Block : a \notin F /\ fat[a] \in Block => g[a] = fat[a] /\ fat[a] \notin F
  PROVE  FatChain(fat, b) \subseteq FatChain(g, b)
<1> DEFINE S == FatChain(g, b) \ F
<1>1. S \in SUBSET Block /\ b \in S
  BY ChainIsLeast
<1>2. ASSUME NEW a \in S, fat[a] \in Block PROVE fat[a] \in S
  BY <1>2, ChainIsLeast
<1> HIDE DEF S
<1>3. FatChain(fat, b) \subseteq S
  BY <1>1, <1>2, ChainIsLeast
<1> QED
  BY <1>3 DEF S

(* So do the blocks of an entry that differs in length or attributes only. *)
LEMMA OwnedGrows ==
  ASSUME NEW fat, NEW g, NEW f, NEW h, f.s_block \in Block, SameEntry(f, h), NEW F,
         ~judgeDir(f) => f.s_block \notin F,
         \A a \in Block : a \notin F /\ fat[a] \in Block => g[a] = fat[a] /\ fat[a] \notin F
  PROVE  Owned(fat, f) \subseteq Owned(g, h)
<1>1. h.s_block = f.s_block /\ judgeDir(h) = judgeDir(f)
  BY DEF SameEntry
<1>2. CASE judgeDir(f)
  BY <1>1, <1>2 DEF Owned
<1>3. CASE ~judgeDir(f)
  <2>1. PICK b : b = f.s_block
    OBVIOUS
  <2>2. FatChain(fat, b) \subseteq FatChain(g, b)
    BY <1>3, <2>1, ChainGrows
  <2> QED
    BY <1>1, <1>3, <2>1, <2>2 DEF Owned
<1> QED
  BY <1>2, <1>3

(* A block is taken from the free ones, and ends a chain of its own.       *)
Taken(fat, g, x) ==
  /\ x \in Block /\ fat[x] = FREE /\ g[x] = END
  /\ \A c \in Block : c # x => g[c] = fat[c]

(* Taking a free block as a chain of its own disturbs no other chain. *)
LEMMA TakenLinks ==
  ASSUME NEW fat, NEW g, NEW x, LinksSound(fat), Taken(fat, g, x)
  PROVE  /\ LinksSound(g) /\ Begins(g, x)
         /\ \A b : Begins(fat, b) => b # x /\ Begins(g, b) /\ g[b] = fat[b]
         /\ \A b : \A n \in Nat : Walks(fat, b, n) \subseteq Walks(g, b, n)
<1>1. x \in Block /\ fat[x] = FREE /\ g[x] = END /\ \A c \in Block : c # x => g[c] = fat[c]
  BY DEF Taken
<1>2. \A c \in Block : fat[c] # x
  BY <1>1 DEF LinksSound
<1>3. LinksSound(g)
  <2>1. \A c \in Block : g[c] \in Block \cup {END, FREE}
    BY <1>1 DEF LinksSound
  <2>2. \A c \in Block : g[c] \in Block => c # x /\ g[c] = fat[c] /\ g[c] # x
    BY <1>1, <1>2, MarksAreNoBlocks
  <2>3. \A c \in Block : g[c] \in Block => g[g[c]] # FREE
    BY <2>2, <1>1 DEF LinksSound
  <2>4. \A b, c \in Block : g[b] \in Block /\ g[b] = g[c] => b = c
    BY <2>2 DEF LinksSound
  <2> QED
    BY <2>1, <2>3, <2>4 DEF LinksSound
<1>4. Begins(g, x)
  BY <1>1, <1>2, MarksAreNoBlocks DEF Begins
<1>5. ASSUME NEW b, Begins(fat, b)
      PROVE  b # x /\ Begins(g, b) /\ g[b] = fat[b]
  <2>1. b \in Block /\ b # x
    BY <1>1, <1>5 DEF Begins
  <2>2. g[b] = fat[b]
    BY <1>1, <2>1
  <2>3. \A c \in Block : g[c] # b
    BY <1>1, <1>5, MarksAreNoBlocks DEF Begins
  <2> QED
    BY <2>1, <2>2, <2>3, <1>5 DEF Begins
<1>6. ASSUME NEW b, NEW n \in Nat, NEW w \in Walks(fat, b, n)
      PROVE  w \in Walks(g, b, n)
  <2>1. ASSUME NEW k \in 0 .. n - 1 PROVE g[w[k]] = fat[w[k]]
    <3>1. w[k] \in Block /\ w[k + 1] \in Block /\ fat[w[k]] = w[k + 1]
      <4>1. k \in 0 .. n /\ k + 1 \in 0 .. n
        OBVIOUS
      <4> QED
        BY <4>1, WalkIs
    <3> QED
      BY <3>1, <1>1, MarksAreNoBlocks
  <2> QED
    BY <2>1, WalkStays
<1> QED
  BY <1>3, <1>4, <1>5, <1>6

(* The disk e is d with an entry more, in the first unused slot s of       *)
(* directory b, which has its length in slot ps of block pb.               *)
EntryAdded(d, e, D, b, s, pb, ps) ==
  /\ s \in EntrySlot \ UsedSlots(d[b]) /\ \A r \in EntrySlot \ UsedSlots(d[b]) : s =< r
  /\ e[b][s] \in Fcb /\ e[b][s].use /\ e[b][s].name \in StoredNames /\ e[b][s].len = 0
  /\ \A r \in UsedSlots(d[b]) :
       ~(d[b][r].name = e[b][s].name /\ judgeDir(d[b][r]) = judgeDir(e[b][s]))
  /\ SameEntry(d[pb][ps], e[pb][ps]) /\ e[pb][ps].len = d[pb][ps].len + 1
  /\ \A c \in D, r \in Slot :
       (c # b \/ r # s) /\ (c # pb \/ r # ps) => e[c][r] = d[c][r]

(* Block x of the disk e is a directory without entries. *)
NewDir(e, x) ==
  /\ \A r \in Slot : e[x][r] \in Fcb
  /\ e[x][0].name = "." /\ e[x][0].use /\ judgeDir(e[x][0]) /\ e[x][0].s_block = x
  /\ e[x][1].name = ".." /\ e[x][1].use /\ judgeDir(e[x][1])
  /\ \A r \in EntrySlot : ~e[x][r].use

(* The cells and lengths of the directories after an entry is made. *)
LEMMA AddedCells ==
  ASSUME NEW fat, NEW d, NEW D, TreeSound(fat, d, D), NEW b, NEW pb, NEW ps,
         DirPlace(d, D, b, pb, ps), NEW e, NEW s, EntryAdded(d, e, D, b, s, pb, ps)
  PROVE  /\ s \in Slot /\ s \in EntrySlot /\ s # 0 /\ s \notin UsedSlots(d[b])
         /\ (pb # b \/ ps # s)
         /\ \A c \in D, r \in Slot : c # b \/ r # s => SameEntry(d[c][r], e[c][r])
         /\ \A c \in D : \A r \in Slot : e[c][r] \in Fcb
         /\ \A c \in D : c # b => UsedSlots(e[c]) = UsedSlots(d[c])
         /\ UsedSlots(e[b]) = UsedSlots(d[b]) \cup {s}
         /\ Cardinality(UsedSlots(e[b])) = Cardinality(UsedSlots(d[b])) + 1
<1>1. s \in Slot /\ s \in EntrySlot /\ s # 0 /\ s \notin UsedSlots(d[b])
  <2>1. s \in EntrySlot /\ s \notin UsedSlots(d[b])
    BY DEF EntryAdded
  <2> QED
    BY <2>1, SizeAssumption DEF EntrySlot, Slot
<1>2. pb # b \/ ps # s
  BY <1>1 DEF DirPlace
<1>3. ASSUME NEW c \in D, NEW r \in Slot, c # b \/ r # s
      PROVE  SameEntry(d[c][r], e[c][r])
  <2>1. SameEntry(d[c][r], d[c][r])
    BY CellsInTree
  <2>2. CASE c = pb /\ r = ps
    BY <2>2 DEF EntryAdded
  <2>3. CASE ~(c = pb /\ r = ps)
    <3>1. e[c][r] = d[c][r]
      BY <1>3, <2>3 DEF EntryAdded
    <3> QED
      BY <2>1, <3>1
  <2> QED
    BY <2>2, <2>3
<1>4. ASSUME NEW c \in D, NEW r \in Slot PROVE e[c][r] \in Fcb
  <2>1. CASE c = b /\ r = s
    BY <2>1 DEF EntryAdded
  <2>2. CASE c # b \/ r # s
    BY <2>2, <1>3 DEF SameEntry
  <2> QED
    BY <2>1, <2>2
<1>5. ASSUME NEW c \in D, c # b PROVE UsedSlots(e[c]) = UsedSlots(d[c])
  <2>1. \A r \in Slot : SameEntry(d[c][r], e[c][r])
    BY <1>3, <1>5
  <2> QED
    BY <2>1, DirsBegin, SameUsed
<1>6. UsedSlots(e[b]) = UsedSlots(d[b]) \cup {s}
  <2>0. b \in D /\ DirBlock(fat, d, b)
    BY TreeIs DEF DirPlace
  <2>1. \A r \in EntrySlot : r \in Slot
    BY SlotsAreNumbers
  <2>2. \A r \in EntrySlot : r # s => SameEntry(d[b][r], e[b][r])
    BY <2>0, <2>1, <1>3
  <2>3. \A r \in EntrySlot : e[b][r] \in Fcb /\ e[b][r] \notin Texts
    BY <2>0, <2>1, <1>4, FcbIsNoText
  <2>4. \A r \in EntrySlot : r \in UsedSlots(d[b]) <=> d[b][r].use
    BY <2>0, DirBlockIs
  <2>5. \A r \in EntrySlot : r # s => (e[b][r].use <=> r \in UsedSlots(d[b]))
    BY <2>2, <2>4 DEF SameEntry
  <2>6. \A r \in EntrySlot : r \in UsedSlots(e[b]) <=> e[b][r].use
    BY <2>3 DEF UsedSlots, InUse
  <2>7. e[b][s].use
    BY DEF EntryAdded
  <2>8. UsedSlots(e[b]) \subseteq EntrySlot /\ UsedSlots(d[b]) \subseteq EntrySlot
    BY DEF UsedSlots
  <2> QED
    BY <2>5, <2>6, <2>7, <2>8, <1>1
<1>7. Cardinality(UsedSlots(e[b])) = Cardinality(UsedSlots(d[b])) + 1
  <2>1. IsFiniteSet(UsedSlots(d[b]))
    BY UsedIsFinite
  <2> QED
    BY <2>1, <1>1, <1>6, FS_AddElement
<1> QED
  BY <1>1, <1>2, <1>3, <1>4, <1>5, <1>6, <1>7

(* The directory in which an entry is made stays a directory. *)
LEMMA AddedBlock ==
  ASSUME NEW fat, NEW d, NEW D, TreeSound(fat, d, D), NEW b, NEW pb, NEW ps,
         DirPlace(d, D, b, pb, ps), NEW e, NEW s, EntryAdded(d, e, D, b, s, pb, ps),
         NEW g, Begins(g, b), g[b] = END
  PROVE  DirBlock(g, e, b)
<1>0. b \in D /\ DirBlock(fat, d, b)
  BY TreeIs DEF DirPlace
<1>1. /\ s \in Slot /\ s \in EntrySlot /\ s # 0 /\ s # 1 /\ s \notin UsedSlots(d[b])
      /\ \A r \in Slot : r # s => SameEntry(d[b][r], e[b][r])
      /\ \A r \in Slot : e[b][r] \in Fcb
      /\ UsedSlots(e[b]) = UsedSlots(d[b]) \cup {s}
  <2>1. s \in EntrySlot => s # 1
    BY DEF EntrySlot
  <2> QED
    BY <1>0, <2>1, AddedCells
<1>2. 0 \in Slot /\ 1 \in Slot /\ EntrySlot \subseteq Slot /\ UsedSlots(d[b]) \subseteq EntrySlot
  BY <1>0, DirBlockIs
<1>3. /\ e[b][0].name = "." /\ e[b][0].use /\ judgeDir(e[b][0]) /\ e[b][0].s_block = b
      /\ e[b][1].name = ".." /\ e[b][1].use /\ judgeDir(e[b][1])
  <2>1. SameEntry(d[b][0], e[b][0]) /\ SameEntry(d[b][1], e[b][1])
    BY <1>1, <1>2
  <2> QED
    BY <2>1, <1>0 DEF SameEntry, DirBlock
<1>4. \A r \in UsedSlots(e[b]) : e[b][r].name \in StoredNames
  <2>1. e[b][s].name \in StoredNames
    BY DEF EntryAdded
  <2>2. \A r \in UsedSlots(d[b]) : e[b][r].name = d[b][r].name
    BY <1>1, <1>2 DEF SameEntry
  <2>3. \A r \in UsedSlots(d[b]) : d[b][r].name \in StoredNames
    BY <1>0 DEF DirBlock
  <2> QED
    BY <1>1, <2>1, <2>2, <2>3
<1>5. ASSUME NEW q \in EntrySlot, ~e[b][q].use, e[b][q].name # ""
      PROVE  \A r \in UsedSlots(e[b]) : r < q
  <2>1. q # s
    BY <1>5 DEF EntryAdded
  <2>2. ~d[b][q].use /\ d[b][q].name # ""
    BY <2>1, <1>1, <1>2, <1>5 DEF SameEntry
  <2>3. \A r \in UsedSlots(d[b]) : r < q
    BY <2>2, <1>0 DEF DirBlock
  <2>4. q \notin UsedSlots(d[b])
    BY <2>2, <1>0, DirBlockIs
  <2>5. s =< q
    BY <2>4 DEF EntryAdded
  <2>6. s < q
    BY <2>1, <2>5, <1>1, SlotsAreInts
  <2> QED
    BY <2>3, <2>6, <1>1
<1> QED
  BY <1>1, <1>3, <1>4, <1>5 DEF DirBlock

(* The directories after an entry for block x is made. *)
DirsWith(D, f, x) == IF judgeDir(f) THEN D \cup {x} ELSE D

(* With a new entry of a block that was free, the tree is sound. *)
LEMMA TreeAdds ==
  ASSUME NEW fat, NEW d, NEW D, LinksSound(fat), TreeSound(fat, d, D),
         NEW b, NEW pb, NEW ps, DirPlace(d, D, b, pb, ps),
         NEW x, NEW g, Taken(fat, g, x), NEW e, NEW s, EntryAdded(d, e, D, b, s, pb, ps),
         e[b][s].s_block = x, judgeDir(e[b][s]) => NewDir(e, x)
  PROVE  TreeSound(g, e, DirsWith(D, e[b][s], x))
<1> DEFINE f == e[b][s]
           E == DirsWith(D, f, x)
<1>1. /\ b \in D /\ pb \in D /\ ps \in Slot /\ D \subseteq Block /\ Root \in D
      /\ d[pb][ps].s_block = b /\ judgeDir(d[pb][ps])
      /\ b = Root => pb = Root /\ ps = 0
      /\ b # Root => ps \in UsedSlots(d[pb]) /\ pb # b
  BY TreeIs DEF DirPlace
<1>2. /\ s \in Slot /\ s \in EntrySlot /\ s # 0 /\ s \notin UsedSlots(d[b])
      /\ (pb # b \/ ps # s)
      /\ \A c \in D, r \in Slot : c # b \/ r # s => SameEntry(d[c][r], e[c][r])
      /\ \A c \in D : c # b => UsedSlots(e[c]) = UsedSlots(d[c])
      /\ UsedSlots(e[b]) = UsedSlots(d[b]) \cup {s}
      /\ Cardinality(UsedSlots(e[b])) = Cardinality(UsedSlots(d[b])) + 1
  BY AddedCells
<1>3. /\ LinksSound(g) /\ Begins(g, x) /\ x \in Block /\ g[x] = END
      /\ \A c : Begins(fat, c) => c # x /\ Begins(g, c) /\ g[c] = fat[c]
      /\ \A c : \A n \in Nat : Walks(fat, c, n) \subseteq Walks(g, c, n)
  BY TakenLinks DEF Taken
<1>4. \A c \in D : Begins(fat, c) /\ fat[c] = END /\ DirBlock(fat, d, c)
  BY DirsBegin
<1>5. x \notin D /\ x # Root /\ x # b
  BY <1>1, <1>3, <1>4
<1>6. /\ f \in Fcb /\ f.use /\ f.name \in StoredNames /\ f.len = 0 /\ f.s_block = x
      /\ \A r \in UsedSlots(d[b]) :
           ~(d[b][r].name = f.name /\ judgeDir(d[b][r]) = judgeDir(f))
      /\ SameEntry(d[pb][ps], e[pb][ps]) /\ e[pb][ps].len = d[pb][ps].len + 1
      /\ \A c \in D, r \in Slot :
           (c # b \/ r # s) /\ (c # pb \/ r # ps) => e[c][r] = d[c][r]
  BY DEF EntryAdded
<1>7. /\ d[pb][ps].len = Cardinality(UsedSlots(d[b]))
      /\ \A c \in D : \A r \in UsedSlots(d[c]) : d[c][r].s_block = b => c = pb /\ r = ps
  BY DirPlaceIs
<1>8. e[pb][ps].len = Cardinality(UsedSlots(e[b]))
  BY <1>2, <1>6, <1>7
<1>9. ASSUME judgeDir(f)
      PROVE  DirBlock(g, e, x) /\ UsedSlots(e[x]) = {}
  <2>1. NewDir(e, x)
    BY <1>9
  <2>2. \A r \in EntrySlot : e[x][r] \notin Texts /\ ~e[x][r].use
    BY <2>1, FcbIsNoText, SlotsAreNumbers DEF NewDir
  <2>3. UsedSlots(e[x]) = {}
    BY <2>2 DEF UsedSlots, InUse
  <2> QED
    BY <2>1, <2>3, <1>3 DEF DirBlock, NewDir
<1> HIDE DEF f
<1>10. E \subseteq Block /\ D \subseteq E /\ \A c \in E : c \in D \/ (c = x /\ judgeDir(f))
  BY <1>1, <1>3 DEF DirsWith
<1>11. judgeDir(f) => x \in E
  BY DEF DirsWith
<1>12. ~judgeDir(f) => x \notin E
  BY <1>5 DEF DirsWith
<1> HIDE DEF E
<1>13. \A c \in E : DirBlock(g, e, c)
  <2>1. DirBlock(g, e, b)
    BY <1>1, <1>3, <1>4, AddedBlock
  <2>2. ASSUME NEW c \in D, c # b PROVE DirBlock(g, e, c)
    <3>1. DirBlock(fat, d, c) /\ Begins(g, c) /\ g[c] = END
      BY <2>2, <1>3, <1>4
    <3>2. \A r \in Slot : SameEntry(d[c][r], e[c][r])
      BY <2>2, <1>2
    <3> QED
      BY <3>1, <3>2, DirBlockStays
  <2> QED
    BY <2>1, <2>2, <1>9, <1>10
<1>14. e[Root][0].len = Cardinality(UsedSlots(e[Root]))
  <2>1. 0 \in Slot
    BY SlotsAreNumbers
  <2>2. CASE b = Root
    BY <2>2, <1>1, <1>8
  <2>3. CASE b # Root
    <3>1. pb # Root \/ ps # 0
      <4>1. ps \in UsedSlots(d[pb])
        BY <2>3, <1>1
      <4> QED
        BY <4>1, <1>1, EntryIsIn
    <3>2. e[Root][0] = d[Root][0]
      BY <3>1, <2>1, <2>3, <1>1, <1>6
    <3> QED
      BY <3>2, <2>3, <1>1, <1>2, TreeIs
  <2> QED
    BY <2>2, <2>3
<1>15. ASSUME NEW c \in D, NEW r \in UsedSlots(d[c])
       PROVE  /\ r \in Slot /\ (c # b \/ r # s) /\ SameEntry(d[c][r], e[c][r])
              /\ e[c][r].s_block = d[c][r].s_block /\ e[c][r].s_block # x
              /\ EntrySound(g, e, E, e[c][r])
  <2>1. /\ r \in Slot /\ EntrySound(fat, d, D, d[c][r]) /\ Begins(fat, d[c][r].s_block)
    BY EntryIsIn
  <2>2. c # b \/ r # s
    BY <1>2
  <2>3. SameEntry(d[c][r], e[c][r])
    BY <2>1, <2>2, <1>2
  <2>4. e[c][r].s_block = d[c][r].s_block /\ judgeDir(e[c][r]) = judgeDir(d[c][r])
    BY <2>3 DEF SameEntry
  <2>5. e[c][r].s_block # x
    BY <2>1, <2>4, <1>3
  <2>6. CASE c = pb /\ r = ps
    <3>1. b # Root
      <4>1. r # 0
        BY EntryIsIn
      <4> QED
        BY <4>1, <2>6, <1>1
    <3>2. judgeDir(e[c][r]) /\ e[c][r].s_block = b /\ e[c][r].len = Cardinality(UsedSlots(e[b]))
      BY <2>4, <2>6, <1>1, <1>8
    <3> QED
      BY <3>1, <3>2, <2>1, <2>2, <2>3, <2>4, <2>5, <1>1, <1>10 DEF EntrySound
  <2>7. CASE ~(c = pb /\ r = ps)
    <3>1. e[c][r] = d[c][r]
      BY <2>1, <2>2, <2>7, <1>6
    <3>2. d[c][r].s_block # b
      BY <2>7, <1>7
    <3>3. CASE judgeDir(d[c][r])
      <4>1. /\ d[c][r].s_block \in D /\ d[c][r].s_block # Root
            /\ d[c][r].len = Cardinality(UsedSlots(d[d[c][r].s_block]))
        BY <3>3, <2>1 DEF EntrySound
      <4>2. UsedSlots(e[d[c][r].s_block]) = UsedSlots(d[d[c][r].s_block])
        BY <4>1, <3>2, <1>2
      <4> QED
        BY <4>1, <4>2, <3>1, <3>3, <2>1, <2>2, <2>3, <2>4, <2>5, <1>10 DEF EntrySound
    <3>4. CASE ~judgeDir(d[c][r])
      <4>1. /\ d[c][r].s_block \in Block /\ d[c][r].s_block \notin D /\ d[c][r].len >= 0
            /\ Walks(fat, d[c][r].s_block, d[c][r].len \div FCB_NUM) # {}
        BY <3>4, <2>1 DEF EntrySound
      <4>2. d[c][r].s_block \notin E
        BY <4>1, <2>4, <2>5, <1>10
      <4>3. d[c][r].len \div FCB_NUM \in Nat
        <5>1. d[c][r].len \in Int
          BY <2>1, EntryIsIn DEF Fcb
        <5> QED
          BY <5>1, <4>1, SizeAssumption
      <4>4. Walks(g, d[c][r].s_block, d[c][r].len \div FCB_NUM) # {}
        BY <4>1, <4>3, <1>3
      <4> QED
        BY <4>1, <4>2, <4>4, <3>1, <3>4, <2>1, <2>2, <2>3, <2>4, <2>5, <1>3 DEF EntrySound
    <3> QED
      BY <3>3, <3>4
  <2> QED
    BY <2>6, <2>7
<1>16. EntrySound(g, e, E, f)
  <2>1. CASE judgeDir(f)
    BY <2>1, <1>5, <1>6, <1>9, <1>11, FS_EmptySet DEF EntrySound
  <2>2. CASE ~judgeDir(f)
    BY <2>2, <1>3, <1>6, <1>12, ShortestWalk DEF EntrySound
  <2> QED
    BY <2>1, <2>2
<1>17. \A c \in E : \A r \in UsedSlots(e[c]) :
         (c = b /\ r = s) \/ (c \in D /\ r \in UsedSlots(d[c]))
  BY <1>1, <1>2, <1>9, <1>10
<1>18. \A c \in E : \A r \in UsedSlots(e[c]) : EntrySound(g, e, E, e[c][r])
  BY <1>15, <1>16, <1>17 DEF f
<1>19. \A c, a \in E : \A r \in UsedSlots(e[c]), q \in UsedSlots(e[a]) :
         e[c][r].s_block = e[a][q].s_block => c = a /\ r = q
  <2> SUFFICES ASSUME NEW c \in E, NEW a \in E, NEW r \in UsedSlots(e[c]),
                      NEW q \in UsedSlots(e[a]), e[c][r].s_block = e[a][q].s_block
               PROVE  c = a /\ r = q
    OBVIOUS
  <2>1. (c = b /\ r = s) \/ (c \in D /\ r \in UsedSlots(d[c]))
    BY <1>17
  <2>2. (a = b /\ q = s) \/ (a \in D /\ q \in UsedSlots(d[a]))
    BY <1>17
  <2>3. CASE c \in D /\ r \in UsedSlots(d[c]) /\ a \in D /\ q \in UsedSlots(d[a])
    <3>1. d[c][r].s_block = d[a][q].s_block
      BY <2>3, <1>15
    <3> QED
      BY <3>1, <2>3 DEF TreeSound
  <2>4. e[b][s].s_block = x
    OBVIOUS
  <2>5. CASE c = b /\ r = s /\ a \in D /\ q \in UsedSlots(d[a])
    BY <2>4, <2>5, <1>15
  <2>6. CASE a = b /\ q = s /\ c \in D /\ r \in UsedSlots(d[c])
    BY <2>4, <2>6, <1>15
  <2> QED
    BY <2>1, <2>2, <2>3, <2>5, <2>6
<1>20. \A c \in E : \A r, q \in UsedSlots(e[c]) :
         e[c][r].name = e[c][q].name /\ judgeDir(e[c][r]) = judgeDir(e[c][q]) => r = q
  <2> SUFFICES ASSUME NEW c \in E, NEW r \in UsedSlots(e[c]), NEW q \in UsedSlots(e[c]),
                      e[c][r].name = e[c][q].name, judgeDir(e[c][r]) = judgeDir(e[c][q])
               PROVE  r = q
    OBVIOUS
  <2>1. (c = b /\ r = s) \/ (c \in D /\ r \in UsedSlots(d[c]))
    BY <1>17
  <2>2. (c = b /\ q = s) \/ (c \in D /\ q \in UsedSlots(d[c]))
    BY <1>17
  <2>3. \A p \in UsedSlots(d[c]) : c \in D =>
          e[c][p].name = d[c][p].name /\ judgeDir(e[c][p]) = judgeDir(d[c][p])
    BY <1>15 DEF SameEntry
  <2>4. CASE c \in D /\ r \in UsedSlots(d[c]) /\ q \in UsedSlots(d[c])
    BY <2>3, <2>4 DEF TreeSound
  <2>5. CASE c = b /\ r = s /\ q \in UsedSlots(d[b])
    BY <2>3, <2>5, <1>1, <1>6 DEF f
  <2>6. CASE c = b /\ q = s /\ r \in UsedSlots(d[b])
    BY <2>3, <2>6, <1>1, <1>6 DEF f
  <2> QED
    BY <2>1, <2>2, <2>4, <2>5, <2>6
<1>21. TreeSound(g, e, E)
  BY <1>1, <1>10, <1>13, <1>14, <1>18, <1>19, <1>20 DEF TreeSound
<1> QED
  BY <1>21 DEF E, f

(* What open entries stand in a directory that changes. *)
LEMMA OpenPlaces ==
  ASSUME TypeOK, NEW D, TreeSound(fat1, disk, D), PathSound(disk, D, oft, currOftIndex),
         NEW i \in 0 .. currOftIndex
  PROVE  /\ oft[i].pdfBlockNo \in D /\ oft[i].fdEntryNo \in Slot
         /\ disk[oft[i].pdfBlockNo][oft[i].fdEntryNo] = oft[i].fcb
         /\ oft[i].pdfBlockNo # cur.fcb.s_block \/ oft[i].fdEntryNo = 0
         /\ i # currOftIndex =>
              oft[i].pdfBlockNo # cur.pdfBlockNo \/ oft[i].fdEntryNo # cur.fdEntryNo
<1>1. /\ oft[i].pdfBlockNo \in D /\ oft[i].fdEntryNo \in Slot
      /\ disk[oft[i].pdfBlockNo][oft[i].fdEntryNo] = oft[i].fcb
  BY PathIs
<1>2. oft[i].pdfBlockNo # cur.fcb.s_block \/ oft[i].fdEntryNo = 0
  BY OpenIsNotInCur
<1>3. currOftIndex \in 0 .. currOftIndex
  BY CurIs
<1>4. i # currOftIndex =>
        oft[i].pdfBlockNo # cur.pdfBlockNo \/ oft[i].fdEntryNo # cur.fdEntryNo
  BY <1>3, OpenPlacesDiffer DEF cur
<1> QED
  BY <1>1, <1>2, <1>4

(* The current entry's length changes, on the disk e and in the table p.   *)
CurUpdated(e, p) ==
  /\ SameEntry(cur.fcb, e[cur.pdfBlockNo][cur.fdEntryNo])
  /\ \A i \in OftIdx : i # currOftIndex => p[i] = oft[i]
  /\ p[currOftIndex].pdfBlockNo = cur.pdfBlockNo
  /\ p[currOftIndex].fdEntryNo = cur.fdEntryNo
  /\ p[currOftIndex].dirName = cur.dirName
  /\ p[currOftIndex].isUse = cur.isUse
  /\ p[currOftIndex].fcb = e[cur.pdfBlockNo][cur.fdEntryNo]

(* The open entries stay a path when only the current FCB changes. *)
LEMMA PathUpdates ==
  ASSUME TypeOK, NEW D, TreeSound(fat1, disk, D), PathSound(disk, D, oft, currOftIndex),
         NEW e, NEW p, CurUpdated(e, p), NEW E,
         \A i \in 0 .. currOftIndex : i # currOftIndex =>
           e[oft[i].pdfBlockNo][oft[i].fdEntryNo] = oft[i].fcb,
         \A i \in 1 .. currOftIndex :
           oft[i].pdfBlockNo \in E /\ oft[i].fdEntryNo \in UsedSlots(e[oft[i].pdfBlockNo])
  PROVE  PathSound(e, E, p, currOftIndex)
<1> DEFINE k == currOftIndex
<1>1. k \in OftIdx /\ k \in Nat
  BY CurIs
<1>2. \A i \in OftIdx : i > k => p[i] = BlankOft
  <2> SUFFICES ASSUME NEW i \in OftIdx, i > k PROVE p[i] = BlankOft
    OBVIOUS
  <2>1. i # k
    BY <1>1
  <2> QED
    BY <2>1 DEF PathSound, CurUpdated
<1>3. ASSUME NEW i \in 0 .. k
      PROVE  /\ p[i].pdfBlockNo = oft[i].pdfBlockNo /\ p[i].fdEntryNo = oft[i].fdEntryNo
             /\ p[i].dirName = oft[i].dirName /\ p[i].isUse = oft[i].isUse
             /\ SameEntry(oft[i].fcb, p[i].fcb)
             /\ e[oft[i].pdfBlockNo][oft[i].fdEntryNo] = p[i].fcb
  <2>1. CASE i = k
    BY <2>1 DEF CurUpdated, cur
  <2>2. CASE i # k
    <3>1. i \in OftIdx
      BY CurIs
    <3>2. p[i] = oft[i]
      BY <2>2, <3>1 DEF CurUpdated
    <3>3. SameEntry(oft[i].fcb, oft[i].fcb)
      <4>1. /\ oft[i].pdfBlockNo \in D /\ oft[i].fdEntryNo \in Slot
            /\ disk[oft[i].pdfBlockNo][oft[i].fdEntryNo] = oft[i].fcb
        BY OpenPlaces
      <4> QED
        BY <4>1, CellsInTree
    <3> QED
      BY <2>2, <3>2, <3>3
  <2> QED
    BY <2>1, <2>2
<1>4. PathSound(disk, D, oft, k)
  OBVIOUS
<1>5. \A i \in 1 .. k : /\ oft[i].pdfBlockNo \in E
                        /\ oft[i].fdEntryNo \in UsedSlots(e[oft[i].pdfBlockNo])
  OBVIOUS
<1> QED
  BY <1>1, <1>2, <1>3, <1>4, <1>5, PathStays

(* Making an entry leaves the open entries a path. *)
LEMMA PathAdds ==
  ASSUME TypeOK, NEW D, TreeSound(fat1, disk, D), PathSound(disk, D, oft, currOftIndex),
         judgeDir(cur.fcb), NEW e, NEW s,
         EntryAdded(disk, e, D, cur.fcb.s_block, s, cur.pdfBlockNo, cur.fdEntryNo),
         NEW p, CurUpdated(e, p), NEW E, D \subseteq E
  PROVE  PathSound(e, E, p, currOftIndex)
<1> DEFINE k == currOftIndex
           b == cur.fcb.s_block
<1>1. /\ s \in Slot /\ s # 0
      /\ \A c \in D : c # b => UsedSlots(e[c]) = UsedSlots(disk[c])
      /\ UsedSlots(e[b]) = UsedSlots(disk[b]) \cup {s}
  BY CurPlace, AddedCells
<1>2. ASSUME NEW i \in 0 .. k, i # k
      PROVE  e[oft[i].pdfBlockNo][oft[i].fdEntryNo] = oft[i].fcb
  <2>1. /\ oft[i].pdfBlockNo \in D /\ oft[i].fdEntryNo \in Slot
        /\ disk[oft[i].pdfBlockNo][oft[i].fdEntryNo] = oft[i].fcb
        /\ oft[i].pdfBlockNo # b \/ oft[i].fdEntryNo # s
        /\ oft[i].pdfBlockNo # cur.pdfBlockNo \/ oft[i].fdEntryNo # cur.fdEntryNo
    BY <1>1, <1>2, OpenPlaces
  <2> QED
    BY <2>1 DEF EntryAdded
<1>3. ASSUME NEW i \in 1 .. k
      PROVE  /\ oft[i].pdfBlockNo \in E
             /\ oft[i].fdEntryNo \in UsedSlots(e[oft[i].pdfBlockNo])
  <2>1. /\ oft[i].pdfBlockNo \in D
        /\ oft[i].fdEntryNo \in UsedSlots(disk[oft[i].pdfBlockNo])
    BY DEF PathSound
  <2> QED
    BY <2>1, <1>1
<1> QED
  BY <1>2, <1>3, PathUpdates

(* The disk e is d after initFileFCB for a free block x, and the count in  *)
(* the entry of the directory b, which is slot ps of block pb.             *)
MadeIn(d, e, D, b, s, x, n, isdir, pb, ps) ==
  /\ d \in Memory /\ D \subseteq Block /\ b \in D /\ x \in Block /\ x \notin D
  /\ s \in Slot /\ s # 0 /\ pb \in D /\ ps \in Slot
  /\ b = Root => pb = Root /\ ps = 0
  /\ b # Root => pb # b
  /\ n \in Kept /\ isdir \in BOOLEAN
  /\ e = IF pb # b THEN [initFileFCB(d, b, s, x, n, isdir) EXCEPT ![pb][ps] = AddLen(@, 1)]
         ELSE initFileFCB(d, b, s, x, n, isdir)

(* What createfile stores. *)
LEMMA CreatedCells ==
  ASSUME NEW d, NEW e, NEW D, NEW b, NEW s, NEW x, NEW n, NEW isdir, NEW pb, NEW ps,
         MadeIn(d, e, D, b, s, x, n, isdir, pb, ps)
  PROVE  /\ e[b][s] = initFcb(n, IF isdir THEN {"DIR"} ELSE {"DATA"}, x)
         /\ e[pb][ps] = AddLen(d[pb][ps], 1)
         /\ \A c \in D, r \in Slot :
              (c # b \/ r # s) /\ (c # pb \/ r # ps) => e[c][r] = d[c][r]
         /\ isdir => /\ e[x][0] = initFcb(".", {"DIR"}, x)
                     /\ e[x][1] = initFcb("..", {"DIR"}, b)
                     /\ \A r \in Slot : r # 0 /\ r # 1 => e[x][r] = MarkUnused(d[x][r])
         /\ \A c \in Block \ D, r \in Slot : c # x => e[c][r] = d[c][r]
<1> DEFINE attr    == IF isdir THEN {"DIR"} ELSE {"DATA"}
           f       == initFcb(n, attr, x)
           entry   == [d EXCEPT ![b][s] = f]
           counted == IF b = Root THEN [entry EXCEPT ![b][0] = AddLen(@, 1)] ELSE entry
           cells   == [r \in Slot |-> CASE r = 0 -> initFcb(".", attr, x)
                                        [] r = 1 -> initFcb("..", attr, b)
                                        [] OTHER -> MarkUnused(counted[x][r])]
           made    == IF isdir THEN [counted EXCEPT ![x] = cells] ELSE counted
<1>0. /\ d \in Memory /\ D \subseteq Block /\ b \in D /\ x \in Block /\ x \notin D
      /\ s \in Slot /\ s # 0 /\ pb \in D /\ ps \in Slot
      /\ b = Root => pb = Root /\ ps = 0
      /\ b # Root => pb # b
      /\ n \in Kept /\ isdir \in BOOLEAN
  BY DEF MadeIn
<1>e. e = IF pb # b THEN [initFileFCB(d, b, s, x, n, isdir) EXCEPT ![pb][ps] = AddLen(@, 1)]
         ELSE initFileFCB(d, b, s, x, n, isdir)
  BY DEF MadeIn
<1>1. /\ b \in Block /\ pb \in Block /\ x # b /\ x # pb /\ 0 \in Slot /\ 1 \in Slot
      /\ pb # b <=> b # Root
  BY <1>0, SlotsAreNumbers
<1>2. initFileFCB(d, b, s, x, n, isdir) = made
  <2>1. CASE isdir
    BY <1>0, <1>1, <2>1 DEF initFileFCB, Root
  <2>2. CASE ~isdir
    BY <1>0, <1>1, <2>2 DEF initFileFCB, Root
  <2> QED
    BY <1>0, <2>1, <2>2
<1>3. f \in Cell
  <2>1. attr \in SUBSET AttrFlag
    BY <1>0 DEF AttrFlag
  <2>2. x \in 0 .. VD_BLOCK_NUM - 1
    BY <1>0, BlockNum DEF Block, BLOCK_INDEX_ROOT_DIR
  <2> HIDE DEF attr
  <2> QED
    BY <1>0, <2>1, <2>2, InitFcbType DEF Cell
<1> HIDE DEF f
<1>4. /\ entry \in Memory /\ entry[b][s] = f
      /\ \A c \in Block, r \in Slot : c # b \/ r # s => entry[c][r] = d[c][r]
  BY <1>0, <1>1, <1>3 DEF Memory
<1> HIDE DEF entry
<1>5. AddLen(entry[b][0], 1) \in Cell /\ AddLen(d[pb][ps], 1) \in Cell
  <2>1. entry[b][0] \in Cell /\ d[pb][ps] \in Cell /\ 1 \in Int
    BY <1>0, <1>1, <1>4 DEF Memory
  <2> QED
    BY <1>0, <2>1, CellOps
<1>6. /\ counted \in Memory
      /\ b = Root => counted[b][0] = AddLen(d[b][0], 1)
      /\ \A c \in Block, r \in Slot :
           (b = Root => c # b \/ r # 0) => counted[c][r] = entry[c][r]
  <2>1. CASE b = Root
    <3>1. PICK a : a = AddLen(entry[b][0], 1)
      OBVIOUS
    <3>2. counted = [entry EXCEPT ![b][0] = a]
      BY <1>0, <3>1, <2>1
    <3>3. /\ counted \in Memory /\ counted[b][0] = a
          /\ \A c \in Block, r \in Slot : c # b \/ r # 0 => counted[c][r] = entry[c][r]
      BY <1>0, <3>1, <3>2, <1>1, <1>4, <1>5 DEF Memory
    <3>4. entry[b][0] = d[b][0]
      BY <1>0, <1>1, <1>4
    <3> QED
      BY <1>0, <3>1, <3>3, <3>4, <2>1
  <2>2. CASE b # Root
    BY <1>0, <2>2, <1>4
  <2> QED
    BY <1>0, <2>1, <2>2
<1> HIDE DEF counted
<1>7. \A r \in Slot : counted[x][r] = d[x][r]
  BY <1>0, <1>1, <1>4, <1>6
<1>8. \A c \in Block : c # x => made[c] = counted[c]
  BY <1>0, <1>6 DEF Memory
<1>9. ASSUME isdir
      PROVE  made[x] = cells
  BY <1>0, <1>6, <1>9 DEF Memory
<1>10. isdir => /\ made[x][0] = initFcb(".", {"DIR"}, x)
                /\ made[x][1] = initFcb("..", {"DIR"}, b)
                /\ \A r \in Slot : r # 0 /\ r # 1 => made[x][r] = MarkUnused(d[x][r])
  BY <1>0, <1>1, <1>7, <1>9
<1>11. made \in Memory
  <2>1. CASE ~isdir
    BY <1>0, <2>1, <1>6
  <2>2. CASE isdir
    <3>1. b \in 0 .. VD_BLOCK_NUM - 1 /\ x \in 0 .. VD_BLOCK_NUM - 1
      BY <1>0, <1>1, BlockNum DEF Block, BLOCK_INDEX_ROOT_DIR
    <3>2. attr \in SUBSET AttrFlag /\ "." \in Kept /\ ".." \in Kept
      BY <1>0 DEF AttrFlag, Kept
    <3> HIDE DEF attr
    <3>3. initFcb(".", attr, x) \in Cell /\ initFcb("..", attr, b) \in Cell
      BY <1>0, <3>1, <3>2, InitFcbType DEF Cell
    <3>4. \A r \in Slot : MarkUnused(counted[x][r]) \in Cell
      <4> SUFFICES ASSUME NEW r \in Slot PROVE MarkUnused(counted[x][r]) \in Cell
        OBVIOUS
      <4>1. counted[x][r] \in Cell /\ 0 \in Int
        BY <1>0, <1>6 DEF Memory
      <4> QED
        BY <1>0, <4>1, CellOps
    <3>5. cells \in [Slot -> Cell]
      BY <1>0, <3>3, <3>4
    <3> HIDE DEF cells
    <3> QED
      BY <1>0, <2>2, <3>5, <1>6 DEF Memory
  <2> QED
    BY <1>0, <2>1, <2>2
<1> HIDE DEF made
<1>12. CASE pb = b
  <2>1. e = made /\ pb = Root /\ ps = 0 /\ b = Root
    BY <1>0, <1>e, <1>1, <1>2, <1>12
  <2>2. \A c \in D, r \in Slot : e[c][r] = counted[c][r] /\ c \in Block
    BY <1>0, <2>1, <1>8
  <2>6. \A c \in Block \ D, r \in Slot : c # x => e[c][r] = d[c][r]
    BY <1>0, <2>1, <1>8, <1>4, <1>6
  <2>3. e[b][s] = f
    BY <1>0, <2>2, <1>1, <1>4, <1>6
  <2>4. e[pb][ps] = AddLen(d[pb][ps], 1)
    BY <1>0, <2>1, <2>2, <1>1, <1>6
  <2>5. \A c \in D, r \in Slot :
          (c # b \/ r # s) /\ (c # pb \/ r # ps) => e[c][r] = d[c][r]
    BY <1>0, <2>1, <2>2, <1>1, <1>4, <1>6
  <2> QED
    BY <1>0, <2>1, <2>3, <2>4, <2>5, <2>6, <1>10 DEF f
<1>13. CASE pb # b
  <2>1. b # Root
    BY <1>0, <1>1, <1>13
  <2>2. \A c \in D, r \in Slot : made[c][r] = entry[c][r] /\ c \in Block
    BY <1>0, <2>1, <1>6, <1>8
  <2>3. made[pb][ps] = d[pb][ps]
    BY <1>0, <2>2, <1>4, <1>13
  <2>4. PICK a : a = AddLen(d[pb][ps], 1)
    OBVIOUS
  <2>5. e = [made EXCEPT ![pb][ps] = a]
    BY <1>0, <2>3, <2>4, <1>e, <1>2, <1>13
  <2>6. /\ e[pb][ps] = a
        /\ \A c \in Block, r \in Slot : c # pb \/ r # ps => e[c][r] = made[c][r]
    <3>1. made \in [Block -> [Slot -> Cell]] /\ pb \in Block /\ ps \in Slot
      BY <1>0, <1>1, <1>11 DEF Memory
    <3> QED
      BY ONLY <2>5, <3>1
  <2>7. e[b][s] = f
    BY <1>0, <2>2, <2>6, <1>1, <1>4, <1>13
  <2>8. \A c \in D, r \in Slot :
          (c # b \/ r # s) /\ (c # pb \/ r # ps) => e[c][r] = d[c][r]
    BY <1>0, <2>2, <2>6, <1>4
  <2>9. \A r \in Slot : e[x][r] = made[x][r]
    BY <1>0, <2>6, <1>1
  <2>10. isdir => /\ e[x][0] = initFcb(".", {"DIR"}, x)
                  /\ e[x][1] = initFcb("..", {"DIR"}, b)
                  /\ \A r \in Slot : r # 0 /\ r # 1 => e[x][r] = MarkUnused(d[x][r])
    BY <1>0, <2>9, <1>1, <1>10
  <2>11. \A c \in Block \ D, r \in Slot : c # x => e[c][r] = d[c][r]
    <3> SUFFICES ASSUME NEW c \in Block \ D, NEW r \in Slot, c # x PROVE e[c][r] = d[c][r]
      OBVIOUS
    <3>1. made[c][r] = entry[c][r] /\ entry[c][r] = d[c][r]
      BY <1>0, <2>1, <1>4, <1>6, <1>8
    <3> QED
      BY <3>1, <1>0, <2>6
  <2> QED
    BY <1>0, <2>4, <2>6, <2>7, <2>8, <2>10, <2>11 DEF f
<1> QED
  BY <1>0, <1>12, <1>13

(* The slot that createfile takes is the first that is not in use. *)
LEMMA FirstUnused ==
  ASSUME NEW cells, getNextFcb(cells) # NOT_FOUND
  PROVE  /\ getNextFcb(cells) \in EntrySlot \ UsedSlots(cells)
         /\ \A r \in EntrySlot \ UsedSlots(cells) : getNextFcb(cells) =< r
<1> DEFINE S == EntrySlot \ UsedSlots(cells)
<1>1. S \in SUBSET Nat
  BY SlotsAreNumbers
<1> QED
  BY <1>1, FirstOfInSet DEF getNextFcb

(* createfile keeps the invariant. *)
LEMMA CreateHolds ==
  ASSUME TypeOK, NEW D, Holds(D), GoodUse, NEW n \in Names, NEW isdir \in BOOLEAN,
         createfile(n, isdir)
  PROVE  /\ \E E \in SUBSET Block : Holds(E)'
         /\ KeepsBlocks(fat1, disk, fat1', disk', D, {})
         /\ KeepsFiles(fat1, disk, fat1', disk', D, PlaceOf(currOftIndex))
<1> DEFINE k == currOftIndex
<1>0. PICK b, pb, ps : b = cur.fcb.s_block /\ pb = cur.pdfBlockNo /\ ps = cur.fdEntryNo
  OBVIOUS
<1>1. /\ TreeSound(fat1, disk, D) /\ PathSound(disk, D, oft, k) /\ LinksSound(fat1)
      /\ judgeDir(cur.fcb) /\ k' = k /\ mode' # "text"
  BY DEF Holds, createfile
<1>2. PICK s : s = getNextFcb(curDir)
  OBVIOUS
<1>3. PICK x : x = getNextVhdBlock(fat1)
  OBVIOUS
<1>4. /\ b \in D /\ DirBlock(fat1, disk, b) /\ curDir = disk[b] /\ k \in OftIdx
      /\ cur.fcb.len = Cardinality(UsedSlots(disk[b]))
  BY <1>0, <1>1, CurIs
<1>5. /\ s \in EntrySlot \ UsedSlots(disk[b]) /\ \A r \in EntrySlot \ UsedSlots(disk[b]) : s =< r
      /\ s \in Slot /\ s # 0
  <2>1. getNextFcb(curDir) # NOT_FOUND
    BY DEF createfile
  <2>2. s \in EntrySlot \ UsedSlots(disk[b]) /\ \A r \in EntrySlot \ UsedSlots(disk[b]) : s =< r
    BY <2>1, <1>2, <1>4, FirstUnused
  <2> QED
    BY <2>2, SizeAssumption DEF EntrySlot, Slot
<1>6. x \in Block /\ fat1[x] = FREE /\ x \notin D
  <2>1. getNextVhdBlock(fat1) # END
    BY DEF createfile
  <2>2. x \in Block /\ fat1[x] = FREE
    BY <2>1, <1>3, NextBlockIsFree
  <2>3. \A c \in D : fat1[c] # FREE
    BY <1>1, DirsBegin DEF Begins
  <2> QED
    BY <2>2, <2>3
<1>7. DirPlace(disk, D, b, pb, ps) /\ disk[pb][ps] = cur.fcb
  BY <1>0, <1>1, CurPlace
<1>8. /\ D \subseteq Block /\ pb \in D /\ ps \in Slot
      /\ b = Root => pb = Root /\ ps = 0
      /\ b # Root => pb # b
  BY <1>1, <1>7, TreeIs DEF DirPlace
<1>9. disk \in Memory /\ oft \in [OftIdx -> Oft] /\ fat1 \in [Block -> FatValue]
  BY DEF TypeOK, Memory
<1>10. n \in StoredNames /\ n \in Kept /\ n # "" /\ Stored[n] = n
  BY NamesAreNames DEF GoodUse, StoredNames, Kept
<1> DEFINE e == disk'
           g == fat1'
           p == oft'
           attr == IF isdir THEN {"DIR"} ELSE {"DATA"}
<1> HIDE DEF e
<1>11. /\ e[b][s] = initFcb(n, attr, x)
       /\ e[pb][ps] = AddLen(disk[pb][ps], 1)
       /\ \A c \in D, r \in Slot :
            (c # b \/ r # s) /\ (c # pb \/ r # ps) => e[c][r] = disk[c][r]
       /\ isdir => /\ e[x][0] = initFcb(".", {"DIR"}, x)
                   /\ e[x][1] = initFcb("..", {"DIR"}, b)
                   /\ \A r \in Slot : r # 0 /\ r # 1 => e[x][r] = MarkUnused(disk[x][r])
       /\ \A c \in Block \ D, r \in Slot : c # x => e[c][r] = disk[c][r]
  <2>1. e = IF pb # b THEN [initFileFCB(disk, b, s, x, n, isdir) EXCEPT ![pb][ps] = AddLen(@, 1)]
            ELSE initFileFCB(disk, b, s, x, n, isdir)
    BY <1>0, <1>2, <1>3, <1>10 DEF createfile, AddToEntry, e
  <2>2. MadeIn(disk, e, D, b, s, x, n, isdir, pb, ps)
    BY <2>1, <1>4, <1>5, <1>6, <1>8, <1>9, <1>10 DEF MadeIn
  <2> QED
    BY <2>2, CreatedCells
<1>12. Taken(fat1, g, x)
  <2>1. fat1' = [fat1 EXCEPT ![x] = END]
    BY <1>3 DEF createfile
  <2> QED
    BY <2>1, <1>6, <1>9 DEF Taken
<1>13. /\ \A i \in OftIdx : i # k => p[i] = oft[i]
       /\ p[k].pdfBlockNo = oft[k].pdfBlockNo /\ p[k].fdEntryNo = oft[k].fdEntryNo
       /\ p[k].dirName = oft[k].dirName /\ p[k].isUse = oft[k].isUse
       /\ p[k].fcb = [oft[k].fcb EXCEPT !.len = oft[k].fcb.len + 1]
  <2>1. oft' = [oft EXCEPT ![k].fcb.len = @ + 1, ![k].filePtr = 0]
    BY DEF createfile
  <2>2. oft[k] \in Oft /\ oft[k].fcb \in Fcb
    BY <1>4, <1>9 DEF Oft
  <2> QED
    BY <2>1, <2>2, <1>4, <1>9 DEF Oft, Fcb
<1> HIDE DEF e, g, p
<1>14. /\ e[pb][ps] = [cur.fcb EXCEPT !.len = cur.fcb.len + 1] /\ SameEntry(cur.fcb, e[pb][ps])
       /\ e[pb][ps].len = cur.fcb.len + 1
  <2>1. cur.fcb \in Fcb /\ 1 \in Int /\ cur.fcb.len + 1 \in Int
    BY CurType DEF Oft, Fcb
  <2>2. e[pb][ps] = [cur.fcb EXCEPT !.len = cur.fcb.len + 1]
    <3>1. e[pb][ps] = AddLen(cur.fcb, 1)
      BY <1>7, <1>11
    <3>2. AddLen(cur.fcb, 1) = [cur.fcb EXCEPT !.len = cur.fcb.len + 1]
      BY <2>1, AddLenIs
    <3> QED
      BY <3>1, <3>2
  <2> QED
    BY <2>1, <2>2, WithLen
<1>15. CurUpdated(e, p)
  BY <1>0, <1>13, <1>14 DEF CurUpdated, cur
<1>16. /\ e[b][s] \in Fcb /\ e[b][s].use /\ e[b][s].name = n /\ e[b][s].len = 0
       /\ e[b][s].s_block = x /\ judgeDir(e[b][s]) = isdir
  <2>1. n \in Kept /\ attr \in SUBSET AttrFlag /\ x \in 0 .. VD_BLOCK_NUM - 1
    <3>1. attr \in SUBSET AttrFlag
      BY DEF AttrFlag
    <3>2. x \in 0 .. VD_BLOCK_NUM - 1
      BY <1>6, BlockNum DEF Block, BLOCK_INDEX_ROOT_DIR
    <3> QED
      BY <1>10, <3>1, <3>2
  <2>2. "DATA" \notin attr <=> isdir
    OBVIOUS
  <2> HIDE DEF attr
  <2>3. e[b][s] \in Fcb
    BY <2>1, <1>11, InitFcbType
  <2>4. judgeDir(e[b][s]) <=> isdir
    BY <2>2, <1>11, InitFcbIs
  <2>5. judgeDir(e[b][s]) \in BOOLEAN
    BY DEF judgeDir
  <2> QED
    BY <2>3, <2>4, <2>5, <1>11, InitFcbIs
<1>17. \A r \in UsedSlots(disk[b]) : ~(disk[b][r].name = n /\ judgeDir(disk[b][r]) = isdir)
  <2>0. PICK kind : kind = isdir
    OBVIOUS
  <2>1. findFileAtDir(disk[b], cur.fcb.len, n, kind) = NOT_FOUND
    BY <2>0, <1>4 DEF createfile
  <2>2. DirBlock(fat1, disk, b) /\ cur.fcb.len = Cardinality(UsedSlots(disk[b])) /\ n # ""
    BY <1>4, <1>10
  <2>3. findFileAtDir(disk[b], cur.fcb.len, n, kind) = FirstOf(Matching(disk, b, n, kind))
    <3>1. DirBlock(fat1, disk, b) /\ cur.fcb.len = Cardinality(UsedSlots(disk[b]))
      BY <2>2
    <3>2. n # ""
      BY <2>2
    <3>3. findFileAtDir(disk[b], Cardinality(UsedSlots(disk[b])), n, kind)
             = FirstOf(Matching(disk, b, n, kind))
      BY ONLY <3>1, <3>2, FindFindsEntries
    <3> QED
      BY ONLY <3>1, <3>3
  <2>4. FirstOf(Matching(disk, b, n, kind)) = NOT_FOUND
    BY <2>1, <2>3
  <2>5. DirBlock(fat1, disk, b)
    BY <2>2
  <2>6. \A r \in UsedSlots(disk[b]) : ~(disk[b][r].name = n /\ judgeDir(disk[b][r]) = kind)
    BY <2>4, <2>5, FoundIs
  <2> QED
    BY <2>0, <2>6
<1>18. EntryAdded(disk, e, D, b, s, pb, ps)
  <2>1. SameEntry(disk[pb][ps], e[pb][ps]) /\ e[pb][ps].len = disk[pb][ps].len + 1
    BY <1>7, <1>14
  <2> QED
    BY <2>1, <1>5, <1>10, <1>11, <1>16, <1>17 DEF EntryAdded
<1>19. judgeDir(e[b][s]) => NewDir(e, x)
  <2> SUFFICES ASSUME isdir PROVE NewDir(e, x)
    BY <1>16
  <2>1. /\ e[x][0] = initFcb(".", {"DIR"}, x)
        /\ e[x][1] = initFcb("..", {"DIR"}, b)
        /\ \A r \in Slot : r # 0 /\ r # 1 => e[x][r] = MarkUnused(disk[x][r])
    BY <1>11
  <2>2. \A r \in Slot : r # 0 /\ r # 1 => e[x][r] \in Fcb /\ ~e[x][r].use
    <3>1. \A r \in Slot : disk[x][r] \in Cell
      BY <1>6, <1>9 DEF Memory
    <3> QED
      BY <2>1, <3>1, MarkUnusedIs
  <2>3. e[x][0] \in Fcb /\ e[x][1] \in Fcb
    <3>1. /\ "." \in Kept /\ ".." \in Kept /\ {"DIR"} \in SUBSET AttrFlag
          /\ b \in 0 .. VD_BLOCK_NUM - 1 /\ x \in 0 .. VD_BLOCK_NUM - 1
      <4>1. b \in Block
        BY <1>4, <1>8
      <4> QED
        BY <4>1, <1>6, BlockNum DEF Kept, AttrFlag, Block, BLOCK_INDEX_ROOT_DIR
    <3> QED
      BY <3>1, <2>1, InitFcbType
  <2>4. \A r \in EntrySlot : ~e[x][r].use
    BY <2>2, SizeAssumption DEF EntrySlot, Slot
  <2>5. /\ e[x][0].name = "." /\ e[x][0].use /\ judgeDir(e[x][0]) /\ e[x][0].s_block = x
        /\ e[x][1].name = ".." /\ e[x][1].use /\ judgeDir(e[x][1])
    BY <2>1, InitFcbIs
  <2> QED
    BY <2>2, <2>3, <2>4, <2>5 DEF NewDir
<1>e. PICK E : E = DirsWith(D, e[b][s], x)
  OBVIOUS
<1>20. TreeSound(g, e, E)
  <2>1. TreeSound(g, e, DirsWith(D, e[b][s], x))
    BY <1>1, <1>7, <1>12, <1>16, <1>18, <1>19, TreeAdds
  <2> QED
    BY <2>1, <1>e
<1>21. D \subseteq E /\ E \in SUBSET Block
  BY <1>e, <1>6, <1>8 DEF DirsWith
<1>22. PathSound(e, E, p, k)
  BY <1>0, <1>1, <1>15, <1>18, <1>21, PathAdds
<1>23. LinksSound(g)
  BY <1>1, <1>12, TakenLinks
<1>24. Holds(E)'
  BY <1>1, <1>20, <1>22, <1>23 DEF Holds, TextSound, e, g, p
<1>25. ASSUME NEW c \in D, NEW r \in UsedSlots(disk[c])
       PROVE  /\ r \in UsedSlots(e[c]) /\ SameEntry(disk[c][r], e[c][r])
              /\ Owned(fat1, disk[c][r]) \subseteq Owned(g, e[c][r])
  <2>1. r \in Slot /\ disk[c][r].s_block \in Block
    BY <1>1, EntryIsIn
  <2>2. r \in UsedSlots(e[c]) /\ SameEntry(disk[c][r], e[c][r])
    BY <2>1, <1>1, <1>5, <1>7, <1>18, AddedCells
  <2>3. PICK N : N = {}
    OBVIOUS
  <2>4. \A a \in Block : a \notin N /\ fat1[a] \in Block => g[a] = fat1[a] /\ fat1[a] \notin N
    BY <2>3, <1>12, MarksAreNoBlocks DEF Taken
  <2>5. disk[c][r].s_block \notin N
    BY <2>3
  <2>6. Owned(fat1, disk[c][r]) \subseteq Owned(g, e[c][r])
    BY <2>1, <2>2, <2>4, <2>5, OwnedGrows
  <2> QED
    BY <2>2, <2>6
<1>26. ASSUME NEW y \in Block, fat1[y] = FREE, g[y] # FREE
       PROVE  \E c \in D : \E r \in UsedSlots(e[c]) : y \in Owned(g, e[c][r])
  <2>1. y = x
    BY <1>12, <1>26 DEF Taken
  <2>2. s \in UsedSlots(e[b])
    BY <1>1, <1>7, <1>18, AddedCells
  <2>3. x \in Owned(g, e[b][s])
    BY <1>6, <1>16, ChainIsLeast DEF Owned
  <2> QED
    BY <2>1, <2>2, <2>3, <1>4
<1>27. KeepsBlocks(fat1, disk, fat1', disk', D, {})
  BY <1>25, <1>26 DEF KeepsBlocks, e, g
<1>28. ASSUME NEW c \in D, NEW r \in UsedSlots(disk[c]), ~judgeDir(disk[c][r])
       PROVE  /\ e[c][r].len = disk[c][r].len
              /\ \A m \in Nat : Walks(fat1, disk[c][r].s_block, m)
                                   \subseteq Walks(g, disk[c][r].s_block, m)
              /\ \A a \in FatChain(fat1, disk[c][r].s_block), t \in Slot : e[a][t] = disk[a][t]
  <2>1. r \in Slot
    BY <1>1, EntryIsIn
  <2>2. c # b \/ r # s
    BY <1>5
  <2>3. c # pb \/ r # ps
    BY <1>1, <1>7, <1>28
  <2>4. e[c][r] = disk[c][r]
    BY <2>1, <2>2, <2>3, <1>11
  <2>5. \A m \in Nat : Walks(fat1, disk[c][r].s_block, m) \subseteq Walks(g, disk[c][r].s_block, m)
    BY <1>1, <1>12, TakenLinks
  <2>6. ASSUME NEW a \in FatChain(fat1, disk[c][r].s_block), NEW t \in Slot
        PROVE  e[a][t] = disk[a][t]
    <3>1. a \in Block \ D /\ a # x
      BY <1>1, <1>6, <1>28, FilesAreApart
    <3> QED
      BY <3>1, <1>11
  <2> QED
    BY <2>4, <2>5, <2>6
<1>29. KeepsFiles(fat1, disk, fat1', disk', D, PlaceOf(k))
  BY <1>28 DEF KeepsFiles, e, g
<1> QED
  BY <1>21, <1>24, <1>27, <1>29
-----------------------------------------------------------------------------
(* Deleting. *)

(* Reachable by its fixed point: it holds where it starts, *)
LEMMA ReachableIs ==
  ASSUME NEW x, NEW R, NEW U, x \in U
  PROVE  Reachable(x, R, U) \subseteq U /\ x \in Reachable(x, R, U)
BY DEF Reachable

(* lies in every set that is closed under R, *)
LEMMA ReachableIsLeast ==
  ASSUME NEW x, NEW R, NEW U, NEW S, S \subseteq U, x \in S,
         \A p \in R : p[1] \in S => p[2] \in S
  PROVE  Reachable(x, R, U) \subseteq S
BY DEF Reachable

(* is closed itself, *)
LEMMA ReachableIsClosed ==
  ASSUME NEW x, NEW R, NEW U, NEW p \in R, p[1] \in Reachable(x, R, U), p[2] \in U
  PROVE  p[2] \in Reachable(x, R, U)
BY DEF Reachable

(* and each of its elements but the first has one before it. *)
LEMMA ReachablePredecessors ==
  ASSUME NEW x, NEW R, NEW U, x \in U, \A p \in R : p[2] \in U,
         NEW y \in Reachable(x, R, U), y # x
  PROVE  \E p \in R : p[1] \in Reachable(x, R, U) /\ p[2] = y
<1> SUFFICES ASSUME \A p \in R : p[1] \in Reachable(x, R, U) => p[2] # y PROVE FALSE
  OBVIOUS
<1> DEFINE S == Reachable(x, R, U) \ {y}
<1>1. S \subseteq U /\ x \in S
  BY ReachableIs
<1>2. ASSUME NEW p \in R, p[1] \in S PROVE p[2] \in S
  BY <1>2, ReachableIsClosed
<1>3. y \notin S
  OBVIOUS
<1> HIDE DEF S
<1>4. Reachable(x, R, U) \subseteq S
  BY <1>1, <1>2, ReachableIsLeast
<1> QED
  BY <1>3, <1>4

(* What deleteDirAtFat descends by: a directory's block and length, those  *)
(* of the directories among S, and those of the entry in slot r of block c.*)
Key(f) == <<f.s_block, f.len>>
Subs(S) == {Key(h) : h \in {g \in S : judgeDir(g) /\ g.s_block \in Block}}
IsKeyAt(q, D, c, r) ==
  /\ c \in D /\ r \in UsedSlots(disk[c]) /\ judgeDir(disk[c][r])
  /\ q = Key(disk[c][r])

(* Scanned by its length, a directory shows its entries.                   *)
LEMMA ChildrenAreEntries ==
  ASSUME NEW D, TreeSound(fat1, disk, D), NEW f, judgeDir(f), EntrySound(fat1, disk, D, f)
  PROVE  Children(Key(f)) = {disk[f.s_block][r] : r \in UsedSlots(disk[f.s_block])}
<1> DEFINE b == f.s_block
<1>1. b \in D /\ f.len = Cardinality(UsedSlots(disk[b]))
  BY DEF EntrySound
<1>2. Key(f)[1] = b /\ Key(f)[2] = f.len
  BY DEF Key
<1>3. UsedSlots(disk[b]) \subseteq Scanned(disk[b], Cardinality(UsedSlots(disk[b])))
  BY ScanIsExact
<1>4. Scanned(disk[b], f.len) \cap UsedSlots(disk[b]) = UsedSlots(disk[b])
  BY <1>1, <1>3
<1>5. \A r \in UsedSlots(disk[b]) : disk[b][r] \notin Texts
  BY <1>1, EntryIsIn, FcbIsNoText
<1> QED
  BY <1>2, <1>4, <1>5 DEF Children

(* What is removed with the entry in slot s of block b: directories that   *)
(* hang from it by their entries.                                          *)
RemovedWith(d, D, b, s, R) ==
  /\ R \subseteq D \ {Root}
  /\ \A c \in R : c = d[b][s].s_block \/
                  \E a \in R : \E r \in UsedSlots(d[a]) : d[a][r].s_block = c

SubtreeBlocks(f) == {p[1] : p \in Subtree(f)}

(* What deleteDirAtFat comes to hangs from the removed entry. *)
LEMMA SubtreeIs ==
  ASSUME TypeOK, NEW D, TreeSound(fat1, disk, D), NEW b \in D, NEW s \in UsedSlots(disk[b]),
         judgeDir(disk[b][s])
  PROVE  /\ RemovedWith(disk, D, b, s, SubtreeBlocks(disk[b][s]))
         /\ \A h \in UNION {Children(p) : p \in Subtree(disk[b][s])} :
              \E a \in SubtreeBlocks(disk[b][s]) :
                \E r \in UsedSlots(disk[a]) : h = disk[a][r]
         /\ disk[b][s].s_block \in SubtreeBlocks(disk[b][s])
         /\ \A a \in SubtreeBlocks(disk[b][s]) : \A r \in UsedSlots(disk[a]) :
              /\ disk[a][r] \in UNION {Children(p) : p \in Subtree(disk[b][s])}
              /\ judgeDir(disk[a][r]) => disk[a][r].s_block \in SubtreeBlocks(disk[b][s])
<1> DEFINE f == disk[b][s]
           R == SubtreeBlocks(f)
           dirs  == Subs({disk[c][r] : c \in Block, r \in Slot} \ Texts)
           edges == UNION {{p} \X Subs(Children(p)) : p \in dirs}
           T == Subtree(f)
<1>1. T = Reachable(Key(f), edges, dirs)
  BY DEF Subtree, Key, Subs
<1>2. ASSUME NEW q, NEW c, NEW r, IsKeyAt(q, D, c, r)
      PROVE  /\ q \in dirs /\ q[1] = disk[c][r].s_block /\ q[1] \in D \ {Root}
             /\ Children(q) = {disk[q[1]][t] : t \in UsedSlots(disk[q[1]])}
  <2>0. /\ c \in D /\ r \in UsedSlots(disk[c]) /\ judgeDir(disk[c][r])
        /\ q = Key(disk[c][r])
    BY <1>2 DEF IsKeyAt
  <2>1. /\ c \in Block /\ r \in Slot /\ disk[c][r] \in Fcb /\ disk[c][r] \notin Texts
        /\ EntrySound(fat1, disk, D, disk[c][r]) /\ disk[c][r].s_block \in Block
    BY <2>0, EntryIsIn, FcbIsNoText
  <2>2. q \in dirs
    BY <2>0, <2>1 DEF Subs
  <2>3. q[1] = disk[c][r].s_block /\ q[1] \in D \ {Root}
    BY <2>0, <2>1 DEF EntrySound, Key
  <2>4. PICK h : h = disk[c][r]
    OBVIOUS
  <2>5. judgeDir(h) /\ EntrySound(fat1, disk, D, h)
    BY <2>0, <2>1, <2>4
  <2>6. Children(Key(h)) = {disk[h.s_block][t] : t \in UsedSlots(disk[h.s_block])}
    BY <2>5, ChildrenAreEntries
  <2>7. q = Key(h) /\ h.s_block = q[1]
    BY <2>0, <2>3, <2>4
  <2> QED
    BY <2>2, <2>3, <2>6, <2>7
<1>3. IsKeyAt(Key(f), D, b, s)
  BY DEF IsKeyAt
<1> HIDE DEF dirs
<1>4. ASSUME NEW q, NEW c, NEW r, IsKeyAt(q, D, c, r), NEW z \in Subs(Children(q))
      PROVE  \E t \in UsedSlots(disk[q[1]]) : IsKeyAt(z, D, q[1], t)
  <2>1. PICK h \in Children(q) : judgeDir(h) /\ z = Key(h)
    BY DEF Subs
  <2>0. Children(q) = {disk[q[1]][t] : t \in UsedSlots(disk[q[1]])} /\ q[1] \in D
    BY <1>2, <1>4
  <2>2. PICK t \in UsedSlots(disk[q[1]]) : h = disk[q[1]][t]
    BY <2>0
  <2>3. q[1] \in D
    BY <2>0
  <2> QED
    BY <2>1, <2>2, <2>3 DEF IsKeyAt
<1> DEFINE Valid == {q \in dirs : \E c, r : IsKeyAt(q, D, c, r)}
<1>5. Valid \subseteq dirs /\ Key(f) \in Valid /\ Key(f) \in dirs
  BY <1>2, <1>3
<1>6. ASSUME NEW p \in edges, p[1] \in Valid PROVE p[2] \in Valid
  <2>1. p[2] \in Subs(Children(p[1]))
    OBVIOUS
  <2>2. PICK c, r : IsKeyAt(p[1], D, c, r)
    BY <1>6
  <2>3. PICK t : IsKeyAt(p[2], D, p[1][1], t)
    BY <2>1, <2>2, <1>4
  <2>4. p[2] \in dirs
    BY <2>3, <1>2
  <2> QED
    BY <2>3, <2>4
<1>7. \A p \in edges : p[2] \in dirs
  <2> SUFFICES ASSUME NEW p \in edges PROVE p[2] \in dirs
    OBVIOUS
  <2>1. p[2] \in Subs(Children(p[1])) /\ p[1] \in dirs
    OBVIOUS
  <2>2. PICK g : g.s_block \in Block /\ p[1] = Key(g)
    BY <2>1 DEF Subs, dirs
  <2>3. p[1][1] \in Block
    BY <2>2 DEF Key
  <2>4. PICK h \in Children(p[1]) : judgeDir(h) /\ h.s_block \in Block /\ p[2] = Key(h)
    BY <2>1 DEF Subs
  <2>5. h \notin Texts /\ \E t \in Scanned(disk[p[1][1]], p[1][2]) : h = disk[p[1][1]][t]
    BY <2>4 DEF Children
  <2>6. \E t \in Slot : h = disk[p[1][1]][t]
    <3>1. Scanned(disk[p[1][1]], p[1][2]) \subseteq Slot
      BY SlotsAreNumbers DEF Scanned
    <3> QED
      BY <2>5, <3>1
  <2>7. h \in {disk[c][r] : c \in Block, r \in Slot} \ Texts
    BY <2>3, <2>5, <2>6
  <2> QED
    BY <2>4, <2>7 DEF Subs, dirs
<1>10. \A q \in Valid : \E c, r : IsKeyAt(q, D, c, r)
  OBVIOUS
<1> HIDE DEF edges, Valid
<1>8. T \subseteq Valid
  BY <1>1, <1>5, <1>6, ReachableIsLeast
<1>9. ASSUME NEW q \in T, q # Key(f)
      PROVE  \E p \in T : q \in Subs(Children(p))
  <2>1. PICK p \in edges : p[1] \in T /\ p[2] = q
    BY <1>1, <1>5, <1>7, <1>9, ReachablePredecessors
  <2>2. p[2] \in Subs(Children(p[1]))
    BY DEF edges
  <2> QED
    BY <2>1, <2>2
<1> HIDE DEF T
<1>11. R \subseteq D \ {Root}
  BY <1>2, <1>8, <1>10 DEF T, SubtreeBlocks
<1>12. ASSUME NEW c \in R
       PROVE  c = f.s_block \/ \E a \in R : \E r \in UsedSlots(disk[a]) : disk[a][r].s_block = c
  <2>1. PICK q \in T : c = q[1]
    BY DEF T, SubtreeBlocks
  <2>2. CASE q = Key(f)
    BY <2>1, <2>2 DEF Key
  <2>3. CASE q # Key(f)
    <3>1. PICK p \in T : q \in Subs(Children(p))
      BY <2>3, <1>9
    <3>2. p[1] \in R
      BY DEF T, SubtreeBlocks
    <3>3. PICK a, r : IsKeyAt(p, D, a, r)
      BY <1>8, <1>10
    <3>4. PICK t \in UsedSlots(disk[p[1]]) : IsKeyAt(q, D, p[1], t)
      BY <3>1, <3>3, <1>4
    <3>5. q[1] = disk[p[1]][t].s_block
      BY <3>4, <1>2
    <3> QED
      BY <2>1, <3>2, <3>5
  <2> QED
    BY <2>2, <2>3
<1>13. ASSUME NEW p \in T, NEW h \in Children(p)
       PROVE  \E a \in R : \E r \in UsedSlots(disk[a]) : h = disk[a][r]
  <2>1. p[1] \in R
    BY DEF T, SubtreeBlocks
  <2>2. PICK a, r : IsKeyAt(p, D, a, r)
    BY <1>8, <1>10
  <2>3. Children(p) = {disk[p[1]][t] : t \in UsedSlots(disk[p[1]])}
    BY <2>2, <1>2
  <2> QED
    BY <2>1, <2>3
<1>14. f.s_block \in R
  <2>1. Key(f) \in T /\ Key(f)[1] = f.s_block
    BY <1>1, <1>5, ReachableIs DEF T, Key
  <2> QED
    BY <2>1 DEF T, SubtreeBlocks
<1>15. ASSUME NEW a \in R, NEW r \in UsedSlots(disk[a])
       PROVE  /\ disk[a][r] \in UNION {Children(p) : p \in T}
              /\ judgeDir(disk[a][r]) => disk[a][r].s_block \in R
  <2>1. PICK p \in T : a = p[1]
    BY DEF T, SubtreeBlocks
  <2>2. PICK c, t : IsKeyAt(p, D, c, t)
    BY <1>8, <1>10
  <2>3. Children(p) = {disk[a][z] : z \in UsedSlots(disk[a])} /\ a \in D /\ p \in dirs
    BY <2>1, <2>2, <1>2
  <2>4. disk[a][r] \in Children(p)
    BY <2>3
  <2>5. ASSUME judgeDir(disk[a][r]) PROVE disk[a][r].s_block \in R
    <3>1. PICK q : q = Key(disk[a][r])
      OBVIOUS
    <3>2. disk[a][r].s_block \in Block
      BY <2>3, EntryIsIn
    <3>3. q \in Subs(Children(p))
      BY <3>1, <3>2, <2>4, <2>5 DEF Subs
    <3>4. IsKeyAt(q, D, a, r)
      BY <3>1, <2>3, <2>5 DEF IsKeyAt
    <3>5. q \in dirs /\ q[1] = disk[a][r].s_block
      BY <3>4, <1>2
    <3>6. PICK w : w = <<p, q>>
      OBVIOUS
    <3>7. w \in edges /\ w[1] = p /\ w[2] = q
      BY <3>3, <3>6, <2>3 DEF edges
    <3>8. q \in T
      BY <3>5, <3>7, <1>1, ReachableIsClosed DEF T
    <3> QED
      BY <3>5, <3>8 DEF T, SubtreeBlocks
  <2> QED
    BY <2>4, <2>5
<1> QED
  BY <1>11, <1>12, <1>13, <1>14, <1>15 DEF RemovedWith, T

(* Only the removed entry, and entries of directories that are removed     *)
(* with it, are of blocks that are removed with it.                        *)
LEMMA RemovedOwners ==
  ASSUME NEW fat, NEW d, NEW D, TreeSound(fat, d, D), NEW b \in D, NEW s \in UsedSlots(d[b]),
         NEW R, RemovedWith(d, D, b, s, R),
         NEW c \in D, NEW r \in UsedSlots(d[c]), d[c][r].s_block \in R
  PROVE  (c = b /\ r = s) \/ c \in R
<1>1. CASE d[c][r].s_block = d[b][s].s_block
  BY <1>1 DEF TreeSound
<1>2. CASE d[c][r].s_block # d[b][s].s_block
  <2>1. PICK a \in R : \E q \in UsedSlots(d[a]) : d[a][q].s_block = d[c][r].s_block
    BY <1>2 DEF RemovedWith
  <2>2. a \in D
    BY DEF RemovedWith
  <2>3. c = a
    BY <2>1, <2>2 DEF TreeSound
  <2> QED
    BY <2>3
<1> QED
  BY <1>1, <1>2

(* The blocks F are freed, and what links to one of them is one of them.   *)
Freed(fat, g, F) ==
  /\ \A a \in Block : fat[a] \in F => a \in F
  /\ \A c \in Block : g[c] = IF c \in F THEN FREE ELSE fat[c]

(* Freeing whole chains disturbs no other chain. *)
LEMMA FreedLinks ==
  ASSUME NEW fat, LinksSound(fat), NEW g, NEW F, Freed(fat, g, F)
  PROVE  /\ LinksSound(g)
         /\ \A b : Begins(fat, b) /\ b \notin F => Begins(g, b) /\ g[b] = fat[b]
         /\ \A b : \A n \in Nat : b \notin F => Walks(fat, b, n) \subseteq Walks(g, b, n)
<1>1. /\ \A a \in Block : fat[a] \in F => a \in F
      /\ \A c \in Block : c \in F => g[c] = FREE
      /\ \A c \in Block : c \notin F => g[c] = fat[c]
  BY DEF Freed
<1>2. LinksSound(g)
  <2>1. \A c \in Block : g[c] \in Block \cup {END, FREE}
    BY <1>1 DEF LinksSound
  <2>2. \A c \in Block : g[c] \in Block => c \notin F /\ g[c] = fat[c] /\ g[c] \notin F
    BY <1>1, MarksAreNoBlocks
  <2>3. \A c \in Block : g[c] \in Block => g[g[c]] # FREE
    BY <2>2, <1>1 DEF LinksSound
  <2>4. \A b, c \in Block : g[b] \in Block /\ g[b] = g[c] => b = c
    BY <2>2 DEF LinksSound
  <2> QED
    BY <2>1, <2>3, <2>4 DEF LinksSound
<1>3. ASSUME NEW b, Begins(fat, b), b \notin F
      PROVE  Begins(g, b) /\ g[b] = fat[b]
  <2>1. b \in Block /\ g[b] = fat[b]
    BY <1>1, <1>3 DEF Begins
  <2>2. \A c \in Block : g[c] # b
    BY <1>1, <1>3, MarksAreNoBlocks DEF Begins
  <2> QED
    BY <2>1, <2>2, <1>3 DEF Begins
<1>4. ASSUME NEW b, NEW n \in Nat, b \notin F, NEW w \in Walks(fat, b, n)
      PROVE  w \in Walks(g, b, n)
  <2>1. \A k \in 0 .. n : w[k] \notin F
    BY <1>1, <1>4, WalkAvoids
  <2>2. w \in [0 .. n -> Block]
    BY WalkIs
  <2>3. \A k \in 0 .. n - 1 : k \in 0 .. n
    OBVIOUS
  <2>4. \A k \in 0 .. n - 1 : g[w[k]] = fat[w[k]]
    BY <2>1, <2>2, <2>3, <1>1
  <2> QED
    BY <2>4, WalkStays
<1> QED
  BY <1>2, <1>3, <1>4

(* The disk e is d without the entry in slot s of directory b.             *)
EntryGone(d, e, D, b, s, pb, ps) ==
  /\ s \in UsedSlots(d[b]) /\ e[b][s] = BlankFcb
  /\ SameEntry(d[pb][ps], e[pb][ps]) /\ e[pb][ps].len = d[pb][ps].len - 1
  /\ \A c \in D, r \in Slot :
       (c # b \/ r # s) /\ (c # pb \/ r # ps) => e[c][r] = d[c][r]

(* The cells and lengths of the directories after an entry is removed. *)
LEMMA GoneCells ==
  ASSUME NEW fat, NEW d, NEW D, TreeSound(fat, d, D), NEW b, NEW pb, NEW ps,
         DirPlace(d, D, b, pb, ps), NEW e, NEW s, EntryGone(d, e, D, b, s, pb, ps)
  PROVE  /\ s \in Slot /\ s \in EntrySlot /\ s # 0
         /\ (pb # b \/ ps # s)
         /\ \A c \in D, r \in Slot : c # b \/ r # s => SameEntry(d[c][r], e[c][r])
         /\ \A c \in D : \A r \in Slot : e[c][r] \in Fcb
         /\ \A c \in D : c # b => UsedSlots(e[c]) = UsedSlots(d[c])
         /\ UsedSlots(e[b]) = UsedSlots(d[b]) \ {s}
         /\ Cardinality(UsedSlots(e[b])) = Cardinality(UsedSlots(d[b])) - 1
<1>0. b \in D /\ s \in UsedSlots(d[b]) /\ e[b][s] = BlankFcb
  BY DEF EntryGone, DirPlace
<1>1. s \in Slot /\ s \in EntrySlot /\ s # 0
  BY <1>0, EntryIsIn
<1>2. pb # b \/ ps # s
  BY <1>1 DEF DirPlace
<1>3. ASSUME NEW c \in D, NEW r \in Slot, c # b \/ r # s
      PROVE  SameEntry(d[c][r], e[c][r])
  <2>1. SameEntry(d[c][r], d[c][r])
    BY CellsInTree
  <2>2. CASE c = pb /\ r = ps
    BY <2>2 DEF EntryGone
  <2>3. CASE ~(c = pb /\ r = ps)
    <3>1. e[c][r] = d[c][r]
      BY <1>3, <2>3 DEF EntryGone
    <3> QED
      BY <2>1, <3>1
  <2> QED
    BY <2>2, <2>3
<1>4. ASSUME NEW c \in D, NEW r \in Slot PROVE e[c][r] \in Fcb
  <2>1. CASE c = b /\ r = s
    BY <2>1, <1>0, BlankTypes
  <2>2. CASE c # b \/ r # s
    BY <2>2, <1>3 DEF SameEntry
  <2> QED
    BY <2>1, <2>2
<1>5. ASSUME NEW c \in D, c # b PROVE UsedSlots(e[c]) = UsedSlots(d[c])
  <2>1. \A r \in Slot : SameEntry(d[c][r], e[c][r])
    BY <1>3, <1>5
  <2> QED
    BY <2>1, DirsBegin, SameUsed
<1>6. UsedSlots(e[b]) = UsedSlots(d[b]) \ {s}
  <2>0. DirBlock(fat, d, b)
    BY <1>0, TreeIs
  <2>1. \A r \in EntrySlot : r \in Slot
    BY SlotsAreNumbers
  <2>2. \A r \in EntrySlot : r # s => SameEntry(d[b][r], e[b][r])
    BY <1>0, <2>1, <1>3
  <2>3. \A r \in EntrySlot : e[b][r] \in Fcb /\ e[b][r] \notin Texts
    BY <1>0, <2>1, <1>4, FcbIsNoText
  <2>4. \A r \in EntrySlot : r \in UsedSlots(d[b]) <=> d[b][r].use
    BY <2>0, DirBlockIs
  <2>5. \A r \in EntrySlot : r # s => (e[b][r].use <=> r \in UsedSlots(d[b]))
    BY <2>2, <2>4 DEF SameEntry
  <2>6. \A r \in EntrySlot : r \in UsedSlots(e[b]) <=> e[b][r].use
    BY <2>3 DEF UsedSlots, InUse
  <2>7. ~e[b][s].use
    <3>1. ~BlankFcb.use
      BY DEF BlankFcb
    <3> QED
      BY <3>1, <1>0
  <2>8. UsedSlots(e[b]) \subseteq EntrySlot /\ UsedSlots(d[b]) \subseteq EntrySlot
    BY DEF UsedSlots
  <2> QED
    BY <2>5, <2>6, <2>7, <2>8, <1>1
<1>7. Cardinality(UsedSlots(e[b])) = Cardinality(UsedSlots(d[b])) - 1
  <2>1. IsFiniteSet(UsedSlots(d[b]))
    BY UsedIsFinite
  <2> QED
    BY <2>1, <1>0, <1>6, FS_RemoveElement
<1> QED
  BY <1>1, <1>2, <1>3, <1>4, <1>5, <1>6, <1>7

(* The directory from which an entry is removed stays a directory. *)
LEMMA GoneBlock ==
  ASSUME NEW fat, NEW d, NEW D, TreeSound(fat, d, D), NEW b, NEW pb, NEW ps,
         DirPlace(d, D, b, pb, ps), NEW e, NEW s, EntryGone(d, e, D, b, s, pb, ps),
         NEW g, Begins(g, b), g[b] = END
  PROVE  DirBlock(g, e, b)
<1>0. b \in D /\ DirBlock(fat, d, b) /\ e[b][s] = BlankFcb
  BY TreeIs DEF DirPlace, EntryGone
<1>1. /\ s \in Slot /\ s \in EntrySlot /\ s # 0 /\ s # 1
      /\ \A r \in Slot : r # s => SameEntry(d[b][r], e[b][r])
      /\ \A r \in Slot : e[b][r] \in Fcb
      /\ UsedSlots(e[b]) = UsedSlots(d[b]) \ {s}
  <2>1. s \in EntrySlot => s # 1
    BY DEF EntrySlot
  <2> QED
    BY <1>0, <2>1, GoneCells
<1>2. 0 \in Slot /\ 1 \in Slot /\ EntrySlot \subseteq Slot /\ UsedSlots(d[b]) \subseteq EntrySlot
  BY <1>0, DirBlockIs
<1>3. /\ e[b][0].name = "." /\ e[b][0].use /\ judgeDir(e[b][0]) /\ e[b][0].s_block = b
      /\ e[b][1].name = ".." /\ e[b][1].use /\ judgeDir(e[b][1])
  <2>1. SameEntry(d[b][0], e[b][0]) /\ SameEntry(d[b][1], e[b][1])
    BY <1>1, <1>2
  <2> QED
    BY <2>1, <1>0 DEF SameEntry, DirBlock
<1>4. \A r \in UsedSlots(e[b]) : e[b][r].name \in StoredNames
  <2>1. \A r \in UsedSlots(d[b]) : d[b][r].name \in StoredNames
    BY <1>0 DEF DirBlock
  <2> QED
    BY <1>1, <1>2, <2>1 DEF SameEntry
<1>5. ASSUME NEW q \in EntrySlot, ~e[b][q].use, e[b][q].name # ""
      PROVE  \A r \in UsedSlots(e[b]) : r < q
  <2>1. q # s
    <3>1. BlankFcb.name = ""
      BY DEF BlankFcb
    <3> QED
      BY <3>1, <1>0, <1>5
  <2>2. ~d[b][q].use /\ d[b][q].name # ""
    BY <2>1, <1>1, <1>2, <1>5 DEF SameEntry
  <2>3. \A r \in UsedSlots(d[b]) : r < q
    BY <2>2, <1>0 DEF DirBlock
  <2> QED
    BY <2>3, <1>1
<1> QED
  BY <1>1, <1>3, <1>4, <1>5 DEF DirBlock

(* Without an entry and what hangs from it, the tree is sound. *)
LEMMA TreeRemoves ==
  ASSUME NEW fat, NEW d, NEW D, LinksSound(fat), TreeSound(fat, d, D),
         NEW b, NEW pb, NEW ps, DirPlace(d, D, b, pb, ps),
         NEW e, NEW s, EntryGone(d, e, D, b, s, pb, ps),
         NEW R, RemovedWith(d, D, b, s, R), b \notin R,
         NEW g, NEW F, Freed(fat, g, F), \A c \in D \ R : c \notin F,
         \A c \in D \ R : \A r \in UsedSlots(d[c]) :
           ~judgeDir(d[c][r]) /\ (c # b \/ r # s) => d[c][r].s_block \notin F
  PROVE  TreeSound(g, e, D \ R)
<1> DEFINE E == D \ R
<1>1. /\ b \in D /\ pb \in D /\ ps \in Slot /\ D \subseteq Block /\ Root \in D
      /\ d[pb][ps].s_block = b /\ judgeDir(d[pb][ps])
      /\ b = Root => pb = Root /\ ps = 0
      /\ b # Root => ps \in UsedSlots(d[pb]) /\ pb # b
  BY TreeIs DEF DirPlace
<1>2. /\ s \in Slot /\ s \in EntrySlot /\ s # 0 /\ s \in UsedSlots(d[b])
      /\ (pb # b \/ ps # s)
      /\ \A c \in D, r \in Slot : c # b \/ r # s => SameEntry(d[c][r], e[c][r])
      /\ \A c \in D : c # b => UsedSlots(e[c]) = UsedSlots(d[c])
      /\ UsedSlots(e[b]) = UsedSlots(d[b]) \ {s}
      /\ Cardinality(UsedSlots(e[b])) = Cardinality(UsedSlots(d[b])) - 1
  BY GoneCells DEF EntryGone
<1>3. /\ \A c : Begins(fat, c) /\ c \notin F => Begins(g, c) /\ g[c] = fat[c]
      /\ \A c : \A n \in Nat : c \notin F => Walks(fat, c, n) \subseteq Walks(g, c, n)
  BY FreedLinks
<1>4. \A c \in E : c \in D /\ Begins(g, c) /\ g[c] = END /\ DirBlock(fat, d, c)
  BY <1>3, DirsBegin
<1>5. /\ SameEntry(d[pb][ps], e[pb][ps]) /\ e[pb][ps].len = d[pb][ps].len - 1
      /\ \A c \in D, r \in Slot :
           (c # b \/ r # s) /\ (c # pb \/ r # ps) => e[c][r] = d[c][r]
  BY DEF EntryGone
<1>6. /\ d[pb][ps].len = Cardinality(UsedSlots(d[b]))
      /\ \A c \in D : \A r \in UsedSlots(d[c]) : d[c][r].s_block = b => c = pb /\ r = ps
  BY DirPlaceIs
<1>7. e[pb][ps].len = Cardinality(UsedSlots(e[b]))
  BY <1>2, <1>5, <1>6
<1>8. Root \in E /\ b \in E /\ E \subseteq Block
  BY <1>1 DEF RemovedWith
<1>9. \A c \in D : \A r \in UsedSlots(d[c]) :
        d[c][r].s_block \in R => (c = b /\ r = s) \/ c \in R
  BY <1>1, <1>2, RemovedOwners
<1>f. \A c \in E : \A r \in UsedSlots(d[c]) :
        ~judgeDir(d[c][r]) /\ (c # b \/ r # s) => d[c][r].s_block \notin F
  OBVIOUS
<1>e. \A c : c \in E <=> c \in D /\ c \notin R
  OBVIOUS
<1> HIDE DEF E
<1>10. \A c \in E : DirBlock(g, e, c)
  <2>1. DirBlock(g, e, b)
    BY <1>4, <1>8, GoneBlock
  <2>2. ASSUME NEW c \in E, c # b PROVE DirBlock(g, e, c)
    <3>1. DirBlock(fat, d, c) /\ Begins(g, c) /\ g[c] = END
      BY <2>2, <1>4
    <3>2. \A r \in Slot : SameEntry(d[c][r], e[c][r])
      BY <2>2, <1>2, <1>e
    <3> QED
      BY <3>1, <3>2, DirBlockStays
  <2> QED
    BY <2>1, <2>2
<1>11. e[Root][0].len = Cardinality(UsedSlots(e[Root]))
  <2>1. 0 \in Slot
    BY SlotsAreNumbers
  <2>2. CASE b = Root
    BY <2>2, <1>1, <1>7
  <2>3. CASE b # Root
    <3>1. pb # Root \/ ps # 0
      <4>1. ps \in UsedSlots(d[pb])
        BY <2>3, <1>1
      <4> QED
        BY <4>1, <1>1, EntryIsIn
    <3>2. e[Root][0] = d[Root][0]
      BY <3>1, <2>1, <2>3, <1>1, <1>5
    <3> QED
      BY <3>2, <2>3, <1>1, <1>2, TreeIs
  <2> QED
    BY <2>2, <2>3
<1>12. \A c \in E : \A r \in UsedSlots(e[c]) : c \in D /\ r \in UsedSlots(d[c]) /\ (c # b \/ r # s)
  BY <1>2, <1>e
<1>13. ASSUME NEW c \in E, NEW r \in UsedSlots(e[c])
       PROVE  SameEntry(d[c][r], e[c][r]) /\ EntrySound(g, e, E, e[c][r])
  <2>0. c \in D /\ c \notin R /\ r \in UsedSlots(d[c]) /\ (c # b \/ r # s)
    BY <1>12, <1>e
  <2>1. /\ r \in Slot /\ EntrySound(fat, d, D, d[c][r]) /\ Begins(fat, d[c][r].s_block)
    BY <2>0, EntryIsIn
  <2>2. SameEntry(d[c][r], e[c][r])
    BY <2>0, <2>1, <1>2
  <2>3. e[c][r].s_block = d[c][r].s_block /\ judgeDir(e[c][r]) = judgeDir(d[c][r])
    BY <2>2 DEF SameEntry
  <2>4. d[c][r].s_block \notin R
    BY <2>0, <1>9
  <2>5. CASE c = pb /\ r = ps
    <3>1. b # Root
      <4>1. r # 0
        BY <2>0, EntryIsIn
      <4> QED
        BY <4>1, <2>5, <1>1
    <3>2. judgeDir(e[c][r]) /\ e[c][r].s_block = b /\ e[c][r].len = Cardinality(UsedSlots(e[b]))
      BY <2>3, <2>5, <1>1, <1>7
    <3> QED
      BY <3>1, <3>2, <2>2, <1>8 DEF EntrySound
  <2>6. CASE ~(c = pb /\ r = ps)
    <3>1. e[c][r] = d[c][r]
      BY <2>0, <2>1, <2>6, <1>5
    <3>2. d[c][r].s_block # b
      BY <2>0, <2>6, <1>6
    <3>3. CASE judgeDir(d[c][r])
      <4>1. /\ d[c][r].s_block \in D /\ d[c][r].s_block # Root
            /\ d[c][r].len = Cardinality(UsedSlots(d[d[c][r].s_block]))
        BY <3>3, <2>1 DEF EntrySound
      <4>2. UsedSlots(e[d[c][r].s_block]) = UsedSlots(d[d[c][r].s_block])
        BY <4>1, <3>2, <1>2
      <4>3. d[c][r].s_block \in E
        BY <4>1, <2>4, <1>e
      <4> QED
        BY <4>1, <4>2, <4>3, <3>1, <3>3, <2>2 DEF EntrySound
    <3>4. CASE ~judgeDir(d[c][r])
      <4>1. /\ d[c][r].s_block \in Block /\ d[c][r].s_block \notin D /\ d[c][r].len >= 0
            /\ Walks(fat, d[c][r].s_block, d[c][r].len \div FCB_NUM) # {}
        BY <3>4, <2>1 DEF EntrySound
      <4>2. d[c][r].s_block \notin E
        BY <4>1, <1>e
      <4>3. d[c][r].len \div FCB_NUM \in Nat
        <5>1. d[c][r].len \in Int
          BY <2>0, EntryIsIn DEF Fcb
        <5> QED
          BY <5>1, <4>1, SizeAssumption
      <4>4. d[c][r].s_block \notin F
        BY <3>4, <2>0, <1>f
      <4>5. Begins(g, d[c][r].s_block)
        BY <4>4, <2>1, <1>3
      <4>6. Walks(g, d[c][r].s_block, d[c][r].len \div FCB_NUM) # {}
        BY <4>1, <4>3, <4>4, <1>3
      <4> QED
        BY <4>1, <4>2, <4>5, <4>6, <3>1, <3>4, <2>2 DEF EntrySound
    <3> QED
      BY <3>3, <3>4
  <2> QED
    BY <2>5, <2>6
<1>14. \A c, a \in E : \A r \in UsedSlots(e[c]), q \in UsedSlots(e[a]) :
         e[c][r].s_block = e[a][q].s_block => c = a /\ r = q
  BY <1>12, <1>13 DEF SameEntry, TreeSound
<1>15. \A c \in E : \A r, q \in UsedSlots(e[c]) :
         e[c][r].name = e[c][q].name /\ judgeDir(e[c][r]) = judgeDir(e[c][q]) => r = q
  BY <1>12, <1>13 DEF SameEntry, TreeSound
<1>16. TreeSound(g, e, E)
  BY <1>8, <1>10, <1>11, <1>13, <1>14, <1>15 DEF TreeSound
<1> QED
  BY <1>16 DEF E

(* Nothing that is open hangs from an entry of the current directory.      *)
LEMMA OpenIsKept ==
  ASSUME TypeOK, NEW D, TreeSound(fat1, disk, D), PathSound(disk, D, oft, currOftIndex),
         NEW b, b = cur.fcb.s_block, b \in D, NEW s \in UsedSlots(disk[b]),
         NEW R, RemovedWith(disk, D, b, s, R)
  PROVE  \A i \in 0 .. currOftIndex :
           oft[i].fcb.s_block \notin R /\ oft[i].pdfBlockNo \notin R
<1> DEFINE P == {i \in 0 .. currOftIndex : oft[i].fcb.s_block \in R}
<1>1. R \subseteq D \ {Root}
  BY DEF RemovedWith
<1>2. currOftIndex \in Nat
  BY CurIs
<1>3. ASSUME NEW i \in 0 .. currOftIndex
      PROVE  /\ i = 0 => oft[i].fcb.s_block = Root /\ oft[i].pdfBlockNo = Root
             /\ i # 0 => i - 1 \in 0 .. currOftIndex /\ oft[i].pdfBlockNo = oft[i - 1].fcb.s_block
  BY PathIs
<1>4. 0 \notin P
  BY <1>1, <1>3
<1>5. ASSUME NEW i \in P, i # 0 PROVE i - 1 \in P
  <2>1. /\ i \in 0 .. currOftIndex /\ oft[i].fcb.s_block \in R
    OBVIOUS
  <2>2. /\ oft[i].pdfBlockNo \in D /\ oft[i].fdEntryNo \in UsedSlots(disk[oft[i].pdfBlockNo])
        /\ disk[oft[i].pdfBlockNo][oft[i].fdEntryNo] = oft[i].fcb
        /\ oft[i].fdEntryNo # 0
    <3>1. /\ oft[i].pdfBlockNo \in D /\ oft[i].fdEntryNo \in UsedSlots(disk[oft[i].pdfBlockNo])
          /\ disk[oft[i].pdfBlockNo][oft[i].fdEntryNo] = oft[i].fcb
      BY <2>1, <1>5, PathIs
    <3> QED
      BY <3>1, EntryIsIn
  <2>3. oft[i].pdfBlockNo # b
    BY <2>1, <2>2, OpenIsNotInCur
  <2>4. PICK a, r : a = oft[i].pdfBlockNo /\ r = oft[i].fdEntryNo
    OBVIOUS
  <2>5. a \in D /\ r \in UsedSlots(disk[a]) /\ disk[a][r].s_block \in R /\ a # b
    BY <2>1, <2>2, <2>3, <2>4
  <2>6. a \in R
    BY <2>5, RemovedOwners
  <2> QED
    BY <2>1, <2>4, <2>6, <1>3, <1>5
<1>6. P = {}
  <2>1. P \in SUBSET (0 .. currOftIndex)
    OBVIOUS
  <2> HIDE DEF P
  <2> QED
    BY <2>1, <1>2, <1>4, <1>5, NoFirstPosition
<1>7. \A i \in 0 .. currOftIndex : oft[i].fcb.s_block \notin R
  BY <1>6
<1> HIDE DEF P
<1>8. ASSUME NEW i \in 0 .. currOftIndex PROVE oft[i].pdfBlockNo \notin R
  <2>1. CASE i = 0
    BY <2>1, <1>1, <1>3
  <2>2. CASE i # 0
    BY <2>2, <1>3, <1>7
  <2> QED
    BY <2>1, <2>2
<1> QED
  BY <1>7, <1>8

(* The blocks of the entry in slot s of block b, and of those in the       *)
(* directories R, are among F.                                             *)
GoesWith(fat, d, D, b, s, R, F) ==
  \A c \in D : \A r \in UsedSlots(d[c]) :
    (c = b /\ r = s) \/ c \in R =>
       /\ Owned(fat, d[c][r]) \subseteq F
       /\ judgeDir(d[c][r]) => d[c][r].s_block \in R

(* What deleteFileAtFat and deleteDirAtFat free is the entry's own, and    *)
(* all of it.                                                              *)
LEMMA FreedIs ==
  ASSUME TypeOK, NEW D, LinksSound(fat1), TreeSound(fat1, disk, D),
         NEW b \in D, NEW s \in UsedSlots(disk[b])
  PROVE  \E R : /\ RemovedWith(disk, D, b, s, R)
                /\ \A a \in Block : fat1[a] \in FreedBlocks(disk[b][s]) =>
                                    a \in FreedBlocks(disk[b][s])
                /\ \A c \in D \ R : c \notin FreedBlocks(disk[b][s])
                /\ \A c \in D \ R : \A r \in UsedSlots(disk[c]) :
                     ~judgeDir(disk[c][r]) /\ (c # b \/ r # s) =>
                        disk[c][r].s_block \notin FreedBlocks(disk[b][s])
                /\ GoesWith(fat1, disk, D, b, s, R, FreedBlocks(disk[b][s]))
<1> DEFINE f == disk[b][s]
           F == FreedBlocks(f)
           Hangs(R, a, r) == /\ a \in D /\ r \in UsedSlots(disk[a]) /\ ~judgeDir(disk[a][r])
                             /\ a \in R \/ (a = b /\ r = s)
<1>1. PICK R : /\ RemovedWith(disk, D, b, s, R)
               /\ \A y \in F : y \in R \/ \E a, r : /\ Hangs(R, a, r)
                                                    /\ y \in FatChain(fat1, disk[a][r].s_block)
                                                    /\ FatChain(fat1, disk[a][r].s_block) \subseteq F
               /\ GoesWith(fat1, disk, D, b, s, R, F)
  <2>1. CASE judgeDir(f)
    <3> DEFINE R == SubtreeBlocks(f)
    <3>2. /\ RemovedWith(disk, D, b, s, R)
          /\ \A h \in UNION {Children(p) : p \in Subtree(f)} :
               \E a \in R : \E r \in UsedSlots(disk[a]) : h = disk[a][r]
          /\ f.s_block \in R
          /\ \A a \in R : \A r \in UsedSlots(disk[a]) :
               /\ disk[a][r] \in UNION {Children(p) : p \in Subtree(f)}
               /\ judgeDir(disk[a][r]) => disk[a][r].s_block \in R
      BY <2>1, SubtreeIs
    <3>3. R \subseteq D
      BY <3>2 DEF RemovedWith
    <3>4. FilesOf(f) = {h \in UNION {Children(p) : p \in Subtree(f)} : ~judgeDir(h)}
      BY <2>1 DEF FilesOf
    <3>5. F = (UNION {FatChain(fat1, h.s_block) : h \in FilesOf(f)}) \cup R
      BY <2>1 DEF FreedBlocks, SubtreeBlocks
    <3> HIDE DEF R, F
    <3>6. ASSUME NEW y, y \in F, y \notin R
          PROVE  \E a, r : /\ Hangs(R, a, r)
                           /\ y \in FatChain(fat1, disk[a][r].s_block)
                           /\ FatChain(fat1, disk[a][r].s_block) \subseteq F
      <4>1. PICK h \in FilesOf(f) : y \in FatChain(fat1, h.s_block)
        <5>1. y \in UNION {FatChain(fat1, h.s_block) : h \in FilesOf(f)}
          BY <3>5, <3>6
        <5> QED
          BY <5>1
      <4>2. FatChain(fat1, h.s_block) \subseteq F
        BY <3>5
      <4>3. PICK a \in R : \E r \in UsedSlots(disk[a]) : h = disk[a][r]
        BY <3>2, <3>4
      <4>4. PICK r \in UsedSlots(disk[a]) : h = disk[a][r]
        BY <4>3
      <4>5. Hangs(R, a, r)
        BY <3>3, <3>4, <4>4
      <4> QED
        BY <4>1, <4>2, <4>4, <4>5
    <3>7. GoesWith(fat1, disk, D, b, s, R, F)
      <4> SUFFICES ASSUME NEW c \in D, NEW r \in UsedSlots(disk[c]), (c = b /\ r = s) \/ c \in R
                   PROVE  /\ Owned(fat1, disk[c][r]) \subseteq F
                          /\ judgeDir(disk[c][r]) => disk[c][r].s_block \in R
        BY DEF GoesWith
      <4>1. CASE judgeDir(disk[c][r])
        <5>1. disk[c][r].s_block \in R
          BY <3>2, <4>1
        <5> QED
          BY <5>1, <4>1, <3>5 DEF Owned
      <4>2. CASE ~judgeDir(disk[c][r])
        <5>1. c \in R
          BY <2>1, <4>2
        <5>2. disk[c][r] \in FilesOf(f)
          BY <5>1, <4>2, <3>2, <3>4
        <5>3. FatChain(fat1, disk[c][r].s_block) \subseteq F
          BY <5>2, <3>5
        <5> QED
          BY <5>3, <4>2 DEF Owned
      <4> QED
        BY <4>1, <4>2
    <3> QED
      BY <3>2, <3>6, <3>7
  <2>2. CASE ~judgeDir(f)
    <3>1. F = FatChain(fat1, f.s_block)
      BY <2>2 DEF FreedBlocks, FilesOf
    <3>2. RemovedWith(disk, D, b, s, {})
      BY DEF RemovedWith
    <3>3. Hangs({}, b, s)
      BY <2>2
    <3>4. \A y \in F : \E a, r : /\ Hangs({}, a, r)
                                 /\ y \in FatChain(fat1, disk[a][r].s_block)
                                 /\ FatChain(fat1, disk[a][r].s_block) \subseteq F
      BY <3>1, <3>3
    <3>5. GoesWith(fat1, disk, D, b, s, {}, F)
      BY <2>2, <3>1 DEF GoesWith, Owned
    <3> QED
      BY <3>2, <3>4, <3>5
  <2> QED
    BY <2>1, <2>2
<1> HIDE DEF F
<1>2. R \subseteq D
  BY <1>1 DEF RemovedWith
<1>3. ASSUME NEW a, NEW r, Hangs(R, a, r)
      PROVE  Begins(fat1, disk[a][r].s_block) /\ disk[a][r].s_block \in Block \ D
  BY <1>3, EntryIsIn DEF EntrySound
<1>4. ASSUME NEW x \in Block, fat1[x] \in F PROVE x \in F
  <2>1. CASE fat1[x] \in R
    <3>1. Begins(fat1, fat1[x])
      BY <2>1, <1>2, DirsBegin
    <3> QED
      BY <3>1 DEF Begins
  <2>2. CASE fat1[x] \notin R
    <3>1. PICK a, r : /\ Hangs(R, a, r)
                      /\ fat1[x] \in FatChain(fat1, disk[a][r].s_block)
                      /\ FatChain(fat1, disk[a][r].s_block) \subseteq F
      BY <2>2, <1>1, <1>4
    <3>2. Begins(fat1, disk[a][r].s_block)
      BY <3>1, <1>3
    <3>3. x \in FatChain(fat1, disk[a][r].s_block)
      BY <3>1, <3>2, ChainIsClosedBackwards
    <3> QED
      BY <3>1, <3>3
  <2> QED
    BY <2>1, <2>2
<1>5. ASSUME NEW x, Begins(fat1, x), x \in F, x \notin R
      PROVE  \E a, r : Hangs(R, a, r) /\ x = disk[a][r].s_block
  <2>1. PICK a, r : Hangs(R, a, r) /\ x \in FatChain(fat1, disk[a][r].s_block)
    BY <1>1, <1>5
  <2>2. disk[a][r].s_block \in Block
    BY <2>1, <1>3
  <2>3. x = disk[a][r].s_block
    BY <2>1, <2>2, <1>5, BeginsOnlyItsChain
  <2> QED
    BY <2>1, <2>3
<1>6. \A c \in D \ R : c \notin F
  <2> SUFFICES ASSUME NEW c \in D, c \notin R, c \in F PROVE FALSE
    OBVIOUS
  <2>1. Begins(fat1, c)
    BY DirsBegin
  <2> QED
    BY <2>1, <1>3, <1>5
<1>7. ASSUME NEW c \in D, c \notin R, NEW r \in UsedSlots(disk[c]),
             ~judgeDir(disk[c][r]), c # b \/ r # s, disk[c][r].s_block \in F
      PROVE  FALSE
  <2>1. Begins(fat1, disk[c][r].s_block) /\ disk[c][r].s_block \notin D
    BY <1>7, EntryIsIn DEF EntrySound
  <2>2. PICK a, q : Hangs(R, a, q) /\ disk[c][r].s_block = disk[a][q].s_block
    BY <2>1, <1>2, <1>5, <1>7
  <2>3. c = a /\ r = q
    BY <2>2, <1>7 DEF TreeSound
  <2> QED
    BY <2>2, <2>3, <1>7
<1> QED
  BY <1>1, <1>4, <1>6, <1>7 DEF F

(* The store behind the table changes no other block.                      *)
LEMMA StrayFreeIs ==
  ASSUME NEW d \in Memory, NEW c \in Block, c # StrayBlock
  PROVE  StrayFree(d)[c] = d[c]
BY DEF StrayFree, Memory

(* deleteFile keeps the invariant. *)
LEMMA DeleteHolds ==
  ASSUME TypeOK, NEW D, Holds(D), GoodUse, StrayBlock \notin D,
         NEW n \in Names, NEW isdir \in BOOLEAN, deleteFile(n, isdir)
  PROVE  /\ \E E \in SUBSET Block : Holds(E)'
         /\ \E R : KeepsBlocks(fat1, disk, fat1', disk', D, R)
         /\ KeepsFiles(fat1, disk, fat1', disk', D, PlaceOf(currOftIndex))
<1> DEFINE k == currOftIndex
<1>0. PICK b, pb, ps : b = cur.fcb.s_block /\ pb = cur.pdfBlockNo /\ ps = cur.fdEntryNo
  OBVIOUS
<1>1. /\ TreeSound(fat1, disk, D) /\ PathSound(disk, D, oft, k) /\ LinksSound(fat1)
      /\ judgeDir(cur.fcb) /\ k' = k /\ mode' # "text"
  BY DEF Holds, deleteFile
<1>2. PICK s : s = findFileAtDir(curDir, cur.fcb.len, n, isdir)
  OBVIOUS
<1>3. s # NOT_FOUND
  BY <1>2 DEF deleteFile
<1>4. /\ b \in D /\ DirBlock(fat1, disk, b) /\ curDir = disk[b] /\ k \in OftIdx
      /\ cur.fcb.len = Cardinality(UsedSlots(disk[b]))
  BY <1>0, <1>1, CurIs
<1>5. s \in UsedSlots(disk[b]) /\ s \in Slot /\ s # 0
  <2>0. PICK kind : kind = isdir
    OBVIOUS
  <2>1. s = findFileAtDir(disk[b], cur.fcb.len, n, kind)
    BY <2>0, <1>2, <1>4
  <2>2. DirBlock(fat1, disk, b) /\ cur.fcb.len = Cardinality(UsedSlots(disk[b]))
    BY <1>4
  <2>3. n # ""
    BY NamesAreNames
  <2>4. findFileAtDir(disk[b], cur.fcb.len, n, kind) = FirstOf(Matching(disk, b, n, kind))
    <3>1. findFileAtDir(disk[b], Cardinality(UsedSlots(disk[b])), n, kind)
             = FirstOf(Matching(disk, b, n, kind))
      BY ONLY <2>2, <2>3, FindFindsEntries
    <3> QED
      BY ONLY <2>2, <3>1
  <2>5. s = FirstOf(Matching(disk, b, n, kind))
    BY <2>1, <2>4
  <2>6. DirBlock(fat1, disk, b)
    BY <2>2
  <2>7. s \in UsedSlots(disk[b])
    BY <2>5, <2>6, <1>3, FoundIs
  <2> QED
    BY <2>7, <1>1, <1>4, EntryIsIn
<1>7. DirPlace(disk, D, b, pb, ps) /\ disk[pb][ps] = cur.fcb
  BY <1>0, <1>1, CurPlace
<1>8. /\ D \subseteq Block /\ b \in Block /\ pb \in D /\ pb \in Block /\ ps \in Slot
      /\ b = Root => pb = Root /\ ps = 0
      /\ b # Root => pb # b
  BY <1>1, <1>4, <1>7, TreeIs DEF DirPlace
<1>9. disk \in Memory /\ oft \in [OftIdx -> Oft] /\ fat1 \in [Block -> FatValue]
  BY DEF TypeOK, Memory
<1> DEFINE e == disk'
           g == fat1'
           p == oft'
           F == FreedBlocks(disk[b][s])
<1> HIDE DEF e
<1>10. cur.fcb \in Fcb /\ -1 \in Int /\ cur.fcb.len \in Int
  BY CurType DEF Oft, Fcb
<1>11. /\ e[b][s] = BlankFcb
       /\ e[pb][ps] = AddLen(cur.fcb, -1)
       /\ \A c \in D, r \in Slot :
            (c # b \/ r # s) /\ (c # pb \/ r # ps) => e[c][r] = disk[c][r]
       /\ \A c \in Block \ D, r \in Slot : c # StrayBlock => e[c][r] = disk[c][r]
  <2>1. PICK d : d = IF FilesOf(curDir[s]) = {} THEN disk ELSE StrayFree(disk)
    OBVIOUS
  <2>2. /\ d \in Memory /\ \A c \in D, r \in Slot : d[c][r] = disk[c][r]
        /\ \A c \in Block, r \in Slot : c # StrayBlock => d[c][r] = disk[c][r]
    BY <2>1, <1>8, <1>9, StrayFreeType, StrayFreeIs
  <2>3. e = [[d EXCEPT ![b][s] = BlankFcb] EXCEPT ![pb][ps] = AddLen(@, -1)]
    BY <2>1, <1>0, <1>2 DEF deleteFile, AddToEntry, e
  <2>4. PICK m : m = [d EXCEPT ![b][s] = BlankFcb]
    OBVIOUS
  <2>5. /\ m \in Memory /\ m[b][s] = BlankFcb
         /\ \A c \in Block, r \in Slot : c # b \/ r # s => m[c][r] = d[c][r]
    <3>1. BlankFcb \in Cell
      BY BlankTypes DEF Cell
    <3> QED
      BY <3>1, <2>2, <2>4, <1>5, <1>8 DEF Memory
  <2>6. pb # b \/ ps # s
    BY <1>5, <1>8
  <2>7. m[pb][ps] = cur.fcb
    BY <2>2, <2>6, <2>5, <1>7, <1>8
  <2>8. PICK a : a = AddLen(cur.fcb, -1)
    OBVIOUS
  <2>9. e = [m EXCEPT ![pb][ps] = a]
    BY <2>3, <2>7, <2>8, <2>4
  <2>10. /\ e[pb][ps] = a
        /\ \A c \in Block, r \in Slot : c # pb \/ r # ps => e[c][r] = m[c][r]
    BY <2>9, <2>5, <1>8 DEF Memory
  <2>11. ASSUME NEW c \in Block \ D, NEW r \in Slot, c # StrayBlock PROVE e[c][r] = disk[c][r]
    <3>1. c # b /\ c # pb
      BY <1>4, <1>8
    <3> QED
      BY <3>1, <2>2, <2>5, <2>10, <2>11
  <2>12. \A c \in D, r \in Slot :
           (c # b \/ r # s) /\ (c # pb \/ r # ps) => e[c][r] = disk[c][r]
    BY <2>2, <2>5, <2>10, <1>8
  <2>13. e[b][s] = BlankFcb
    BY <2>5, <2>6, <2>10, <1>5, <1>8
  <2> QED
    BY <2>8, <2>10, <2>11, <2>12, <2>13
<1>12. \A c \in Block : g[c] = IF c \in F THEN FREE ELSE fat1[c]
  <2>1. fat1' = [c \in Block |-> IF c \in FreedBlocks(curDir[s]) THEN FREE ELSE fat1[c]]
    BY <1>2 DEF deleteFile
  <2> QED
    BY <2>1, <1>4
<1>13. /\ \A i \in OftIdx : i # k => p[i] = oft[i]
       /\ p[k].pdfBlockNo = oft[k].pdfBlockNo /\ p[k].fdEntryNo = oft[k].fdEntryNo
       /\ p[k].dirName = oft[k].dirName /\ p[k].isUse = oft[k].isUse
       /\ p[k].fcb = [oft[k].fcb EXCEPT !.len = oft[k].fcb.len - 1]
  <2>1. oft' = [oft EXCEPT ![k].fcb.len = @ - 1, ![k].filePtr = 0]
    BY DEF deleteFile
  <2>2. oft[k] \in Oft /\ oft[k].fcb \in Fcb
    BY <1>4, <1>9 DEF Oft
  <2> QED
    BY <2>1, <2>2, <1>4, <1>9 DEF Oft, Fcb
<1>f. PICK R : /\ RemovedWith(disk, D, b, s, R)
               /\ \A a \in Block : fat1[a] \in F => a \in F
               /\ \A c \in D \ R : c \notin F
               /\ \A c \in D \ R : \A r \in UsedSlots(disk[c]) :
                    ~judgeDir(disk[c][r]) /\ (c # b \/ r # s) => disk[c][r].s_block \notin F
               /\ GoesWith(fat1, disk, D, b, s, R, F)
  BY <1>1, <1>4, <1>5, FreedIs
<1> HIDE DEF e, g, p, F
<1>14. /\ e[pb][ps] = [cur.fcb EXCEPT !.len = cur.fcb.len - 1] /\ SameEntry(cur.fcb, e[pb][ps])
       /\ e[pb][ps].len = cur.fcb.len - 1
  <2>1. cur.fcb.len - 1 \in Int /\ cur.fcb.len + (-1) = cur.fcb.len - 1
    BY <1>10
  <2>2. e[pb][ps] = [cur.fcb EXCEPT !.len = cur.fcb.len - 1]
    <3>2. AddLen(cur.fcb, -1) = [cur.fcb EXCEPT !.len = cur.fcb.len + (-1)]
      BY <1>10, AddLenIs
    <3> QED
      BY <3>2, <2>1, <1>11
  <2> QED
    BY <2>1, <2>2, <1>10, WithLen
<1>15. CurUpdated(e, p)
  BY <1>0, <1>13, <1>14 DEF CurUpdated, cur
<1>16. EntryGone(disk, e, D, b, s, pb, ps)
  <2>1. SameEntry(disk[pb][ps], e[pb][ps]) /\ e[pb][ps].len = disk[pb][ps].len - 1
    BY <1>7, <1>14
  <2> QED
    BY <2>1, <1>5, <1>11 DEF EntryGone
<1>17. Freed(fat1, g, F)
  BY <1>12, <1>f DEF Freed
<1>18. \A i \in 0 .. k : oft[i].fcb.s_block \notin R /\ oft[i].pdfBlockNo \notin R
  <2>1. b = cur.fcb.s_block /\ b \in D
    BY <1>0, <1>4
  <2> QED
    BY <2>1, <1>1, <1>5, <1>f, OpenIsKept
<1>19. b \notin R
  <2>1. k \in 0 .. k
    BY <1>1, CurIs
  <2> QED
    BY <2>1, <1>0, <1>18 DEF cur
<1>e. PICK E : E = D \ R
  OBVIOUS
<1>20. TreeSound(g, e, E)
  <2>1. TreeSound(g, e, D \ R)
    BY <1>1, <1>7, <1>16, <1>17, <1>19, <1>f, TreeRemoves
  <2> QED
    BY <2>1, <1>e
<1>21. E \in SUBSET Block
  BY <1>e, <1>8
<1>22. PathSound(e, E, p, k)
  <2>1. ASSUME NEW i \in 0 .. k, i # k
        PROVE  e[oft[i].pdfBlockNo][oft[i].fdEntryNo] = oft[i].fcb
    <3>1. /\ oft[i].pdfBlockNo \in D /\ oft[i].fdEntryNo \in Slot
          /\ disk[oft[i].pdfBlockNo][oft[i].fdEntryNo] = oft[i].fcb
          /\ oft[i].pdfBlockNo # b \/ oft[i].fdEntryNo = 0
          /\ oft[i].pdfBlockNo # pb \/ oft[i].fdEntryNo # ps
      BY <2>1, <1>0, <1>1, OpenPlaces
    <3> QED
      BY <3>1, <1>5, <1>11
  <2>2. ASSUME NEW i \in 1 .. k
        PROVE  oft[i].pdfBlockNo \in E /\ oft[i].fdEntryNo \in UsedSlots(e[oft[i].pdfBlockNo])
    <3>1. i \in 0 .. k /\ i # 0
      OBVIOUS
    <3>2. /\ oft[i].pdfBlockNo \in D /\ oft[i].pdfBlockNo \notin R
          /\ oft[i].fdEntryNo \in UsedSlots(disk[oft[i].pdfBlockNo])
      BY <3>1, <1>1, <1>18, PathIs
    <3>3. oft[i].fdEntryNo # 0
      BY <3>2, <1>1, EntryIsIn
    <3>4. oft[i].pdfBlockNo # b
      BY <3>1, <3>3, <1>0, <1>1, OpenPlaces
    <3>5. UsedSlots(e[oft[i].pdfBlockNo]) = UsedSlots(disk[oft[i].pdfBlockNo])
      BY <3>2, <3>4, <1>1, <1>7, <1>16, GoneCells
    <3> QED
      BY <3>2, <3>5, <1>e
  <2> QED
    BY <2>1, <2>2, <1>1, <1>15, PathUpdates
<1>23. LinksSound(g)
  BY <1>1, <1>17, FreedLinks
<1>24. Holds(E)'
  BY <1>1, <1>20, <1>22, <1>23 DEF Holds, TextSound, e, g, p
<1>25. ASSUME NEW c \in D, NEW r \in UsedSlots(disk[c])
       PROVE  \/ /\ \A x \in Owned(fat1, disk[c][r]) : g[x] = FREE
                 /\ judgeDir(disk[c][r]) => disk[c][r].s_block \in R
              \/ /\ c \notin R /\ r \in UsedSlots(e[c]) /\ SameEntry(disk[c][r], e[c][r])
                 /\ Owned(fat1, disk[c][r]) \subseteq Owned(g, e[c][r])
  <2>1. r \in Slot /\ disk[c][r].s_block \in Block
    BY <1>1, EntryIsIn
  <2>2. CASE (c = b /\ r = s) \/ c \in R
    <3>1. /\ Owned(fat1, disk[c][r]) \subseteq F
          /\ judgeDir(disk[c][r]) => disk[c][r].s_block \in R
      BY <2>2, <1>f DEF GoesWith
    <3>2. Owned(fat1, disk[c][r]) \subseteq Block
      BY <2>1, ChainIsLeast DEF Owned
    <3> QED
      BY <3>1, <3>2, <1>12
  <2>3. CASE c \notin R /\ (c # b \/ r # s)
    <3>1. r \in UsedSlots(e[c]) /\ SameEntry(disk[c][r], e[c][r])
      BY <2>1, <2>3, <1>1, <1>7, <1>16, GoneCells
    <3>2. ~judgeDir(disk[c][r]) => disk[c][r].s_block \notin F
      BY <2>3, <1>f
    <3>3. \A a \in Block : a \notin F /\ fat1[a] \in Block => g[a] = fat1[a] /\ fat1[a] \notin F
      BY <1>12, <1>f
    <3>4. Owned(fat1, disk[c][r]) \subseteq Owned(g, e[c][r])
      BY <2>1, <3>1, <3>2, <3>3, OwnedGrows
    <3> QED
      BY <2>3, <3>1, <3>4
  <2> QED
    BY <2>2, <2>3
<1>26. Root \notin R
  BY <1>f DEF RemovedWith
<1>27. \A x \in Block : fat1[x] = FREE => g[x] = FREE
  BY <1>12
<1>28. KeepsBlocks(fat1, disk, fat1', disk', D, R)
  BY <1>25, <1>26, <1>27 DEF KeepsBlocks, e, g
<1>29. \A c \in R : g[c] = FREE
  <2> SUFFICES ASSUME NEW c \in R PROVE c \in F
    BY <1>8, <1>12, <1>f DEF RemovedWith
  <2>1. ASSUME NEW a \in D, NEW r \in UsedSlots(disk[a]), disk[a][r].s_block = c,
               (a = b /\ r = s) \/ a \in R
        PROVE  c \in F
    <3>1. Owned(fat1, disk[a][r]) \subseteq F /\ c \in D
      BY <2>1, <1>f DEF GoesWith, RemovedWith
    <3>2. judgeDir(disk[a][r])
      BY <2>1, <3>1, <1>1, EntryIsIn DEF EntrySound
    <3> QED
      BY <2>1, <3>1, <3>2 DEF Owned
  <2>2. c = disk[b][s].s_block \/ \E a \in R : \E r \in UsedSlots(disk[a]) : disk[a][r].s_block = c
    BY <1>f DEF RemovedWith
  <2>3. R \subseteq D
    BY <1>f DEF RemovedWith
  <2> QED
    BY <2>1, <2>2, <2>3, <1>4, <1>5
<1>30. ASSUME NEW c \in D, c \notin R, NEW r \in UsedSlots(disk[c]), ~judgeDir(disk[c][r]),
              r \in UsedSlots(e[c])
       PROVE  /\ e[c][r].len = disk[c][r].len
              /\ \A m \in Nat : Walks(fat1, disk[c][r].s_block, m)
                                   \subseteq Walks(g, disk[c][r].s_block, m)
              /\ \A a \in FatChain(fat1, disk[c][r].s_block), t \in Slot :
                   a # StrayBlock => e[a][t] = disk[a][t]
  <2>1. r \in Slot
    BY <1>1, EntryIsIn
  <2>2. c # b \/ r # s
    <3>1. UsedSlots(e[b]) = UsedSlots(disk[b]) \ {s}
      BY <1>1, <1>7, <1>16, GoneCells
    <3> QED
      BY <3>1, <1>30
  <2>3. c # pb \/ r # ps
    BY <1>1, <1>7, <1>30
  <2>4. e[c][r] = disk[c][r]
    BY <2>1, <2>2, <2>3, <1>11
  <2>5. disk[c][r].s_block \notin F
    BY <2>2, <1>30, <1>f
  <2>6. \A m \in Nat : Walks(fat1, disk[c][r].s_block, m) \subseteq Walks(g, disk[c][r].s_block, m)
    BY <2>5, <1>1, <1>17, FreedLinks
  <2>7. ASSUME NEW a \in FatChain(fat1, disk[c][r].s_block), NEW t \in Slot, a # StrayBlock
        PROVE  e[a][t] = disk[a][t]
    <3>1. a \in Block \ D
      BY <1>1, <1>30, FilesAreApart
    <3> QED
      BY <3>1, <2>7, <1>11
  <2> QED
    BY <2>4, <2>6, <2>7
<1>31. KeepsFiles(fat1, disk, fat1', disk', D, PlaceOf(k))
  BY <1>29, <1>30 DEF KeepsFiles, e, g
<1> QED
  BY <1>21, <1>24, <1>28, <1>31
-----------------------------------------------------------------------------
(* Writing. *)

(* A walk along a table is unique, so BlockAt finds its last block.        *)
LEMMA BlockAtIs ==
  ASSUME NEW fat, NEW b, NEW n \in Nat, NEW w \in Walks(fat, b, n)
  PROVE  BlockAt(fat, b, n) = w[n] /\ w[n] \in Block /\ w[n] # END
<1> DEFINE W == Walks(fat, b, n)
           v == CHOOSE u \in W : TRUE
<1>1. v \in W /\ W # {}
  OBVIOUS
<1>2. BlockAt(fat, b, n) = v[n]
  BY <1>1 DEF BlockAt
<1> HIDE DEF v, W
<1>3. n <= n /\ n \in 0 .. n
  OBVIOUS
<1>4. v[n] = w[n]
  BY <1>1, <1>3, WalksAgree DEF W
<1>5. w[n] \in Block
  BY <1>3, WalkIs
<1> QED
  BY <1>2, <1>4, <1>5, MarksAreNoBlocks

(* What do_write adds to a position takes it to the next block at most.    *)
LEMMA DivIs ==
  ASSUME NEW F \in Nat, F > 0, NEW l \in Int, NEW q \in Int, NEW r \in Int,
         l = F * q + r, 0 <= r, r < F
  PROVE  l \div F = q
OBVIOUS

(* Up to FCB_NUM characters cross the end of a block at most once. *)
LEMMA DivSteps ==
  ASSUME NEW F \in Nat, F > 0, NEW l \in Nat, NEW n \in 0 .. F
  PROVE  /\ l \div F \in Nat /\ (l + n) \div F \in Nat
         /\ (l % F) + n < F => (l + n) \div F = l \div F
         /\ (l % F) + n >= F => (l + n) \div F = (l \div F) + 1
<1>1. PICK q \in Nat, r \in Nat : q = l \div F /\ r = l % F /\ l = F * q + r /\ r < F
  OBVIOUS
<1>2. CASE r + n < F
  <2>1. l + n = F * q + (r + n) /\ r + n \in Int /\ 0 <= r + n
    BY <1>1
  <2>2. (l + n) \div F = q
    BY <2>1, <1>1, <1>2, DivIs
  <2> QED
    BY <2>2, <1>1, <1>2
<1>3. CASE r + n >= F
  <2>1. l + n = F * (q + 1) + (r + n - F) /\ r + n - F \in Int /\ 0 <= r + n - F /\ r + n - F < F
    BY <1>1, <1>3
  <2>2. (l + n) \div F = q + 1
    BY <2>1, <1>1, <1>3, DivIs
  <2> QED
    BY <2>2, <1>1, <1>3
<1> QED
  BY <1>1, <1>2, <1>3

(* The chain of a block in a chain is part of it. *)
LEMMA ChainInChain ==
  ASSUME NEW fat, NEW b \in Block, NEW c \in FatChain(fat, b)
  PROVE  FatChain(fat, c) \subseteq FatChain(fat, b)
<1>1. c \in Block /\ FatChain(fat, b) \in SUBSET Block
  BY ChainIsLeast
<1> QED
  BY <1>1, ChainIsLeast

(* The file's last block is linked to a free one.                          *)
Linked(fat, g, first, last) ==
  /\ first \in Block /\ last \in Block /\ fat[first] = END /\ fat[last] = FREE
  /\ g[first] = last /\ g[last] = END
  /\ \A c \in Block : c # first /\ c # last => g[c] = fat[c]

(* Appending a free block to a chain disturbs no other chain. *)
LEMMA LinkedLinks ==
  ASSUME NEW fat, LinksSound(fat), NEW g, NEW first, NEW last, Linked(fat, g, first, last)
  PROVE  /\ LinksSound(g)
         /\ \A b : Begins(fat, b) => Begins(g, b) /\ (b # first => g[b] = fat[b])
         /\ \A b : \A n \in Nat : Walks(fat, b, n) \subseteq Walks(g, b, n)
         /\ \A b : \A n \in Nat : \A w \in Walks(fat, b, n) : w[n] = first =>
              \E v \in Walks(g, b, n + 1) : v[n + 1] = last
<1>1. /\ first \in Block /\ last \in Block /\ fat[first] = END /\ fat[last] = FREE
      /\ g[first] = last /\ g[last] = END /\ first # last
      /\ \A c \in Block : c # first /\ c # last => g[c] = fat[c]
  BY MarksAreNoBlocks DEF Linked
<1>2. \A c \in Block : fat[c] # last
  BY <1>1 DEF LinksSound
<1>3. LinksSound(g)
  <2>1. \A c \in Block : g[c] \in Block \cup {END, FREE}
    BY <1>1 DEF LinksSound
  <2>2. \A c \in Block : g[c] \in Block => c = first \/ (c # first /\ c # last /\ g[c] = fat[c])
    BY <1>1, MarksAreNoBlocks
  <2>3. ASSUME NEW c \in Block, g[c] \in Block PROVE g[g[c]] # FREE
    <3>1. CASE c = first
      BY <3>1, <1>1, MarksAreNoBlocks
    <3>2. CASE c # first
      <4>1. fat[c] = g[c] /\ fat[g[c]] # FREE /\ g[c] # last
        BY <3>2, <2>2, <2>3, <1>2 DEF LinksSound
      <4> QED
        BY <4>1, <2>3, <1>1, MarksAreNoBlocks
    <3> QED
      BY <3>1, <3>2
  <2>4. ASSUME NEW b \in Block, NEW c \in Block, g[b] \in Block, g[b] = g[c]
        PROVE  b = c
    <3>1. b = first \/ (b # first /\ g[b] = fat[b])
      BY <2>2, <2>4
    <3>2. c = first \/ (c # first /\ g[c] = fat[c])
      BY <2>2, <2>4
    <3> QED
      BY <3>1, <3>2, <2>4, <1>1, <1>2 DEF LinksSound
  <2> QED
    BY <2>1, <2>3, <2>4 DEF LinksSound
<1>4. ASSUME NEW b, Begins(fat, b)
      PROVE  Begins(g, b) /\ (b # first => g[b] = fat[b])
  <2>1. b \in Block /\ b # last /\ fat[b] # FREE /\ \A c \in Block : fat[c] # b
    BY <1>1, <1>4 DEF Begins
  <2>2. b # first => g[b] = fat[b]
    BY <1>1, <2>1
  <2>3. g[b] # FREE
    BY <1>1, <2>1, <2>2, MarksAreNoBlocks
  <2>4. \A c \in Block : g[c] # b
    BY <1>1, <2>1, MarksAreNoBlocks
  <2> QED
    BY <2>1, <2>2, <2>3, <2>4 DEF Begins
<1>5. ASSUME NEW b, NEW n \in Nat, NEW w \in Walks(fat, b, n)
      PROVE  \A k \in 0 .. n - 1 : g[w[k]] = fat[w[k]]
  <2> SUFFICES ASSUME NEW k \in 0 .. n - 1 PROVE g[w[k]] = fat[w[k]]
    OBVIOUS
  <2>1. w[k] \in Block /\ fat[w[k]] \in Block
    <3>1. k \in 0 .. n /\ k + 1 \in 0 .. n
      OBVIOUS
    <3> QED
      BY <3>1, WalkIs
  <2> QED
    BY <2>1, <1>1, MarksAreNoBlocks
<1>6. ASSUME NEW b, NEW n \in Nat, NEW w \in Walks(fat, b, n)
      PROVE  w \in Walks(g, b, n)
  BY <1>5, WalkStays
<1>7. ASSUME NEW b, NEW n \in Nat, NEW w \in Walks(fat, b, n), w[n] = first
      PROVE  \E v \in Walks(g, b, n + 1) : v[n + 1] = last
  <2> DEFINE v == [k \in 0 .. n + 1 |-> IF k = n + 1 THEN last ELSE w[k]]
  <2>1. w \in [0 .. n -> Block] /\ w[0] = b /\ \A k \in 0 .. n - 1 : g[w[k]] = w[k + 1]
    BY <1>6, <1>7, WalkIs
  <2>2. v \in [0 .. n + 1 -> Block] /\ v[0] = b /\ v[n + 1] = last
    BY <2>1, <1>1
  <2>3. ASSUME NEW k \in 0 .. n PROVE g[v[k]] = v[k + 1]
    <3>1. CASE k = n
      BY <3>1, <1>1, <1>7
    <3>2. CASE k # n
      BY <3>2, <2>1
    <3> QED
      BY <3>1, <3>2
  <2> HIDE DEF v
  <2>4. \A k \in 0 .. (n + 1) - 1 : g[v[k]] = v[k + 1]
    BY <2>3
  <2> QED
    BY <2>2, <2>4 DEF Walks
<1> QED
  BY <1>3, <1>4, <1>6, <1>7

(* The chain is cut behind the last block that was written.                *)
LEMMA EndedLinks ==
  ASSUME NEW fat, LinksSound(fat), NEW x, Begins(fat, x), NEW m \in Nat,
         NEW w \in Walks(fat, x, m), NEW last, last = w[m], NEW g, g = EndChainAt(fat, last)
  PROVE  /\ LinksSound(g)
         /\ \A b : Begins(fat, b) => Begins(g, b) /\ (fat[b] = END => g[b] = END)
         /\ \A i \in 0 .. m : Walks(fat, x, i) \subseteq Walks(g, x, i)
         /\ \A b : \A n \in Nat : Begins(fat, b) /\ b # x =>
              Walks(fat, b, n) \subseteq Walks(g, b, n)
<1> DEFINE S == FatChain(fat, last)
<1>0. x \in Block /\ last \in Block /\ last \in FatChain(fat, x)
  <2>1. m \in 0 .. m /\ x \in Block
    BY DEF Begins
  <2> QED
    BY <2>1, WalkIs, WalkInChain
<1>1. \A c \in Block : g[c] = IF c \in S THEN END ELSE fat[c]
  BY DEF EndChainAt
<1>2. S \subseteq FatChain(fat, x)
  BY <1>0, ChainInChain
<1>3. \A k \in 0 .. m - 1 : w[k] \notin S
  BY WalkIsBeforeRest
<1> HIDE DEF S
<1>4. LinksSound(g)
  <2>1. \A c \in Block : g[c] \in Block \cup {END, FREE}
    BY <1>1 DEF LinksSound
  <2>2. \A c \in Block : g[c] \in Block => g[c] = fat[c]
    BY <1>1, MarksAreNoBlocks
  <2>3. \A c \in Block : g[c] = END \/ g[c] = fat[c]
    BY <1>1
  <2>4. \A c \in Block : g[c] \in Block => g[g[c]] # FREE
    BY <2>2, <2>3, MarksAreNoBlocks DEF LinksSound
  <2>5. \A b, c \in Block : g[b] \in Block /\ g[b] = g[c] => b = c
    BY <2>2 DEF LinksSound
  <2> QED
    BY <2>1, <2>4, <2>5 DEF LinksSound
<1>5. ASSUME NEW b, Begins(fat, b)
      PROVE  Begins(g, b) /\ (fat[b] = END => g[b] = END)
  <2>1. b \in Block /\ fat[b] # FREE /\ \A c \in Block : fat[c] # b
    BY <1>5 DEF Begins
  <2>2. g[b] # FREE /\ (fat[b] = END => g[b] = END)
    BY <2>1, <1>1, MarksAreNoBlocks
  <2>3. \A c \in Block : g[c] # b
    BY <2>1, <1>1, MarksAreNoBlocks
  <2> QED
    BY <2>1, <2>2, <2>3 DEF Begins
<1>6. ASSUME NEW i \in 0 .. m, NEW v \in Walks(fat, x, i)
      PROVE  v \in Walks(g, x, i)
  <2>1. ASSUME NEW k \in 0 .. i - 1 PROVE g[v[k]] = fat[v[k]]
    <3>1. i \in Nat /\ i <= m /\ k \in 0 .. i /\ k \in 0 .. m - 1
      OBVIOUS
    <3>2. v \in Walks(fat, x, i) /\ w \in Walks(fat, x, m)
      OBVIOUS
    <3>3. v[k] = w[k]
      BY ONLY <3>1, <3>2, m \in Nat, WalksAgree
    <3>4. v[k] \in Block
      BY ONLY <3>1, <3>2, WalkIs
    <3> QED
      BY <3>1, <3>3, <3>4, <1>1, <1>3
  <2>2. i \in Nat
    OBVIOUS
  <2> QED
    BY <2>1, <2>2, WalkStays
<1>7. ASSUME NEW b, NEW n \in Nat, Begins(fat, b), b # x, NEW v \in Walks(fat, b, n)
      PROVE  v \in Walks(g, b, n)
  <2>1. b \in Block /\ FatChain(fat, b) \cap FatChain(fat, x) = {}
    BY <1>7, ChainsAreDisjoint DEF Begins
  <2>2. ASSUME NEW k \in 0 .. n - 1 PROVE g[v[k]] = fat[v[k]]
    <3>1. k \in 0 .. n
      OBVIOUS
    <3>2. v[k] \in Block /\ v[k] \in FatChain(fat, b)
      BY <3>1, <2>1, WalkIs, WalkInChain
    <3> QED
      BY <3>2, <2>1, <1>1, <1>2
  <2> QED
    BY <2>2, WalkStays
<1> QED
  BY <1>4, <1>5, <1>6, <1>7

(* From the m-th link of a file's chain, its block first, do_write comes   *)
(* to the block last, which is that block or the next one of the table g.  *)
Comes(fat, g, first, last, m, k) ==
  \/ k = m /\ last = first /\ g = fat
  \/ k = m + 1 /\ fat[first] = last /\ last \in Block /\ g = fat
  \/ k = m + 1 /\ Linked(fat, g, first, last)

(* What stays of the links and the chains of files when the one that       *)
(* begins with block x goes from first to last, over k links of g.         *)
Carried(fat, g, x, first, last, k) ==
  /\ LinksSound(g)
  /\ \A b : Begins(fat, b) => Begins(g, b)
  /\ \A b : Begins(fat, b) /\ b # x => g[b] = fat[b] /\ b # first /\ b # last
  /\ \A b : \A n \in Nat : Walks(fat, b, n) \subseteq Walks(g, b, n)
  /\ \E v \in Walks(g, x, k) : v[k] = last

(* What do_write links carries the file on to the block it comes to, *)
LEMMA ComesByLinks ==
  ASSUME NEW fat, LinksSound(fat), NEW x, Begins(fat, x), NEW m \in Nat,
         NEW w \in Walks(fat, x, m), NEW first, first = w[m], NEW g, NEW last,
         NEW k, Comes(fat, g, first, last, m, k)
  PROVE  Carried(fat, g, x, first, last, k) /\ k \in Nat /\ m <= k
<1>1. /\ m \in 0 .. m /\ x \in Block /\ w[m] \in Block /\ w[m] \in FatChain(fat, x)
  <2>1. m \in 0 .. m /\ x \in Block
    BY DEF Begins
  <2> QED
    BY <2>1, WalkIs, WalkInChain
<1>2. ASSUME NEW b, Begins(fat, b), b # x PROVE b # w[m]
  BY <1>1, <1>2, BeginsOnlyItsChain
<1>3. CASE k = m /\ last = w[m] /\ g = fat
  BY <1>2, <1>3 DEF Carried
<1>4. CASE k = m + 1 /\ fat[w[m]] = last /\ last \in Block /\ g = fat
  <2>1. \E v \in Walks(g, x, k) : v[k] = last
    <3> DEFINE v == [i \in 0 .. m + 1 |-> IF i = m + 1 THEN last ELSE w[i]]
    <3>1. w \in [0 .. m -> Block] /\ w[0] = x /\ \A i \in 0 .. m - 1 : fat[w[i]] = w[i + 1]
      BY WalkIs
    <3>2. v \in [0 .. m + 1 -> Block] /\ v[0] = x /\ v[m + 1] = last
      BY <3>1, <1>4
    <3>3. ASSUME NEW i \in 0 .. m PROVE fat[v[i]] = v[i + 1]
      <4>1. CASE i = m
        BY <4>1, <1>4
      <4>2. CASE i # m
        BY <4>2, <3>1
      <4> QED
        BY <4>1, <4>2
    <3> HIDE DEF v
    <3>4. \A i \in 0 .. (m + 1) - 1 : fat[v[i]] = v[i + 1]
      BY <3>3
    <3>5. v \in Walks(fat, x, m + 1)
      BY <3>2, <3>4 DEF Walks
    <3> QED
      BY <3>2, <3>5, <1>4
  <2>2. \A b : Begins(fat, b) => b # last
    BY <1>1, <1>4 DEF Begins
  <2> QED
    BY <2>1, <2>2, <1>2, <1>4 DEF Carried
<1>5. CASE k = m + 1 /\ Linked(fat, g, w[m], last)
  <2>0. k \in Nat /\ m <= k
    BY <1>5
  <2>1. /\ LinksSound(g)
        /\ \A b : Begins(fat, b) => Begins(g, b) /\ (b # w[m] => g[b] = fat[b])
        /\ \A b : \A n \in Nat : Walks(fat, b, n) \subseteq Walks(g, b, n)
    BY <1>5, LinkedLinks
  <2>2. \E v \in Walks(g, x, k) : v[k] = last
    BY <1>5, LinkedLinks
  <2>3. \A b : Begins(fat, b) => b # last
    BY <1>5 DEF Begins, Linked
  <2> QED
    BY <2>0, <2>1, <2>2, <2>3, <1>2 DEF Carried
<1> QED
  BY <1>3, <1>4, <1>5 DEF Comes

(* And when the chain is cut behind last: chains are as long as they were, *)
(* but for this one, which goes over k links still.                        *)
Ended(fat, g, x, first, last, m, k) ==
  /\ LinksSound(g)
  /\ \A b : Begins(fat, b) => Begins(g, b)
  /\ \A b : Begins(fat, b) /\ b # x /\ fat[b] = END => g[b] = END
  /\ \A b : Begins(fat, b) /\ b # x => b # first /\ b # last
  /\ \A b : \A n \in Nat : Begins(fat, b) /\ b # x =>
       Walks(fat, b, n) \subseteq Walks(g, b, n)
  /\ Walks(fat, x, m) \subseteq Walks(g, x, m)
  /\ Walks(g, x, k) # {}

(* and so it is when the chain is cut there. *)
LEMMA ComesAndEnds ==
  ASSUME NEW fat, LinksSound(fat), NEW x, Begins(fat, x), NEW m \in Nat,
         NEW w \in Walks(fat, x, m), NEW first, first = w[m], NEW l, NEW last,
         NEW k, Comes(fat, l, first, last, m, k), NEW g, g = EndChainAt(l, last)
  PROVE  Ended(fat, g, x, first, last, m, k) /\ k \in Nat /\ m <= k
<1>1. /\ LinksSound(l) /\ k \in Nat /\ m <= k
      /\ \A b : Begins(fat, b) => Begins(l, b)
      /\ \A b : Begins(fat, b) /\ b # x => l[b] = fat[b] /\ b # first /\ b # last
      /\ \A b : \A n \in Nat : Walks(fat, b, n) \subseteq Walks(l, b, n)
      /\ \E v \in Walks(l, x, k) : v[k] = last
  <2>1. /\ LinksSound(fat) /\ Begins(fat, x) /\ m \in Nat /\ w \in Walks(fat, x, m)
        /\ first = w[m] /\ Comes(fat, l, first, last, m, k)
    OBVIOUS
  <2>2. Carried(fat, l, x, first, last, k) /\ k \in Nat /\ m <= k
    BY ONLY <2>1, ComesByLinks
  <2> QED
    BY <2>2 DEF Carried
<1>2. PICK v \in Walks(l, x, k) : last = v[k]
  BY <1>1
<1>3. /\ LinksSound(g)
      /\ \A b : Begins(l, b) => Begins(g, b) /\ (l[b] = END => g[b] = END)
      /\ \A i \in 0 .. k : Walks(l, x, i) \subseteq Walks(g, x, i)
      /\ \A b : \A n \in Nat : Begins(l, b) /\ b # x => Walks(l, b, n) \subseteq Walks(g, b, n)
  <2>1. Begins(l, x)
    BY <1>1
  <2> QED
    BY ONLY <1>1, <1>2, <2>1, g = EndChainAt(l, last), EndedLinks
<1>4. m \in 0 .. k /\ k \in 0 .. k
  BY <1>1
<1> QED
  BY <1>1, <1>2, <1>3, <1>4 DEF Ended

(* The current file is written on, beside the directories D: the table is  *)
(* then g, the disk e, and the file's entry in the open file table h.  Its *)
(* chain is as long as its new length needs, and nothing else is changed.  *)
Written(D, g, e, h) ==
  /\ LinksSound(g)
  /\ \A b : Begins(fat1, b) => Begins(g, b)
  /\ \A b \in D : g[b] = END
  /\ \A b : \A n \in Nat : Begins(fat1, b) /\ b # cur.fcb.s_block =>
       Walks(fat1, b, n) \subseteq Walks(g, b, n)
  /\ Walks(fat1, cur.fcb.s_block, cur.fcb.len \div FCB_NUM)
       \subseteq Walks(g, cur.fcb.s_block, cur.fcb.len \div FCB_NUM)
  /\ SameEntry(cur.fcb, h.fcb) /\ h.fcb.len >= 0 /\ h.filePtr = h.fcb.len
  /\ Walks(g, cur.fcb.s_block, h.fcb.len \div FCB_NUM) # {}
  /\ h.pdfBlockNo = cur.pdfBlockNo /\ h.fdEntryNo = cur.fdEntryNo
  /\ h.dirName = cur.dirName /\ h.isUse = cur.isUse
  /\ e[cur.pdfBlockNo][cur.fdEntryNo] = h.fcb
  /\ \A x \in D, r \in Slot :
       x # cur.pdfBlockNo \/ r # cur.fdEntryNo => e[x][r] = disk[x][r]

(* What is known of the open file while text is typed.                     *)
LEMMA TextFile ==
  ASSUME TypeOK, NEW D, Holds(D), mode = "text"
  PROVE  /\ ~judgeDir(cur.fcb) /\ currOftIndex \in OftIdx /\ currOftIndex # 0
         /\ cur \in Oft /\ cur.fcb \in Fcb /\ cur.fcb.len \in Nat /\ cur.filePtr = cur.fcb.len
         /\ cur.fcb.s_block \in Block \ D /\ Begins(fat1, cur.fcb.s_block)
         /\ Walks(fat1, cur.fcb.s_block, cur.fcb.len \div FCB_NUM) # {}
         /\ cur.fcb.len \div FCB_NUM \in Nat
         /\ cur.pdfBlockNo \in D /\ cur.pdfBlockNo \in Block /\ cur.fdEntryNo \in Slot
         /\ disk[cur.pdfBlockNo][cur.fdEntryNo] = cur.fcb /\ D \subseteq Block
<1> DEFINE k == currOftIndex
<1>1. /\ TreeSound(fat1, disk, D) /\ PathSound(disk, D, oft, k)
      /\ ~judgeDir(cur.fcb) /\ cur.filePtr = cur.fcb.len
  BY DEF Holds, TextSound
<1>2. k \in OftIdx /\ k # 0 /\ k \in 0 .. k
  BY <1>1, CurIs
<1>3. /\ disk[cur.pdfBlockNo][cur.fdEntryNo] = cur.fcb /\ cur.pdfBlockNo \in D
      /\ EntrySound(fat1, disk, D, cur.fcb) /\ cur.fdEntryNo \in Slot
  BY <1>1, <1>2, PathIs DEF cur
<1>4. D \subseteq Block
  BY <1>1, TreeIs
<1>5. cur \in Oft /\ cur.fcb \in Fcb /\ cur.fcb.len \in Int
  BY CurType DEF Oft, Fcb
<1>6. /\ cur.fcb.s_block \in Block \ D /\ Begins(fat1, cur.fcb.s_block)
      /\ Walks(fat1, cur.fcb.s_block, cur.fcb.len \div FCB_NUM) # {}
      /\ cur.fcb.len >= 0
  BY <1>1, <1>3 DEF EntrySound
<1>7. cur.fcb.len \in Nat
  BY <1>5, <1>6
<1>8. cur.fcb.len \div FCB_NUM \in Nat
  <2>1. 0 \in 0 .. FCB_NUM /\ FCB_NUM \in Nat /\ FCB_NUM > 0
    BY SizeAssumption
  <2> QED
    BY <2>1, <1>7, DivSteps
<1> QED
  BY <1>1, <1>2, <1>3, <1>4, <1>5, <1>6, <1>7, <1>8

(* When it gives up, do_write has changed nothing but text.                *)
LEMMA NothingWritten ==
  ASSUME TypeOK, NEW D, Holds(D), mode = "text", NEW e,
         \A x \in D, r \in Slot : e[x][r] = disk[x][r]
  PROVE  Written(D, fat1, e, cur)
<1>1. /\ cur.fcb \in Fcb /\ cur.fcb.len \in Nat /\ cur.filePtr = cur.fcb.len
      /\ Walks(fat1, cur.fcb.s_block, cur.fcb.len \div FCB_NUM) # {}
      /\ cur.pdfBlockNo \in D /\ cur.fdEntryNo \in Slot
      /\ disk[cur.pdfBlockNo][cur.fdEntryNo] = cur.fcb
  BY TextFile
<1>2. LinksSound(fat1) /\ TreeSound(fat1, disk, D)
  BY DEF Holds
<1>3. \A b \in D : fat1[b] = END
  BY <1>2, DirsBegin
<1>4. SameEntry(cur.fcb, cur.fcb)
  BY <1>1 DEF SameEntry
<1>5. e[cur.pdfBlockNo][cur.fdEntryNo] = cur.fcb
  BY <1>1
<1>6. cur.fcb.len >= 0
  BY <1>1
<1> QED
  BY <1>1, <1>2, <1>3, <1>4, <1>5, <1>6 DEF Written

(* Text is put in no other block. *)
LEMMA PutCellsElsewhere ==
  ASSUME NEW d \in Memory, NEW b, NEW lo, NEW hi, NEW t, NEW c \in Block, c # b
  PROVE  PutCells(d, b, lo, hi, t)[c] = d[c]
BY DEF PutCells, Memory

(* One do_write: a soundly written file, or one that was given up. *)
LEMMA DoWriteIs ==
  ASSUME TypeOK, NEW D, Holds(D), mode = "text", NEW t \in Text, NEW n \in 0 .. FCB_NUM
  PROVE  Written(D, do_write(t, n).fat1, do_write(t, n).disk, do_write(t, n).file)
<1> DEFINE first   == BlockAt(fat1, cur.fcb.s_block, cur.filePtr \div FCB_NUM)
           offset  == cur.filePtr % FCB_NUM
           crosses == offset + n >= FCB_NUM
           grows   == crosses /\ fat1[first] = END
           last    == IF ~crosses THEN first
                      ELSE IF grows THEN getNextVhdBlock(fat1) ELSE fat1[first]
           head    == PutCells(disk, first, offset, offset + n - 1, t)
           linked  == IF grows THEN [fat1 EXCEPT ![first] = last, ![last] = END] ELSE fat1
           over    == IF crosses THEN PutCells(head, last, 0, offset + n - FCB_NUM - 1, t)
                      ELSE head
           file    == [cur EXCEPT !.filePtr = @ + n, !.fcb.len = @ + n]
           x       == cur.fcb.s_block
           m       == cur.fcb.len \div FCB_NUM
           k       == (cur.fcb.len + n) \div FCB_NUM
<1>1. do_write(t, n) =
        CASE first = END ->
               [ok |-> FALSE, fat1 |-> fat1, fat2 |-> fat2, disk |-> disk, file |-> cur]
          [] first # END /\ last = END ->
               [ok |-> FALSE, fat1 |-> fat1, fat2 |-> fat2, disk |-> head, file |-> cur]
          [] first # END /\ last # END ->
               [ok |-> TRUE, fat1 |-> EndChainAt(linked, last), fat2 |-> EndChainAt(linked, last),
                disk |-> AddToEntry(over, cur, n), file |-> file]
  BY DEF do_write
<1>2. /\ cur \in Oft /\ cur.fcb \in Fcb /\ cur.fcb.len \in Nat /\ cur.filePtr = cur.fcb.len
      /\ x \in Block \ D /\ Begins(fat1, x) /\ Walks(fat1, x, m) # {} /\ m \in Nat
      /\ cur.pdfBlockNo \in D /\ cur.pdfBlockNo \in Block /\ cur.fdEntryNo \in Slot
      /\ disk[cur.pdfBlockNo][cur.fdEntryNo] = cur.fcb /\ D \subseteq Block
  BY TextFile
<1>3. LinksSound(fat1) /\ TreeSound(fat1, disk, D)
  BY DEF Holds
<1>4. /\ disk \in Memory /\ fat1 \in [Block -> FatValue] /\ t \in Cell
  BY DEF TypeOK, Memory, Cell, Texts
<1>5. PICK w \in Walks(fat1, x, m) : TRUE
  BY <1>2
<1>6. first = w[m] /\ first \in Block /\ first # END
  <2>1. BlockAt(fat1, x, m) = w[m] /\ w[m] \in Block /\ w[m] # END
    BY <1>2, <1>5, BlockAtIs
  <2> QED
    BY <2>1, <1>2
<1>7. first \in FatChain(fat1, x)
  <2>1. m \in 0 .. m
    BY <1>2
  <2> QED
    BY <2>1, <1>2, <1>5, <1>6, WalkInChain
<1>8. fat1[first] # FREE
  BY <1>2, <1>3, <1>7, ChainIsTaken DEF Begins
<1>9. /\ n \in Int /\ 0 <= n /\ k \in Nat
      /\ ~crosses => k = m
      /\ crosses => k = m + 1
  <2>1. FCB_NUM \in Nat /\ FCB_NUM > 0
    BY SizeAssumption
  <2>2. /\ k \in Nat
        /\ (cur.fcb.len % FCB_NUM) + n < FCB_NUM => k = m
        /\ (cur.fcb.len % FCB_NUM) + n >= FCB_NUM => k = m + 1
    BY <2>1, <1>2, DivSteps
  <2>3. cur.fcb.len % FCB_NUM \in Int
    BY <2>1, <1>2
  <2>4. n \in Int /\ 0 <= n
    BY <2>1
  <2> QED
    BY <2>1, <2>2, <2>3, <2>4, <1>2
<1>10. \A c \in D : c # first
  <2>1. \A c \in D : Begins(fat1, c) /\ c # x
    BY <1>2, <1>3, DirsBegin
  <2> QED
    BY <2>1, <1>2, <1>7, BeginsOnlyItsChain
<1>11. head \in Memory /\ \A c \in Block : c # first => head[c] = disk[c]
  BY <1>4, PutCellsType, PutCellsElsewhere
<1>12. CASE last = END
  <2>1. \A c \in D, r \in Slot : head[c][r] = disk[c][r]
    BY <1>2, <1>10, <1>11
  <2>2. Written(D, fat1, head, cur)
    BY <2>1, NothingWritten
  <2> HIDE DEF first, last, head, linked, over, file
  <2> QED
    BY <2>2, <1>1, <1>6, <1>12
<1>13. CASE last # END
  <2>1. Comes(fat1, linked, first, last, m, k) /\ last \in Block
    <3>1. CASE ~crosses
      <4>1. k = m /\ last = first /\ linked = fat1
        BY <3>1, <1>9
      <4> HIDE DEF first, last, linked, m, k
      <4> QED
        BY <4>1, <1>6 DEF Comes
    <3>2. CASE crosses /\ ~grows
      <4>1. k = m + 1 /\ last = fat1[first] /\ linked = fat1 /\ fat1[first] # END
        BY <3>2, <1>9
      <4>2. fat1[first] \in Block
        BY <4>1, <1>3, <1>6, <1>8 DEF LinksSound
      <4> HIDE DEF first, last, linked, m, k
      <4> QED
        BY <4>1, <4>2 DEF Comes
    <3>3. CASE grows
      <4>1. k = m + 1 /\ last = getNextVhdBlock(fat1) /\ fat1[first] = END
        BY <3>3, <1>9
      <4>2. last \in Block /\ fat1[last] = FREE
        BY <4>1, <1>13, NextBlockIsFree
      <4>3. linked = [fat1 EXCEPT ![first] = last, ![last] = END]
        BY <3>3
      <4> HIDE DEF first, last, linked, m, k
      <4>4. first # last
        BY <4>1, <4>2, MarksAreNoBlocks
      <4>5. Linked(fat1, linked, first, last)
        BY <4>1, <4>2, <4>3, <4>4, <1>4, <1>6 DEF Linked
      <4> QED
        BY <4>1, <4>2, <4>5 DEF Comes
    <3> QED
      BY <3>1, <3>2, <3>3
  <2>2. PICK g : g = EndChainAt(linked, last)
    OBVIOUS
  <2>3. over \in Memory /\ \A c \in Block : c # first /\ c # last => over[c] = disk[c]
    BY <1>4, <1>11, PutCellsType, PutCellsElsewhere
  <2> HIDE DEF first, last, head, linked, over, crosses, grows
  <2>4. Ended(fat1, g, x, first, last, m, k)
    <3> HIDE DEF x, m, k
    <3>1. /\ LinksSound(fat1) /\ Begins(fat1, x) /\ m \in Nat /\ w \in Walks(fat1, x, m)
          /\ first = w[m] /\ Comes(fat1, linked, first, last, m, k)
          /\ g = EndChainAt(linked, last)
      BY <1>2, <1>3, <1>5, <1>6, <2>1, <2>2
    <3> QED
      BY ONLY <3>1, ComesAndEnds
  <2>5. PICK c : c = [cur.fcb EXCEPT !.len = cur.fcb.len + n]
    OBVIOUS
  <2>6. /\ SameEntry(cur.fcb, c) /\ c.len = cur.fcb.len + n /\ c \in Fcb
        /\ AddLen(cur.fcb, n) = c
    <3>1. PICK f, l : f = cur.fcb /\ l = cur.fcb.len + n
      OBVIOUS
    <3>2. f \in Fcb /\ l \in Int /\ n \in Int /\ c = [f EXCEPT !.len = l]
      BY <3>1, <2>5, <1>2, <1>9
    <3>3. SameEntry(f, c) /\ c.len = l
      BY ONLY <3>2, WithLen
    <3>4. AddLen(f, n) = [f EXCEPT !.len = f.len + n]
      BY ONLY <3>2, AddLenIs
    <3> QED
      BY ONLY <3>1, <3>2, <3>3, <3>4 DEF SameEntry
  <2>7. /\ file.fcb = c /\ file.filePtr = c.len /\ file.pdfBlockNo = cur.pdfBlockNo
        /\ file.fdEntryNo = cur.fdEntryNo /\ file.dirName = cur.dirName /\ file.isUse = cur.isUse
    BY <2>5, <2>6, <1>2 DEF Oft
  <2>8. PICK e : e = AddToEntry(over, cur, n)
    OBVIOUS
  <2>9. \A b \in D : Begins(fat1, b) /\ b # x /\ b \in Block /\ fat1[b] = END
    BY <1>2, <1>3, DirsBegin
  <2>10. \A b \in D : b # first /\ b # last /\ g[b] = END
    BY <2>4, <2>9 DEF Ended
  <2>11. \A b \in D : over[b] = disk[b]
    BY <2>3, <2>9, <2>10
  <2>12. /\ e[cur.pdfBlockNo][cur.fdEntryNo] = c
         /\ \A b \in D, r \in Slot :
              b # cur.pdfBlockNo \/ r # cur.fdEntryNo => e[b][r] = disk[b][r]
    <3>1. over[cur.pdfBlockNo][cur.fdEntryNo] = cur.fcb
      BY <2>11, <1>2
    <3>2. e = [over EXCEPT ![cur.pdfBlockNo][cur.fdEntryNo] = c]
      BY <3>1, <2>6, <2>8 DEF AddToEntry
    <3>3. /\ e[cur.pdfBlockNo][cur.fdEntryNo] = c
          /\ \A b \in Block, r \in Slot :
               b # cur.pdfBlockNo \/ r # cur.fdEntryNo => e[b][r] = over[b][r]
      BY <3>2, <2>3, <1>2 DEF Memory
    <3> QED
      BY <3>3, <2>9, <2>11
  <2>13. Written(D, g, e, file)
    <3>1. file.fcb.len >= 0 /\ Walks(g, x, file.fcb.len \div FCB_NUM) # {}
      <4>1. file.fcb.len = cur.fcb.len + n
        BY <2>6, <2>7
      <4>2. Walks(g, x, k) # {}
        <5> HIDE DEF x, k, m
        <5> QED
          BY <2>4 DEF Ended
      <4> HIDE DEF file, x
      <4>3. file.fcb.len >= 0
        BY <4>1, <1>2, <1>9
      <4> QED
        BY <4>1, <4>2, <4>3
    <3>2. SameEntry(cur.fcb, file.fcb) /\ file.filePtr = file.fcb.len
      BY <2>6, <2>7
    <3>3. e[cur.pdfBlockNo][cur.fdEntryNo] = file.fcb
      BY <2>7, <2>12
    <3> HIDE DEF file
    <3> QED
      BY <3>1, <3>2, <3>3, <2>4, <2>7, <2>10, <2>12 DEF Written, Ended
  <2>14. /\ do_write(t, n).fat1 = g /\ do_write(t, n).disk = e /\ do_write(t, n).file = file
    <3> HIDE DEF file
    <3> QED
      BY <1>1, <1>6, <1>13, <2>2, <2>8
  <2> QED
    BY <2>13, <2>14
<1> QED
  BY <1>12, <1>13

(* A file soundly written satisfies the invariant. *)
LEMMA WrittenHolds ==
  ASSUME TypeOK, NEW D, Holds(D), mode = "text", NEW g, NEW e, NEW h, Written(D, g, e, h),
         NEW p, \A i \in OftIdx : i # currOftIndex => p[i] = oft[i],
         p[currOftIndex].pdfBlockNo = h.pdfBlockNo, p[currOftIndex].fdEntryNo = h.fdEntryNo,
         p[currOftIndex].dirName = h.dirName, p[currOftIndex].isUse = h.isUse,
         p[currOftIndex].fcb = h.fcb
  PROVE  /\ LinksSound(g) /\ TreeSound(g, e, D) /\ PathSound(e, D, p, currOftIndex)
         /\ ~judgeDir(h.fcb) /\ h.filePtr = h.fcb.len
<1> DEFINE k == currOftIndex
           x == cur.fcb.s_block
<1>1. /\ ~judgeDir(cur.fcb) /\ k \in OftIdx /\ k # 0
      /\ cur.fcb.len \in Nat /\ x \in Block \ D /\ Begins(fat1, x)
      /\ Walks(fat1, x, cur.fcb.len \div FCB_NUM) # {}
      /\ cur.pdfBlockNo \in D /\ cur.fdEntryNo \in Slot
      /\ disk[cur.pdfBlockNo][cur.fdEntryNo] = cur.fcb
  BY TextFile
<1>2. TreeSound(fat1, disk, D) /\ PathSound(disk, D, oft, k)
  BY DEF Holds
<1>3. /\ LinksSound(g) /\ \A b : Begins(fat1, b) => Begins(g, b)
      /\ \A b \in D : g[b] = END
      /\ \A b : \A n \in Nat : Begins(fat1, b) /\ b # x => Walks(fat1, b, n) \subseteq Walks(g, b, n)
      /\ Walks(fat1, x, cur.fcb.len \div FCB_NUM) \subseteq Walks(g, x, cur.fcb.len \div FCB_NUM)
      /\ SameEntry(cur.fcb, h.fcb) /\ h.fcb.len >= 0 /\ h.filePtr = h.fcb.len
      /\ Walks(g, x, h.fcb.len \div FCB_NUM) # {}
  BY DEF Written
<1>4. /\ h.pdfBlockNo = cur.pdfBlockNo /\ h.fdEntryNo = cur.fdEntryNo
      /\ h.dirName = cur.dirName /\ h.isUse = cur.isUse
      /\ e[cur.pdfBlockNo][cur.fdEntryNo] = h.fcb
      /\ \A c \in D, r \in Slot :
           c # cur.pdfBlockNo \/ r # cur.fdEntryNo => e[c][r] = disk[c][r]
  BY DEF Written
<1>5. PICK c : c = h.fcb
  OBVIOUS
<1>6. /\ c.s_block = x /\ judgeDir(c) = judgeDir(cur.fcb)
  BY <1>3, <1>5 DEF SameEntry
<1>7. TreeSound(g, disk, D)
  <2>1. \A b \in D : Begins(g, b) /\ g[b] = END
    BY <1>2, <1>3, DirsBegin
  <2>2. \A b \in D : \A s \in Slot : SameEntry(disk[b][s], disk[b][s])
    BY <1>2, CellsInTree
  <2>3. ASSUME NEW b \in D, NEW s \in UsedSlots(disk[b])
        PROVE  EntrySound(g, disk, D, disk[b][s])
    <3>1. PICK f : f = disk[b][s]
      OBVIOUS
    <3>2. EntrySound(fat1, disk, D, f) /\ f \in Fcb /\ Begins(fat1, f.s_block) /\ f.len \in Int
      BY <3>1, <1>2, EntryIsIn DEF Fcb
    <3>3. ASSUME ~judgeDir(f)
          PROVE  Walks(fat1, f.s_block, f.len \div FCB_NUM) \cap
                   Walks(g, f.s_block, f.len \div FCB_NUM) # {}
      <4>1. Walks(fat1, f.s_block, f.len \div FCB_NUM) # {} /\ f.len \in Nat
        BY <3>2, <3>3 DEF EntrySound
      <4>2. f.len \div FCB_NUM \in Nat
        <5>1. 0 \in 0 .. FCB_NUM /\ FCB_NUM \in Nat /\ FCB_NUM > 0
          BY SizeAssumption
        <5> QED
          BY <5>1, <4>1, DivSteps
      <4>3. CASE f.s_block # x
        BY <4>1, <4>2, <4>3, <3>2, <1>3
      <4>4. CASE f.s_block = x
        <5>1. f = cur.fcb
          <6>1. cur.fdEntryNo \in UsedSlots(disk[cur.pdfBlockNo])
            <7>1. k \in 0 .. k
              BY <1>2, CurIs
            <7> QED
              BY <7>1, <1>1, <1>2, PathIs DEF cur
          <6>2. disk[b][s].s_block = disk[cur.pdfBlockNo][cur.fdEntryNo].s_block
            BY <4>4, <3>1, <1>1
          <6>3. b = cur.pdfBlockNo /\ s = cur.fdEntryNo
            BY <6>1, <6>2, <1>1, <1>2 DEF TreeSound
          <6> QED
            BY <6>3, <3>1, <1>1
        <5> QED
          BY <5>1, <1>1, <1>3
      <4> QED
        BY <4>3, <4>4
    <3>4. SameEntry(f, f) /\ f.len = f.len
      BY <3>2 DEF SameEntry
    <3>5. EntrySound(g, disk, D, f)
      BY <3>2, <3>3, <3>4, <1>3, EntryStays
    <3> QED
      BY <3>1, <3>5
  <2> QED
    BY <2>1, <2>2, <2>3, <1>2, TreeStays
<1>8. EntrySound(g, disk, D, c)
  BY <1>1, <1>3, <1>5, <1>6 DEF EntrySound
<1>9. TreeSound(g, e, D) /\ PathSound(e, D, p, k)
  <2>1. /\ e[oft[k].pdfBlockNo][oft[k].fdEntryNo] = c
        /\ \A b \in D, r \in Slot :
             b # oft[k].pdfBlockNo \/ r # oft[k].fdEntryNo => e[b][r] = disk[b][r]
    BY <1>4, <1>5 DEF cur
  <2>2. SameEntry(oft[k].fcb, c)
    BY <1>3, <1>5 DEF cur
  <2>3. \A i \in 0 .. k : oft[i].pdfBlockNo \in D /\ oft[i].fdEntryNo \in Slot
    BY <1>2, PathIs
  <2>4. /\ \A i \in OftIdx : i # k => p[i] = oft[i]
        /\ p[k].pdfBlockNo = oft[k].pdfBlockNo /\ p[k].fdEntryNo = oft[k].fdEntryNo
        /\ p[k].dirName = oft[k].dirName /\ p[k].isUse = oft[k].isUse
        /\ p[k].fcb = c
    BY <1>4, <1>5 DEF cur
  <2>5. /\ k \in OftIdx /\ k # 0
        /\ TreeSound(g, disk, D) /\ PathSound(disk, D, oft, k)
    BY <1>1, <1>2, <1>7
  <2> QED
    BY ONLY <2>1, <2>2, <2>3, <2>4, <2>5, <1>8, CurStores
<1> QED
  BY <1>1, <1>3, <1>5, <1>6, <1>9

(* So a full buffer of my_write keeps the invariant, *)
LEMMA BufferHolds ==
  ASSUME TypeOK, NEW D, Holds(D), NEW t \in Text, WriteBuffer(t)
  PROVE  Holds(D)'
<1> DEFINE k == currOftIndex
           g == fat1'
           e == disk'
           p == oft'
<1>1. mode = "text" /\ k' = k /\ k \in OftIdx
  BY DEF WriteBuffer, TypeOK
<1>2. PICK h : h = do_write(t, FCB_NUM).file
  OBVIOUS
<1>3. Written(D, g, e, h)
  <2>1. FCB_NUM \in 0 .. FCB_NUM
    BY SizeAssumption
  <2>2. Written(D, do_write(t, FCB_NUM).fat1, do_write(t, FCB_NUM).disk, do_write(t, FCB_NUM).file)
    BY <2>1, <1>1, DoWriteIs
  <2> QED
    BY <2>2, <1>2 DEF WriteBuffer
<1>4. p[k] = h /\ \A i \in OftIdx : i # k => p[i] = oft[i]
  BY <1>1, <1>2 DEF WriteBuffer, TypeOK
<1> HIDE DEF g, e, p
<1>5. /\ p[k].pdfBlockNo = h.pdfBlockNo /\ p[k].fdEntryNo = h.fdEntryNo
      /\ p[k].dirName = h.dirName /\ p[k].isUse = h.isUse /\ p[k].fcb = h.fcb
      /\ \A i \in OftIdx : i # k => p[i] = oft[i]
  BY <1>4
<1>6. /\ LinksSound(g) /\ TreeSound(g, e, D) /\ PathSound(e, D, p, k)
      /\ ~judgeDir(h.fcb) /\ h.filePtr = h.fcb.len
  BY <1>1, <1>3, <1>5, WrittenHolds
<1>7. cur'.fcb = h.fcb /\ cur'.filePtr = h.filePtr
  BY <1>1, <1>4 DEF cur, p
<1> QED
  BY <1>1, <1>6, <1>7 DEF Holds, TextSound, g, e, p

(* and so does the rest at the end of the text. *)
LEMMA RestHolds ==
  ASSUME TypeOK, NEW D, Holds(D), NEW t \in Text, NEW n \in Rests, WriteRest(t, n)
  PROVE  Holds(D)'
<1> DEFINE k == currOftIndex
           g == fat1'
           e == disk'
           p == oft'
<1>1. mode = "text" /\ k' = k /\ k \in OftIdx /\ mode' # "text"
  BY DEF WriteRest, TypeOK
<1>2. PICK h : h = do_write(t, n).file
  OBVIOUS
<1>3. Written(D, g, e, h)
  <2>1. n \in 0 .. FCB_NUM
    BY UseAssumption
  <2>2. Written(D, do_write(t, n).fat1, do_write(t, n).disk, do_write(t, n).file)
    BY <2>1, <1>1, DoWriteIs
  <2> QED
    BY <2>2, <1>2 DEF WriteRest
<1>4. p[k] = [h EXCEPT !.isUpate = TRUE] /\ \A i \in OftIdx : i # k => p[i] = oft[i]
  BY <1>1, <1>2 DEF WriteRest, TypeOK
<1>t. h \in Oft
  <2>1. n \in Int
    BY UseAssumption
  <2> QED
    BY <2>1, <1>2, DoWriteType
<1> HIDE DEF g, e, p
<1>5. /\ p[k].pdfBlockNo = h.pdfBlockNo /\ p[k].fdEntryNo = h.fdEntryNo
      /\ p[k].dirName = h.dirName /\ p[k].isUse = h.isUse /\ p[k].fcb = h.fcb
      /\ \A i \in OftIdx : i # k => p[i] = oft[i]
  BY <1>4, <1>t DEF Oft
<1>6. LinksSound(g) /\ TreeSound(g, e, D) /\ PathSound(e, D, p, k)
  BY <1>1, <1>3, <1>5, WrittenHolds
<1> QED
  BY <1>1, <1>6 DEF Holds, TextSound, g, e, p
-----------------------------------------------------------------------------
(* The least set of directories: those that can be reached from the root.  *)

(* The directories that can be reached from the root are among D.          *)
LEMMA DirsAreSound ==
  ASSUME NEW D, TreeSound(fat1, disk, D)
  PROVE  Dirs \subseteq D
<1> DEFINE sub(b) == {s \in EntrySlot : /\ disk[b][s] \notin Texts
                                        /\ disk[b][s].use /\ judgeDir(disk[b][s])}
           edges  == UNION {{<<b, disk[b][s].s_block>> : s \in sub(b)} : b \in Block}
<1>1. D \in SUBSET Block /\ Root \in D
  BY TreeIs
<1>2. ASSUME NEW p \in edges, p[1] \in D PROVE p[2] \in D
  <2>1. PICK b \in Block : p \in {<<b, disk[b][s].s_block>> : s \in sub(b)}
    BY <1>2
  <2>2. PICK s \in sub(b) : p = <<b, disk[b][s].s_block>>
    BY <2>1
  <2>3. b \in D /\ s \in UsedSlots(disk[b]) /\ judgeDir(disk[b][s])
    BY <2>2, <1>2 DEF UsedSlots, InUse
  <2>4. disk[b][s].s_block \in D
    BY <2>3, EntryIsIn DEF EntrySound
  <2> QED
    BY <2>2, <2>4
<1>3. Dirs = Reachable(Root, edges, Block)
  BY DEF Dirs
<1> HIDE DEF edges
<1> QED
  BY <1>1, <1>2, <1>3, ReachableIsLeast

(* The directories reached from the root include those of their entries. *)
LEMMA DirsAreClosed ==
  ASSUME NEW D, TreeSound(fat1, disk, D)
  PROVE  /\ Root \in Dirs
         /\ \A b \in Dirs : \A s \in UsedSlots(disk[b]) :
              judgeDir(disk[b][s]) => disk[b][s].s_block \in Dirs
<1> DEFINE sub(b) == {s \in EntrySlot : /\ disk[b][s] \notin Texts
                                        /\ disk[b][s].use /\ judgeDir(disk[b][s])}
           edges  == UNION {{<<b, disk[b][s].s_block>> : s \in sub(b)} : b \in Block}
<1>1. Dirs = Reachable(Root, edges, Block)
  BY DEF Dirs
<1>2. Root \in Dirs
  BY <1>1, RootIsBlock, ReachableIs
<1>3. ASSUME NEW b \in Dirs, NEW s \in UsedSlots(disk[b]), judgeDir(disk[b][s])
      PROVE  disk[b][s].s_block \in Dirs
  <2>1. PICK p : p = <<b, disk[b][s].s_block>>
    OBVIOUS
  <2>2. b \in D /\ s \in UsedSlots(disk[b])
    BY DirsAreSound
  <2>3. /\ b \in Block /\ s \in EntrySlot /\ disk[b][s] \in Fcb /\ disk[b][s].use
        /\ disk[b][s].s_block \in Block
    BY <2>2, EntryIsIn
  <2>4. s \in sub(b)
    BY <2>3, <1>3, FcbIsNoText
  <2>5. p \in edges
    BY <2>1, <2>3, <2>4
  <2>6. p[1] \in Dirs /\ p[2] \in Block /\ p[2] = disk[b][s].s_block
    BY <2>1, <2>3
  <2> HIDE DEF edges
  <2> QED
    BY <2>5, <2>6, <1>1, ReachableIsClosed
<1> QED
  BY <1>2, <1>3

(* So the invariant, which holds of some set, holds of this one.           *)
LEMMA DirsHold ==
  ASSUME TypeOK, NEW D, Holds(D)
  PROVE  Holds(Dirs) /\ Dirs \in SUBSET Block
<1> DEFINE k == currOftIndex
<1>1. TreeSound(fat1, disk, D) /\ PathSound(disk, D, oft, k)
  BY DEF Holds
<1>2. Dirs \subseteq D /\ D \subseteq Block
  BY <1>1, DirsAreSound, TreeIs
<1>3. PICK E : E = Dirs
  OBVIOUS
<1>4. /\ E \subseteq D /\ E \subseteq Block /\ Root \in E
      /\ \A b \in E : \A s \in UsedSlots(disk[b]) :
           judgeDir(disk[b][s]) => disk[b][s].s_block \in E
  BY <1>1, <1>2, <1>3, DirsAreClosed
<1>5. TreeSound(fat1, disk, E)
  <2>1. ASSUME NEW b \in E, NEW s \in UsedSlots(disk[b])
        PROVE  EntrySound(fat1, disk, E, disk[b][s])
    <3>1. EntrySound(fat1, disk, D, disk[b][s])
      BY <1>1, <1>4 DEF TreeSound
    <3>2. judgeDir(disk[b][s]) => disk[b][s].s_block \in E
      BY <1>4
    <3> QED
      BY <3>1, <3>2, <1>4 DEF EntrySound
  <2> QED
    BY <2>1, <1>1, <1>4 DEF TreeSound
<1>6. \A i \in 0 .. k : oft[i].pdfBlockNo \in E
  <2> DEFINE P == {i \in 0 .. k : oft[i].pdfBlockNo \notin E}
  <2>1. k \in Nat
    BY <1>1, CurIs
  <2>2. 0 \notin P
    BY <1>1, <1>4, PathIs
  <2>3. ASSUME NEW i \in P, i # 0 PROVE i - 1 \in P
    <3>1. /\ i \in 0 .. k /\ i \in 1 .. k /\ i - 1 \in 0 .. k
          /\ oft[i].pdfBlockNo = oft[i - 1].fcb.s_block /\ oft[i].pdfBlockNo \notin E
      BY <2>3, <1>1, PathIs
    <3>2. judgeDir(oft[i - 1].fcb)
      BY <3>1, <1>1 DEF PathSound
    <3>3. PICK j : j = i - 1
      OBVIOUS
    <3>4. j \in 0 .. k /\ judgeDir(oft[j].fcb) /\ oft[j].fcb.s_block \notin E
      BY <3>1, <3>2, <3>3
    <3>5. j # 0
      BY <3>4, <1>1, <1>4, PathIs
    <3>6. oft[j].pdfBlockNo \notin E
      <4>1. /\ oft[j].fdEntryNo \in UsedSlots(disk[oft[j].pdfBlockNo])
            /\ disk[oft[j].pdfBlockNo][oft[j].fdEntryNo] = oft[j].fcb
        BY <3>4, <3>5, <1>1, PathIs
      <4> QED
        BY <4>1, <3>4, <1>4
    <3> QED
      BY <3>3, <3>4, <3>6
  <2>4. P \in SUBSET (0 .. k)
    OBVIOUS
  <2>5. P = {}
    <3> HIDE DEF P
    <3> QED
      BY <2>1, <2>2, <2>3, <2>4, NoFirstPosition
  <2> QED
    BY <2>5
<1>7. PathSound(disk, E, oft, k)
  <2>1. \A i \in 1 .. k : i \in 0 .. k
    OBVIOUS
  <2> QED
    BY <2>1, <1>1, <1>6 DEF PathSound
<1>8. Holds(E)
  BY <1>5, <1>7 DEF Holds
<1> QED
  BY <1>3, <1>4, <1>8
-----------------------------------------------------------------------------
(* The invariant. *)

(* Each step of cd keeps the invariant. *)
LEMMA CdStepHolds ==
  ASSUME TypeOK, NEW D, Holds(D), GoodUse, CdStep
  PROVE  Holds(D)'
<1>1. TreeSound(fat1, disk, D) /\ PathSound(disk, D, oft, currOftIndex)
  BY DEF Holds
<1>2. CASE CdCloseToRoot
  <2>1. currOftIndex # 0 /\ my_close /\ fat1' = fat1 /\ mode' # "text"
    BY <1>2 DEF CdCloseToRoot, AtComponent
  <2> QED
    BY <2>1, CloseHolds
<1>3. CASE CdStay
  BY <1>3, NothingHolds DEF CdStay
<1>4. CASE CdUp
  <2>1. currOftIndex # 0 /\ my_close /\ fat1' = fat1 /\ mode' # "text"
    BY <1>4 DEF CdUp, InDir
  <2> QED
    BY <2>1, CloseHolds
<1>5. CASE CdDown
  BY <1>5, CdDownHolds
<1>6. CASE CdRetry
  BY <1>6, NothingHolds DEF CdRetry
<1>7. CASE CdEnd
  <2>1. UNCHANGED <<fat1, disk, oft, currOftIndex>> /\ mode' # "text"
    BY <1>7 DEF CdEnd
  <2> QED
    BY <2>1, NothingHolds
<1> QED
  BY <1>2, <1>3, <1>4, <1>5, <1>6, <1>7 DEF CdStep

(* Every step keeps the invariant, for the set of directories that it      *)
(* makes.                                                                  *)
LEMMA NextHolds ==
  ASSUME TypeOK, NEW D \in SUBSET Block, Holds(D), GoodUse, StrayBlock \notin D, [Next]_vars
  PROVE  \E E \in SUBSET Block : Holds(E)'
<1>1. CASE Create
  <2>1. PICK n \in Names, isdir \in BOOLEAN : createfile(n, isdir)
    BY <1>1 DEF Create, Names
  <2> QED
    BY <2>1, CreateHolds
<1>2. CASE Delete
  <2>1. PICK n \in Names, isdir \in BOOLEAN : deleteFile(n, isdir)
    BY <1>2 DEF Delete, Names
  <2> QED
    BY <2>1, DeleteHolds
<1>3. CASE my_format
  <2>1. {Root} \in SUBSET Block
    BY RootIsBlock
  <2> QED
    BY <1>3, <2>1, FormatHolds
<1>4. ASSUME Holds(D)' PROVE \E E \in SUBSET Block : Holds(E)'
  BY <1>4
<1>5. CASE Ctrl
  <2>1. PICK i \in CtrlArgs, n \in Names, isdir \in BOOLEAN : my_ctrl(n, isdir, i)
    BY <1>5 DEF Ctrl, Names
  <2> QED
    BY <2>1, <1>4, CtrlHolds
<1>6. CASE Open
  <2>1. PICK n \in FileNames : my_open(n)
    BY <1>6 DEF Open
  <2> QED
    BY <2>1, <1>4, OpenFileHolds
<1>7. CASE Close
  <2>1. currOftIndex # 0
    BY <1>7, CurIs DEF Close, Holds
  <2>2. my_close /\ fat1' = fat1 /\ mode' # "text"
    BY <1>7 DEF Close
  <2> QED
    BY <2>1, <2>2, <1>4, CloseHolds
<1>8. CASE Rewind
  BY <1>8, <1>4, RewindHolds
<1>9. CASE Write
  BY <1>9, <1>4, WriteHolds DEF Write
<1>10. CASE Buffer
  BY <1>10, <1>4, BufferHolds DEF Buffer
<1>11. CASE Rest
  BY <1>11, <1>4, RestHolds DEF Rest
<1>12. CASE ChangeDir
  <2>1. UNCHANGED <<fat1, disk, oft, currOftIndex>> /\ mode' # "text"
    BY <1>12 DEF ChangeDir, my_cd
  <2> QED
    BY <2>1, <1>4, NothingHolds
<1>13. CASE CdStep
  BY <1>13, <1>4, CdStepHolds
<1>14. CASE UNCHANGED vars
  BY <1>14, <1>4, NothingHolds DEF vars
<1> QED
  BY <1>1, <1>2, <1>3, <1>5, <1>6, <1>7, <1>8, <1>9, <1>10, <1>11, <1>12, <1>13, <1>14 DEF Next

(* The set of those that can be reached serves as well, and each step      *)
(* makes another from it.                                                  *)
LEMMA NextFsInv ==
  ASSUME GoodUse, StrayMisses, FsInv, [Next]_vars PROVE FsInv'
<1>1. TypeOK'
  BY NextType DEF FsInv
<1>2. PICK C \in SUBSET Block : Holds(C)
  BY DEF FsInv
<1>3. TypeOK
  BY DEF FsInv
<1>4. PICK D : D = Dirs
  OBVIOUS
<1>5. D \in SUBSET Block /\ Holds(D) /\ StrayBlock \notin D
  BY <1>2, <1>3, <1>4, DirsHold DEF StrayMisses
<1>6. \E E \in SUBSET Block : Holds(E)'
  BY <1>3, <1>5, NextHolds
<1> QED
  BY <1>1, <1>6 DEF FsInv

(* There is always a set of directories that the tables describe soundly,  *)
(* whatever is created, removed, written and opened.                       *)
THEOREM FsInvAlways ==
  ASSUME GoodUse
  PROVE  Spec /\ []StrayMisses => []FsInv
<1>1. Init => FsInv
  BY InitType, InitHolds, RootIsBlock DEF FsInv
<1>2. FsInv /\ StrayMisses /\ [Next]_vars => FsInv'
  BY NextFsInv
<1> QED
  BY <1>1, <1>2, PTL DEF Spec
-----------------------------------------------------------------------------
(* What follows for the entries of the tree.                               *)

(* The entries that can be reached are entries of the sound tree. *)
LEMMA EntriesAreSound ==
  ASSUME NEW D, TreeSound(fat1, disk, D), NEW e \in Entries
  PROVE  /\ e[1] \in D /\ e[2] \in UsedSlots(disk[e[1]]) /\ e = <<e[1], e[2]>>
         /\ EntrySound(fat1, disk, D, At(e)) /\ Begins(fat1, At(e).s_block)
         /\ At(e).s_block \in Block /\ At(e).s_block # Root
<1>1. PICK b \in Dirs : e \in {b} \X UsedSlots(disk[b])
  BY DEF Entries
<1>2. b \in D /\ e[1] = b /\ e[2] \in UsedSlots(disk[b]) /\ e = <<e[1], e[2]>>
  BY <1>1, DirsAreSound
<1> QED
  BY <1>2, EntryIsIn DEF At

(* Two of them have different blocks, and different names in one           *)
(* directory.                                                              *)
LEMMA EntriesDiffer ==
  ASSUME NEW D, TreeSound(fat1, disk, D), NEW e \in Entries, NEW f \in Entries, e # f
  PROVE  /\ At(e).s_block # At(f).s_block
         /\ ~(e[1] = f[1] /\ At(e).name = At(f).name /\ judgeDir(At(e)) = judgeDir(At(f)))
<1>1. /\ e[1] \in D /\ e[2] \in UsedSlots(disk[e[1]]) /\ e = <<e[1], e[2]>>
      /\ f[1] \in D /\ f[2] \in UsedSlots(disk[f[1]]) /\ f = <<f[1], f[2]>>
  BY EntriesAreSound
<1>2. e[1] # f[1] \/ e[2] # f[2]
  BY <1>1
<1> QED
  BY <1>1, <1>2 DEF TreeSound, At

(* Chains that begin at different blocks are disjoint, and each ends. *)
LEMMA SoundBlocks ==
  ASSUME NEW D, LinksSound(fat1), TreeSound(fat1, disk, D)
  PROVE  BlocksDisjoint
<1>1. ASSUME NEW e \in Entries
      PROVE  /\ At(e).s_block \in BlocksOf(e)
             /\ \A c \in BlocksOf(e) : c \in Block /\ fat1[c] # FREE
             /\ \A c \in BlocksOf(e) : Begins(fat1, c) => c = At(e).s_block
             /\ \E c \in BlocksOf(e) : fat1[c] = END
  <2>1. /\ EntrySound(fat1, disk, D, At(e)) /\ Begins(fat1, At(e).s_block)
        /\ At(e).s_block \in Block /\ fat1[At(e).s_block] # FREE
    BY EntriesAreSound DEF Begins
  <2>2. CASE judgeDir(At(e))
    <3>1. BlocksOf(e) = {At(e).s_block}
      BY <2>2 DEF BlocksOf
    <3>2. fat1[At(e).s_block] = END
      BY <2>1, <2>2, DirsBegin DEF EntrySound
    <3> QED
      BY <3>1, <3>2, <2>1
  <2>3. CASE ~judgeDir(At(e))
    <3>1. BlocksOf(e) = FatChain(fat1, At(e).s_block)
      BY <2>3 DEF BlocksOf
    <3> QED
      BY <3>1, <2>1, ChainIsLeast, ChainIsTaken, ChainEnds, BeginsOnlyItsChain
  <2> QED
    BY <2>2, <2>3
<1>2. ASSUME NEW e \in Entries, NEW f \in Entries, e # f
      PROVE  BlocksOf(e) \cap BlocksOf(f) = {}
  <2>1. /\ At(e).s_block # At(f).s_block
        /\ Begins(fat1, At(e).s_block) /\ Begins(fat1, At(f).s_block)
    BY <1>2, EntriesDiffer, EntriesAreSound
  <2>2. CASE judgeDir(At(e))
    <3>1. BlocksOf(e) = {At(e).s_block}
      BY <2>2 DEF BlocksOf
    <3> QED
      BY <3>1, <2>1, <1>1
  <2>3. CASE judgeDir(At(f))
    <3>1. BlocksOf(f) = {At(f).s_block}
      BY <2>3 DEF BlocksOf
    <3> QED
      BY <3>1, <2>1, <1>1
  <2>4. CASE ~judgeDir(At(e)) /\ ~judgeDir(At(f))
    <3>1. BlocksOf(e) = FatChain(fat1, At(e).s_block) /\ BlocksOf(f) = FatChain(fat1, At(f).s_block)
      BY <2>4 DEF BlocksOf
    <3> QED
      BY <3>1, <2>1, ChainsAreDisjoint
  <2> QED
    BY <2>2, <2>3, <2>4
<1>3. ASSUME NEW e \in Entries PROVE BlocksOf(e) \subseteq Allocated \ {Root}
  <2>1. Begins(fat1, Root) /\ At(e).s_block # Root
    BY TreeIs, DirsBegin, EntriesAreSound
  <2> QED
    BY <2>1, <1>1 DEF Allocated
<1> QED
  BY <1>1, <1>2, <1>3 DEF BlocksDisjoint

(* A file has a chain as long as its length needs. *)
LEMMA SoundLengths ==
  ASSUME TypeOK, NEW D, Holds(D)
  PROVE  ChainCoversLength
<1>1. TreeSound(fat1, disk, D)
  BY DEF Holds
<1>2. ASSUME NEW e \in FileEntries
      PROVE  At(e).len >= 0 /\ Walks(fat1, At(e).s_block, At(e).len \div FCB_NUM) # {}
  <2>1. e \in Entries /\ ~judgeDir(At(e))
    BY DEF FileEntries
  <2> QED
    BY <2>1, <1>1, EntriesAreSound DEF EntrySound
<1>3. ASSUME mode = "text"
      PROVE  BlockAt(fat1, cur.fcb.s_block, cur.filePtr \div FCB_NUM) # END
  <2>1. /\ cur.filePtr = cur.fcb.len /\ cur.fcb.len \div FCB_NUM \in Nat
        /\ Walks(fat1, cur.fcb.s_block, cur.fcb.len \div FCB_NUM) # {}
    BY <1>3, TextFile
  <2>2. PICK w \in Walks(fat1, cur.fcb.s_block, cur.fcb.len \div FCB_NUM) : TRUE
    BY <2>1
  <2>3. BlockAt(fat1, cur.fcb.s_block, cur.fcb.len \div FCB_NUM) # END
    BY <2>1, <2>2, BlockAtIs
  <2> QED
    BY <2>1, <2>3
<1> QED
  BY <1>2, <1>3 DEF ChainCoversLength

(* The open entries are those of the path. *)
LEMMA OpenIs ==
  ASSUME TypeOK, NEW D, TreeSound(fat1, disk, D), PathSound(disk, D, oft, currOftIndex)
  PROVE  OpenIdx = 0 .. currOftIndex
<1>1. \A i \in OftIdx : i \in 0 .. currOftIndex \/ i > currOftIndex
  BY CurIs, SlotsAreNumbers
<1>2. \A i \in OftIdx : i > currOftIndex => ~oft[i].isUse
  BY DEF PathSound, BlankOft
<1>3. \A i \in 0 .. currOftIndex : i \in OftIdx /\ oft[i].isUse
  BY CurIs DEF PathSound
<1> QED
  BY <1>1, <1>2, <1>3 DEF OpenIdx

(* A path of copies: the table is coherent, and each entry finds its       *)
(* parent.                                                                 *)
LEMMA SoundTable ==
  ASSUME TypeOK, NEW D, TreeSound(fat1, disk, D), PathSound(disk, D, oft, currOftIndex)
  PROVE  OftCoherent /\ ParentOpen
<1> DEFINE k == currOftIndex
<1>1. OpenIdx = 0 .. k /\ k \in Nat /\ k \in 0 .. k
  BY OpenIs, CurIs
<1>2. ASSUME NEW i \in 0 .. k
      PROVE  At(PlaceOf(i)) = oft[i].fcb /\ oft[i].fcb.use
  <2>1. At(PlaceOf(i)) = disk[oft[i].pdfBlockNo][oft[i].fdEntryNo]
    BY DEF At, PlaceOf
  <2>2. disk[oft[i].pdfBlockNo][oft[i].fdEntryNo] = oft[i].fcb
    BY PathIs
  <2>3. CASE i = 0
    <3>1. oft[i].pdfBlockNo = Root /\ oft[i].fdEntryNo = 0
      BY <2>3, PathIs
    <3>2. disk[Root][0].use
      BY TreeIs DEF DirBlock
    <3> QED
      BY <3>1, <3>2, <2>1, <2>2
  <2>4. CASE i # 0
    <3>1. /\ oft[i].pdfBlockNo \in D
          /\ oft[i].fdEntryNo \in UsedSlots(disk[oft[i].pdfBlockNo])
      BY <2>4, PathIs
    <3>2. disk[oft[i].pdfBlockNo][oft[i].fdEntryNo].use
      BY <3>1, EntryIsIn
    <3> QED
      BY <3>2, <2>1, <2>2
  <2> QED
    BY <2>3, <2>4
<1>3. \A i \in 0 .. k : Len(oft[i].dirName) = i + 1
  BY DEF PathSound
<1>4. Len(cur.dirName) = k + 1
  BY <1>1, <1>3 DEF cur
<1>5. Cardinality(OpenIdx) = Len(cur.dirName)
  <2>1. 0 \in Int /\ k \in Int /\ Cardinality(0 .. k) = k - 0 + 1
    BY <1>1, FS_Interval
  <2> QED
    BY <2>1, <1>1, <1>4
<1>6. \A i \in OpenIdx : Len(oft[i].dirName) <= Len(cur.dirName)
  BY <1>1, <1>3, <1>4
<1>7. ASSUME NEW i \in OpenIdx \ {0}
      PROVE  LET p == findParentOft(i)
             IN  /\ p \in OpenIdx \ {i}
                 /\ judgeDir(oft[p].fcb)
                 /\ \E n \in Names : /\ Stored[n] = oft[i].fcb.name
                                     /\ oft[i].dirName = Append(oft[p].dirName, n)
  <2>1. i \in 0 .. k /\ i # 0 /\ i \in 1 .. k /\ i - 1 \in 0 .. k /\ i - 1 # i
    BY <1>1
  <2>2. findParentOft(i) = i - 1
    BY <2>1, ParentIsBefore
  <2>3. /\ judgeDir(oft[i - 1].fcb)
        /\ \E n \in Names : /\ Stored[n] = oft[i].fcb.name
                            /\ oft[i].dirName = Append(oft[i - 1].dirName, n)
    BY <2>1 DEF PathSound
  <2> QED
    BY <2>1, <2>2, <2>3, <1>1
<1> QED
  BY <1>1, <1>2, <1>5, <1>6, <1>7 DEF OftCoherent, ParentOpen

(* Where lengths count entries, all searches agree. *)
LEMMA SoundDirectories ==
  ASSUME NEW D, TreeSound(fat1, disk, D)
  PROVE  DirectoriesSound
<1>1. ASSUME NEW e \in DirEntries \cup {<<Root, 0>>}
      PROVE  At(e).s_block \in D /\ At(e).len = Cardinality(UsedSlots(disk[At(e).s_block]))
  <2>1. CASE e \in DirEntries
    <3>1. e \in Entries /\ judgeDir(At(e))
      BY <2>1 DEF DirEntries
    <3> QED
      BY <3>1, EntriesAreSound DEF EntrySound
  <2>2. CASE e = <<Root, 0>>
    <3>1. At(e) = disk[Root][0]
      BY <2>2 DEF At
    <3>2. disk[Root][0].len = Cardinality(UsedSlots(disk[Root])) /\ disk[Root][0].s_block = Root
          /\ Root \in D
      BY TreeIs
    <3> QED
      BY <3>1, <3>2
  <2> QED
    BY <2>1, <2>2
<1>2. LenCountsEntries
  BY <1>1 DEF LenCountsEntries
<1>3. ASSUME NEW e \in DirEntries \cup {<<Root, 0>>}, NEW n \in Names, NEW isdir \in BOOLEAN
      PROVE  LET cells == disk[At(e).s_block]
                 used  == FirstOf({s \in UsedSlots(cells) : fileNameMatch(cells[s], n, isdir)})
             IN  /\ findFileAtDir(cells, At(e).len, n, isdir) = used
                 /\ getIndexOfFcb(cells, At(e).len, n, isdir) = used
                 /\ isdir => IndexOfSubdir(cells, At(e).len, n) = used
                 /\ Listed(cells, At(e).len, TRUE) = UsedSlots(cells)
  <2>1. PICK b, len : b = At(e).s_block /\ len = At(e).len
    OBVIOUS
  <2>2. DirBlock(fat1, disk, b) /\ len = Cardinality(UsedSlots(disk[b]))
    BY <1>1, <2>1, TreeIs
  <2>3. n # "" /\ n # "." /\ n # ".."
    BY NamesAreNames
  <2>4. FirstOf({s \in UsedSlots(disk[b]) : fileNameMatch(disk[b][s], n, isdir)})
          = FirstOf(Matching(disk, b, n, isdir))
    BY DEF Matching
  <2>5. /\ findFileAtDir(disk[b], len, n, isdir) = FirstOf(Matching(disk, b, n, isdir))
        /\ getIndexOfFcb(disk[b], len, n, isdir) = FirstOf(Matching(disk, b, n, isdir))
        /\ IndexOfSubdir(disk[b], len, n) = FirstOf(Matching(disk, b, n, TRUE))
    <3>1. findFileAtDir(disk[b], len, n, isdir) = FirstOf(Matching(disk, b, n, isdir))
      <4>1. findFileAtDir(disk[b], Cardinality(UsedSlots(disk[b])), n, isdir)
               = FirstOf(Matching(disk, b, n, isdir))
        BY ONLY <2>2, <2>3, FindFindsEntries
      <4> QED
        BY ONLY <2>2, <4>1
    <3>2. getIndexOfFcb(disk[b], len, n, isdir) = FirstOf(Matching(disk, b, n, isdir))
      <4>1. getIndexOfFcb(disk[b], Cardinality(UsedSlots(disk[b])), n, isdir)
               = FirstOf(Matching(disk, b, n, isdir))
        BY ONLY <2>2, <2>3, IndexFindsEntries
      <4> QED
        BY ONLY <2>2, <4>1
    <3>3. IndexOfSubdir(disk[b], len, n) = FirstOf(Matching(disk, b, n, TRUE))
      <4>1. IndexOfSubdir(disk[b], Cardinality(UsedSlots(disk[b])), n)
               = FirstOf(Matching(disk, b, n, TRUE))
        BY ONLY <2>2, <2>3, SubdirFindsEntries
      <4> QED
        BY ONLY <2>2, <4>1
    <3> QED
      BY <3>1, <3>2, <3>3
  <2>6. Listed(disk[b], len, TRUE) = UsedSlots(disk[b])
    BY <2>2, ListedIsUsed
  <2>7. isdir => FirstOf(Matching(disk, b, n, TRUE)) = FirstOf(Matching(disk, b, n, isdir))
    BY DEF Matching
  <2> QED
    BY <2>1, <2>4, <2>5, <2>6, <2>7
<1>4. SearchesAgree
  BY <1>3 DEF SearchesAgree
<1>5. UniqueNames
  BY EntriesDiffer DEF UniqueNames
<1> QED
  BY <1>2, <1>4, <1>5 DEF DirectoriesSound
-----------------------------------------------------------------------------
(* The theorems. *)

(* What the invariant says of the properties that the runs check. *)
LEMMA FsInvMeans ==
  ASSUME FsInv
  PROVE  BlocksDisjoint /\ ChainCoversLength /\ OftCoherent /\ ParentOpen /\ DirectoriesSound
<1>1. PICK D : Holds(D)
  BY DEF FsInv
<1>2. /\ TypeOK /\ LinksSound(fat1) /\ TreeSound(fat1, disk, D)
      /\ PathSound(disk, D, oft, currOftIndex)
  BY <1>1 DEF FsInv, Holds
<1> QED
  BY <1>1, <1>2, SoundBlocks, SoundLengths, SoundTable, SoundDirectories

(* A disk that ends before the store behind the table needs nothing of it. *)
LEMMA SmallDisk ==
  ASSUME StrayBlock \notin Block
  PROVE  StrayMisses
<1>1. Dirs \subseteq Block
  BY RootIsBlock, ReachableIs DEF Dirs
<1> QED
  BY <1>1 DEF StrayMisses

(* No block is ever shared: the chains of different files are disjoint,    *)
(* none goes through a directory, and each ends, on a disk of any size and *)
(* after any commands.  What createfile and do_write take is free, and     *)
(* what deleteFile gives back belongs to nothing that stays.               *)
THEOREM BlocksNeverShared ==
  ASSUME GoodUse
  PROVE  Spec /\ []StrayMisses => []BlocksDisjoint
<1>1. FsInv => BlocksDisjoint
  BY FsInvMeans
<1> QED
  BY <1>1, FsInvAlways, PTL

(* my_read and do_write never run off a file's chain.                      *)
THEOREM ChainsCoverLengths ==
  ASSUME GoodUse
  PROVE  Spec /\ []StrayMisses => []ChainCoversLength
<1>1. FsInv => ChainCoversLength
  BY FsInvMeans
<1> QED
  BY <1>1, FsInvAlways, PTL

(* The open file table never holds a stale copy: what my_close writes back *)
(* is what is there.                                                       *)
THEOREM TableIsCoherent ==
  ASSUME GoodUse
  PROVE  Spec /\ []StrayMisses => []OftCoherent
<1>1. FsInv => OftCoherent
  BY FsInvMeans
<1> QED
  BY <1>1, FsInvAlways, PTL

(* The open entries are always the path from the root, so my_close and ".."*)
(* find the parent that they look for.                                     *)
THEOREM PathIsOpen ==
  ASSUME GoodUse
  PROVE  Spec /\ []StrayMisses => []ParentOpen
<1>1. FsInv => ParentOpen
  BY FsInvMeans
<1> QED
  BY <1>1, FsInvAlways, PTL

(* Lengths count entries, names are unique, and the five search loops find *)
(* the same, in every directory that can be reached.                       *)
THEOREM DirectoriesStaySound ==
  ASSUME GoodUse
  PROVE  Spec /\ []StrayMisses => []DirectoriesSound
<1>1. FsInv => DirectoriesSound
  BY FsInvMeans
<1> QED
  BY <1>1, FsInvAlways, PTL
-----------------------------------------------------------------------------
(* The text on the disk while more is typed.                               *)

(* PutCells changes the cells it is given only.                            *)
LEMMA PutCellsOutside ==
  ASSUME NEW d \in Memory, NEW b \in Block, NEW lo, NEW hi, NEW t, NEW r \in Slot, r \notin lo .. hi
  PROVE  PutCells(d, b, lo, hi, t)[b][r] = d[b][r]
BY DEF PutCells, Memory

(* A position before l lies in an earlier block, or before l in its block. *)
LEMMA DivBefore ==
  ASSUME NEW F \in Nat, F > 0, NEW l \in Nat, NEW i \in 0 .. l - 1
  PROVE  /\ i \div F \in 0 .. l \div F /\ i % F \in 0 .. F - 1
         /\ i \div F = l \div F => i % F < l % F
<1>1. PICK p \in Nat, r \in Nat : p = i \div F /\ r = i % F /\ i = F * p + r /\ r < F
  OBVIOUS
<1>2. PICK q \in Nat, s \in Nat : q = l \div F /\ s = l % F /\ l = F * q + s /\ s < F
  OBVIOUS
<1>3. F * p + r < F * q + s
  BY <1>1, <1>2
<1>4. p <= q
  <2> SUFFICES ASSUME p > q PROVE FALSE
    BY <1>1, <1>2
  <2>1. PICK z \in Nat : p = q + 1 + z
    <3>1. p - q - 1 \in Nat /\ p = q + 1 + (p - q - 1)
      BY <1>1, <1>2
    <3> QED
      BY <3>1
  <2>2. F * p = F * q + F + F * z /\ F * z >= 0
    BY <2>1
  <2>3. PICK x \in Int, y \in Int, u \in Int : x = F * p /\ y = F * q /\ u = F * z
    OBVIOUS
  <2> QED
    BY <2>2, <2>3, <1>1, <1>2, <1>3
<1>5. p = q => r < s
  BY <1>3
<1> QED
  BY <1>1, <1>2, <1>4, <1>5

(* do_write changes no text that is there: what it fills of the file's     *)
(* last block lies behind the text, and the block it goes on to is not one *)
(* of those before.                                                        *)
LEMMA DoWriteKeeps ==
  ASSUME TypeOK, NEW D, Holds(D), mode = "text", NEW t \in Text, NEW n \in 0 .. FCB_NUM,
         NEW w \in Walks(fat1, cur.fcb.s_block, cur.fcb.len \div FCB_NUM),
         NEW q \in 0 .. cur.fcb.len \div FCB_NUM, NEW r \in Slot,
         q = cur.fcb.len \div FCB_NUM => r < cur.fcb.len % FCB_NUM
  PROVE  do_write(t, n).disk[w[q]][r] = disk[w[q]][r]
<1> DEFINE first   == BlockAt(fat1, cur.fcb.s_block, cur.filePtr \div FCB_NUM)
           offset  == cur.filePtr % FCB_NUM
           crosses == offset + n >= FCB_NUM
           grows   == crosses /\ fat1[first] = END
           last    == IF ~crosses THEN first
                      ELSE IF grows THEN getNextVhdBlock(fat1) ELSE fat1[first]
           head    == PutCells(disk, first, offset, offset + n - 1, t)
           over    == IF crosses THEN PutCells(head, last, 0, offset + n - FCB_NUM - 1, t)
                      ELSE head
           x       == cur.fcb.s_block
           m       == cur.fcb.len \div FCB_NUM
           c       == w[q]
<1>1. \/ do_write(t, n).disk = disk
      \/ do_write(t, n).disk = head
      \/ last # END /\ do_write(t, n).disk = AddToEntry(over, cur, n)
  <2>1. first = END => do_write(t, n).disk = disk
    BY DEF do_write
  <2>2. first # END /\ last = END => do_write(t, n).disk = head
    BY DEF do_write
  <2>3. first # END /\ last # END => do_write(t, n).disk = AddToEntry(over, cur, n)
    BY DEF do_write
  <2> QED
    BY <2>1, <2>2, <2>3
<1>2. /\ cur.fcb.len \in Nat /\ cur.filePtr = cur.fcb.len /\ m \in Nat
      /\ x \in Block \ D /\ Begins(fat1, x)
      /\ cur.pdfBlockNo \in D /\ cur.fdEntryNo \in Slot /\ D \subseteq Block
  BY TextFile
<1>3. LinksSound(fat1) /\ TreeSound(fat1, disk, D) /\ disk \in Memory /\ t \in Cell
  BY DEF Holds, TypeOK, Memory, Cell, Texts
<1>4. first = w[m] /\ first \in Block /\ first # END
  <2>1. BlockAt(fat1, x, m) = w[m] /\ w[m] \in Block /\ w[m] # END
    BY <1>2, BlockAtIs
  <2> QED
    BY <2>1, <1>2
<1>5. m \in 0 .. m /\ q \in 0 .. m /\ q \in Int
  BY <1>2
<1>6. c \in Block /\ c \in FatChain(fat1, x) /\ first \in FatChain(fat1, x)
  BY <1>2, <1>4, <1>5, WalkIs, WalkInChain
<1>7. fat1[c] # FREE /\ fat1[first] # FREE
  BY <1>2, <1>3, <1>6, ChainIsTaken DEF Begins
<1>8. c \notin D
  <2>1. \A b \in D : Begins(fat1, b) /\ b # x
    BY <1>2, <1>3, DirsBegin
  <2> QED
    BY <2>1, <1>2, <1>6, BeginsOnlyItsChain
<1>9. head \in Memory /\ head[c][r] = disk[c][r]
  <2>1. head \in Memory
    BY <1>3, PutCellsType
  <2>2. CASE c # first
    BY <2>1, <2>2, <1>3, <1>6, PutCellsElsewhere
  <2>3. CASE c = first
    <3>1. q = m
      BY <2>3, <1>2, <1>3, <1>4, <1>5, WalkIsInjective
    <3>2. r < offset /\ r \in Int
      BY <3>1, <1>2, SlotsAreInts
    <3>3. offset \in Int
      BY <1>2, SizeAssumption
    <3>4. r \notin offset .. offset + n - 1
      BY <3>2, <3>3
    <3>5. PICK b : b = first
      OBVIOUS
    <3>6. PutCells(disk, b, offset, offset + n - 1, t)[b][r] = disk[b][r]
      BY <3>4, <3>5, <1>3, <1>4, PutCellsOutside
    <3>7. head = PutCells(disk, b, offset, offset + n - 1, t) /\ c = b
      BY <2>3, <3>5
    <3> HIDE DEF head, first, offset, c
    <3> QED
      BY <2>1, <3>6, <3>7
  <2> QED
    BY <2>1, <2>2, <2>3
<1>10. ASSUME last # END PROVE over \in Memory /\ over[c][r] = disk[c][r]
  <2>1. CASE ~crosses
    BY <2>1, <1>9
  <2>2. CASE crosses /\ grows
    <3>1. last \in Block /\ fat1[last] = FREE
      BY <2>2, <1>10, NextBlockIsFree
    <3>2. c # last
      BY <3>1, <1>7
    <3>3. over = PutCells(head, last, 0, offset + n - FCB_NUM - 1, t)
      BY <2>2
    <3> HIDE DEF head, last, over, crosses, grows
    <3> QED
      BY <3>2, <3>3, <1>3, <1>6, <1>9, PutCellsType, PutCellsElsewhere
  <2>3. CASE crosses /\ ~grows
    <3>1. last = fat1[first] /\ last # END
      BY <2>3, <1>10
    <3>2. c # last
      <4> SUFFICES ASSUME c = last PROVE FALSE
        OBVIOUS
      <4>1. fat1[first] = c
        BY <3>1
      <4>2. q # 0
        <5>1. w[0] = x /\ fat1[first] # x
          BY <1>2, <1>4, WalkIs DEF Begins
        <5> QED
          BY <5>1, <4>1
      <4>3. q - 1 \in 0 .. m - 1 /\ fat1[w[q - 1]] = c
        BY <4>2, <1>2, <1>5, WalkIs
      <4>4. q - 1 \in 0 .. m /\ w[q - 1] \in Block
        BY <4>3, <1>2, WalkIs
      <4>5. w[q - 1] = w[m]
        BY <4>1, <4>3, <4>4, <1>3, <1>4, <1>6 DEF LinksSound
      <4>6. q - 1 = m
        BY <4>4, <4>5, <1>2, <1>3, <1>5, WalkIsInjective
      <4> QED
        BY <4>6, <4>3, <1>2
    <3>3. over = PutCells(head, last, 0, offset + n - FCB_NUM - 1, t)
      BY <2>3
    <3> HIDE DEF head, last, over, crosses, grows
    <3> QED
      BY <3>2, <3>3, <1>3, <1>6, <1>9, PutCellsType, PutCellsElsewhere
  <2> QED
    BY <2>1, <2>2, <2>3
<1>11. ASSUME last # END PROVE AddToEntry(over, cur, n)[c][r] = disk[c][r]
  <2>1. over \in Memory /\ over[c][r] = disk[c][r]
    BY <1>10, <1>11
  <2>2. cur.pdfBlockNo # c
    BY <1>2, <1>8
  <2> HIDE DEF over, c
  <2> QED
    BY <2>1, <2>2 DEF AddToEntry, Memory
<1> HIDE DEF first, last, head, over
<1> QED
  BY <1>1, <1>9, <1>11

(* What is written is as long as before, or longer. *)
LEMMA DoWriteGrows ==
  ASSUME cur \in Oft, NEW t, NEW n \in 0 .. FCB_NUM
  PROVE  do_write(t, n).file.fcb.len >= cur.fcb.len
<1>1. /\ cur.fcb.len \in Int /\ n \in Int /\ n >= 0
      /\ [cur EXCEPT !.filePtr = @ + n, !.fcb.len = @ + n].fcb.len = cur.fcb.len + n
  BY SizeAssumption DEF Oft, Fcb
<1>2. \/ do_write(t, n).file = cur
      \/ do_write(t, n).file = [cur EXCEPT !.filePtr = @ + n, !.fcb.len = @ + n]
  BY DEF do_write
<1>3. PICK l \in Int : l = cur.fcb.len
  BY <1>1
<1>4. l + n >= l /\ l >= l
  BY <1>1
<1> QED
  BY <1>1, <1>2, <1>3, <1>4

(* Content, with table and disk as parameters. *)
ContentOf(fat, d, f) ==
  LET W == Walks(fat, f.s_block, f.len \div FCB_NUM)
      w == CHOOSE v \in W : TRUE
  IN  IF W = {} THEN <<>>
      ELSE [i \in 0 .. f.len - 1 |-> d[w[i \div FCB_NUM]][i % FCB_NUM]]

(* The text of a file, read along a walk. *)
LEMMA ContentIs ==
  ASSUME NEW fat, NEW d, NEW f, f.len \in Nat,
         NEW w \in Walks(fat, f.s_block, f.len \div FCB_NUM)
  PROVE  /\ DOMAIN ContentOf(fat, d, f) = 0 .. f.len - 1
         /\ \A i \in 0 .. f.len - 1 :
              ContentOf(fat, d, f)[i] = d[w[i \div FCB_NUM]][i % FCB_NUM]
<1> DEFINE m == f.len \div FCB_NUM
           W == Walks(fat, f.s_block, m)
           v == CHOOSE u \in W : TRUE
<1>1. FCB_NUM \in Nat /\ FCB_NUM > 0 /\ m \in Nat /\ m <= m
  <2>1. FCB_NUM \in Nat /\ FCB_NUM > 0 /\ 0 \in 0 .. FCB_NUM
    BY SizeAssumption
  <2>2. m \in Nat
    BY <2>1, DivSteps
  <2> QED
    BY <2>1, <2>2
<1>2. W # {} /\ v \in W
  OBVIOUS
<1>3. ContentOf(fat, d, f) = [i \in 0 .. f.len - 1 |-> d[v[i \div FCB_NUM]][i % FCB_NUM]]
  BY <1>2 DEF ContentOf
<1> HIDE DEF v, W, m
<1>4. \A j \in 0 .. m : v[j] = w[j]
  BY <1>1, <1>2, WalksAgree DEF W, m
<1>5. ASSUME NEW i \in 0 .. f.len - 1 PROVE i \div FCB_NUM \in 0 .. m
  BY <1>1, DivBefore DEF m
<1> QED
  BY <1>3, <1>4, <1>5

(* The text of the current file is still there when the table is g, the    *)
(* disk e, and the file's FCB h.                                           *)
Appended(g, e, h) ==
  LET old == ContentOf(fat1, disk, cur.fcb)
      new == ContentOf(g, e, h)
  IN  DOMAIN old \subseteq DOMAIN new /\ \A i \in DOMAIN old : new[i] = old[i]

(* A do_write appends. *)
LEMMA DoWriteAppends ==
  ASSUME TypeOK, NEW D, Holds(D), mode = "text", NEW t \in Text, NEW n \in 0 .. FCB_NUM
  PROVE  Appended(do_write(t, n).fat1, do_write(t, n).disk, do_write(t, n).file.fcb)
<1>1. PICK g, e, h : g = do_write(t, n).fat1 /\ e = do_write(t, n).disk /\ h = do_write(t, n).file.fcb
  OBVIOUS
<1>2. PICK f : f = cur.fcb
  OBVIOUS
<1>3. f.len \in Nat /\ cur \in Oft /\ Walks(fat1, f.s_block, f.len \div FCB_NUM) # {}
  BY <1>2, TextFile
<1>4. /\ h.s_block = f.s_block
      /\ Walks(fat1, f.s_block, f.len \div FCB_NUM) \subseteq Walks(g, f.s_block, f.len \div FCB_NUM)
      /\ Walks(g, h.s_block, h.len \div FCB_NUM) # {}
  BY <1>1, <1>2, DoWriteIs DEF Written, SameEntry
<1>5. h.len \in Int
  <2>1. n \in Int
    BY SizeAssumption
  <2> QED
    BY <2>1, <1>1, DoWriteType DEF Oft, Fcb
<1>6. h.len >= f.len /\ h.len \in Nat
  BY <1>1, <1>2, <1>3, <1>5, DoWriteGrows
<1>7. PICK w \in Walks(fat1, f.s_block, f.len \div FCB_NUM) : TRUE
  BY <1>3
<1>8. PICK v \in Walks(g, h.s_block, h.len \div FCB_NUM) : TRUE
  BY <1>4
<1>9. /\ DOMAIN ContentOf(fat1, disk, f) = 0 .. f.len - 1
      /\ \A i \in 0 .. f.len - 1 :
           ContentOf(fat1, disk, f)[i] = disk[w[i \div FCB_NUM]][i % FCB_NUM]
  BY <1>3, ContentIs
<1>10. /\ DOMAIN ContentOf(g, e, h) = 0 .. h.len - 1
       /\ \A i \in 0 .. h.len - 1 :
            ContentOf(g, e, h)[i] = e[v[i \div FCB_NUM]][i % FCB_NUM]
  BY <1>6, ContentIs
<1>11. ASSUME NEW i \in 0 .. f.len - 1
       PROVE  i \in 0 .. h.len - 1 /\ ContentOf(g, e, h)[i] = ContentOf(fat1, disk, f)[i]
  <2>1. FCB_NUM \in Nat /\ FCB_NUM > 0
    BY SizeAssumption
  <2>2. i \in 0 .. h.len - 1
    BY <1>3, <1>6
  <2>3. PICK q, r : q = i \div FCB_NUM /\ r = i % FCB_NUM
    OBVIOUS
  <2>4. /\ q \in 0 .. f.len \div FCB_NUM /\ r \in 0 .. FCB_NUM - 1
        /\ q = f.len \div FCB_NUM => r < f.len % FCB_NUM
    BY <2>1, <2>3, <1>3, DivBefore
  <2>5. q \in 0 .. h.len \div FCB_NUM
    BY <2>1, <2>2, <2>3, <1>6, DivBefore
  <2>6. v[q] = w[q]
    <3>1. PICK m, k : m = f.len \div FCB_NUM /\ k = h.len \div FCB_NUM
      OBVIOUS
    <3>2. m \in Nat /\ k \in Nat
      <4>1. 0 \in 0 .. FCB_NUM
        BY <2>1
      <4> QED
        BY <4>1, <2>1, <3>1, <1>3, <1>6, DivSteps
    <3>3. w \in Walks(g, f.s_block, m) /\ v \in Walks(g, f.s_block, k) /\ q \in 0 .. m /\ q \in 0 .. k
      BY <3>1, <2>4, <2>5, <1>4, <1>7, <1>8
    <3>4. m <= k \/ k <= m
      BY <3>2
    <3> QED
      BY ONLY <3>2, <3>3, <3>4, WalksAgree
  <2>7. e[w[q]][r] = disk[w[q]][r]
    <3>1. r \in Slot
      BY <2>4 DEF Slot
    <3> QED
      BY <3>1, <2>4, <1>1, <1>2, <1>7, DoWriteKeeps
  <2> QED
    BY <2>2, <2>3, <2>6, <2>7, <1>9, <1>10
<1>12. Appended(g, e, h)
  BY <1>2, <1>9, <1>10, <1>11 DEF Appended
<1> QED
  BY <1>1, <1>12

(* So text is appended, by every step of my_write's loop.                  *)
LEMMA TextStep ==
  ASSUME FsInv, [Next]_vars, mode = "text", ~UNCHANGED vars
  PROVE  Appended(fat1', disk', cur'.fcb)
<1>1. TypeOK
  BY DEF FsInv
<1>2. PICK D : Holds(D)
  BY DEF FsInv
<1>3. Buffer \/ Rest
  BY DEF Next, Create, Delete, Ctrl, Open, Write, ChangeDir, CdStep, createfile, deleteFile, my_ctrl,
         my_open, Close, Rewind, my_format, my_write, my_cd, CdCloseToRoot, AtComponent, CdStay,
         CdUp, CdDown, CdRetry, CdEnd, InDir
<1>4. CASE Buffer
  <2>1. PICK t \in Text : WriteBuffer(t)
    BY <1>4 DEF Buffer
  <2>2. cur' = do_write(t, FCB_NUM).file
    BY <2>1, <1>1 DEF WriteBuffer, cur, TypeOK
  <2>3. FCB_NUM \in 0 .. FCB_NUM
    BY SizeAssumption
  <2>4. Appended(do_write(t, FCB_NUM).fat1, do_write(t, FCB_NUM).disk, do_write(t, FCB_NUM).file.fcb)
    BY <2>3, <1>1, <1>2, DoWriteAppends
  <2> QED
    BY <2>1, <2>2, <2>4 DEF WriteBuffer
<1>5. CASE Rest
  <2>1. PICK t \in Text, n \in Rests : WriteRest(t, n)
    BY <1>5 DEF Rest
  <2>2. n \in 0 .. FCB_NUM
    BY UseAssumption
  <2>3. cur'.fcb = do_write(t, n).file.fcb
    <3>1. do_write(t, n).file \in Oft
      <4>1. n \in Int
        BY <2>2, SizeAssumption
      <4> QED
        BY <4>1, <1>1, DoWriteType
    <3>2. cur' = [do_write(t, n).file EXCEPT !.isUpate = TRUE]
      BY <2>1, <1>1 DEF WriteRest, cur, TypeOK
    <3> QED
      BY <3>1, <3>2 DEF Oft
  <2>4. Appended(do_write(t, n).fat1, do_write(t, n).disk, do_write(t, n).file.fcb)
    BY <2>2, <1>1, <1>2, DoWriteAppends
  <2> QED
    BY <2>1, <2>3, <2>4 DEF WriteRest
<1> QED
  BY <1>3, <1>4, <1>5

(* While text is typed a file only grows at its end, whatever block the    *)
(* disk runs out in: what do_write has put down, it never overwrites.      *)
THEOREM TextOnlyGrows ==
  ASSUME GoodUse
  PROVE  Spec /\ []StrayMisses => TextIsAppended
<1> DEFINE A == mode = "text" =>
                  LET old == Content(cur.fcb)
                      new == Content(cur.fcb)'
                  IN  DOMAIN old \subseteq DOMAIN new /\ \A i \in DOMAIN old : new[i] = old[i]
<1>1. FsInv /\ [Next]_vars => [A]_vars
  <2> SUFFICES ASSUME FsInv, [Next]_vars, mode = "text", ~UNCHANGED vars PROVE A
    OBVIOUS
  <2>1. Appended(fat1', disk', cur'.fcb)
    BY TextStep
  <2>2. Content(cur.fcb) = ContentOf(fat1, disk, cur.fcb)
    BY DEF Content, ContentOf
  <2>3. Content(cur.fcb)' = ContentOf(fat1', disk', cur'.fcb)
    BY DEF Content, ContentOf, Walks
  <2> QED
    BY <2>1, <2>2, <2>3 DEF Appended
<1> QED
  BY <1>1, FsInvAlways, PTL DEF Spec, TextIsAppended
-----------------------------------------------------------------------------
(* Where a failed my_cd lands.                                             *)

(* No directory called "root" is open below the root: one can be made, but *)
(* my_cd takes the name for the root, wherever it stands in a path.        *)
NoRoot(o, k) == \A i \in 1 .. k : judgeDir(o[i].fcb) => o[i].dirName[i + 1] # "root"

(* The path q leads from the root through the directories in the blocks t, *)
(* and fits in the open file table.                                        *)
Trail(d, q, t) ==
  /\ t \in [1 .. Len(q) -> Block] /\ Len(q) \in 1 .. OFT_MAX_LEN
  /\ q[1] = "root" /\ t[1] = Root
  /\ \A j \in 2 .. Len(q) :
       /\ q[j] \in Names \ {"root"}
       /\ \E s \in Matching(d, t[j - 1], q[j], TRUE) : d[t[j - 1]][s].s_block = t[j]

Leads(d, q) == \E t : Trail(d, q, t)

(* my_cd is at entry e of the open file table, the k-th above the root's:  *)
(* on its way along q, and path is what is left to go.                     *)
Between(q, t, path, k, e) ==
  /\ k + 1 <= Len(q) /\ judgeDir(e.fcb) /\ e.fcb.s_block = t[k + 1]
  /\ Len(path) = Len(q) - (k + 1)
  /\ \A i \in 1 .. Len(path) : path[i] = q[k + 1 + i]
  /\ Len(e.dirName) = k + 1
  /\ \A i \in 1 .. k + 1 : e.dirName[i] = q[i]

OnWay(d, q, path, k, e) ==
  \E t : Trail(d, q, t) /\ (path = q \/ Between(q, t, path, k, e))

(* While c are the locals of my_cd: typed in a directory, it can return    *)
(* there, and does once it has failed.  Typed in a file it returns to a    *)
(* directory when it fails a second time.                                  *)
CdSound(m, c, d, k, e) ==
  /\ c.depth \in 0 .. 2
  /\ m # "cd" => c.depth = 0
  /\ m = "cd" =>
       /\ c.depth = 0 => c.dirname = c.home /\ (c.homeIsDir => Leads(d, c.home))
       /\ c.depth = 1 => IF c.homeIsDir THEN OnWay(d, c.home, c.path, k, e)
                         ELSE Leads(d, c.dirname)
       /\ c.depth = 2 => ~c.homeIsDir /\ \E q : OnWay(d, q, c.path, k, e)

CdInv == NoRoot(oft, currOftIndex) /\ CdSound(mode, cd, disk, currOftIndex, cur)

(* The current entry alone changes, and neither in kind nor in name. *)
LEMMA NoRootUpdates ==
  ASSUME NoRoot(oft, currOftIndex), currOftIndex' = currOftIndex,
         \A i \in 1 .. currOftIndex : i # currOftIndex => oft'[i] = oft[i],
         oft'[currOftIndex].fcb.attr = cur.fcb.attr, oft'[currOftIndex].dirName = cur.dirName
  PROVE  NoRoot(oft', currOftIndex')
BY DEF NoRoot, cur, judgeDir

(* The entries below an index stay. *)
LEMMA NoRootBelow ==
  ASSUME NEW k \in Nat, NEW m \in Nat, m <= k, NoRoot(oft, k), \A i \in 1 .. m : oft'[i] = oft[i]
  PROVE  NoRoot(oft', m)
<1>1. \A i \in 1 .. m : i \in 1 .. k
  OBVIOUS
<1> QED
  BY <1>1 DEF NoRoot

(* my_close *)
LEMMA NoRootCloses ==
  ASSUME TypeOK, NEW D, Holds(D), NoRoot(oft, currOftIndex), currOftIndex # 0, my_close
  PROVE  NoRoot(oft', currOftIndex')
<1> DEFINE k == currOftIndex
<1>1. k \in Nat /\ k \in OftIdx /\ 0 .. k \subseteq OftIdx /\ k # 0
  BY CurIs DEF Holds
<1>2. currOftIndex' = k - 1
  BY CloseShrinks DEF Holds
<1>3. \A i \in 1 .. k - 1 : oft'[i] = oft[i]
  <2> SUFFICES ASSUME NEW i \in 1 .. k - 1 PROVE oft'[i] = oft[i]
    OBVIOUS
  <2>1. i \in OftIdx /\ i # k
    BY <1>1
  <2> QED
    BY <2>1 DEF my_close, TypeOK
<1>4. k - 1 \in Nat /\ k - 1 <= k
  BY <1>1
<1> QED
  BY <1>1, <1>2, <1>3, <1>4, NoRootBelow

(* Opening an entry that is a file or has another name. *)
LEMMA NoRootOpens ==
  ASSUME TypeOK, NEW D, Holds(D), NoRoot(oft, currOftIndex), getNextOft # NOT_FOUND,
         NEW s, NEW n, ~judgeDir(curDir[s]) \/ n # "root",
         oft' = [oft EXCEPT ![getNextOft] = OpenedEntry(s, n)], currOftIndex' = getNextOft
  PROVE  NoRoot(oft', currOftIndex')
<1> DEFINE k == currOftIndex
<1>1. k \in Nat /\ k \in OftIdx /\ 0 .. k \subseteq OftIdx /\ k \in 0 .. k
  BY CurIs DEF Holds
<1>2. getNextOft = k + 1 /\ k + 1 \in OftIdx
  BY NextOftIsAbove DEF Holds
<1>3. \A i \in 1 .. k : oft'[i] = oft[i]
  <2> SUFFICES ASSUME NEW i \in 1 .. k PROVE oft'[i] = oft[i]
    OBVIOUS
  <2>1. i \in OftIdx /\ i # k + 1
    BY <1>1
  <2> QED
    BY <2>1, <1>2 DEF TypeOK
<1>4. oft'[k + 1] = OpenedEntry(s, n)
  BY <1>2 DEF TypeOK
<1>5. oft'[k + 1].fcb = curDir[s] /\ oft'[k + 1].dirName[k + 2] = n
  <2>1. Len(cur.dirName) = k + 1
    BY <1>1 DEF Holds, PathSound, cur
  <2>2. cur.dirName \in Seq(Component)
    BY CurType DEF Oft
  <2>3. Append(cur.dirName, n)[k + 2] = n
    BY <2>1, <2>2, <1>1
  <2>4. OpenedEntry(s, n).fcb = curDir[s] /\ OpenedEntry(s, n).dirName = Append(cur.dirName, n)
    BY DEF OpenedEntry
  <2> QED
    BY ONLY <2>3, <2>4, <1>4
<1>6. ASSUME NEW i \in 1 .. k + 1, judgeDir(oft'[i].fcb) PROVE oft'[i].dirName[i + 1] # "root"
  <2>1. CASE i = k + 1
    BY <2>1, <1>1, <1>5, <1>6
  <2>2. CASE i # k + 1
    <3>1. i \in 1 .. k
      BY <2>2, <1>1
    <3> QED
      BY <3>1, <1>3, <1>6 DEF NoRoot
  <2> QED
    BY <2>1, <2>2
<1> QED
  BY <1>2, <1>6 DEF NoRoot

(* Every step leaves the open directories without that name. *)
LEMMA NoRootNext ==
  ASSUME TypeOK, NEW D, Holds(D), GoodUse, NoRoot(oft, currOftIndex), [Next]_vars
  PROVE  NoRoot(oft', currOftIndex')
<1> DEFINE k == currOftIndex
<1>1. k \in OftIdx /\ 0 .. k \subseteq OftIdx /\ oft \in [OftIdx -> Oft] /\ cur = oft[k] /\ k \in Nat
  BY CurIs DEF Holds, TypeOK, cur
<1>2. ASSUME NEW f, oft' = [oft EXCEPT ![k] = f], f.fcb.attr = cur.fcb.attr,
             f.dirName = cur.dirName, currOftIndex' = k
      PROVE  NoRoot(oft', currOftIndex')
  <2>1. \A i \in 1 .. k : i \in OftIdx
    BY <1>1
  <2> QED
    BY <2>1, <1>1, <1>2, NoRootUpdates
<1>3. CASE UNCHANGED <<oft, currOftIndex>>
  BY <1>3
<1>4. CASE Create
  <2>1. PICK f : f = [cur EXCEPT !.fcb.len = cur.fcb.len + 1, !.filePtr = 0]
    OBVIOUS
  <2>2. f.fcb.attr = cur.fcb.attr /\ f.dirName = cur.dirName
    <3>1. PICK l : l = cur.fcb.len + 1
      OBVIOUS
    <3>2. f = [cur EXCEPT !.fcb.len = l, !.filePtr = 0] /\ cur \in Oft
      BY <2>1, <3>1, <1>1
    <3> QED
      BY ONLY <3>2 DEF Oft, Fcb
  <2>3. oft' = [oft EXCEPT ![k] = f] /\ currOftIndex' = k
    BY <2>1, <1>1, <1>4 DEF Create, createfile
  <2> QED
    BY <2>2, <2>3, <1>2
<1>5. CASE Delete
  <2>1. PICK f : f = [cur EXCEPT !.fcb.len = cur.fcb.len - 1, !.filePtr = 0]
    OBVIOUS
  <2>2. f.fcb.attr = cur.fcb.attr /\ f.dirName = cur.dirName
    <3>1. PICK l : l = cur.fcb.len - 1
      OBVIOUS
    <3>2. f = [cur EXCEPT !.fcb.len = l, !.filePtr = 0] /\ cur \in Oft
      BY <2>1, <3>1, <1>1
    <3> QED
      BY ONLY <3>2 DEF Oft, Fcb
  <2>3. oft' = [oft EXCEPT ![k] = f] /\ currOftIndex' = k
    BY <2>1, <1>1, <1>5 DEF Delete, deleteFile
  <2> QED
    BY <2>2, <2>3, <1>2
<1>6. CASE Rewind
  <2>1. PICK f : f = [cur EXCEPT !.filePtr = 0]
    OBVIOUS
  <2>2. f.fcb.attr = cur.fcb.attr /\ f.dirName = cur.dirName
    BY <2>1, <1>1 DEF Oft, Fcb
  <2>3. oft' = [oft EXCEPT ![k] = f] /\ currOftIndex' = k
    BY <2>1, <1>1, <1>6 DEF Rewind
  <2> QED
    BY <2>2, <2>3, <1>2
<1>7. CASE Write
  <2>1. PICK rewrite \in BOOLEAN : my_write(rewrite)
    BY <1>7 DEF Write
  <2>2. PICK f : f = [cur EXCEPT !.filePtr = IF rewrite THEN 0 ELSE cur.fcb.len,
                                 !.fcb.len = IF rewrite THEN 0 ELSE @]
    OBVIOUS
  <2>3. f.fcb.attr = cur.fcb.attr /\ f.dirName = cur.dirName
    <3>1. PICK p, l : /\ p = IF rewrite THEN 0 ELSE cur.fcb.len
                      /\ l = IF rewrite THEN 0 ELSE cur.fcb.len
      OBVIOUS
    <3>2. f = [cur EXCEPT !.filePtr = p, !.fcb.len = l] /\ cur \in Oft
      BY <2>2, <3>1, <1>1
    <3> QED
      BY ONLY <3>2 DEF Oft, Fcb
  <2>4. oft' = [oft EXCEPT ![k] = f] /\ currOftIndex' = k
    BY <2>1, <2>2, <1>1 DEF my_write, writePreProcess
  <2> QED
    BY <2>3, <2>4, <1>2
<1>8. ASSUME mode = "text", NEW t \in Text, NEW n \in 0 .. FCB_NUM
      PROVE  LET h == do_write(t, n).file
             IN  h.fcb.attr = cur.fcb.attr /\ h.dirName = cur.dirName /\ h \in Oft
  <2>1. n \in Int
    BY SizeAssumption
  <2>2. do_write(t, n).file \in Oft
    BY <2>1, DoWriteType
  <2>3. [cur EXCEPT !.filePtr = @ + n, !.fcb.len = @ + n].fcb.attr = cur.fcb.attr
        /\ [cur EXCEPT !.filePtr = @ + n, !.fcb.len = @ + n].dirName = cur.dirName
    BY <1>1 DEF Oft, Fcb
  <2>4. \/ do_write(t, n).file = cur
        \/ do_write(t, n).file = [cur EXCEPT !.filePtr = @ + n, !.fcb.len = @ + n]
    BY DEF do_write
  <2> QED
    BY <2>2, <2>3, <2>4
<1>9. CASE Buffer
  <2>1. PICK t \in Text : WriteBuffer(t)
    BY <1>9 DEF Buffer
  <2>2. PICK f : f = do_write(t, FCB_NUM).file
    OBVIOUS
  <2>3. f.fcb.attr = cur.fcb.attr /\ f.dirName = cur.dirName
    <3>1. mode = "text" /\ FCB_NUM \in 0 .. FCB_NUM
      BY <2>1, SizeAssumption DEF WriteBuffer
    <3> QED
      BY <3>1, <2>2, <1>8
  <2>4. oft' = [oft EXCEPT ![k] = f] /\ currOftIndex' = k
    BY <2>1, <2>2 DEF WriteBuffer
  <2> QED
    BY <2>3, <2>4, <1>2
<1>10. CASE Rest
  <2>1. PICK t \in Text, n \in Rests : WriteRest(t, n)
    BY <1>10 DEF Rest
  <2>2. PICK h : h = do_write(t, n).file
    OBVIOUS
  <2>3. h.fcb.attr = cur.fcb.attr /\ h.dirName = cur.dirName /\ h \in Oft
    <3>1. mode = "text" /\ n \in 0 .. FCB_NUM
      BY <2>1, UseAssumption DEF WriteRest
    <3> QED
      BY <3>1, <2>2, <1>8
  <2>4. PICK f : f = [h EXCEPT !.isUpate = TRUE]
    OBVIOUS
  <2>5. f.fcb.attr = cur.fcb.attr /\ f.dirName = cur.dirName
    BY <2>3, <2>4 DEF Oft
  <2>6. oft' = [oft EXCEPT ![k] = f] /\ currOftIndex' = k
    BY <2>1, <2>2, <2>4 DEF WriteRest
  <2> QED
    BY <2>5, <2>6, <1>2
<1>11. CASE my_format
  <2>1. currOftIndex' = 0
    BY <1>11 DEF my_format
  <2> QED
    BY <2>1 DEF NoRoot
<1>12. CASE Close \/ CdCloseToRoot \/ CdUp
  <2>1. my_close /\ k # 0
    <3>1. ~judgeDir(cur.fcb) => k # 0
      BY CurIs DEF Holds
    <3> QED
      BY <3>1, <1>12 DEF Close, CdCloseToRoot, CdUp
  <2> QED
    BY <2>1, NoRootCloses
<1>13. CASE Open
  <2>1. PICK n \in FileNames : my_open(n)
    BY <1>13 DEF Open
  <2>2. PICK s : s = getIndexOfFcb(curDir, cur.fcb.len, n, FALSE)
    OBVIOUS
  <2>3. /\ s # NOT_FOUND /\ getNextOft # NOT_FOUND
        /\ oft' = [oft EXCEPT ![getNextOft] = OpenedEntry(s, n)] /\ currOftIndex' = getNextOft
    BY <2>1, <2>2 DEF my_open
  <2>4. ~judgeDir(curDir[s])
    <3> DEFINE S == {r \in Scanned(curDir, cur.fcb.len) :
                       InUse(curDir[r]) /\ fileNameMatch(curDir[r], n, FALSE)}
    <3>1. S \in SUBSET Nat
      BY SlotsAreNumbers DEF Scanned
    <3>2. s = FirstOf(S)
      BY <2>2 DEF getIndexOfFcb
    <3> HIDE DEF S
    <3>3. s \in S
      BY <3>1, <3>2, <2>3, FirstOfInSet
    <3> QED
      BY <3>3 DEF S, fileNameMatch
  <2> QED
    BY <2>3, <2>4, NoRootOpens
<1>14. CASE CdDown
  <2>1. dirname # "root"
    BY DEF dirname
  <2>2. /\ getNextOft # NOT_FOUND /\ currOftIndex' = getNextOft
        /\ oft' = [oft EXCEPT ![getNextOft] = OpenedEntry(Subdir, dirname)]
    BY <1>14 DEF CdDown
  <2> QED
    BY <2>1, <2>2, NoRootOpens
<1>15. CASE Ctrl \/ ChangeDir \/ CdStay \/ CdRetry \/ CdEnd \/ UNCHANGED vars
  BY <1>15, <1>3 DEF Ctrl, my_ctrl, ChangeDir, my_cd, CdStay, CdRetry, CdEnd, vars
<1> QED
  BY <1>4, <1>5, <1>6, <1>7, <1>9, <1>10, <1>11, <1>12, <1>13, <1>14, <1>15 DEF Next, CdStep

(* The dirName of an open entry is made of the names of those below it.    *)
LEMMA PathNames ==
  ASSUME TypeOK, NEW D, Holds(D), NEW i \in 0 .. currOftIndex
  PROVE  /\ oft[i].dirName \in Seq(Component) /\ Len(oft[i].dirName) = i + 1
         /\ oft[i].dirName[1] = "root"
         /\ \A j \in 0 .. i : oft[i].dirName[j + 1] = oft[j].dirName[j + 1]
         /\ i # 0 => /\ oft[i].dirName[i + 1] \in Names
                     /\ Stored[oft[i].dirName[i + 1]] = oft[i].fcb.name
<1> DEFINE k == currOftIndex
           S == {m \in 0 .. k : \E j \in 0 .. m : oft[m].dirName[j + 1] # oft[j].dirName[j + 1]}
<1>1. k \in Nat /\ 0 .. k \subseteq OftIdx /\ oft \in [OftIdx -> Oft] /\ 0 \in 0 .. k
  BY CurIs DEF Holds, TypeOK
<1>2. PathSound(disk, D, oft, k)
  BY DEF Holds
<1>3. ASSUME NEW m \in 0 .. k
      PROVE  oft[m].dirName \in Seq(Component) /\ Len(oft[m].dirName) = m + 1
  BY <1>1, <1>2 DEF PathSound, Oft
<1>4. ASSUME NEW m \in 0 .. k, m # 0
      PROVE  /\ m - 1 \in 0 .. k
             /\ \A j \in 0 .. m - 1 : oft[m].dirName[j + 1] = oft[m - 1].dirName[j + 1]
             /\ oft[m].dirName[m + 1] \in Names
             /\ Stored[oft[m].dirName[m + 1]] = oft[m].fcb.name
  <2>1. m \in 1 .. k /\ m - 1 \in 0 .. k
    BY <1>1, <1>4
  <2>2. PICK n \in Names : Stored[n] = oft[m].fcb.name /\ oft[m].dirName = Append(oft[m - 1].dirName, n)
    BY <2>1, <1>2 DEF PathSound
  <2>3. PICK a : a = oft[m - 1].dirName
    OBVIOUS
  <2>4. a \in Seq(Component) /\ Len(a) = m
    BY <2>1, <2>3, <1>3
  <2>5. Append(a, n)[m + 1] = n /\ \A j \in 0 .. m - 1 : Append(a, n)[j + 1] = a[j + 1]
    BY <2>1, <2>4
  <2> QED
    BY <2>1, <2>2, <2>3, <2>5
<1>5. S = {}
  <2>1. S \in SUBSET (0 .. k) /\ 0 \notin S
    BY <1>1
  <2>2. ASSUME NEW m \in S, m # 0 PROVE m - 1 \in S
    <3>1. PICK j \in 0 .. m : oft[m].dirName[j + 1] # oft[j].dirName[j + 1]
      OBVIOUS
    <3>2. m \in 0 .. k /\ j # m
      BY <3>1
    <3>3. j \in 0 .. m - 1
      BY <3>2
    <3>4. m - 1 \in 0 .. k /\ oft[m].dirName[j + 1] = oft[m - 1].dirName[j + 1]
      BY <2>2, <3>2, <3>3, <1>4
    <3> QED
      BY <3>1, <3>3, <3>4
  <2> HIDE DEF S
  <2> QED
    BY <2>1, <2>2, <1>1, NoFirstPosition
<1>6. \A j \in 0 .. i : oft[i].dirName[j + 1] = oft[j].dirName[j + 1]
  BY <1>5
<1>7. oft[0].dirName[1] = "root"
  BY <1>2 DEF PathSound
<1>8. oft[i].dirName[1] = "root"
  <2>1. 0 \in 0 .. i /\ 0 + 1 = 1
    BY <1>1
  <2>2. oft[i].dirName[0 + 1] = oft[0].dirName[0 + 1]
    BY <2>1, <1>6
  <2> QED
    BY <2>1, <2>2, <1>7
<1> QED
  BY <1>3, <1>4, <1>6, <1>8

(* The dirName of a directory that is open leads to it.                    *)
LEMMA PathLeads ==
  ASSUME TypeOK, NEW D, Holds(D), GoodUse, NoRoot(oft, currOftIndex), judgeDir(cur.fcb)
  PROVE  Leads(disk, cur.dirName)
<1> DEFINE k == currOftIndex
           t == [j \in 1 .. k + 1 |-> oft[j - 1].fcb.s_block]
<1>1. k \in Nat /\ k \in 0 .. k /\ k + 1 <= OFT_MAX_LEN /\ OFT_MAX_LEN \in Nat /\ cur = oft[k]
  <2>1. k \in Nat /\ k \in OftIdx
    BY CurIs DEF Holds
  <2> QED
    BY <2>1, SizeAssumption DEF OftIdx, cur
<1>2. TreeSound(fat1, disk, D) /\ PathSound(disk, D, oft, k)
  BY DEF Holds
<1>3. \A i \in 0 .. k : judgeDir(oft[i].fcb)
  <2> SUFFICES ASSUME NEW i \in 0 .. k, i # k PROVE judgeDir(oft[i].fcb)
    BY <1>1
  <2>1. i + 1 \in 1 .. k /\ (i + 1) - 1 = i
    BY <1>1
  <2> QED
    BY <2>1, <1>2 DEF PathSound
<1>4. \A i \in 0 .. k : oft[i].fcb.s_block \in D /\ oft[i].fcb.s_block \in Block
  BY <1>2, <1>3, PathIs, TreeIs
<1>5. t \in [1 .. k + 1 -> Block] /\ t[1] = Root
  <2>1. \A j \in 1 .. k + 1 : j - 1 \in 0 .. k
    BY <1>1
  <2>2. 0 \in 0 .. k /\ 1 \in 1 .. k + 1 /\ 1 - 1 = 0
    BY <1>1
  <2>3. oft[0].fcb.s_block = Root
    BY <2>2, <1>2, PathIs
  <2> QED
    BY <2>1, <2>2, <2>3, <1>4
<1>6. Len(cur.dirName) = k + 1 /\ cur.dirName[1] = "root"
  BY <1>1, PathNames
<1>7. ASSUME NEW j \in 2 .. k + 1
      PROVE  /\ cur.dirName[j] \in Names \ {"root"}
             /\ \E s \in Matching(disk, t[j - 1], cur.dirName[j], TRUE) : disk[t[j - 1]][s].s_block = t[j]
  <2>1. PICK i : i = j - 1
    OBVIOUS
  <2>2. /\ i \in 1 .. k /\ i \in 0 .. k /\ i # 0 /\ j = i + 1 /\ i - 1 \in 0 .. k
        /\ j \in 1 .. k + 1 /\ i \in 1 .. k + 1
    BY <2>1, <1>1
  <2>3. cur.dirName[j] = oft[i].dirName[i + 1]
    BY <2>2, <1>1, PathNames
  <2>4. cur.dirName[j] \in Names /\ Stored[cur.dirName[j]] = oft[i].fcb.name
    BY <2>2, <2>3, PathNames
  <2>5. cur.dirName[j] = oft[i].fcb.name
    BY <2>4 DEF GoodUse
  <2>6. cur.dirName[j] # "root"
    BY <2>2, <2>3, <1>3 DEF NoRoot
  <2>7. t[j - 1] = oft[i - 1].fcb.s_block /\ t[j] = oft[i].fcb.s_block
    BY <2>1, <2>2
  <2>8. PICK s, b : s = oft[i].fdEntryNo /\ b = oft[i].pdfBlockNo
    OBVIOUS
  <2>9. /\ b = oft[i - 1].fcb.s_block /\ b \in D /\ s \in UsedSlots(disk[b]) /\ s \in Slot
        /\ disk[b][s] = oft[i].fcb
    BY <2>2, <2>8, <1>2, PathIs
  <2>10. disk[b][s] \notin Texts
    BY <2>9, <1>2, TreeIs, DirBlockIs
  <2>11. judgeDir(disk[b][s]) = TRUE
    BY <2>2, <2>9, <1>3 DEF judgeDir
  <2>12. s \in Matching(disk, b, cur.dirName[j], TRUE)
    BY <2>5, <2>9, <2>10, <2>11 DEF Matching, fileNameMatch
  <2> QED
    BY <2>4, <2>6, <2>7, <2>9, <2>12
<1> HIDE DEF t
<1>8. Trail(disk, cur.dirName, t)
  <2>1. PICK q, n : q = cur.dirName /\ n = k + 1
    OBVIOUS
  <2>2. /\ Len(q) = n /\ n \in 1 .. OFT_MAX_LEN /\ t \in [1 .. n -> Block]
        /\ q[1] = "root" /\ t[1] = Root
    BY <2>1, <1>1, <1>5, <1>6
  <2>3. \A j \in 2 .. n :
          /\ q[j] \in Names \ {"root"}
          /\ \E s \in Matching(disk, t[j - 1], q[j], TRUE) : disk[t[j - 1]][s].s_block = t[j]
    BY <2>1, <1>7
  <2>4. Trail(disk, q, t)
    BY ONLY <2>2, <2>3 DEF Trail
  <2> QED
    BY <2>1, <2>4
<1> QED
  BY <1>8 DEF Leads

(* At a component "root", my_cd stays in the root once it is there.        *)
LEMMA DotIsFound ==
  ASSUME TypeOK, NEW D, Holds(D), InDir, Head(cd.path) = "root"
  PROVE  currOftIndex = 0 /\ SubdirName = "."
<1>1. currOftIndex = 0 /\ judgeDir(cur.fcb) /\ dirname = "."
  BY DEF InDir, dirname
<1>2. PICK b : DirBlock(fat1, disk, b) /\ curDir = disk[b]
  BY <1>1, CurIs DEF Holds
<1> DEFINE S == {s \in {0, 1} \cup Scanned(curDir, cur.fcb.len) :
                   InUse(curDir[s]) /\ fileNameMatch(curDir[s], ".", TRUE)}
<1>3. S \in SUBSET Nat
  <2>1. Scanned(curDir, cur.fcb.len) \subseteq Nat /\ {0, 1} \subseteq Nat
    BY SlotsAreNumbers DEF Scanned
  <2> QED
    BY <2>1, Zenon
<1>4. 0 \in S
  <2>1. curDir[0] \notin Texts /\ InUse(curDir[0])
    BY <1>2, DirBlockIs DEF DirBlock
  <2>2. curDir[0].name = "." /\ judgeDir(curDir[0]) = TRUE
    BY <1>2 DEF DirBlock, judgeDir
  <2> QED
    BY <2>1, <2>2 DEF fileNameMatch
<1>5. Subdir = FirstOf(S)
  BY <1>1 DEF Subdir, IndexOfSubdir
<1> HIDE DEF S
<1>6. Subdir # NOT_FOUND /\ Subdir \in S
  BY <1>3, <1>4, <1>5, FirstOfInSet, FirstOfNone
<1>7. curDir[Subdir].name = "."
  BY <1>6 DEF S, fileNameMatch
<1> QED
  BY <1>1, <1>6, <1>7 DEF SubdirName

(* On its way along a path that leads somewhere, my_cd finds the next      *)
(* directory, and has an entry of the table for it.                        *)
LEMMA NextIsFound ==
  ASSUME TypeOK, NEW D, Holds(D), InDir, NEW q, NEW t, Trail(disk, q, t),
         Between(q, t, cd.path, currOftIndex, cur)
  PROVE  /\ currOftIndex + 2 \in 2 .. Len(q)
         /\ dirname = q[currOftIndex + 2] /\ Head(cd.path) # "root"
         /\ SubdirName \notin {"", ".", ".."}
         /\ curDir[Subdir].s_block = t[currOftIndex + 2] /\ judgeDir(curDir[Subdir])
         /\ getNextOft # NOT_FOUND
<1> DEFINE k == currOftIndex
<1>1. TreeSound(fat1, disk, D) /\ PathSound(disk, D, oft, k) /\ judgeDir(cur.fcb) /\ k \in Nat
  BY CurIs DEF Holds, InDir
<1>2. cd.path \in Seq(Component) /\ cd.path # <<>>
  BY DEF TypeOK, Cd, InDir
<1>3. /\ Len(q) \in Nat /\ Len(q) <= OFT_MAX_LEN /\ OFT_MAX_LEN \in Nat
      /\ Len(cd.path) = Len(q) - (k + 1) /\ cur.fcb.s_block = t[k + 1]
      /\ \A i \in 1 .. Len(cd.path) : cd.path[i] = q[k + 1 + i]
  BY SizeAssumption DEF Trail, Between
<1>4. 1 \in 1 .. Len(cd.path) /\ Head(cd.path) = cd.path[1]
  BY <1>2
<1>5. k + 2 \in 2 .. Len(q) /\ Head(cd.path) = q[k + 2] /\ (k + 2) - 1 = k + 1
  <2>1. cd.path[1] = q[k + 1 + 1] /\ k + 1 + 1 = k + 2
    BY <1>1, <1>3, <1>4
  <2> QED
    BY <2>1, <1>1, <1>3, <1>4
<1>6. PICK n, b : n = q[k + 2] /\ b = t[k + 1]
  OBVIOUS
<1>7. n \in Names \ {"root"} /\ \E s \in Matching(disk, b, n, TRUE) : disk[b][s].s_block = t[k + 2]
  BY <1>5, <1>6 DEF Trail
<1>8. n \notin {"", ".", ".."} /\ dirname = n
  BY <1>5, <1>6, <1>7, NameAssumption DEF dirname
<1>9. /\ b \in D /\ DirBlock(fat1, disk, b) /\ curDir = disk[b]
      /\ cur.fcb.len = Cardinality(UsedSlots(disk[b]))
  BY <1>1, <1>3, <1>6, CurIs
<1>10. Subdir = FirstOf(Matching(disk, b, n, TRUE))
  <2>1. IndexOfSubdir(disk[b], Cardinality(UsedSlots(disk[b])), n) = FirstOf(Matching(disk, b, n, TRUE))
    BY <1>8, <1>9, SubdirFindsEntries
  <2> QED
    BY <2>1, <1>8, <1>9 DEF Subdir
<1>11. PICK s \in Matching(disk, b, n, TRUE) : disk[b][s].s_block = t[k + 2]
  BY <1>7
<1>12. Subdir # NOT_FOUND /\ Subdir \in Matching(disk, b, n, TRUE)
  BY <1>10, <1>11, MatchingIs
<1>13. Subdir = s
  BY <1>1, <1>9, <1>11, <1>12 DEF TreeSound, Matching, fileNameMatch
<1>14. SubdirName = n /\ judgeDir(curDir[Subdir])
  BY <1>9, <1>12 DEF SubdirName, Matching, fileNameMatch
<1>15. getNextOft # NOT_FOUND
  <2> DEFINE F == {i \in OftIdx : ~oft[i].isUse}
  <2>1. F \in SUBSET Nat /\ getNextOft = FirstOf(F)
    BY SlotsAreNumbers DEF getNextOft
  <2>2. k + 1 \in OftIdx /\ k + 1 > k
    BY <1>1, <1>3, <1>5 DEF OftIdx
  <2>3. k + 1 \in F
    BY <2>2, <1>1 DEF PathSound, BlankOft
  <2> HIDE DEF F
  <2> QED
    BY <2>1, <2>3, FirstOfNone
<1> QED
  BY <1>5, <1>6, <1>7, <1>8, <1>9, <1>11, <1>13, <1>14, <1>15

(* What is left of a path after its first component.                       *)
LEMMA TailIs ==
  ASSUME NEW S, NEW p \in Seq(S), p # <<>>
  PROVE  /\ Len(p) \in Nat /\ Len(Tail(p)) = Len(p) - 1
         /\ \A i \in 1 .. Len(Tail(p)) : Tail(p)[i] = p[i + 1]
OBVIOUS

(* my_cd does not fail on its way along a path that leads somewhere. *)
LEMMA OnWayGoes ==
  ASSUME TypeOK, NEW D, Holds(D), NEW q, OnWay(disk, q, cd.path, currOftIndex, cur),
         CdStep, mode' = "cd"
  PROVE  ~CdRetry /\ OnWay(disk', q, cd'.path, currOftIndex', cur')
<1> DEFINE k == currOftIndex
<1>1. PICK t : Trail(disk, q, t) /\ (cd.path = q \/ Between(q, t, cd.path, k, cur))
  BY DEF OnWay
<1>2. TreeSound(fat1, disk, D) /\ PathSound(disk, D, oft, k) /\ k \in Nat /\ k \in OftIdx
  BY CurIs DEF Holds
<1>3. cd.path \in Seq(Component) /\ cd \in Cd
  BY DEF TypeOK, Cd
<1>4. Len(q) \in Nat /\ Len(q) >= 1 /\ q[1] = "root" /\ t[1] = Root
  BY <1>1, SizeAssumption DEF Trail
<1>5. ~CdEnd
  BY DEF CdEnd
<1>6. disk' = disk
  BY CloseShrinks, <1>2, <1>5 DEF CdStep, CdCloseToRoot, CdStay, CdUp, CdDown, CdRetry, InDir
<1>7. ASSUME cd'.path = q \/ Between(q, t, cd'.path, currOftIndex', cur')
      PROVE  OnWay(disk', q, cd'.path, currOftIndex', cur')
  BY <1>1, <1>6, <1>7 DEF OnWay
<1>8. NextComponent => cd'.path = Tail(cd.path)
  BY <1>3 DEF NextComponent, Cd
<1>9. CASE cd.path = q
  <2>1. cd.path # <<>> /\ Head(cd.path) = "root"
    BY <1>3, <1>4, <1>9
  <2>2. InDir => k = 0 /\ SubdirName = "."
    BY <2>1, DotIsFound
  <2>3. CdCloseToRoot \/ CdStay
    BY <2>2, <1>5 DEF CdStep, CdUp, CdDown, CdRetry
  <2>4. CASE CdCloseToRoot
    BY <2>2, <2>4, <1>7, <1>9 DEF CdCloseToRoot, CdRetry
  <2>5. CASE CdStay
    <3>1. k = 0 /\ judgeDir(cur.fcb) /\ UNCHANGED <<oft, currOftIndex>> /\ cd'.path = Tail(cd.path)
      BY <2>2, <2>5, <1>8 DEF CdStay, InDir
    <3>2. cur' = cur
      BY <3>1 DEF cur
    <3>3. cur.fcb.s_block = Root /\ cur.dirName = <<"root">>
      BY <3>1, <1>2, PathIs DEF cur, PathSound
    <3>4. Len(cd'.path) = Len(q) - 1 /\ \A i \in 1 .. Len(cd'.path) : cd'.path[i] = q[i + 1]
      BY <3>1, <2>1, <1>3, <1>9, TailIs
    <3>5. PICK p, e : p = cd'.path /\ e = cur
      OBVIOUS
    <3>6. Between(q, t, p, 0, e)
      <4>1. Len(e.dirName) = 1 /\ e.dirName[1] = "root"
        BY <3>3, <3>5
      <4>2. \A i \in 1 .. Len(p) : p[i] = q[0 + 1 + i]
        BY <3>4, <3>5
      <4> QED
        BY <4>1, <4>2, <3>1, <3>3, <3>4, <3>5, <1>4 DEF Between
    <3> QED
      BY <3>1, <3>2, <3>5, <3>6, <2>2, <2>5, <1>7 DEF CdStay, CdRetry
  <2> QED
    BY <2>3, <2>4, <2>5
<1>10. CASE Between(q, t, cd.path, k, cur)
  <2>1. ASSUME InDir
        PROVE  /\ k + 2 \in 2 .. Len(q)
               /\ dirname = q[k + 2] /\ Head(cd.path) # "root"
               /\ SubdirName \notin {"", ".", ".."}
               /\ curDir[Subdir].s_block = t[k + 2] /\ judgeDir(curDir[Subdir])
               /\ getNextOft # NOT_FOUND
    BY <2>1, <1>1, <1>10, NextIsFound
  <2>2. ~CdCloseToRoot
    <3> SUFFICES ASSUME CdCloseToRoot PROVE FALSE
      OBVIOUS
    <3>1. cd.path # <<>> /\ Head(cd.path) = "root"
      BY DEF CdCloseToRoot, AtComponent
    <3>2. /\ Len(cd.path) = Len(q) - (k + 1) /\ \A i \in 1 .. Len(cd.path) : cd.path[i] = q[k + 1 + i]
      BY <1>10 DEF Between
    <3>3. 1 \in 1 .. Len(cd.path) /\ Head(cd.path) = cd.path[1]
      BY <3>1, <1>3
    <3>4. q[k + 2] = "root" /\ k + 2 \in 2 .. Len(q)
      BY <3>1, <3>2, <3>3, <1>2, <1>4
    <3> QED
      BY <3>4, <1>1 DEF Trail
  <2>3. CdDown /\ ~CdRetry /\ InDir
    BY <2>1, <2>2, <1>5 DEF CdStep, CdStay, CdUp, CdDown, CdRetry
  <2>4. /\ oft' = [oft EXCEPT ![k + 1] = OpenedEntry(Subdir, dirname)] /\ currOftIndex' = k + 1
        /\ k + 1 \in OftIdx /\ cd'.path = Tail(cd.path) /\ cd.path # <<>>
    <3>1. getNextOft = k + 1 /\ k + 1 \in OftIdx
      BY <2>1, <2>3, <1>2, NextOftIsAbove
    <3> QED
      BY <3>1, <2>3, <1>8 DEF CdDown, InDir
  <2>5. cur' = OpenedEntry(Subdir, dirname)
    BY <2>4 DEF cur, TypeOK
  <2>6. PICK p, e, n, a, pp : p = cd'.path /\ e = cur' /\ n = q[k + 2] /\ a = cur.dirName /\ pp = cd.path
    OBVIOUS
  <2>7. /\ e.fcb = curDir[Subdir] /\ e.dirName = Append(a, n)
    BY <2>1, <2>3, <2>5, <2>6 DEF OpenedEntry
  <2>8. /\ Len(pp) = Len(q) - (k + 1) /\ \A i \in 1 .. Len(pp) : pp[i] = q[k + 1 + i]
        /\ Len(a) = k + 1 /\ \A i \in 1 .. k + 1 : a[i] = q[i]
    BY <2>6, <1>10 DEF Between
  <2>9. a \in Seq(Component) /\ pp \in Seq(Component) /\ pp # <<>> /\ p = Tail(pp)
    BY <2>4, <2>6, <1>3, CurType DEF Oft
  <2>10. Len(p) = Len(q) - (k + 2) /\ \A i \in 1 .. Len(p) : p[i] = q[k + 2 + i]
    <3>1. /\ Len(p) = Len(pp) - 1 /\ Len(pp) \in Nat
          /\ \A i \in 1 .. Len(p) : p[i] = pp[i + 1]
      BY <2>9, TailIs
    <3>2. ASSUME NEW i \in 1 .. Len(p) PROVE p[i] = q[k + 2 + i]
      <4>1. i + 1 \in 1 .. Len(pp) /\ k + 1 + (i + 1) = k + 2 + i
        BY <3>1, <1>2
      <4> QED
        BY <4>1, <3>1, <2>8
    <3> QED
      BY <3>1, <3>2, <2>8, <1>2, <1>4
  <2>11. Len(e.dirName) = k + 2 /\ \A i \in 1 .. k + 2 : e.dirName[i] = q[i]
    <3>1. /\ Len(Append(a, n)) = k + 2 /\ Append(a, n)[k + 2] = n
          /\ \A i \in 1 .. k + 1 : Append(a, n)[i] = a[i]
      BY <2>8, <2>9, <1>2
    <3>2. \A i \in 1 .. k + 2 : i = k + 2 \/ i \in 1 .. k + 1
      BY <1>2
    <3> QED
      BY <3>1, <3>2, <2>6, <2>7, <2>8
  <2>12. PICK m : m = k + 1
    OBVIOUS
  <2>13. Between(q, t, p, m, e)
    <3>1. m + 1 = k + 2 /\ m + 1 <= Len(q)
      <4>1. k + 2 \in 2 .. Len(q)
        BY <2>1, <2>3
      <4>2. PICK j, n2 : j = k /\ n2 = Len(q)
        OBVIOUS
      <4>3. j \in Nat /\ n2 \in Nat /\ j + 2 \in 2 .. n2 /\ m = j + 1
        BY <4>1, <4>2, <2>12, <1>2, <1>4
      <4>4. m + 1 = j + 2 /\ m + 1 <= n2
        BY ONLY <4>3
      <4> QED
        BY <4>2, <4>4
    <3> QED
      BY <3>1, <2>1, <2>3, <2>7, <2>10, <2>11 DEF Between
  <2> QED
    BY <2>3, <2>4, <2>6, <2>12, <2>13, <1>7
<1> QED
  BY <1>1, <1>9, <1>10

(* No step of my_cd changes the disk. *)
LEMMA CdKeepsDisk ==
  ASSUME TypeOK, NEW D, Holds(D), CdStep
  PROVE  disk' = disk
<1>1. TreeSound(fat1, disk, D) /\ PathSound(disk, D, oft, currOftIndex)
  BY DEF Holds
<1> QED
  BY <1>1, CloseShrinks DEF CdStep, CdCloseToRoot, CdStay, CdUp, CdDown, CdRetry, CdEnd

(* A path that leads somewhere begins with the root: the way along it can  *)
(* be gone from anywhere.                                                  *)
LEMMA WayBegins ==
  ASSUME NEW d, NEW q, Leads(d, q), NEW k, NEW e
  PROVE  OnWay(d, q, q, k, e)
BY DEF Leads, OnWay

(* Every step of my_cd keeps what is known of its locals.                  *)
LEMMA CdStepSound ==
  ASSUME TypeOK, NEW D, Holds(D), GoodUse, CdInv, CdStep
  PROVE  CdSound(mode', cd', disk', currOftIndex', cur')
<1>1. /\ NoRoot(oft, currOftIndex) /\ CdSound(mode, cd, disk, currOftIndex, cur)
      /\ disk' = disk /\ mode = "cd" /\ cd \in Cd
  BY CdKeepsDisk DEF CdInv, CdStep, CdCloseToRoot, AtComponent, CdStay, CdUp, CdDown, CdRetry,
                     CdEnd, InDir, TypeOK
<1>2. CASE CdEnd
  BY <1>2 DEF CdEnd, NoCd, CdSound
<1>3. CASE CdRetry
  <2>1. /\ cd'.path = cd.dirname /\ cd'.dirname = cur.dirName /\ cd'.depth = cd.depth + 1
        /\ cd'.home = cd.home /\ cd'.homeIsDir = cd.homeIsDir /\ mode' = "cd"
        /\ judgeDir(cur.fcb)
    BY <1>1, <1>3 DEF CdRetry, InDir, Cd
  <2>2. CASE cd.depth = 0
    <3>1. cd.dirname = cd.home /\ (cd.homeIsDir => Leads(disk, cd.home))
      BY <2>2, <1>1 DEF CdSound
    <3>2. Leads(disk, cur.dirName)
      BY <2>1, <1>1, PathLeads
    <3>3. cd.homeIsDir => OnWay(disk', cd'.home, cd'.path, currOftIndex', cur')
      BY <3>1, <2>1, <1>1, WayBegins
    <3>4. cd'.depth = 1
      BY <2>1, <2>2
    <3> QED
      BY <3>2, <3>3, <3>4, <2>1, <1>1 DEF CdSound
  <2>3. CASE cd.depth = 1
    <3>1. ~cd.homeIsDir
      <4>1. cd.homeIsDir => OnWay(disk, cd.home, cd.path, currOftIndex, cur)
        BY <2>3, <1>1 DEF CdSound
      <4> QED
        BY <4>1, <2>1, <1>3, OnWayGoes
    <3>2. Leads(disk, cd.dirname)
      BY <3>1, <2>3, <1>1 DEF CdSound
    <3>3. OnWay(disk', cd.dirname, cd'.path, currOftIndex', cur')
      BY <3>2, <2>1, <1>1, WayBegins
    <3>4. cd'.depth = 2
      BY <2>1, <2>3
    <3> QED
      BY <3>1, <3>3, <3>4, <2>1 DEF CdSound
  <2>4. CASE cd.depth = 2
    <3>1. PICK q : OnWay(disk, q, cd.path, currOftIndex, cur)
      BY <2>4, <1>1 DEF CdSound
    <3> QED
      BY <3>1, <2>1, <1>3, OnWayGoes
  <2> QED
    BY <2>2, <2>3, <2>4, <1>1 DEF CdSound
<1>4. CASE ~CdEnd /\ ~CdRetry
  <2>1. /\ cd'.dirname = cd.dirname /\ cd'.depth = cd.depth
        /\ cd'.home = cd.home /\ cd'.homeIsDir = cd.homeIsDir /\ mode' = "cd"
    BY <1>1, <1>4 DEF CdStep, CdCloseToRoot, CdStay, CdUp, CdDown, NextComponent, Cd
  <2>2. \A q : OnWay(disk, q, cd.path, currOftIndex, cur) =>
                 OnWay(disk', q, cd'.path, currOftIndex', cur')
    BY <2>1, OnWayGoes
  <2> QED
    BY <2>1, <2>2, <1>1 DEF CdSound
<1> QED
  BY <1>2, <1>3, <1>4

(* So does every other step, my_cd's first among them. *)
LEMMA NextCdInv ==
  ASSUME TypeOK, NEW D, Holds(D), GoodUse, CdInv, [Next]_vars
  PROVE  CdInv'
<1>1. NoRoot(oft', currOftIndex')
  BY NoRootNext DEF CdInv
<1>2. CdSound(mode', cd', disk', currOftIndex', cur')
  <2>1. CdSound(mode, cd, disk, currOftIndex, cur) /\ NoRoot(oft, currOftIndex)
    BY DEF CdInv
  <2>2. CASE CdStep
    BY <2>2, CdStepSound
  <2>3. CASE ChangeDir
    <3>1. PICK p \in CdPaths : my_cd(p)
      BY <2>3 DEF ChangeDir
    <3>2. /\ cd'.dirname = cur.dirName /\ cd'.home = cur.dirName /\ cd'.depth = 0
          /\ cd'.homeIsDir = judgeDir(cur.fcb) /\ disk' = disk /\ mode' = "cd"
      BY <3>1 DEF my_cd
    <3>3. judgeDir(cur.fcb) => Leads(disk, cur.dirName)
      BY <2>1, PathLeads
    <3> QED
      BY <3>2, <3>3 DEF CdSound
  <2>4. CASE UNCHANGED vars
    BY <2>1, <2>4 DEF vars, cur
  <2>5. CASE Create \/ Delete \/ Ctrl \/ Open \/ Close \/ Rewind \/ my_format \/ Write \/ Buffer \/ Rest
    <3>1. mode # "cd" /\ mode' # "cd" /\ cd' = cd
      BY <2>5 DEF Create, createfile, Delete, deleteFile, Ctrl, my_ctrl, Open, my_open, Close, Rewind,
                  my_format, Write, my_write, Buffer, WriteBuffer, Rest, WriteRest
    <3> QED
      BY <3>1, <2>1 DEF CdSound
  <2> QED
    BY <2>2, <2>3, <2>4, <2>5 DEF Next
<1> QED
  BY <1>1, <1>2 DEF CdInv

(* When the way home is gone, that is where it ends.                       *)
LEMMA CdInvMeans ==
  ASSUME TypeOK, CdInv
  PROVE  CdLands
<1>1. CdSound(mode, cd, disk, currOftIndex, cur) /\ cd \in Cd /\ cur \in Oft
  BY CurType DEF CdInv, TypeOK
<1>2. ASSUME mode = "cd", cd.depth > 0, cd.homeIsDir
      PROVE  cd.depth = 1 /\ (cd.path = <<>> => cur.dirName = cd.home)
  <2>1. cd.depth = 1 /\ OnWay(disk, cd.home, cd.path, currOftIndex, cur)
    BY <1>1, <1>2 DEF CdSound
  <2>2. ASSUME cd.path = <<>> PROVE cur.dirName = cd.home
    <3>1. PICK q, a : q = cd.home /\ a = cur.dirName
      OBVIOUS
    <3>2. PICK t : Trail(disk, q, t) /\ (cd.path = q \/ Between(q, t, cd.path, currOftIndex, cur))
      BY <2>1, <3>1 DEF OnWay
    <3>3. q \in Seq(Component) /\ a \in Seq(Component)
      BY <1>1, <3>1 DEF Cd, Oft
    <3>4. Len(q) >= 1
      BY <3>2, <3>3, SizeAssumption DEF Trail
    <3>5. Between(q, t, <<>>, currOftIndex, cur)
      BY <3>2, <3>3, <3>4, <2>2
    <3>6. /\ 0 = Len(q) - (currOftIndex + 1) /\ Len(a) = currOftIndex + 1
          /\ \A i \in 1 .. currOftIndex + 1 : a[i] = q[i]
      BY <3>1, <3>5 DEF Between
    <3>7. currOftIndex \in Int
      BY SlotsAreNumbers DEF TypeOK
    <3>8. Len(a) = Len(q) /\ \A i \in 1 .. Len(a) : a[i] = q[i]
      BY <3>3, <3>6, <3>7
    <3>9. a = q
      BY ONLY <3>3, <3>8
    <3> QED
      BY <3>1, <3>9
  <2> QED
    BY <2>1, <2>2
<1>3. CdDepth
  BY <1>1 DEF CdSound, CdDepth
<1> QED
  BY <1>2, <1>3 DEF CdLands, CdReturns

(* A my_cd that fails returns to the directory it was typed in, whatever   *)
(* its path has led through and however full the table was, and calls      *)
(* itself once; typed in a file, twice.  The way back cannot fail: my_cd   *)
(* removes nothing, and the table had room for it.                         *)
THEOREM CdAlwaysLands ==
  ASSUME GoodUse
  PROVE  Spec /\ []StrayMisses => []CdLands
<1>1. Init => CdInv
  BY DEF Init, NoCd, CdInv, NoRoot, CdSound
<1>2. FsInv /\ CdInv /\ [Next]_vars => CdInv'
  BY NextCdInv DEF FsInv
<1>3. FsInv /\ CdInv => CdLands
  BY CdInvMeans DEF FsInv
<1> QED
  BY <1>1, <1>2, <1>3, FsInvAlways, PTL DEF Spec
-----------------------------------------------------------------------------
(* Which steps lose blocks. *)

(* Dirs, of the disk d. *)
DirsOf(d) ==
  LET sub(b) == {s \in EntrySlot : /\ d[b][s] \notin Texts
                                   /\ d[b][s].use /\ judgeDir(d[b][s])}
      edges  == UNION {{<<b, d[b][s].s_block>> : s \in sub(b)} : b \in Block}
  IN  Reachable(Root, edges, Block)

(* Orphans, of the table fat and the disk d. *)
OrphansOf(fat, d) ==
  {x \in Block \ {Root} : fat[x] # FREE /\ \A b \in DirsOf(d) : \A s \in UsedSlots(d[b]) :
                                             x \notin Owned(fat, d[b][s])}

(* DirsAreSound and DirsAreClosed, and that there is no smaller such set.  *)
LEMMA DirsOfIs ==
  ASSUME NEW fat, NEW d, NEW D, TreeSound(fat, d, D)
  PROVE  /\ DirsOf(d) \subseteq D /\ Root \in DirsOf(d)
         /\ \A b \in DirsOf(d) : \A s \in UsedSlots(d[b]) :
              judgeDir(d[b][s]) => d[b][s].s_block \in DirsOf(d)
         /\ \A S \in SUBSET D :
              /\ Root \in S
              /\ \A b \in S : \A s \in UsedSlots(d[b]) : judgeDir(d[b][s]) => d[b][s].s_block \in S
              => DirsOf(d) \subseteq S
<1> DEFINE sub(b) == {s \in EntrySlot : /\ d[b][s] \notin Texts
                                        /\ d[b][s].use /\ judgeDir(d[b][s])}
           edges  == UNION {{<<b, d[b][s].s_block>> : s \in sub(b)} : b \in Block}
<1>1. DirsOf(d) = Reachable(Root, edges, Block)
  BY DEF DirsOf
<1>2. D \in SUBSET Block /\ Root \in D /\ Root \in DirsOf(d)
  BY <1>1, TreeIs, ReachableIs
<1>3. ASSUME NEW S \in SUBSET D, Root \in S,
             \A b \in S : \A s \in UsedSlots(d[b]) : judgeDir(d[b][s]) => d[b][s].s_block \in S
      PROVE  DirsOf(d) \subseteq S
  <2>1. ASSUME NEW p \in edges, p[1] \in S PROVE p[2] \in S
    <3>1. PICK b \in Block : p \in {<<b, d[b][s].s_block>> : s \in sub(b)}
      BY <2>1
    <3>2. PICK s \in sub(b) : p = <<b, d[b][s].s_block>>
      BY <3>1
    <3>3. b \in S /\ s \in UsedSlots(d[b]) /\ judgeDir(d[b][s])
      BY <3>2, <2>1 DEF UsedSlots, InUse
    <3> QED
      BY <3>2, <3>3, <1>3
  <2>2. S \subseteq Block
    BY <1>2
  <2> HIDE DEF edges
  <2> QED
    BY <2>1, <2>2, <1>1, <1>3, ReachableIsLeast
<1>4. DirsOf(d) \subseteq D
  <2>1. \A b \in D : \A s \in UsedSlots(d[b]) : judgeDir(d[b][s]) => d[b][s].s_block \in D
    BY EntryIsIn DEF EntrySound
  <2> QED
    BY <2>1, <1>2, <1>3
<1>5. ASSUME NEW b \in DirsOf(d), NEW s \in UsedSlots(d[b]), judgeDir(d[b][s])
      PROVE  d[b][s].s_block \in DirsOf(d)
  <2>1. PICK p : p = <<b, d[b][s].s_block>>
    OBVIOUS
  <2>2. b \in D /\ s \in UsedSlots(d[b])
    BY <1>4
  <2>3. /\ b \in Block /\ s \in EntrySlot /\ d[b][s] \in Fcb /\ d[b][s].use
        /\ d[b][s].s_block \in Block
    BY <2>2, EntryIsIn
  <2>4. s \in sub(b)
    BY <2>3, <1>5, FcbIsNoText
  <2>5. p \in edges
    BY <2>1, <2>3, <2>4
  <2>6. p[1] \in DirsOf(d) /\ p[2] \in Block /\ p[2] = d[b][s].s_block
    BY <2>1, <2>3
  <2> HIDE DEF edges
  <2> QED
    BY <2>5, <2>6, <1>1, ReachableIsClosed
<1> QED
  BY <1>2, <1>3, <1>4, <1>5

(* Directories that are not removed are still reached: so are those above  *)
(* them.                                                                   *)
LEMMA DirsStay ==
  ASSUME NEW fat, NEW d, NEW g, NEW e, NEW C, TreeSound(fat, d, C),
         NEW E, TreeSound(g, e, E), NEW R, KeepsBlocks(fat, d, g, e, DirsOf(d), R)
  PROVE  DirsOf(d) \ R \subseteq DirsOf(e)
<1> DEFINE D == DirsOf(d)
           S == {b \in D : b \in R \/ b \in DirsOf(e)}
<1>1. D \subseteq C /\ Root \in D /\ Root \in DirsOf(e)
  BY DirsOfIs
<1>2. ASSUME NEW b \in S, NEW s \in UsedSlots(d[b]), judgeDir(d[b][s])
      PROVE  d[b][s].s_block \in S
  <2>1. d[b][s].s_block \in D
    BY <1>2, DirsOfIs
  <2>2. ASSUME b \notin R, s \in UsedSlots(e[b]), SameEntry(d[b][s], e[b][s])
        PROVE  d[b][s].s_block \in DirsOf(e)
    <3>1. b \in DirsOf(e) /\ judgeDir(e[b][s])
      BY <1>2, <2>2 DEF SameEntry
    <3>2. e[b][s].s_block \in DirsOf(e)
      BY <3>1, <2>2, DirsOfIs
    <3> QED
      BY <3>2, <2>2 DEF SameEntry
  <2>3. d[b][s].s_block \in R \/ d[b][s].s_block \in DirsOf(e)
    BY <1>2, <2>2 DEF KeepsBlocks
  <2> QED
    BY <2>1, <2>3
<1>3. S \in SUBSET C /\ Root \in S
  BY <1>1
<1> HIDE DEF S
<1>4. D \subseteq S
  BY <1>2, <1>3, DirsOfIs
<1> QED
  BY <1>4 DEF S

(* So nothing is lost where each entry keeps its blocks or has them freed. *)
LEMMA KeptIsNotLost ==
  ASSUME NEW fat, NEW d, NEW g, NEW e, NEW C, TreeSound(fat, d, C),
         NEW E, TreeSound(g, e, E), NEW R, KeepsBlocks(fat, d, g, e, DirsOf(d), R)
  PROVE  OrphansOf(g, e) \subseteq OrphansOf(fat, d)
<1> SUFFICES ASSUME NEW x \in OrphansOf(g, e) PROVE x \in OrphansOf(fat, d)
  OBVIOUS
<1>1. DirsOf(d) \ R \subseteq DirsOf(e)
  BY DirsStay
<1>2. /\ x \in Block \ {Root} /\ g[x] # FREE
      /\ \A b \in DirsOf(e) : \A s \in UsedSlots(e[b]) : x \notin Owned(g, e[b][s])
  BY DEF OrphansOf
<1>3. fat[x] # FREE
  BY <1>1, <1>2 DEF KeepsBlocks
<1>4. ASSUME NEW b \in DirsOf(d), NEW s \in UsedSlots(d[b]), x \in Owned(fat, d[b][s])
      PROVE  FALSE
  <2>1. /\ b \notin R /\ s \in UsedSlots(e[b])
        /\ Owned(fat, d[b][s]) \subseteq Owned(g, e[b][s])
    BY <1>2, <1>4 DEF KeepsBlocks
  <2> QED
    BY <2>1, <1>1, <1>2, <1>4
<1> QED
  BY <1>2, <1>3, <1>4 DEF OrphansOf

(* The table as it was, and entries that differ in length or attributes.   *)
LEMMA AlikeIsKept ==
  ASSUME NEW fat, NEW d, NEW e, NEW D, TreeSound(fat, d, D),
         \A c \in D, r \in Slot : SameEntry(d[c][r], e[c][r])
  PROVE  KeepsBlocks(fat, d, fat, e, D, {})
<1>1. ASSUME NEW c \in D, NEW r \in UsedSlots(d[c])
      PROVE  /\ r \in UsedSlots(e[c]) /\ SameEntry(d[c][r], e[c][r])
             /\ Owned(fat, d[c][r]) \subseteq Owned(fat, e[c][r])
  <2>1. DirBlock(fat, d, c) /\ r \in Slot
    BY TreeIs, EntryIsIn
  <2>2. \A s \in Slot : SameEntry(d[c][s], e[c][s])
    OBVIOUS
  <2>3. UsedSlots(e[c]) = UsedSlots(d[c])
    BY <2>1, <2>2, SameUsed
  <2>4. SameEntry(d[c][r], e[c][r])
    BY <2>1
  <2> QED
    BY <2>3, <2>4 DEF Owned, SameEntry
<1> QED
  BY <1>1 DEF KeepsBlocks

(* Orphans are those of the table and the disk, before a step and after.   *)
LEMMA OrphansAre ==
  /\ Dirs = DirsOf(disk) /\ Orphans = OrphansOf(fat1, disk)
  /\ Orphans' = OrphansOf(fat1', disk')
<1>1. Dirs = DirsOf(disk) /\ Dirs' = DirsOf(disk')
  BY DEF Dirs, DirsOf
<1>2. Orphans = OrphansOf(fat1, disk)
  <2>1. Entries = UNION {{b} \X UsedSlots(disk[b]) : b \in DirsOf(disk)}
    BY <1>1 DEF Entries
  <2>2. \A b, s : BlocksOf(<<b, s>>) = Owned(fat1, disk[b][s])
    BY DEF BlocksOf, At, Owned
  <2>3. ASSUME NEW x
        PROVE  (\E e \in Entries : x \in BlocksOf(e)) <=>
                 \E b \in DirsOf(disk) : \E s \in UsedSlots(disk[b]) : x \in Owned(fat1, disk[b][s])
    <3>1. ASSUME NEW e \in Entries, x \in BlocksOf(e)
          PROVE  \E b \in DirsOf(disk) : \E s \in UsedSlots(disk[b]) : x \in Owned(fat1, disk[b][s])
      <4>1. PICK b \in DirsOf(disk) : e \in {b} \X UsedSlots(disk[b])
        BY <2>1
      <4>2. PICK s \in UsedSlots(disk[b]) : e = <<b, s>>
        BY <4>1
      <4> QED
        BY <4>2, <3>1, <2>2
    <3>2. ASSUME NEW b \in DirsOf(disk), NEW s \in UsedSlots(disk[b]), x \in Owned(fat1, disk[b][s])
          PROVE  \E e \in Entries : x \in BlocksOf(e)
      <4>1. <<b, s>> \in Entries
        BY <2>1
      <4> QED
        BY <4>1, <3>2, <2>2
    <3> QED
      BY <3>1, <3>2
  <2>4. \A x : x \in UNION {BlocksOf(e) : e \in Entries} <=> \E e \in Entries : x \in BlocksOf(e)
    OBVIOUS
  <2>5. \A x : x \in Orphans <=> /\ x \in Block /\ fat1[x] # FREE /\ x # Root
                                 /\ ~\E e \in Entries : x \in BlocksOf(e)
    BY <2>4 DEF Orphans, Allocated
  <2> QED
    BY <2>3, <2>5 DEF OrphansOf
<1>3. (Orphans = OrphansOf(fat1, disk))'
  BY <1>2, PTL
<1> QED
  BY <1>1, <1>2, <1>3

(* Each step but those of my_write's loop gives every block it does not    *)
(* free an owner.                                                          *)
LEMMA StepLosesNothing ==
  ASSUME GoodUse, StrayMisses, FsInv, [Next]_vars, mode # "text"
  PROVE  Orphans' \subseteq Orphans
<1>1. TypeOK
  BY DEF FsInv
<1>2. PICK D : D = Dirs
  OBVIOUS
<1>3. D \in SUBSET Block /\ Holds(D) /\ StrayBlock \notin D /\ D = DirsOf(disk)
  <2>1. PICK C \in SUBSET Block : Holds(C)
    BY DEF FsInv
  <2> QED
    BY <2>1, <1>1, <1>2, DirsHold, OrphansAre DEF StrayMisses
<1>4. TreeSound(fat1, disk, D)
  BY <1>3 DEF Holds
<1>5. PICK E : TreeSound(fat1', disk', E)
  <2>1. PICK E : Holds(E)'
    BY <1>1, <1>3, NextHolds
  <2> QED
    BY <2>1 DEF Holds
<1>6. ASSUME NEW R, KeepsBlocks(fat1, disk, fat1', disk', D, R) PROVE Orphans' \subseteq Orphans
  <2>1. OrphansOf(fat1', disk') \subseteq OrphansOf(fat1, disk)
    BY <1>3, <1>4, <1>5, <1>6, KeptIsNotLost
  <2> QED
    BY <2>1, OrphansAre
<1>7. ASSUME fat1' = fat1, disk' = disk PROVE Orphans' \subseteq Orphans
  BY <1>7, OrphansAre
<1>8. ASSUME fat1' = fat1, OnlyEntries(disk, disk', D, PlaceOf(currOftIndex))
      PROVE  Orphans' \subseteq Orphans
  <2>1. KeepsBlocks(fat1, disk, fat1, disk', D, {})
    BY <1>4, <1>8, AlikeIsKept DEF OnlyEntries
  <2> QED
    BY <2>1, <1>6, <1>8
<1>9. ASSUME my_close, currOftIndex # 0, fat1' = fat1 PROVE Orphans' \subseteq Orphans
  <2>1. disk' = disk
    BY <1>1, <1>3, <1>9, CloseShrinks DEF Holds
  <2> QED
    BY <2>1, <1>7, <1>9
<1>10. CASE Create
  <2>1. PICK n \in Names, isdir \in BOOLEAN : createfile(n, isdir)
    BY <1>10 DEF Create, Names
  <2>2. KeepsBlocks(fat1, disk, fat1', disk', D, {})
    BY <2>1, <1>1, <1>3, CreateHolds
  <2> QED
    BY <2>2, <1>6
<1>11. CASE Delete
  <2>1. PICK n \in Names, isdir \in BOOLEAN : deleteFile(n, isdir)
    BY <1>11 DEF Delete, Names
  <2>2. PICK R : KeepsBlocks(fat1, disk, fat1', disk', D, R)
    BY <2>1, <1>1, <1>3, DeleteHolds
  <2> QED
    BY <2>2, <1>6
<1>12. CASE my_format
  <2>1. \A x \in Block \ {Root} : fat1'[x] = FREE
    BY <1>12 DEF my_format, FormattedFat, Root
  <2>2. OrphansOf(fat1', disk') = {}
    BY <2>1 DEF OrphansOf
  <2> QED
    BY <2>2, OrphansAre
<1>13. CASE Ctrl
  <2>1. PICK i \in CtrlArgs, n \in Names, isdir \in BOOLEAN : my_ctrl(n, isdir, i)
    BY <1>13 DEF Ctrl, Names
  <2>2. OnlyEntries(disk, disk', D, PlaceOf(currOftIndex))
    BY <2>1, <1>1, <1>3, CtrlHolds
  <2> QED
    BY <2>1, <2>2, <1>8 DEF my_ctrl
<1>14. CASE Write
  <2>1. PICK rewrite \in BOOLEAN : my_write(rewrite)
    BY <1>14 DEF Write
  <2>2. OnlyEntries(disk, disk', D, PlaceOf(currOftIndex))
    BY <2>1, <1>1, <1>3, WriteHolds
  <2> QED
    BY <2>1, <2>2, <1>8 DEF my_write
<1>15. CASE Close
  <2>1. currOftIndex # 0
    BY <1>15, <1>1, <1>3, CurIs DEF Close, Holds
  <2> QED
    BY <2>1, <1>9, <1>15 DEF Close
<1>16. CASE CdStep
  <2>1. CASE CdCloseToRoot
    BY <2>1, <1>9 DEF CdCloseToRoot
  <2>2. CASE CdUp
    BY <2>2, <1>9 DEF CdUp
  <2>3. CASE CdStay \/ CdDown \/ CdRetry \/ CdEnd
    BY <2>3, <1>7 DEF CdStay, CdDown, CdRetry, CdEnd
  <2> QED
    BY <1>16, <2>1, <2>2, <2>3 DEF CdStep
<1>17. CASE Open \/ Rewind \/ ChangeDir \/ UNCHANGED vars
  BY <1>17, <1>7 DEF Open, my_open, Rewind, ChangeDir, my_cd, vars
<1>18. ~Buffer /\ ~Rest
  BY DEF Buffer, WriteBuffer, Rest, WriteRest
<1> QED
  BY <1>10, <1>11, <1>12, <1>13, <1>14, <1>15, <1>16, <1>17, <1>18 DEF Next

(* A block that is taken and belongs to nothing was lost by do_write,      *)
(* which cuts a chain it rewrites and frees nothing: rm and rmdir of a     *)
(* tree of any depth free all that hung from the entry, and no other       *)
(* command forgets a block.                                                *)
THEOREM OnlyWritingLoses ==
  ASSUME GoodUse
  PROVE  Spec /\ []StrayMisses => OnlyWritingOrphans
<1> DEFINE A == mode # "text" => Orphans' \subseteq Orphans
<1>1. FsInv /\ StrayMisses /\ [Next]_vars => [A]_vars
  BY StepLosesNothing
<1> QED
  BY <1>1, FsInvAlways, PTL DEF Spec, OnlyWritingOrphans
-----------------------------------------------------------------------------
(* What other files hold. *)

(* The store behind the table meets no directory and no file.              *)
StrayUnused == StrayBlock \notin Dirs \cup UNION {BlocksOf(e) : e \in Entries}

(* A text is the same where the walk and what is on it are.                *)
LEMMA ContentStays ==
  ASSUME NEW fat, NEW d, NEW g, NEW e, NEW f, NEW h,
         f.len \in Nat, f.s_block \in Block, h.len = f.len, h.s_block = f.s_block,
         Walks(fat, f.s_block, f.len \div FCB_NUM) # {},
         Walks(fat, f.s_block, f.len \div FCB_NUM) \subseteq Walks(g, f.s_block, f.len \div FCB_NUM),
         \A a \in FatChain(fat, f.s_block), t \in Slot : e[a][t] = d[a][t]
  PROVE  ContentOf(g, e, h) = ContentOf(fat, d, f)
<1> DEFINE m == f.len \div FCB_NUM
           S == 0 .. f.len - 1
<1>1. PICK w \in Walks(fat, f.s_block, m) : TRUE
  OBVIOUS
<1>2. w \in Walks(g, h.s_block, h.len \div FCB_NUM)
  OBVIOUS
<1>3. \A i \in S : i \div FCB_NUM \in 0 .. m /\ i % FCB_NUM \in Slot /\ m \in Nat
  <2> SUFFICES ASSUME NEW i \in S
               PROVE  i \div FCB_NUM \in 0 .. m /\ i % FCB_NUM \in Slot /\ m \in Nat
    OBVIOUS
  <2>1. i \in Int /\ f.len \in Int /\ 0 <= i /\ i <= f.len - 1 /\ FCB_NUM \in Nat /\ FCB_NUM > 0
    BY SizeAssumption
  <2>2. i % FCB_NUM \in 0 .. FCB_NUM - 1
    BY ONLY <2>1
  <2>3. i \div FCB_NUM \in Nat /\ m \in Nat
    BY ONLY <2>1
  <2>4. i \div FCB_NUM <= m
    BY <2>1, <2>3, DivBefore
  <2> QED
    BY <2>2, <2>3, <2>4 DEF Slot
<1>4. ASSUME NEW i \in S
      PROVE  e[w[i \div FCB_NUM]][i % FCB_NUM] = d[w[i \div FCB_NUM]][i % FCB_NUM]
  <2>1. w[i \div FCB_NUM] \in FatChain(fat, f.s_block)
    BY <1>3, WalkInChain
  <2> QED
    BY <2>1, <1>3
<1>5. /\ DOMAIN ContentOf(fat, d, f) = S
      /\ \A i \in S : ContentOf(fat, d, f)[i] = d[w[i \div FCB_NUM]][i % FCB_NUM]
  BY <1>1, ContentIs
<1>6. /\ DOMAIN ContentOf(g, e, h) = S
      /\ \A i \in S : ContentOf(g, e, h)[i] = e[w[i \div FCB_NUM]][i % FCB_NUM]
  BY <1>2, ContentIs
<1>7. ContentOf(fat, d, f) = [i \in S |-> ContentOf(fat, d, f)[i]]
  BY <1>1, <1>5 DEF ContentOf
<1>8. ContentOf(g, e, h) = [i \in S |-> ContentOf(g, e, h)[i]]
  BY <1>2, <1>6 DEF ContentOf
<1>9. \A i \in S : ContentOf(g, e, h)[i] = ContentOf(fat, d, f)[i]
  BY <1>4, <1>5, <1>6
<1> HIDE DEF S
<1> QED
  BY <1>7, <1>8, <1>9

(* do_write puts text in blocks of the open file, and in free ones.        *)
LEMMA DoWriteElsewhere ==
  ASSUME TypeOK, NEW D, Holds(D), mode = "text", NEW t \in Text, NEW n \in 0 .. FCB_NUM,
         NEW a \in Block, a \notin D, fat1[a] # FREE, a \notin FatChain(fat1, cur.fcb.s_block),
         NEW r \in Slot
  PROVE  do_write(t, n).disk[a][r] = disk[a][r]
<1> DEFINE first   == BlockAt(fat1, cur.fcb.s_block, cur.filePtr \div FCB_NUM)
           offset  == cur.filePtr % FCB_NUM
           crosses == offset + n >= FCB_NUM
           grows   == crosses /\ fat1[first] = END
           last    == IF ~crosses THEN first
                      ELSE IF grows THEN getNextVhdBlock(fat1) ELSE fat1[first]
           head    == PutCells(disk, first, offset, offset + n - 1, t)
           over    == IF crosses THEN PutCells(head, last, 0, offset + n - FCB_NUM - 1, t)
                      ELSE head
           x       == cur.fcb.s_block
           m       == cur.fcb.len \div FCB_NUM
<1>1. \/ do_write(t, n).disk = disk
      \/ do_write(t, n).disk = head
      \/ last # END /\ do_write(t, n).disk = AddToEntry(over, cur, n)
  <2>1. first = END => do_write(t, n).disk = disk
    BY DEF do_write
  <2>2. first # END /\ last = END => do_write(t, n).disk = head
    BY DEF do_write
  <2>3. first # END /\ last # END => do_write(t, n).disk = AddToEntry(over, cur, n)
    BY DEF do_write
  <2> QED
    BY <2>1, <2>2, <2>3
<1>2. /\ cur.filePtr = cur.fcb.len /\ m \in Nat /\ x \in Block
      /\ Walks(fat1, x, m) # {} /\ cur.pdfBlockNo \in D
  BY TextFile
<1>3. disk \in Memory /\ t \in Cell
  BY DEF TypeOK, Memory, Cell, Texts
<1>4. first \in FatChain(fat1, x) /\ first \in Block
  <2>1. PICK w \in Walks(fat1, x, m) : TRUE
    BY <1>2
  <2>2. BlockAt(fat1, x, m) = w[m] /\ w[m] \in Block
    BY <1>2, BlockAtIs
  <2>3. w[m] \in FatChain(fat1, x)
    BY <1>2, WalkInChain
  <2> QED
    BY <2>2, <2>3, <1>2
<1>5. head \in Memory /\ head[a] = disk[a]
  BY <1>3, <1>4, PutCellsType, PutCellsElsewhere
<1>6. ASSUME last # END PROVE last # a
  <2>1. CASE ~crosses
    BY <2>1, <1>4
  <2>2. CASE crosses /\ grows
    BY <2>2, <1>6, NextBlockIsFree
  <2>3. CASE crosses /\ ~grows
    BY <2>3, <1>2, <1>4, ChainIsLeast
  <2> QED
    BY <2>1, <2>2, <2>3
<1>7. ASSUME last # END PROVE over \in Memory /\ over[a] = disk[a]
  <2>1. last # a
    BY <1>6, <1>7
  <2> HIDE DEF head, last, offset
  <2> QED
    BY <2>1, <1>3, <1>5, PutCellsType, PutCellsElsewhere
<1>8. ASSUME last # END PROVE AddToEntry(over, cur, n)[a] = disk[a]
  <2>1. cur.pdfBlockNo # a
    BY <1>2
  <2>2. over \in Memory /\ over[a] = disk[a]
    BY <1>7, <1>8
  <2> HIDE DEF over
  <2> QED
    BY <2>1, <2>2 DEF AddToEntry, Memory
<1> HIDE DEF first, last, head, over
<1> QED
  BY <1>1, <1>5, <1>8

(* So it leaves all other files as they are.                               *)
LEMMA DoWriteKeepsFiles ==
  ASSUME TypeOK, NEW D, Holds(D), mode = "text", NEW t \in Text, NEW n \in 0 .. FCB_NUM
  PROVE  KeepsFiles(fat1, disk, do_write(t, n).fat1, do_write(t, n).disk, D, PlaceOf(currOftIndex))
<1> DEFINE x == cur.fcb.s_block
<1>1. PICK g, e : g = do_write(t, n).fat1 /\ e = do_write(t, n).disk
  OBVIOUS
<1>2. PICK h : Written(D, g, e, h)
  BY <1>1, DoWriteIs
<1>3. /\ LinksSound(fat1) /\ TreeSound(fat1, disk, D)
      /\ PathSound(disk, D, oft, currOftIndex)
  BY DEF Holds
<1>4. Begins(fat1, x) /\ cur.pdfBlockNo \in D
  BY TextFile
<1>5. /\ cur.fdEntryNo \in UsedSlots(disk[cur.pdfBlockNo])
      /\ disk[cur.pdfBlockNo][cur.fdEntryNo] = cur.fcb
  <2>1. currOftIndex # 0 /\ currOftIndex \in 0 .. currOftIndex
    BY <1>3, TextFile, CurIs
  <2> QED
    BY <2>1, <1>3, PathIs DEF cur
<1>6. ASSUME NEW c \in D, NEW r \in UsedSlots(disk[c]), ~judgeDir(disk[c][r]),
             <<c, r>> # PlaceOf(currOftIndex)
      PROVE  /\ e[c][r].len = disk[c][r].len
             /\ \A k \in Nat : Walks(fat1, disk[c][r].s_block, k) \subseteq Walks(g, disk[c][r].s_block, k)
             /\ \A a \in FatChain(fat1, disk[c][r].s_block) : \A s \in Slot : e[a][s] = disk[a][s]
  <2>1. c # cur.pdfBlockNo \/ r # cur.fdEntryNo
    BY <1>6 DEF PlaceOf, cur
  <2>2. r \in Slot /\ Begins(fat1, disk[c][r].s_block) /\ disk[c][r].s_block \in Block
    BY <1>3, EntryIsIn
  <2>3. e[c][r] = disk[c][r]
    BY <2>1, <2>2, <1>2 DEF Written
  <2>4. disk[c][r].s_block # x
    BY <2>1, <1>3, <1>4, <1>5 DEF TreeSound
  <2>5. \A k \in Nat : Walks(fat1, disk[c][r].s_block, k) \subseteq Walks(g, disk[c][r].s_block, k)
    BY <2>2, <2>4, <1>2 DEF Written
  <2>6. ASSUME NEW a \in FatChain(fat1, disk[c][r].s_block), NEW s \in Slot
        PROVE  e[a][s] = disk[a][s]
    <3>1. a \in Block /\ a \notin D /\ fat1[a] # FREE
      BY <1>3, <1>6, FilesAreApart
    <3>2. a \notin FatChain(fat1, x)
      BY <2>2, <2>4, <1>3, <1>4, ChainsAreDisjoint
    <3> QED
      BY <3>1, <3>2, <1>1, DoWriteElsewhere
  <2> QED
    BY <2>3, <2>5, <2>6
<1>7. KeepsFiles(fat1, disk, g, e, D, PlaceOf(currOftIndex))
  BY <1>6 DEF KeepsFiles
<1> QED
  BY <1>1, <1>7

(* Where only entries change files stay as well.                           *)
LEMMA EntriesKeepFiles ==
  ASSUME NEW fat, NEW d, NEW e, NEW D, NEW p, LinksSound(fat), TreeSound(fat, d, D),
         OnlyEntries(d, e, D, p)
  PROVE  KeepsFiles(fat, d, fat, e, D, p)
<1>1. ASSUME NEW c \in D, NEW r \in UsedSlots(d[c]), ~judgeDir(d[c][r]), <<c, r>> # p
      PROVE  /\ e[c][r].len = d[c][r].len
             /\ \A a \in FatChain(fat, d[c][r].s_block) : e[a] = d[a]
  <2>1. r \in Slot
    BY EntryIsIn
  <2>2. \A a \in FatChain(fat, d[c][r].s_block) : a \in Block \ D
    BY <1>1, FilesAreApart
  <2> QED
    BY <2>1, <2>2, <1>1 DEF OnlyEntries
<1> QED
  BY <1>1 DEF KeepsFiles

(* Every step that changes the disk keeps the files but the open one.      *)
LEMMA StepKeepsFiles ==
  ASSUME GoodUse, StrayMisses, FsInv, [Next]_vars
  PROVE  \/ fat1' = fat1 /\ disk' = disk
         \/ KeepsFiles(fat1, disk, fat1', disk', Dirs, PlaceOf(currOftIndex))
<1>1. TypeOK
  BY DEF FsInv
<1>2. PICK D : D = Dirs
  OBVIOUS
<1>3. D \in SUBSET Block /\ Holds(D) /\ StrayBlock \notin D
  <2>1. PICK C \in SUBSET Block : Holds(C)
    BY DEF FsInv
  <2> QED
    BY <2>1, <1>1, <1>2, DirsHold DEF StrayMisses
<1>4. LinksSound(fat1) /\ TreeSound(fat1, disk, D)
  BY <1>3 DEF Holds
<1> DEFINE K == KeepsFiles(fat1, disk, fat1', disk', D, PlaceOf(currOftIndex))
           Q == K \/ (fat1' = fat1 /\ disk' = disk)
<1> SUFFICES Q
  BY <1>2
<1>5. ASSUME fat1' = fat1, OnlyEntries(disk, disk', D, PlaceOf(currOftIndex)) PROVE K
  BY <1>4, <1>5, EntriesKeepFiles
<1>6. ASSUME my_close, currOftIndex # 0, fat1' = fat1 PROVE Q
  BY <1>1, <1>3, <1>6, CloseShrinks DEF Holds
<1>7. CASE Create
  <2>1. PICK n \in Names, isdir \in BOOLEAN : createfile(n, isdir)
    BY <1>7 DEF Create, Names
  <2> QED
    BY <2>1, <1>1, <1>3, CreateHolds
<1>8. CASE Delete
  <2>1. PICK n \in Names, isdir \in BOOLEAN : deleteFile(n, isdir)
    BY <1>8 DEF Delete, Names
  <2> QED
    BY <2>1, <1>1, <1>3, DeleteHolds
<1>9. CASE my_format
  <2>1. fat1' = FormattedFat /\ disk' = FormattedDisk(disk) /\ disk \in Memory
    BY <1>9, <1>1 DEF my_format, TypeOK, Memory
  <2>2. \A c \in Block : c # Root => FormattedFat[c] = FREE
    BY DEF FormattedFat, Root
  <2>3. UsedSlots(FormattedDisk(disk)[Root]) = {}
    <3>1. \A s \in EntrySlot : s \in Slot /\ s # 0 /\ s # 1
      BY SizeAssumption DEF EntrySlot, Slot
    <3>2. \A s \in EntrySlot : ~InUse(FormattedDisk(disk)[Root][s])
      BY <2>1, <3>1, FormattedDiskIs, FcbIsNoText
    <3> QED
      BY <3>2 DEF UsedSlots
  <2> QED
    BY <2>1, <2>2, <2>3, <1>3 DEF KeepsFiles
<1>10. CASE Ctrl
  <2>1. PICK i \in CtrlArgs, n \in Names, isdir \in BOOLEAN : my_ctrl(n, isdir, i)
    BY <1>10 DEF Ctrl, Names
  <2>2. OnlyEntries(disk, disk', D, PlaceOf(currOftIndex))
    BY <2>1, <1>1, <1>3, CtrlHolds
  <2> QED
    BY <2>1, <2>2, <1>5 DEF my_ctrl
<1>11. CASE Write
  <2>1. PICK rewrite \in BOOLEAN : my_write(rewrite)
    BY <1>11 DEF Write
  <2>2. OnlyEntries(disk, disk', D, PlaceOf(currOftIndex))
    BY <2>1, <1>1, <1>3, WriteHolds
  <2> QED
    BY <2>1, <2>2, <1>5 DEF my_write
<1>12. CASE Buffer
  <2>1. PICK t \in Text : WriteBuffer(t)
    BY <1>12 DEF Buffer
  <2>2. FCB_NUM \in 0 .. FCB_NUM
    BY SizeAssumption
  <2>3. mode = "text" /\ fat1' = do_write(t, FCB_NUM).fat1 /\ disk' = do_write(t, FCB_NUM).disk
    BY <2>1 DEF WriteBuffer
  <2> QED
    BY <2>2, <2>3, <1>1, <1>3, DoWriteKeepsFiles
<1>13. CASE Rest
  <2>1. PICK t \in Text, n \in Rests : WriteRest(t, n)
    BY <1>13 DEF Rest
  <2>2. n \in 0 .. FCB_NUM
    BY UseAssumption
  <2>3. mode = "text" /\ fat1' = do_write(t, n).fat1 /\ disk' = do_write(t, n).disk
    BY <2>1 DEF WriteRest
  <2> QED
    BY <2>2, <2>3, <1>1, <1>3, DoWriteKeepsFiles
<1>14. CASE Close
  <2>1. currOftIndex # 0
    BY <1>14, <1>1, <1>3, CurIs DEF Close, Holds
  <2> QED
    BY <2>1, <1>6, <1>14 DEF Close
<1>15. CASE CdStep
  <2>1. CASE CdCloseToRoot
    BY <2>1, <1>6 DEF CdCloseToRoot
  <2>2. CASE CdUp
    BY <2>2, <1>6 DEF CdUp
  <2>3. CASE CdStay \/ CdDown \/ CdRetry \/ CdEnd
    BY <2>3 DEF CdStay, CdDown, CdRetry, CdEnd
  <2> QED
    BY <1>15, <2>1, <2>2, <2>3 DEF CdStep
<1>16. CASE Open \/ Rewind \/ ChangeDir \/ UNCHANGED vars
  BY <1>16 DEF Open, my_open, Rewind, ChangeDir, my_cd, vars
<1> QED
  BY <1>7, <1>8, <1>9, <1>10, <1>11, <1>12, <1>13, <1>14, <1>15, <1>16 DEF Next

(* So each such file has the text it had.                                  *)
LEMMA StepKeepsTexts ==
  ASSUME GoodUse, StrayUnused, FsInv, [Next]_vars,
         NEW b \in Dirs, NEW s \in UsedSlots(disk[b]), ~judgeDir(disk[b][s]),
         <<b, s>> \notin OpenFile, b \in Dirs', s \in UsedSlots(disk'[b]),
         disk'[b][s].s_block = disk[b][s].s_block
  PROVE  ContentOf(fat1', disk', disk'[b][s]) = ContentOf(fat1, disk, disk[b][s])
<1>1. StrayMisses /\ TypeOK
  BY DEF StrayUnused, StrayMisses, FsInv
<1>2. PICK D : D = Dirs
  OBVIOUS
<1>3. D \in SUBSET Block /\ Holds(D)
  <2>1. PICK C \in SUBSET Block : Holds(C)
    BY DEF FsInv
  <2> QED
    BY <2>1, <1>1, <1>2, DirsHold
<1>4. TreeSound(fat1, disk, D) /\ PathSound(disk, D, oft, currOftIndex)
  BY <1>3 DEF Holds
<1>5. PICK f, h : f = disk[b][s] /\ h = disk'[b][s]
  OBVIOUS
<1>6. /\ f.s_block \in Block /\ f.len \in Nat /\ f.len \div FCB_NUM \in Nat
      /\ Walks(fat1, f.s_block, f.len \div FCB_NUM) # {}
  <2>1. f \in Fcb /\ EntrySound(fat1, disk, D, f) /\ f.s_block \in Block
    BY <1>2, <1>4, <1>5, EntryIsIn
  <2>2. f.len \in Nat /\ Walks(fat1, f.s_block, f.len \div FCB_NUM) # {}
    BY <2>1, <1>5 DEF EntrySound, Fcb
  <2>3. f.len \div FCB_NUM \in Nat
    BY <2>2, SizeAssumption
  <2> QED
    BY <2>1, <2>2, <2>3
<1>7. <<b, s>> # PlaceOf(currOftIndex)
  <2> SUFFICES ASSUME <<b, s>> = PlaceOf(currOftIndex) PROVE FALSE
    OBVIOUS
  <2>1. disk[cur.pdfBlockNo][cur.fdEntryNo] = cur.fcb
    BY <1>1, <1>4, CurIs, PathIs DEF cur
  <2>2. b = cur.pdfBlockNo /\ s = cur.fdEntryNo
    BY DEF PlaceOf, cur
  <2>3. ~judgeDir(cur.fcb)
    BY <2>1, <2>2
  <2> QED
    BY <2>3 DEF OpenFile
<1>8. StrayBlock \notin FatChain(fat1, f.s_block)
  <2>1. <<b, s>> \in Entries
    BY DEF Entries
  <2>2. BlocksOf(<<b, s>>) = FatChain(fat1, f.s_block)
    BY <1>5 DEF BlocksOf, At
  <2> QED
    BY <2>1, <2>2 DEF StrayUnused
<1>9. fat1'[b] # FREE
  <2>1. PICK E : TreeSound(fat1', disk', E)
    <3>1. StrayBlock \notin D
      BY <1>1, <1>2 DEF StrayMisses
    <3>2. PICK E : Holds(E)'
      BY <3>1, <1>1, <1>3, NextHolds
    <3> QED
      BY <3>2 DEF Holds
  <2>2. Dirs' = DirsOf(disk')
    BY DEF Dirs, DirsOf
  <2>3. b \in E
    BY <2>1, <2>2, DirsOfIs
  <2> QED
    BY <2>1, <2>3, DirsBegin DEF Begins
<1>10. CASE fat1' = fat1 /\ disk' = disk
  BY <1>10
<1>11. CASE KeepsFiles(fat1, disk, fat1', disk', Dirs, PlaceOf(currOftIndex))
  <2>1. /\ h.len = f.len /\ h.s_block = f.s_block
        /\ \A n \in Nat : Walks(fat1, f.s_block, n) \subseteq Walks(fat1', f.s_block, n)
        /\ \A a \in FatChain(fat1, f.s_block) : \A t \in Slot :
             a # StrayBlock => disk'[a][t] = disk[a][t]
    BY <1>5, <1>7, <1>9, <1>11 DEF KeepsFiles
  <2>2. Walks(fat1, f.s_block, f.len \div FCB_NUM) \subseteq Walks(fat1', f.s_block, f.len \div FCB_NUM)
    BY <2>1, <1>6
  <2>3. \A a \in FatChain(fat1, f.s_block), t \in Slot : disk'[a][t] = disk[a][t]
    BY <2>1, <1>8
  <2>4. ContentOf(fat1', disk', h) = ContentOf(fat1, disk, f)
    BY <2>1, <2>2, <2>3, <1>6, ContentStays
  <2> QED
    BY <2>4, <1>5
<1> QED
  BY <1>1, <1>10, <1>11, StepKeepsFiles

(* No command changes the text of a file that is not open, whatever it     *)
(* creates, removes or writes beside it.                                   *)
THEOREM OthersStayUntouched ==
  ASSUME GoodUse
  PROVE  Spec /\ []StrayUnused => OthersUntouched
<1> DEFINE A == \A e \in FileEntries \ OpenFile :
                  (e \in FileEntries' /\ At(e)'.s_block = At(e).s_block)
                    => Content(At(e))' = Content(At(e))
<1>1. FsInv /\ StrayUnused /\ [Next]_vars => [A]_vars
  <2> SUFFICES ASSUME FsInv, StrayUnused, [Next]_vars,
                      NEW e \in FileEntries \ OpenFile, e \in FileEntries',
                      At(e)'.s_block = At(e).s_block
               PROVE  Content(At(e))' = Content(At(e))
    OBVIOUS
  <2>1. e \in Entries /\ ~judgeDir(At(e)) /\ e \in Entries'
    BY DEF FileEntries
  <2>2. PICK b \in Dirs : e \in {b} \X UsedSlots(disk[b])
    BY <2>1 DEF Entries
  <2>3. PICK s \in UsedSlots(disk[b]) : e = <<b, s>>
    BY <2>2
  <2>4. PICK c \in Dirs' : e \in {c} \X UsedSlots(disk'[c])
    BY <2>1 DEF Entries
  <2>5. b \in Dirs' /\ s \in UsedSlots(disk'[b])
    BY <2>3, <2>4
  <2>6. At(e) = disk[b][s] /\ At(e)' = disk'[b][s]
    BY <2>3 DEF At
  <2>7. ContentOf(fat1', disk', disk'[b][s]) = ContentOf(fat1, disk, disk[b][s])
    BY <2>1, <2>3, <2>5, <2>6, StepKeepsTexts
  <2>8. Content(At(e)) = ContentOf(fat1, disk, disk[b][s])
    BY <2>6 DEF Content, ContentOf
  <2>9. Content(At(e))' = ContentOf(fat1', disk', disk'[b][s])
    BY <2>6 DEF Content, ContentOf, Walks
  <2> QED
    BY <2>7, <2>8, <2>9
<1>2. StrayUnused => StrayMisses
  BY DEF StrayUnused, StrayMisses
<1> QED
  BY <1>1, <1>2, FsInvAlways, PTL DEF Spec, OthersUntouched
=============================================================================
