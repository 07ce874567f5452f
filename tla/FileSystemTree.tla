--------------------------- MODULE FileSystemTree ---------------------------
(***************************************************************************)
(* FileSystem implements FileTree.  The tree is read off the disk: the     *)
(* paths through the directories' blocks to every entry, and the text of a *)
(* file by following its chain.  The place is what the prompt shows: the   *)
(* dirName of the current entry, kept as a string apart from the blocks.   *)
(***************************************************************************)
EXTENDS FileSystemInv

KindOf(fcb) == IF judgeDir(fcb) THEN "dir" ELSE "file"
StepOf(e)   == <<KindOf(At(e)), At(e).name>>

TheText(e) ==
  IF judgeDir(At(e)) THEN <<>>
  ELSE LET c == Content(At(e)) IN [i \in 1 .. At(e).len |-> c[i - 1]]

TheTree ==
  LET dirs      == Dirs
      entries   == UNION {{b} \X UsedSlots(disk[b]) : b \in dirs}
      entryOf   == [b \in {At(e).s_block : e \in entries} |->
                      CHOOSE e \in entries : At(e).s_block = b]
      dirPath[b \in dirs] ==
        IF b = Root THEN <<>> ELSE Append(dirPath[entryOf[b][1]], StepOf(entryOf[b]))
      path      == [e \in entries |-> Append(dirPath[e[1]], StepOf(e))]
      nodes     == {[at |-> path[e], flags |-> At(e).attr \cap {"R", "HIDE"},
                     text |-> TheText(e)] : e \in entries}
                     \cup {[at |-> <<>>, flags |-> {}, text |-> <<>>]}
  IN  [p \in {n.at : n \in nodes} |->
         LET n == CHOOSE n \in nodes : n.at = p IN [flags |-> n.flags, text |-> n.text]]

Here ==
  LET path == cur.dirName
  IN  [i \in 1 .. Len(path) - 1 |->
         <<IF i < Len(path) - 1 THEN "dir" ELSE KindOf(cur.fcb), Stored[path[i + 1]]>>]

T == INSTANCE FileTree WITH
       tree <- TheTree, here <- Here,
       Steps <- {<<"dir", Stored[n]>> : n \in DirNames} \cup {<<"file", Stored[n]>> : n \in FileNames},
       Chunks <- {[i \in 1 .. n |-> t] : n \in Rests \cup {FCB_NUM}, t \in Text}

(* Behind its blocks, chains, copies of FCBs and hand-kept lengths, every  *)
(* step of the program is one step of the tree or none: what is created is *)
(* empty and new, what is removed goes with all below it and nothing else, *)
(* text only grows at its end and only in the file the prompt names, and   *)
(* a read-only file's does not.                                            *)
ImplementsTree == T!Spec
=============================================================================
