---------------------------- MODULE FileSystemMC ----------------------------
(* The values of FileSystem's constants for TLC. *)
EXTENDS FileSystemTree, TLC

StoredWhole == [n \in Names |-> n]

Symmetry == Permutations(Text)

NoPaths == {}

UpDown == {<<"a">>, <<"..">>}

(* Whether a path leads anywhere depends on the tree, and on where it is   *)
(* typed; from within a file only those that begin with "root" do.         *)
ManyPaths == {<<"a">>, <<"b">>, <<"..", "b">>, <<"root", "a", "b">>, <<"root">>,
              <<"a", ".", "a", "..", "b">>}
=============================================================================
