----------------------------- MODULE MC_FsEvents -----------------------------
(***************************************************************************)
(* Two directories, two file inode numbers each used for two inodes in    *)
(* turn, two CPUs with one-slot buffers: a rename can leave or enter a    *)
(* watched directory, a buffer fills, and a number comes back.            *)
(***************************************************************************)
EXTENDS FsEvents

=============================================================================
