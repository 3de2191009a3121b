-------------------------------- MODULE Mkfs --------------------------------
(* mkfs.c: the disk image the machine boots from.  Blocks and inodes are      *)
(* taken in the order of their numbers, which is what freeblock++ and         *)
(* freeinode++ do, and the bitmap marks the blocks below freeblock.           *)
EXTENDS FsDisk

(* ialloc(): the inode has a link from the start, before any name.            *)
NewInode(d, type) ==
  LET i == Min(FreeInodes(d))
  IN  [d EXCEPT !.ino[i] = [FreeInode EXCEPT !.type = type, !.nlink = 1]]

(* iappend()                                                                  *)
Iappend(d, i, u) == Writei(d, i, Size(d, i), u)

(* The turn of main()'s loop for one program.                                 *)
AddFile(d, f) ==
  LET i  == Min(FreeInodes(d))
      d1 == NewInode(d, "file")
  IN  Iappend(Iappend(d1, ROOTINO, <<Dirent(Trunc(f.name), i)>>), i, f.data)

(* The size of the root is rounded up to a block, and to one more block if it *)
(* was a whole number of blocks; that last case leaves a hole, which readi()  *)
(* fills in when it comes to it, and is left out (RootHasNoHole).             *)
PadRoot(d) ==
  LET off == Size(d, ROOTINO)
      pad == (off \div BSIZE + 1) * BSIZE - off
  IN  [d EXCEPT !.ino[ROOTINO].data = @ \o [k \in 1..pad |-> NoDirent]]

(* main(): a root directory with the given files.                             *)
Image(files) ==
  LET root == Iappend(Iappend(NewInode(EmptyDisk, "dir"), ROOTINO, <<Dirent(".", ROOTINO)>>),
                      ROOTINO, <<Dirent("..", ROOTINO)>>)
  IN  PadRoot(FoldLeft(AddFile, root, files))

RootHasNoHole(d) == Len(d.ino[ROOTINO].blocks) * BSIZE = Size(d, ROOTINO)

=============================================================================
