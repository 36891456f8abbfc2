-------------------------------- MODULE Runscan --------------------------------
(***************************************************************************)
(* runscan (P5): every file of an ext2 image that begins like a jpg is     *)
(* copied twice, under its inode number and under each name that the first *)
(* block of a directory has for it, also when the entry is deleted.  The   *)
(* image has one block group.  A block is BSIZE words, of a file or of     *)
(* block numbers; the blocks of a file have names instead of numbers.      *)
(***************************************************************************)
EXTENDS Integers, Sequences, SequencesExt, FiniteSets

CONSTANTS
  Images,   \* sequences of inodes: the table, from inode 1
  NDIRECT,  \* direct blocks of an inode
  NIND,     \* block numbers in a block
  BSIZE,    \* words in a block
  Garbage   \* the entries that uninitialised memory may look like

RunscanAssumption ==
  /\ \A i \in Images : Len(i) <= 8
  /\ NDIRECT \in Nat /\ NIND \in Nat /\ BSIZE \in Nat \ {0}

\* What mke2fs and the kernel have put on the disk.
File(size, jpg) == [type |-> "file", size |-> size, jpg |-> jpg]
Dir(entries) == [type |-> "dir", entries |-> entries]   \* [inode, name], all of one block
Other == [type |-> "other"]                              \* free, symbolic link, ...

VARIABLES
  image,
  next,     \* i * inodes_per_block + j
  buffer,   \* the entries in it: a block that cannot be read leaves the last
  out       \* the files of the output directory

vars == <<image, next, buffer, out>>

Words(n, first, len) == [k \in 1 .. len |-> <<n, first + k - 1>>]
Block(n, k) == Words(n, k * BSIZE, BSIZE)   \* block k of the file that is inode n

-----------------------------------------------------------------------------
(* The loop over the blocks of an inode                                    *)

Single == NDIRECT
Double == NDIRECT + NIND
MAXBLOCKS == Double + NIND * NIND

\* What the disk has at the numbers i_block, and at those in blocks of numbers.
i_block(n, b) ==
  IF b < NDIRECT THEN [data |-> Block(n, b)]
  ELSE IF b = NDIRECT THEN [ptrs |-> [h \in 0 .. NIND - 1 |-> Block(n, NDIRECT + h)]]
  ELSE [ptrs |-> [h1 \in 0 .. NIND - 1 |->
                    [h2 \in 0 .. NIND - 1 |-> Block(n, NDIRECT + NIND + h1 * NIND + h2)]]]

\* The blocks in the order of the three loops.
Sequenced(ptrs) == [h \in 1 .. NIND |-> ptrs[h - 1]]
DataBlocks(n) ==
  [b \in 1 .. NDIRECT |-> i_block(n, b - 1).data]
  \o Sequenced(i_block(n, NDIRECT).ptrs)
  \o FlattenSeq([h \in 1 .. NIND |-> Sequenced(i_block(n, NDIRECT + 1).ptrs[h - 1])])

\* A whole block is written, or the words that are left; size is the state.
Written(n, size) ==
  FoldLeft(LAMBDA w, b : [left |-> w.left - Min({w.left, BSIZE}),
                          text |-> w.text \o SubSeq(b, 1, Min({w.left, BSIZE}))],
           [left |-> size, text |-> <<>>], DataBlocks(n)).text

\* open without O_TRUNC: what a longer file left behind stays.
Over(old, new) == new \o SubSeq(old, Len(new) + 1, Len(old))
Copy(files, name, n) ==
  LET old == IF name \in DOMAIN files THEN files[name] ELSE <<>> IN
  (name :> Over(old, Written(n, image[n].size))) @@ files

-----------------------------------------------------------------------------
(* main                                                                    *)

Init == /\ image \in Images /\ next = 0 /\ out = <<>>
        /\ buffer \in Garbage

\* read_inode: number 0 lies before the table, in the bitmap.
Inode(n) == IF n \in DOMAIN image THEN image[n] ELSE Other
\* An empty file has no first block: it is read from the boot block.
IsJpg(n) == Inode(n).type = "file" /\ Inode(n).size > 0 /\ Inode(n).jpg

Numbered == <<"file-1", "file-2", "file-3", "file-4", "file-5", "file-6", "file-7">>

\* Whatever is no regular file is read as a directory.
Scan ==
  /\ next < Len(image)
  /\ next' = next + 1
  /\ CASE Inode(next).type = "dir" -> buffer' = Inode(next).entries
       [] Inode(next).type = "file" -> buffer' \in Garbage
       [] OTHER -> buffer' \in {buffer, <<>>}
  /\ out' = IF Inode(next).type = "file"
            THEN IF IsJpg(next) THEN Copy(out, Numbered[next], next) ELSE out
            ELSE FoldLeft(LAMBDA files, e :
                            IF IsJpg(e.inode) THEN Copy(files, e.name, e.inode) ELSE files,
                          out, buffer')
  /\ UNCHANGED image

Next == Scan
Spec == Init /\ [][Next]_vars

-----------------------------------------------------------------------------
(* Properties                                                              *)

Scanned == 1 .. next - 1
Content(n) == Words(n, 0, Min({image[n].size, MAXBLOCKS * BSIZE}))
Named(name) ==
  {d \in Scanned : image[d].type = "dir" /\ \E k \in DOMAIN image[d].entries :
                     image[d].entries[k].name = name}
Entries(name) ==
  UNION {{e \in Range(image[d].entries) : e.name = name} : d \in Named(name)}
InGarbage(name) == \E g \in Garbage : \E k \in DOMAIN g : g[k].name = name

\* "for each jpg file, there should be a file with an inode number as the
\* filename, and another file with the same filename as the actual one"
\* (P5/README.md:48), with "the correct amount of bytes": also where a file
\* ends at a block, at the indirect or at the double indirect block; where two
\* files had one name, each of the two may show through.
CopiesAreFiles ==
  /\ \A n \in Scanned : IsJpg(n) =>
       Numbered[n] \in DOMAIN out /\ out[Numbered[n]] = Content(n)
  /\ \A name \in DOMAIN out \ Range(Numbered) :
       /\ InGarbage(name) \/ Entries(name) # {}
       /\ Cardinality(Entries(name)) = 1 /\ ~InGarbage(name) =>
            \A e \in Entries(name) : IsJpg(e.inode) /\ out[name] = Content(e.inode)
  /\ \A d \in Scanned : image[d].type = "dir" => \A e \in Range(image[d].entries) :
       IsJpg(e.inode) => e.name \in DOMAIN out
=============================================================================
