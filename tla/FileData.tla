------------------------------ MODULE FileData ------------------------------
(***************************************************************************)
(* The contents of files in the x86 kernel: reading, writing, seeking and  *)
(* truncating open files (fs/file.c, fs/sysfile.c, fs/inode.c), the        *)
(* buffers of ramfs (fs/ramfs/inode.c) and the block map of ext2           *)
(* (fs/ext2/inode.c), which is read-only.                                  *)
(*                                                                         *)
(* One ramfs file and one ext2 file, and open files with an offset each.   *)
(* A system call is one step: on one CPU nothing runs in between, and the  *)
(* processes that share an open file share its offset.  A byte is the      *)
(* number of the write that put it there.                                  *)
(***************************************************************************)
EXTENDS Integers, Sequences

CONSTANTS
  OpenFiles,      \* open files
  BUF,            \* sizeof(buf) of sys_read and sys_write
  MaxFileSize,    \* bound: offsets and lengths
  MaxWrites,      \* bound: writes
  EXT2_NDIR_BLOCKS,
  BlockSize,      \* bytes of an ext2 block
  PerBlock,       \* block numbers in an indirect block
  Ext2Blocks      \* per logical block of the ext2 file: 0 for a hole, or the
                  \* byte all of the block consists of

FileDataAssumption ==
  /\ {BUF, MaxFileSize, MaxWrites, EXT2_NDIR_BLOCKS, BlockSize, PerBlock} \subseteq Nat \ {0}
  /\ Ext2Blocks \in Seq(Nat)

VARIABLES
  node,      \* the ramfs inode: size and data (NoData: the null pointer)
  of,        \* per open file: what is open, offset, append
  writes,    \* number of writes so far
  content    \* history: the bytes the ramfs file should have

fileDataVars == <<node, of, writes, content>>

NoData == <<-1>>
Fewest(a, b) == IF a < b THEN a ELSE b
Positive(n) == IF n > 0 THEN n ELSE 0

----------------------------------------------------------------------------
(* ramfs *)

\* The bytes from the offset on, at most n of them.
ramfs_read(off, n) ==
  IF off > node.size \/ node.data = NoData THEN <<>>
  ELSE [i \in 1 .. Fewest(n, node.size - off) |-> node.data[off + i]]

\* A buffer of newsize bytes: the old contents, then zeros.
Grown(nd, newsize) ==
  LET old == IF nd.data = NoData THEN 0 ELSE nd.size
  IN  [i \in 1 .. newsize |-> IF i <= old THEN nd.data[i] ELSE 0]

\* ramfs_write of the byte w n times; a longer file gets a new buffer.
ramfs_write(nd, off, n, w) ==
  LET grows == off + n > nd.size \/ nd.data = NoData
      buf == IF grows THEN Grown(nd, off + n) ELSE nd.data
  IN  [size |-> IF grows THEN off + n ELSE nd.size,
       data |-> [i \in DOMAIN buf |-> IF i > off /\ i <= off + n THEN w ELSE buf[i]]]

\* As ramfs_truncate would be if it only changed the size of a shorter file.
TruncateSizeOnly(nd, length) ==
  IF length = 0 THEN [size |-> 0, data |-> NoData]
  ELSE IF length < nd.size THEN [nd EXCEPT !.size = length]
  ELSE [size |-> length, data |-> Grown(nd, length)]

ramfs_truncate(nd, length) ==
  IF length = nd.size THEN nd
  ELSE IF length = 0 THEN [size |-> 0, data |-> NoData]
  ELSE [size |-> length, data |-> Grown([nd EXCEPT !.size = Fewest(@, length)], length)]

----------------------------------------------------------------------------
(* ext2 *)

\* The block of the disk that holds the logical block lbn, here the byte it
\* consists of; 0 for a hole, for a block past the first indirect block, and
\* where the indirect block cannot be read.
ext2_bmap(lbn, fails) ==
  IF lbn >= Len(Ext2Blocks) \/ lbn >= EXT2_NDIR_BLOCKS + PerBlock THEN 0
  ELSE IF lbn >= EXT2_NDIR_BLOCKS /\ fails THEN 0
  ELSE Ext2Blocks[lbn + 1]

Ext2Size == Len(Ext2Blocks) * BlockSize

\* ext2_read_data: its loop over the blocks, which ends at one that cannot be
\* read.
ext2_read_data(off, n, fails, unreadable) ==
  LET want == IF off >= Ext2Size THEN 0 ELSE Fewest(n, Ext2Size - off)
      lbn(total) == (off + total) \div BlockSize
      chunk(total) == Fewest(BlockSize - ((off + total) % BlockSize), want - total)
      rest[total \in 0 .. want] ==
        IF total = want \/ (lbn(total) = unreadable /\ ext2_bmap(lbn(total), fails) # 0)
        THEN <<>>
        ELSE [i \in 1 .. chunk(total) |-> ext2_bmap(lbn(total), fails)] \o rest[total + chunk(total)]
  IN  rest[0]

----------------------------------------------------------------------------
(* system calls *)

\* sys_open of either file; O_TRUNC truncates a file opened for writing, which
\* makes the open fail on ext2.
sys_openat(f) ==
  /\ of[f].ip = "none"
  /\ \E ip \in {"ramfs", "ext2"}, append, trunc \in BOOLEAN :
       /\ ip = "ext2" => ~trunc
       /\ of' = [of EXCEPT ![f] = [ip |-> ip, off |-> 0, append |-> append]]
       /\ node' = IF trunc THEN ramfs_truncate(node, 0) ELSE node
       /\ content' = IF trunc THEN <<>> ELSE content
  /\ UNCHANGED writes

CloseAgain(f) ==
  /\ of[f].ip # "none"
  /\ of' = [of EXCEPT ![f].ip = "none", ![f].off = 0, ![f].append = FALSE]
  /\ UNCHANGED <<node, writes, content>>

\* filelseek: SEEK_SET, SEEK_CUR and SEEK_END
filelseek(f) ==
  /\ of[f].ip # "none"
  /\ LET size == IF of[f].ip = "ramfs" THEN node.size ELSE Ext2Size IN
       \E base \in {0, of[f].off, size}, delta \in {-1, 0, 1} :
         /\ base + delta \in 0 .. MaxFileSize
         /\ of' = [of EXCEPT ![f].off = base + delta]
  /\ UNCHANGED <<node, writes, content>>

\* The open files after a read that returned bytes.
fileread(f, bytes) == [of EXCEPT ![f].off = @ + Len(bytes)]

\* sys_read: fileread in pieces of BUF bytes until one is short.  The pieces
\* of a ramfs file are one read, as nothing runs in between.  On ext2 a block
\* may be unreadable: what was read before is returned, except that a failure
\* in the first piece is an error.
sys_readfile(f, n) ==
  /\ of[f].ip # "none"
  /\ \/ /\ of[f].ip = "ramfs"
        /\ of' = fileread(f, ramfs_read(of[f].off, n))
     \/ /\ of[f].ip = "ext2"
        /\ \E fails \in BOOLEAN, unreadable \in 0 .. Len(Ext2Blocks) :
             of' = fileread(f, ext2_read_data(of[f].off, n, fails, unreadable))
  /\ UNCHANGED <<node, writes, content>>

\* The contents after n bytes w at off.
Overlaid(s, off, n, w) ==
  LET len == IF off + n > Len(s) THEN off + n ELSE Len(s)
  IN  [i \in 1 .. len |-> IF i > off /\ i <= off + n THEN w
                          ELSE IF i <= Len(s) THEN s[i] ELSE 0]

\* Where filewrite puts the next byte.
filewrite(f) ==
  CASE ~of[f].append -> of[f].off
    [] of[f].ip = "ramfs" -> node.size
    [] OTHER -> Ext2Size

\* sys_write: filewrite in pieces of BUF bytes; O_APPEND moves the offset to
\* the end before each.  Where the file has to grow kmalloc may fail, after done
\* bytes: they stay.  ext2_write always fails.
sys_writefile(f, n, done) ==
  LET at == filewrite(f)
  IN /\ of[f].ip # "none" /\ writes < MaxWrites
     /\ done = 0 \/ of[f].ip = "ramfs"
     /\ done = n \/ of[f].ip = "ext2" \/ at + Fewest(done + BUF, n) > node.size
     /\ at + n <= MaxFileSize \/ done = 0
     /\ node' = IF done = 0 THEN node ELSE ramfs_write(node, at, done, writes + 1)
     /\ content' = IF done = 0 THEN content ELSE Overlaid(content, at, done, writes + 1)
     /\ of' = [of EXCEPT ![f].off = at + done]
     /\ writes' = IF done = 0 THEN writes ELSE writes + 1

\* sys_truncate and sys_ftruncate; open files keep their offsets.
sys_ftruncate(length) ==
  /\ node' = ramfs_truncate(node, length)
  /\ content' = [i \in 1 .. length |-> IF i <= Len(content) THEN content[i] ELSE 0]
  /\ UNCHANGED <<of, writes>>

FileDataInit ==
  /\ node = [size |-> 0, data |-> NoData]
  /\ of = [f \in OpenFiles |-> [ip |-> "none", off |-> 0, append |-> FALSE]]
  /\ writes = 0 /\ content = <<>>

FileDataNext ==
  \/ \E f \in OpenFiles :
       \/ sys_openat(f) \/ CloseAgain(f) \/ filelseek(f)
       \/ \E n \in 1 .. BUF + 1 :
            \/ sys_readfile(f, n)
            \/ \E done \in {k \in 0 .. n : k = n \/ k % BUF = 0} : sys_writefile(f, n, done)
  \/ \E length \in 0 .. MaxFileSize : sys_ftruncate(length)

FileDataSpec == FileDataInit /\ [][FileDataNext]_fileDataVars

----------------------------------------------------------------------------
\* A ramfs file has exactly the bytes written to it, zeros where nothing was
\* written since the file was last that short, and a buffer as long as its
\* size; an ext2 file reads as the blocks of the disk and zeros in holes, as
\* far as one indirect block reaches, unless the disk failed (ramfs_write,
\* ramfs_truncate, ext2_bmap, ext2_read_data).
FileContents ==
  /\ node.size = Len(content)
  /\ node.data # NoData => node.data = content
  /\ node.data = NoData => node.size = 0
  /\ \A f \in OpenFiles, n \in 1 .. BUF + 1 :
       of[f].ip = "ext2" =>
         ext2_read_data(of[f].off, n, FALSE, Len(Ext2Blocks)) =
           [i \in 1 .. Fewest(n, Positive(Ext2Size - of[f].off)) |->
              LET b == (of[f].off + i - 1) \div BlockSize IN
                IF b < EXT2_NDIR_BLOCKS + PerBlock THEN Ext2Blocks[b + 1] ELSE 0]
=============================================================================
