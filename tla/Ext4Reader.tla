------------------------------ MODULE Ext4Reader ------------------------------
(***************************************************************************)
(* open, read and seek of files on the disk (filesystem.c) and the ext4    *)
(* directories and inodes below them (disk.c).  The disk is read-only: its *)
(* inodes, directories and block tables are constants.  A byte is known by *)
(* its block and its offset there.                                         *)
(*                                                                         *)
(* open frees the inode that it hands out; the model takes the freed       *)
(* memory to keep its contents while the file is in use (see               *)
(* ProcessTables).  The disk does not fail here: the eMMC driver is Emmc.  *)
(* A step is one turn of a loop: a name of the path, a block of the file.  *)
(***************************************************************************)
EXTENDS Integers, Sequences, FiniteSets, SequencesExt, FiniteSetsExt

CONSTANTS
    BlockBytes,      \* 4096
    SectorsPerBlock, \* 8
    FsStart,         \* FS_START_SECTOR
    DirectBlocks,    \* 12
    InodeBlocks,     \* 15: entries of i_block
    TableEntries,    \* 1024: block numbers of an indirect block
    NumberLimit,     \* 128
    InodeBytes,      \* inode_size
    InodesPerGroup,
    InodeTables,     \* bg_inode_table_lo of the groups
    RootInode,       \* 2
    DiskInodes,          \* i_block of every inode of the disk
    DirBlocks,       \* the entries of every directory block
    Tables,          \* the block numbers of every indirect block
    BehindTable,     \* what may lie in memory behind a block of numbers
    NoNumbers,       \* a block that is not a table, read as one
    PathChars, MaxPath, \* the paths
    ReadCounts, SeekOffsets \* the arguments of read and seek

ASSUME Ext4Assumption ==
    /\ {BlockBytes, SectorsPerBlock, InodeBytes, InodesPerGroup, DirectBlocks} \subseteq Nat \ {0}
    /\ {FsStart, TableEntries, NumberLimit, MaxPath} \cup ReadCounts \cup SeekOffsets \cup BehindTable \subseteq Nat
    /\ BlockBytes % SectorsPerBlock = 0 /\ BlockBytes % InodeBytes = 0
    /\ DirectBlocks + 3 = InodeBlocks /\ RootInode \in DOMAIN DiskInodes
    /\ (InodesPerGroup * InodeBytes) % BlockBytes = 0

(* The used entries of a block of a directory, and of all its blocks, as   *)
(* the disk has them: an entry of length 0 ends a block.                   *)
Used(entries) ==
    {entries[j] : j \in {i \in 1..Len(entries) :
                            entries[i].inode # 0 /\ \A k \in 1..i : entries[k].rec_len # 0}}

Listed(dir) ==
    UNION {Used(DirBlocks[b]) : b \in DOMAIN DirBlocks \cap {DiskInodes[dir][i] : i \in 1..InodeBlocks}}

(* The disk is consistent: 0 is no inode, the inodes are in groups whose   *)
(* tables do not overlap, a name is in a directory once and has an inode,  *)
(* and the indirect block of a file is a table of numbers.                 *)
ASSUME DiskAssumption ==
    /\ InodeTables \in Seq(Nat)
    /\ \A n \in DOMAIN DiskInodes :
          /\ n \in Nat \ {0} /\ n <= Len(InodeTables) * InodesPerGroup
          /\ DiskInodes[n] \in [1..InodeBlocks -> Nat]
          /\ DiskInodes[n][DirectBlocks + 1] \in DOMAIN Tables \cup {0}
          /\ \A e, f \in Listed(n) : e.inode \in DOMAIN DiskInodes /\ (e.name = f.name => e.inode = f.inode)
    /\ \A g, h \in 1..Len(InodeTables) :
          g # h => \/ InodeTables[g] * BlockBytes + InodesPerGroup * InodeBytes <= InodeTables[h] * BlockBytes
                   \/ InodeTables[h] * BlockBytes + InodesPerGroup * InodeBytes <= InodeTables[g] * BlockBytes
    /\ NoNumbers \in [1..TableEntries -> Nat]
    /\ \A b \in DOMAIN Tables : Tables[b] \in [1..TableEntries -> Nat]

VARIABLES
    handle,   \* the open file: path, inode number, pos; NoHandle
    call,     \* the loop of open or read that runs
    last      \* history: the read since the last open or seek

ext4Vars == <<handle, call, last>>

NoHandle == [ino |-> 0, path |-> <<>>, pos |-> 0]
Zero == <<0, 0>>  \* a byte of a hole
NoCall == [op |-> "none", at |-> 0, block |-> 0]
NoRead == [from |-> 0, count |-> 0, bytes |-> <<>>]
-----------------------------------------------------------------------------
(* inode_to_sector: the sector of the block that holds inode n, and the    *)
(* offset of the inode in that block.                                      *)

\* Mutant: inode numbers from 0.
InodeToSectorFromZero(n) ==
    LET group == n \div InodesPerGroup
        at    == (n % InodesPerGroup) * InodeBytes
    IN  [sector |-> FsStart + (InodeTables[group + 1] + at \div BlockBytes) * SectorsPerBlock,
         offset |-> at % BlockBytes]

InodeToSector(n) ==
    LET group == (n - 1) \div InodesPerGroup
        at    == ((n - 1) % InodesPerGroup) * InodeBytes
    IN  [sector |-> FsStart + (InodeTables[group + 1] + at \div BlockBytes) * SectorsPerBlock,
         offset |-> at % BlockBytes]

(* External: where mkfs put inode n, as a byte of the file system. *)
InodeByte(n) ==
    InodeTables[((n - 1) \div InodesPerGroup) + 1] * BlockBytes + ((n - 1) % InodesPerGroup) * InodeBytes

(* read_inode: the inode whose bytes lie at the computed place. *)
ReadInode(n) ==
    LET at == InodeToSector(n)
        byte == ((at.sector - FsStart) * BlockBytes) \div SectorsPerBlock + at.offset
        there == {m \in DOMAIN DiskInodes : InodeByte(m) = byte}
    IN  IF there = {} THEN 0 ELSE CHOOSE m \in there : TRUE

(* inode_from_directory: the first used entry of that name before an entry *)
(* of length 0.                                                            *)
InodeFromDirectory(entries, name) ==
    LET hits == {i \in 1..Len(entries) : /\ entries[i].inode # 0 /\ entries[i].name = name
                                         /\ \A j \in 1..i : entries[j].rec_len # 0}
    IN  IF hits = {} THEN 0 ELSE entries[Min(hits)].inode

(* lookup: the blocks of dir in the order of i_block, holes skipped; the   *)
(* data of a file, read as a directory, has no entry of that name.         *)
LookupName(dir, name) ==
    LET found(i) == InodeFromDirectory(DirBlocks[DiskInodes[dir][i]], name)
        hits == {i \in 1..InodeBlocks : DiskInodes[dir][i] \in DOMAIN DirBlocks /\ found(i) # 0}
    IN  IF hits = {} THEN 0 ELSE ReadInode(found(Min(hits)))

(* strtok from position from: delimiters are skipped, and the next search  *)
(* starts behind the delimiter that ended the token.  No token: <<>>.      *)
Strtok(s, from) ==
    LET start == Min({j \in from..Len(s) : s[j] # "/"} \cup {Len(s) + 1})
        stops == {j \in start..Len(s) : s[j] = "/"}
        end   == IF stops = {} THEN Len(s) + 1 ELSE Min(stops)
    IN  [token |-> SubSeq(s, start, end - 1), save |-> IF stops = {} THEN end ELSE end + 1]
-----------------------------------------------------------------------------
\* Mutant: a read that starts within a block returns its first bytes.
ReadFileBlockFromStart(pos, count, b) ==
    [i \in 1..Min({count, BlockBytes - (pos % BlockBytes)}) |->
        IF b = 0 THEN Zero ELSE <<b, i - 1>>]

(* read_file_block: the bytes of block b from pos on; a hole reads as zeros. *)
ReadFileBlock(pos, count, b) ==
    [i \in 1..Min({count, BlockBytes - (pos % BlockBytes)}) |->
        IF b = 0 THEN Zero ELSE <<b, (pos % BlockBytes) + i - 1>>]

(* The block numbers that read_single_indirect loads. *)
BlockNumbers(iblock) ==
    IF iblock[DirectBlocks + 1] \in DOMAIN Tables THEN Tables[iblock[DirectBlocks + 1]] ELSE NoNumbers
-----------------------------------------------------------------------------
Ext4Init == handle = NoHandle /\ call = NoCall /\ last = NoRead

(* open, up to its loop.  A relative path has no inode. *)
Open(path) ==
    LET absolute == path # <<>> /\ Head(path) = "/"
    IN  /\ handle = NoHandle
        /\ handle' = [ino |-> IF absolute THEN RootInode ELSE 0, path |-> path, pos |-> 0]
        /\ call' = IF absolute THEN [NoCall EXCEPT !.op = "open", !.at = 1] ELSE NoCall
        /\ UNCHANGED last

(* A turn of the loop of open: the next name is looked up. *)
Walk ==
    LET t    == Strtok(handle.path, call.at)
        node == LookupName(handle.ino, t.token)
    IN  /\ call.op = "open"
        /\ \/ t.token = <<>> /\ call' = NoCall /\ UNCHANGED handle
           \/ /\ t.token # <<>>
              /\ handle' = [handle EXCEPT !.ino = node]
              /\ call' = IF node = 0 THEN NoCall ELSE [call EXCEPT !.at = t.save]
        /\ UNCHANGED last

(* read, up to its loops: blocks behind the indirect table are not read.   *)
Read(count) ==
    LET blockno == handle.pos \div BlockBytes
        first   == blockno - DirectBlocks
    IN  /\ call = NoCall /\ handle.ino # 0
        /\ last' = [from |-> handle.pos, count |-> count, bytes |-> <<>>]
        /\ call' = CASE blockno < DirectBlocks -> [op |-> "direct", at |-> blockno, block |-> 0]
                     [] blockno >= DirectBlocks /\ first < TableEntries ->
                            [op |-> "single", at |-> first, block |-> BlockNumbers(DiskInodes[handle.ino])[first + 1]]
                     [] OTHER -> NoCall
        /\ UNCHANGED handle

(* read_file_block and what its callers make of the result. *)
Fetch(b) ==
    LET bytes == ReadFileBlock(handle.pos, last.count - Len(last.bytes), b)
    IN  /\ last' = [last EXCEPT !.bytes = @ \o bytes]
        /\ handle' = [handle EXCEPT !.pos = @ + Len(bytes)]

(* A turn of read_direct: the loop runs over all 15 entries of i_block,    *)
(* the three numbers of tables included.                                   *)
ReadDirect ==
    /\ call.op = "direct"
    /\ Fetch(DiskInodes[handle.ino][call.at + 1])
    /\ call' = IF Len(last'.bytes) >= last.count \/ call.at + 1 = InodeBlocks
               THEN NoCall ELSE [call EXCEPT !.at = @ + 1]

(* A turn of read_single_indirect.  It stops when the next block *number*  *)
(* is not below 128; behind the table, that number is any of BehindTable.  *)
ReadSingleIndirect(behind) ==
    LET at   == call.at + 1
        next == IF at < TableEntries THEN BlockNumbers(DiskInodes[handle.ino])[at + 1] ELSE behind
    IN  /\ call.op = "single"
        /\ \/ /\ Len(last.bytes) >= last.count
              /\ call' = NoCall /\ UNCHANGED <<handle, last>>
           \/ /\ Len(last.bytes) < last.count
              /\ Fetch(call.block)
              /\ call' = IF next >= NumberLimit THEN NoCall ELSE [call EXCEPT !.at = at, !.block = next]

(* seek: SEEK_END is refused and changes nothing. *)
Seek(offset, whence) ==
    /\ call = NoCall /\ handle.ino # 0 /\ last' = NoRead
    /\ handle' = [handle EXCEPT !.pos = CASE whence = "SET" -> offset
                                      [] whence = "CUR" -> @ + offset
                                      [] OTHER -> @]
    /\ UNCHANGED call

PathsOf(n) == UNION {[1..k -> PathChars] : k \in 0..n}

\* Bound of the model: a seek or a read starts within MaxPos.
MaxPos == (DirectBlocks + TableEntries + 1) * BlockBytes

Ext4Next ==
    \/ \E path \in PathsOf(MaxPath) : Open(path)
    \/ Walk \/ ReadDirect \/ \E b \in BehindTable : ReadSingleIndirect(b)
    \/ handle.pos <= MaxPos /\ \E n \in ReadCounts : Read(n)
    \/ handle.pos <= MaxPos /\ \E o \in SeekOffsets, w \in {"SET", "CUR", "END"} : Seek(o, w)

Ext4Spec == Ext4Init /\ [][Ext4Next]_ext4Vars
-----------------------------------------------------------------------------
(* The inode of a name in dir, or 0: what the directory says. *)
NamedIn(dir, name) ==
    LET named == {e.inode : e \in {l \in Listed(dir) : l.name = name}}
    IN  IF dir = 0 \/ named = {} THEN 0 ELSE CHOOSE n \in named : TRUE

(* A name of a path is a longest piece without a delimiter: does one end   *)
(* with character i, and which?                                            *)
NameEnds(path, i) == path[i] # "/" /\ (i = Len(path) \/ path[i + 1] = "/")
NameUpTo(path, i) == SubSeq(path, Min({j \in 1..i : \A k \in j..i : path[k] # "/"}), i)

(* The inodes that the directories along the names lead to, by character.  *)
StepOver(path, node, i) == IF NameEnds(path, i) THEN NamedIn(node, NameUpTo(path, i)) ELSE node

Route(path) ==
    LET at[i \in 0..Len(path)] == IF i = 0 THEN RootInode ELSE StepOver(path, at[i - 1], i)
    IN  at

(* An absolute path opens the inode that the directories along its names   *)
(* lead to, through repeated and trailing delimiters, unused entries,      *)
(* holes and several blocks of one directory, and fails if there is none.  *)
PathsResolve ==
    LET path == handle.path
    IN  path # <<>> /\ call.op # "open" =>
            handle.ino = IF Head(path) = "/" THEN Route(path)[Len(path)] ELSE 0

(* The block number of the l-th block of a file, and the byte at position p. *)
FileBlock(iblock, l) ==
    IF l < DirectBlocks THEN iblock[l + 1] ELSE Tables[iblock[DirectBlocks + 1]][l - DirectBlocks + 1]

ContentAt(iblock, p) ==
    LET b == FileBlock(iblock, p \div BlockBytes) IN IF b = 0 THEN Zero ELSE <<b, p % BlockBytes>>

(* Reads that stay within the direct blocks, or within the blocks of the   *)
(* indirect table, return the contents from the file position on, as much  *)
(* as asked for or, behind the direct blocks, at least something, and move *)
(* the position by what they return: pieces put together are the file.     *)
ReadsAreTheFile ==
    LET iblock == DiskInodes[handle.ino]
        end    == last.from + last.count
        direct == end <= DirectBlocks * BlockBytes
        single == /\ last.from >= DirectBlocks * BlockBytes
                  /\ end <= (DirectBlocks + TableEntries) * BlockBytes
                  /\ iblock[DirectBlocks + 1] # 0
    IN  last.count > 0 /\ (direct \/ single) =>
            /\ last.bytes = [i \in 1..Len(last.bytes) |-> ContentAt(iblock, last.from + i - 1)]
            /\ handle.pos = last.from + Len(last.bytes)
            /\ call = NoCall => last.bytes # <<>> /\ (direct => Len(last.bytes) = last.count)
=============================================================================
