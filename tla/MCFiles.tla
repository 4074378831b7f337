------------------------------ MODULE MCFiles ------------------------------
(***************************************************************************)
(* The file layer, one part per behaviour: the table of open files, the    *)
(* blocks of inodes, and read and write with the sizes of fs.h.            *)
(***************************************************************************)
EXTENDS FileTable

CONSTANTS BSIZE, NDIRECT, NINDIRECT, LOGSIZE, NLOG, NBITMAP, Start, Back, Request, MaxCalls  \* of FileWrite
CONSTANTS Width, Val, Count, Jobs                                                       \* of Blocks

VARIABLES size, off, writepc, n, i, calls, trans, moved, result, logfull              \* of FileWrite
VARIABLES d, content, lost, job                                                         \* of Blocks
VARIABLE part

Writes == INSTANCE FileWrite WITH pc <- writepc

\* One direct address, and blocks of two bytes that hold two addresses: a file
\* of 7 blocks uses all three levels of bmap.
Data == INSTANCE Blocks WITH Inode <- {1, 2}, NDIRECT <- 1, NINDIRECT <- 2, BSIZE <- 2

writevars == <<size, off, writepc, n, i, calls, trans, moved, result, logfull>>
datavars == <<d, content, lost, job>>
mcvars == <<vars, writevars, datavars, part>>

ASSUME Writes!FileWriteAssumption
ASSUME Data!BlocksAssumption

\* Two files on seven blocks: both can use their indirect block, one of them
\* its doubly indirect block, and the blocks run out.
Sharing == [inodes |-> {1, 2}, vals |-> {1}, blocks |-> 7, images |-> {<<>>}]

\* One file on nine blocks, which reaches the second block below its doubly
\* indirect address, with two values for what is read back.
Alone == [inodes |-> {1}, vals |-> {1, 2}, blocks |-> 9, images |-> {<<>>}]

\* A root directory and a file that mkfs wrote; the file is then written to,
\* removed and created again.
Bytes(len) == [k \in 1..len |-> 1]
Made == [inodes |-> {2}, vals |-> {2}, blocks |-> 8,
         images |-> {<<Bytes(m), Bytes(k)>> : m \in {1, 5}, k \in 0..6}]

MCJobs == {Sharing, Alone, Made}

\* A part that does not run stays in one initial state.
MCInit ==
    /\ part \in {"table", "write", "data"}
    /\ Init /\ Writes!Init /\ Data!Init
    /\ part # "write" => size = 0 /\ off = 0
    /\ part # "data" => job = Sharing

MCNext ==
    \/ part = "table" /\ Next /\ UNCHANGED <<writevars, datavars, part>>
    \/ part = "write" /\ Writes!Next /\ UNCHANGED <<vars, datavars, part>>
    \/ part = "data" /\ Data!Next /\ UNCHANGED <<vars, writevars, part>>

MCSpec == MCInit /\ [][MCNext]_mcvars

\* Reads and writes on their own.
WriteSpec == part = "write" /\ MCSpec

\* fileread and filewrite: the calls of two processes tile the file, and chunks
\* that take their blocks from one block of the free map fit in the log.
ChunksTile == part = "write" => Writes!ChunksTile

\* The comment in filewrite: no chunk exceeds the log.
ChunksFit == part = "write" => Writes!ChunksFit

\* balloc, bmap and itrunc: a block in use is reached through one address, and
\* readi returns what writei wrote and allocates nothing.
BlocksSound == part = "data" => Data!NoBlockShared /\ Data!ReadsBack

\* The file starts just before each place where bmap needs an index block: the
\* indirect block, the doubly indirect one and the second block below it; or
\* near MAXFILE.
MCStart ==
    LET Indirect == NDIRECT
        Doubly == NDIRECT + NINDIRECT
    IN {k \in {b * BSIZE - s : b \in {0, Indirect, Doubly, Doubly + NINDIRECT, Doubly + NINDIRECT * NINDIRECT},
                               s \in {0, 924}} : k >= 0}
=============================================================================
