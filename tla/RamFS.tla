-------------------------------- MODULE RamFS --------------------------------
(***************************************************************************)
(* The RAM filesystem of ramfs.rs and the syscall dispatch of syscalls.rs, *)
(* composed with the kernel heap (module Heap): every FSNode and every     *)
(* file's data buffer is a kmalloc block of the same arena.                *)
(*                                                                         *)
(* `nodes` maps a node's address to its fields (the name is left out: no   *)
(* operation modelled here reads it).  `FDS` is the descriptor table.      *)
(* `mem` holds the bytes written through fs_write, by address; a byte no   *)
(* write has reached reads as Junk (kmalloc does not clear memory).        *)
(*                                                                         *)
(* Two history variables state what the spec promises: `content` is each  *)
(* file's byte string as the spec's read/write semantics build it, and    *)
(* `clobbered` the heap headers and node records a write has run over.     *)
(* `rv`, `rbuf` and `last` are the last call's return value, the bytes a   *)
(* read copied out, and which call it was.                                 *)
(*                                                                         *)
(* The environment is kernel code calling fs_touch and syscall(); nothing  *)
(* calls the filesystem from an interrupt handler, so calls are atomic.    *)
(***************************************************************************)
EXTENDS Integers, Sequences, FiniteSets, SequencesExt, FiniteSetsExt

CONSTANTS
    WordBits, HEAP_START, HEAP_SIZE, BLOCK, OverflowChecks,
    FSNODE_SIZE,      \* core::mem::size_of::<FSNode>() (116 on i686)
    DATA_SIZE,        \* the buffer fs_touch allocates per file (1024)
    MAX_CHILDREN,     \* 16
    MAX_OPEN_FILES,   \* 16
    Vals,             \* byte values callers write (not Junk)
    WriteSizes,       \* sizes callers pass to write
    ReadSizes,        \* sizes callers pass to read
    WriteLimit,       \* callers write only while offset + size <= WriteLimit
    OpenAnyNode       \* TRUE: callers may pass any node (or NULL) to open

VARIABLES FREE_LIST, blocks, ret, halted, live,
          ROOT, nodes, FDS, mem, content, clobbered, rv, rbuf, last

H == INSTANCE Heap WITH Requests <- {}

heapVars == <<FREE_LIST, blocks, ret, halted, live>>
fsVars   == <<ROOT, nodes, FDS, mem, content, clobbered>>
vars     == <<heapVars, fsVars, rv, rbuf, last>>

NULL == H!NULL
Junk == 0

ASSUME /\ Vals \subseteq Nat \ {Junk}
       \* fs_touch's two requests cannot trip an overflow check
       /\ DATA_SIZE + BLOCK + 31 < 2^WordBits /\ FSNODE_SIZE + BLOCK + 31 < 2^WordBits
       /\ OpenAnyNode \in BOOLEAN

Files == { n \in DOMAIN nodes : nodes[n].type = "File" }

Mem(a) == IF a \in DOMAIN mem THEN mem[a] ELSE Junk

-----------------------------------------------------------------------------
(* fs_create_node: the node record as the code initialises it.             *)
NewNode(ty) == [type |-> ty, size |-> 0, data |-> NULL, parent |-> NULL,
                children |-> <<>>]

\* A variant of fs_add_child whose bound test is off by one (<=).
AddChild_OffByOne(nd, parent, child) ==
    IF parent = NULL \/ child = NULL THEN nd
    ELSE IF Len(nd[parent].children) <= MAX_CHILDREN
    THEN [nd EXCEPT ![parent].children = Append(@, child),
                    ![child].parent = parent]
    ELSE nd

\* A variant of fs_add_child that never sets the child's parent link.
AddChild_NoParent(nd, parent, child) ==
    IF parent = NULL \/ child = NULL THEN nd
    ELSE IF Len(nd[parent].children) < MAX_CHILDREN
    THEN [nd EXCEPT ![parent].children = Append(@, child)]
    ELSE nd

(* fs_add_child(parent, child) on node map nd: append unless the parent   *)
(* already has MAX_CHILDREN children, then set the child's parent.  The   *)
(* refusal is silent.                                                      *)
AddChild(nd, parent, child) ==
    IF parent = NULL \/ child = NULL THEN nd
    ELSE IF Len(nd[parent].children) < MAX_CHILDREN
    THEN [nd EXCEPT ![parent].children = Append(@, child),
                    ![child].parent = parent]
    ELSE nd

(* The first unused descriptor slot, or -1.                                *)
FreeSlot == IF \E i \in 0 .. MAX_OPEN_FILES - 1 : ~FDS[i].used
            THEN Min({ i \in 0 .. MAX_OPEN_FILES - 1 : ~FDS[i].used })
            ELSE -1

(* The fd checks shared by fs_read and fs_write: in range, used, and on a *)
(* non-null File node.                                                     *)
FdUsable(fd) ==
    /\ fd >= 0 /\ fd < MAX_OPEN_FILES
    /\ FDS[fd].used
    /\ FDS[fd].node # NULL
    /\ nodes[FDS[fd].node].type = "File"

\* The spec's write semantics on a byte string: n copies of v at offset off.
Overwrite(s, off, n, v) ==
    [i \in 1 .. IF off + n > Len(s) THEN off + n ELSE Len(s) |->
        IF i > off /\ i <= off + n THEN v ELSE s[i]]

\* Heap structures: block headers and node records, as [lo, hi) ranges.
Structures == { [lo |-> h, hi |-> h + BLOCK] : h \in DOMAIN blocks }
              \cup { [lo |-> x, hi |-> x + FSNODE_SIZE] : x \in DOMAIN nodes }

-----------------------------------------------------------------------------
(* rust_main: init_heap, then fs_init creates the root directory "/".      *)
Init ==
    LET r == H!Malloc(HEAP_START :> H!Header(HEAP_SIZE - BLOCK, NULL, TRUE),
                      FSNODE_SIZE)
    IN /\ FREE_LIST = HEAP_START
       /\ blocks = r.blocks
       /\ ret = r.ret
       /\ halted = FALSE
       /\ live = {}
       /\ ROOT = r.ret
       /\ nodes = r.ret :> NewNode("Directory")
       /\ FDS = [i \in 0 .. MAX_OPEN_FILES - 1 |-> [node |-> NULL, offset |-> 0, used |-> FALSE]]
       /\ mem = <<>>
       /\ content = <<>>
       /\ clobbered = {}
       /\ rv = 0
       /\ rbuf = <<>>
       /\ last = [op |-> -2, fd |-> -1, n |-> 0]

(* fs_touch(path): kmalloc an FSNode (return NULL if that fails), kmalloc *)
(* its 1 KiB data buffer (NULL is kept if that fails), and attach it under *)
(* ROOT.  The node is returned even when fs_add_child refused it.          *)
fs_touch ==
    LET r1   == H!Malloc(blocks, FSNODE_SIZE)
        node == r1.ret
        r2   == H!Malloc(r1.blocks, DATA_SIZE)
    IN /\ ~halted
       /\ IF node = NULL
          THEN /\ blocks' = r1.blocks /\ ret' = NULL
               /\ UNCHANGED <<nodes, content>>
          ELSE /\ blocks' = r2.blocks /\ ret' = r2.ret
               /\ nodes' = AddChild((node :> [NewNode("File") EXCEPT !.data = r2.ret]) @@ nodes,
                                    ROOT, node)
               /\ content' = (node :> <<>>) @@ content
       /\ rv' = node
       /\ last' = [op |-> -1, fd |-> -1, n |-> 0]
       /\ UNCHANGED <<FREE_LIST, halted, live, ROOT, FDS, mem, clobbered, rbuf>>

\* A variant of fs_open that reuses a slot without resetting its offset.
fs_open_KeepsOffset(node) ==
    LET i == FreeSlot IN
    /\ IF i = -1
       THEN UNCHANGED FDS
       ELSE FDS' = [FDS EXCEPT ![i].node = node, ![i].used = TRUE]
    /\ rv' = i
    /\ UNCHANGED <<halted, mem, nodes, content, clobbered, rbuf>>

(* fs_open(node): the lowest unused slot gets {node, 0, used}; -1 if the  *)
(* table is full.  The node is not checked.                                *)
fs_open(node) ==
    LET i == FreeSlot IN
    /\ IF i = -1
       THEN UNCHANGED FDS
       ELSE FDS' = [FDS EXCEPT ![i] = [node |-> node, offset |-> 0, used |-> TRUE]]
    /\ rv' = i
    /\ UNCHANGED <<halted, mem, nodes, content, clobbered, rbuf>>

\* A variant of fs_read that never clamps to the end of the file.
fs_read_NoClamp(fd, size) ==
    IF ~FdUsable(fd)
    THEN rv' = -1 /\ UNCHANGED <<halted, FDS, mem, nodes, content, clobbered, rbuf>>
    ELSE LET d  == FDS[fd]
             nd == nodes[d.node]
         IN /\ rbuf' = [i \in 1 .. size |-> Mem(nd.data + d.offset + i - 1)]
            /\ FDS' = [FDS EXCEPT ![fd].offset = (@ + size) % H!Word]
            /\ rv' = size
            /\ UNCHANGED <<halted, mem, nodes, content, clobbered>>

(* fs_read(fd, buf, size): copy min(size, node.size - offset) bytes out, *)
(* where the test is offset + size > node.size in usize arithmetic.       *)
fs_read(fd, size) ==
    IF ~FdUsable(fd)
    THEN rv' = -1 /\ UNCHANGED <<halted, FDS, mem, nodes, content, clobbered, rbuf>>
    ELSE LET d   == FDS[fd]
             nd  == nodes[d.node]
             sum == d.offset + size
         IN IF sum >= H!Word /\ OverflowChecks
            THEN halted' = TRUE /\ rv' = -1
                 /\ UNCHANGED <<FDS, mem, nodes, content, clobbered, rbuf>>
            ELSE LET rem == IF sum % H!Word > nd.size
                            THEN (nd.size - d.offset) % H!Word ELSE size
                 IN /\ rbuf' = [i \in 1 .. rem |-> Mem(nd.data + d.offset + i - 1)]
                    /\ FDS' = [FDS EXCEPT ![fd].offset = (@ + rem) % H!Word]
                    /\ rv' = rem
                    /\ UNCHANGED <<halted, mem, nodes, content, clobbered>>

\* A variant of fs_write that copies to the start of the buffer, not to
\* data + offset.
fs_write_IgnoresOffset(fd, v, size) ==
    IF ~FdUsable(fd)
    THEN rv' = -1 /\ UNCHANGED <<halted, FDS, mem, nodes, content, clobbered, rbuf>>
    ELSE LET d    == FDS[fd]
             n    == d.node
             dst  == nodes[n].data
             off2 == d.offset + size
         IN /\ mem' = [a \in dst .. dst + size - 1 |-> v] @@ mem
            /\ clobbered' = clobbered \cup
                  { s \in Structures : s.lo < dst + size /\ dst < s.hi }
            /\ content' = [content EXCEPT ![n] = Overwrite(@, d.offset, size, v)]
            /\ FDS' = [FDS EXCEPT ![fd].offset = off2 % H!Word]
            /\ nodes' = [nodes EXCEPT ![n].size =
                            IF off2 % H!Word > @ THEN off2 % H!Word ELSE @]
            /\ rv' = size
            /\ UNCHANGED <<halted, rbuf>>

(* fs_write(fd, buf, size): copy size bytes (all of value v) to           *)
(* data + offset with no bound against the buffer, advance the offset,    *)
(* and grow node.size to it.                                               *)
fs_write(fd, v, size) ==
    IF ~FdUsable(fd)
    THEN rv' = -1 /\ UNCHANGED <<halted, FDS, mem, nodes, content, clobbered, rbuf>>
    ELSE LET d    == FDS[fd]
             n    == d.node
             dst  == nodes[n].data + d.offset
             off2 == d.offset + size
         IN /\ mem' = [a \in dst .. dst + size - 1 |-> v] @@ mem
            /\ clobbered' = clobbered \cup
                  { s \in Structures : s.lo < dst + size /\ dst < s.hi }
            /\ content' = [content EXCEPT ![n] = Overwrite(@, d.offset, size, v)]
            /\ IF off2 >= H!Word /\ OverflowChecks
               THEN halted' = TRUE /\ rv' = -1 /\ UNCHANGED <<FDS, nodes>>
               ELSE /\ FDS' = [FDS EXCEPT ![fd].offset = off2 % H!Word]
                    /\ nodes' = [nodes EXCEPT ![n].size =
                                    IF off2 % H!Word > @ THEN off2 % H!Word ELSE @]
                    /\ rv' = size
                    /\ UNCHANGED halted
            /\ UNCHANGED rbuf

(* fs_close(fd): mark the slot unused if fd is in range.                   *)
fs_close(fd) ==
    /\ IF fd >= 0 /\ fd < MAX_OPEN_FILES
       THEN FDS' = [FDS EXCEPT ![fd].used = FALSE]
       ELSE UNCHANGED FDS
    /\ UNCHANGED <<halted, mem, nodes, content, clobbered, rbuf>>

(* syscall(num, a1, a2, a3): 0 open(a1 as node), 1 read(a1, a2, a3),      *)
(* 2 write(a1, a2, a3), 3 close(a1) returning 0, anything else -1.        *)
syscall(num, a1, a2, a3) ==
    /\ ~halted
    /\ CASE num = 0 -> fs_open(a1)
         [] num = 1 -> fs_read(a1, a3)
         [] num = 2 -> fs_write(a1, a2, a3)
         [] num = 3 -> fs_close(a1) /\ rv' = 0
         [] OTHER   -> rv' = -1 /\ UNCHANGED <<halted, FDS, mem, nodes, content, clobbered, rbuf>>
    /\ last' = [op |-> num, fd |-> a1, n |-> a3]
    /\ UNCHANGED <<FREE_LIST, blocks, ret, live, ROOT>>

-----------------------------------------------------------------------------
(* The callers.  open is passed a file node (or, with OpenAnyNode, any    *)
(* node or NULL); read and write take an fd in or just out of range; a    *)
(* write is issued only while it stays below WriteLimit.                   *)
OpenArgs == IF OpenAnyNode THEN DOMAIN nodes \cup {NULL} ELSE Files
FdArgs   == -1 .. MAX_OPEN_FILES

WriteFits(fd, size) ==
    fd \in 0 .. MAX_OPEN_FILES - 1 => FDS[fd].offset + size <= WriteLimit

Next ==
    \/ fs_touch
    \/ \E nd \in OpenArgs : syscall(0, nd, NULL, 0)
    \/ \E fd \in FdArgs, k \in ReadSizes : syscall(1, fd, NULL, k)
    \/ \E fd \in FdArgs, v \in Vals, k \in WriteSizes :
          WriteFits(fd, k) /\ syscall(2, fd, v, k)
    \/ \E fd \in FdArgs : syscall(3, fd, NULL, 0)
    \/ syscall(4, 0, NULL, 0)

Spec == Init /\ [][Next]_vars

-----------------------------------------------------------------------------
(* Properties.                                                             *)

\* FileDescriptor: {node, offset, used}.
FileDescriptor == [node : DOMAIN nodes \cup {NULL}, offset : 0 .. H!Word - 1, used : BOOLEAN]

TypeOK ==
    /\ ROOT \in DOMAIN nodes
    /\ \A n \in DOMAIN nodes :
         /\ nodes[n].type \in {"File", "Directory"}
         /\ nodes[n].size \in 0 .. H!Word - 1
         /\ nodes[n].parent \in DOMAIN nodes \cup {NULL}
         /\ nodes[n].children \in Seq(DOMAIN nodes)
         /\ Len(nodes[n].children) <= MAX_CHILDREN
    /\ FDS \in [0 .. MAX_OPEN_FILES - 1 -> FileDescriptor]
    /\ DOMAIN content = Files
    /\ \A a \in DOMAIN mem : mem[a] \in Vals

(* The node links agree (spec section 3): the root has no parent; a node's *)
(* children name it as their parent and none is listed twice; a node with *)
(* a parent is among that parent's children and no other node's.  Node    *)
(* records are heap blocks, so a heap that handed out one block twice, or *)
(* an fs_add_child that dropped a link, shows up here.                    *)
TreeWellFormed ==
    /\ nodes[ROOT].parent = NULL
    /\ \A p \in DOMAIN nodes :
         /\ IsInjective(nodes[p].children)
         /\ \A i \in 1 .. Len(nodes[p].children) : nodes[nodes[p].children[i]].parent = p
    /\ \A c \in DOMAIN nodes :
         \A p \in DOMAIN nodes : c \in ToSet(nodes[p].children) <=> nodes[c].parent = p

(* Every file holds what was written to it (spec section 8, filesystem    *)
(* round-trip): its size is the length of its byte string under the       *)
(* spec's write semantics, and the bytes at data .. data + size - 1 are   *)
(* that string.  Two files whose buffers overlap, or a write that runs    *)
(* into another file's buffer, breaks it.                                  *)
ContentsPreserved ==
    \A f \in Files :
        /\ nodes[f].size = Len(content[f])
        /\ \A i \in 1 .. Len(content[f]) : Mem(nodes[f].data + i - 1) = content[f][i]

(* A read that succeeds returns min(size, node.size - offset) and copies  *)
(* exactly those bytes of the file's byte string from the descriptor's    *)
(* offset (spec sections 4.10 and 8).                                      *)
ReadReturnsContent ==
    [][ last'.op = 1 /\ rv' >= 0 =>
          LET d == FDS[last'.fd]
              s == content[d.node]
          IN /\ d.offset + rv' <= Len(s)
             /\ rbuf' = SubSeq(s, d.offset + 1, d.offset + rv')
             /\ rv' = IF Len(s) - d.offset < last'.n THEN Len(s) - d.offset ELSE last'.n ]_vars

(* A used descriptor on a file never points past the file's end (spec     *)
(* section 3: "offset <= node.size on entry to read").  fs_read computes   *)
(* node.size - offset when offset + size passes the end, which wraps in    *)
(* usize if the offset ever exceeds the size.  It holds only because       *)
(* fs_open resets the offset of a reused slot, fs_write raises the size to *)
(* the offset it leaves, fs_read clamps, and no operation shrinks a file,  *)
(* whichever of two descriptors on one file moves.                         *)
OffsetWithinFile ==
    \A i \in 0 .. MAX_OPEN_FILES - 1 :
        FDS[i].used /\ FDS[i].node \in Files => FDS[i].offset <= nodes[FDS[i].node].size

(* Spec section 3: a used descriptor refers to a non-null File node.      *)
FdRefersToFile ==
    \A i \in 0 .. MAX_OPEN_FILES - 1 :
        FDS[i].used => FDS[i].node # NULL /\ nodes[FDS[i].node].type = "File"

(* No write lands on heap metadata: fs_write never overwrites a block     *)
(* header or a node record (spec 4.10: files have a fixed 1 KiB buffer).  *)
HeapMetadataIntact == clobbered = {}
====
