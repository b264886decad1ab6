----------------------------- MODULE OsalMemory ----------------------------
(***************************************************************************)
(* The OSAL heap (OSAL_Memory.c).  Blocks with a header each tile the      *)
(* heap: a bucket for long-lived and small allocations, a block in use     *)
(* that walls it off, and the wilderness.  osal_mem_alloc walks the blocks *)
(* from ff1 or from the wilderness on, merges the free neighbours it meets *)
(* and takes the first block that is large enough; one action is one turn  *)
(* of its loop.  Interrupts are held off, so that nothing comes between.   *)
(* A header inside a merged block is never read again: the model forgets   *)
(* it.  Addresses and lengths are bytes (halDataAlign_t is a byte here).   *)
(***************************************************************************)
EXTENDS Integers

CONSTANTS
  HdrSz,    \* OSALMEM_HDRSZ
  MinBlk,   \* OSALMEM_MIN_BLKSZ
  SmallBlk, \* OSALMEM_SMALL_BLKSZ
  Bucket,   \* OSALMEM_SMALLBLK_BUCKET
  MaxHeap,  \* MAXMEMHEAP
  Sizes     \* bound: the sizes that are asked for

Wall == Bucket             \* theHeap[OSALMEM_SMALLBLK_HDRCNT]
BigBlk == Bucket + HdrSz   \* theHeap[OSALMEM_BIGBLK_IDX]
LastBlk == MaxHeap - HdrSz \* theHeap[OSALMEM_LASTBLK_IDX]

\* A block holds a byte besides its header.
ASSUME HeapAssumption ==
  /\ HdrSz \in Nat \ {0} /\ MinBlk \in Nat /\ HdrSz < MinBlk
  /\ SmallBlk \in Nat /\ Bucket \in Nat /\ HdrSz < Bucket
  /\ MaxHeap \in Nat /\ HdrSz < LastBlk - BigBlk
  /\ Sizes \subseteq Nat \ {0}

VARIABLES
  len,          \* hdr.len of every block; its domain is the set of blocks
  inUse,        \* the blocks with hdr.inUse set
  ff1,          \* the first free block of the bucket
  osalMemStat,  \* 1 once osal_mem_kick is done
  \* osal_mem_alloc
  at,           \* "idle", "search", "take", "null", or "kick" in osal_mem_kick
  kick,         \* the request is that of osal_mem_kick
  size, hdr, prev, coal

search == <<at, kick, size, hdr, prev, coal>>
heapVars == <<len, inUse, ff1, osalMemStat, search>>

Blocks == DOMAIN len
FreeBlocks == Blocks \ inUse

\* The bucket, the block that walls it off and the wilderness.
osal_mem_init ==
  /\ len = [a \in {0, Wall, BigBlk} |->
              CASE a = 0 -> Bucket [] a = Wall -> HdrSz [] a = BigBlk -> LastBlk - BigBlk]
  /\ inUse = {Wall}
  /\ ff1 = 0 /\ osalMemStat = 0
  /\ at = "idle" /\ kick = FALSE
  /\ size = 0 /\ hdr = 0 /\ prev = 0 /\ coal = 0
-----------------------------------------------------------------------------
(***************************************************************************)
(* osal_mem_alloc.                                                         *)
(***************************************************************************)

\* The block the search for s bytes starts with.
From(s) == IF osalMemStat = 0 \/ s <= SmallBlk THEN ff1 ELSE BigBlk

Request(n, kicking) ==
  /\ at = "idle"
  /\ size' = n + HdrSz
  /\ hdr' = From(n + HdrSz) /\ coal' = 0 /\ prev' = 0
  /\ at' = "search" /\ kick' = kicking
  /\ UNCHANGED <<len, inUse, ff1, osalMemStat>>

\* The local variables of osal_mem_alloc have no value between two calls.
Forget == size' = 0 /\ hdr' = 0 /\ prev' = 0 /\ coal' = 0

\* To the block after hdr; after the last one there is nothing to find.
Advance ==
  IF hdr + len[hdr] = LastBlk
  THEN at' = "null" /\ UNCHANGED hdr
  ELSE hdr' = hdr + len[hdr] /\ UNCHANGED at

\* Mutant: a block in use does not end the run of free blocks.
PassUsedKeeping ==
  /\ at = "search" /\ hdr \in inUse
  /\ UNCHANGED coal
  /\ Advance
  /\ UNCHANGED <<len, inUse, ff1, osalMemStat, kick, size, prev>>

PassUsed ==
  /\ at = "search" /\ hdr \in inUse
  /\ coal' = 0
  /\ Advance
  /\ UNCHANGED <<len, inUse, ff1, osalMemStat, kick, size, prev>>

\* A free block after a block in use.
PassFree ==
  /\ at = "search" /\ hdr \notin inUse /\ coal = 0
  /\ IF len[hdr] >= size
     THEN at' = "take" /\ UNCHANGED <<hdr, prev, coal>>
     ELSE coal' = 1 /\ prev' = hdr /\ Advance
  /\ UNCHANGED <<len, inUse, ff1, osalMemStat, kick, size>>

\* A free block after a free one, which takes it in.
\* Mutant: the larger block is not looked at.
CoalesceOnly ==
  /\ at = "search" /\ hdr \notin inUse /\ coal = 1
  /\ len' = [a \in Blocks \ {hdr} |-> len[a] + (IF a = prev THEN len[hdr] ELSE 0)]
  /\ Advance
  /\ UNCHANGED <<inUse, ff1, osalMemStat, kick, size, prev, coal>>

Coalesce ==
  /\ at = "search" /\ hdr \notin inUse /\ coal = 1
  /\ len' = [a \in Blocks \ {hdr} |-> len[a] + (IF a = prev THEN len[hdr] ELSE 0)]
  /\ IF len[prev] + len[hdr] >= size
     THEN at' = "take" /\ hdr' = prev
     ELSE Advance
  /\ UNCHANGED <<inUse, ff1, osalMemStat, kick, size, prev, coal>>

\* The block is taken, or its first size bytes if the rest makes a block.
\* Mutant: the rest keeps the length of the whole.
SplitWhole(l) ==
  IF l - size >= MinBlk
  THEN [a \in Blocks \cup {hdr + size} |->
          CASE a = hdr -> size [] a = hdr + size -> l [] OTHER -> len[a]]
  ELSE len

Split(l) ==
  IF l - size >= MinBlk
  THEN [a \in Blocks \cup {hdr + size} |->
          CASE a = hdr -> size [] a = hdr + size -> l - size [] OTHER -> len[a]]
  ELSE len

Take ==
  /\ at = "take"
  /\ len' = Split(len[hdr])
  /\ inUse' = inUse \cup {hdr}
  /\ ff1' = IF osalMemStat = 1 /\ ff1 = hdr THEN hdr + len'[hdr] ELSE ff1
  /\ IF kick THEN at' = "kick" /\ UNCHANGED <<size, hdr, prev, coal>>
             ELSE at' = "idle" /\ Forget
  /\ UNCHANGED <<osalMemStat, kick>>

ReturnNull ==
  /\ at = "null"
  /\ at' = "idle" /\ Forget
  /\ UNCHANGED <<len, inUse, ff1, osalMemStat, kick>>

Loop == PassUsed \/ PassFree \/ Coalesce
-----------------------------------------------------------------------------
(***************************************************************************)
(* osal_mem_free, and osal_mem_kick once all tasks are initialized.        *)
(***************************************************************************)

\* Mutant: ff1 stays where it is.
FreeKeepingFf1(a) ==
  /\ at = "idle"
  /\ inUse' = inUse \ {a}
  /\ UNCHANGED <<len, ff1, osalMemStat, search>>

osal_mem_free(a) ==
  /\ at = "idle"
  /\ inUse' = inUse \ {a}
  /\ ff1' = IF a < ff1 THEN a ELSE ff1
  /\ UNCHANGED <<len, osalMemStat, search>>

\* The bucket is sized for the long-lived allocations and has room left.
BucketHasRoom == \E a \in FreeBlocks : a < Wall

KickRequest ==
  /\ osalMemStat = 0 /\ BucketHasRoom
  /\ Request(1, TRUE)

osal_mem_kick ==
  /\ at = "kick"
  /\ ff1' = hdr
  /\ inUse' = inUse \ {hdr}
  /\ osalMemStat' = 1
  /\ at' = "idle" /\ kick' = FALSE /\ Forget
  /\ UNCHANGED len

HeapNext ==
  \/ \E n \in Sizes : Request(n, FALSE)
  \/ Loop \/ Take \/ ReturnNull
  \/ \E a \in inUse \ {Wall} : osal_mem_free(a)
  \/ KickRequest \/ osal_mem_kick

HeapSpec == osal_mem_init /\ [][HeapNext]_heapVars
-----------------------------------------------------------------------------
(***************************************************************************)
(* Properties.                                                             *)
(***************************************************************************)

\* Every variable has its type; ff1, hdr and prev point at headers, never
\* into a block (osalMemHdr_t and its pointers).
HeapTypeOK ==
  /\ len \in [Blocks -> Nat \ {0}] /\ Blocks \subseteq 0..LastBlk
  /\ inUse \subseteq Blocks
  /\ ff1 \in Blocks /\ ff1 <= Wall
  /\ osalMemStat \in 0..1
  /\ at \in {"idle", "search", "take", "null", "kick"} /\ kick \in BOOLEAN
  /\ size \in Nat /\ coal \in 0..1
  /\ at \in {"search", "take", "kick"} => hdr \in Blocks
  /\ at = "search" /\ coal = 1 => prev \in Blocks

\* No block of the bucket that is free lies before ff1, where no search would
\* find it again (osal_mem_alloc and osal_mem_free move ff1, and so does
\* osal_mem_kick, past the long-lived blocks).
Ff1IsFirst == \A a \in FreeBlocks : ff1 <= a

\* NULL is returned only if it has to be (the loop of osal_mem_alloc, which
\* merges the free blocks it passes): from where the search started no run of
\* free blocks, merged or not, has the size that was asked for.
NullOnlyIfFull ==
  at = "null" =>
    \A a \in Blocks, b \in Blocks \cup {LastBlk} :
      From(size) <= a /\ a < b /\ (\A c \in inUse : c < a \/ b <= c) => b - a < size

\* Whatever is merged and split, the blocks handed out never overlap, never
\* move, and stay in the bucket or the wilderness (osal_mem_alloc,
\* osal_mem_free, osal_mem_kick).
AllocatorOf == INSTANCE Allocator WITH
  Areas <- {<<0, Wall>>, <<BigBlk, LastBlk>>},
  inUse <- [a \in inUse \ {Wall} |-> len[a]]
ImplementsAllocator == AllocatorOf!Spec
=============================================================================
