--------------------------- MODULE FixedSizeBlock ---------------------------
(***************************************************************************)
(* FixedSizeBlockAllocator (src/src/allocator/fixed_size_block.rs) behind  *)
(* its lock.  A block that is given back goes to the list of its size      *)
(* class.  New blocks, and those of no class, come from the heap of the    *)
(* crate linked_list_allocator, of which only what module Heap promises is *)
(* known.                                                                  *)
(***************************************************************************)
EXTENDS HeapBase, Sequences, FiniteSetsExt

CONSTANT BlockSizes    \* BLOCK_SIZES, in increasing order

VARIABLES
    list_heads,   \* for each class its free blocks, from the head on
    held,         \* the blocks the fallback allocator has given
    live          \* auxiliary: the blocks the callers have

vars == << list_heads, held, live >>

Classes == DOMAIN BlockSizes

\* Layout::from_size_align(block_size, block_size).
ClassLayout(i) == [size |-> BlockSizes[i], align |-> BlockSizes[i]]

\* The sizes increase, and are powers of two like alignments.
BlockSizesOK ==
    /\ BlockSizes \in Seq(Nat \ {0})
    /\ \A i, j \in Classes : i < j => BlockSizes[i] < BlockSizes[j]
    /\ \A i \in Classes, l \in Layouts :
           BlockSizes[i] >= l.align => BlockSizes[i] % l.align = 0

Fallback == INSTANCE Heap WITH live <- held,
                Layouts <- Layouts \cup {ClassLayout(i) : i \in Classes}

\* Mutant of list_index: a block need not be as large as its alignment.
list_index_Size(l) == {i \in Classes : BlockSizes[i] >= l.size}

\* The classes with large enough blocks; the code takes the first.
list_index(l) == {i \in Classes : BlockSizes[i] >= Max({l.size, l.align})}

Init ==
    /\ list_heads = [i \in Classes |-> << >>]
    /\ Fallback!Init
    /\ live = {}

Give(a, l) == live' = live \cup {Block(a, l)}

\* fallback_alloc(fl) on behalf of the layout l: a block, or null.
fallback_alloc(fl, l) ==
    \/ UNCHANGED vars
    \/ \E a \in HeapStart .. HeapEnd :
           /\ Fallback!Alloc(Block(a, fl))
           /\ Give(a, l)
           /\ UNCHANGED list_heads

\* Mutant of Pop: node.next is not taken.
Pop_Stays(i) == list_heads' = list_heads

\* list_heads[i] = node.next.take()
Pop(i) == list_heads' = [list_heads EXCEPT ![i] = Tail(@)]

Alloc(l) ==
    \/ /\ list_index(l) = {}
       /\ fallback_alloc(l, l)
    \/ /\ list_index(l) # {}
       /\ LET i == Min(list_index(l))
          IN  \/ /\ list_heads[i] = << >>
                 /\ fallback_alloc(ClassLayout(i), l)
              \/ /\ list_heads[i] # << >>
                 /\ Give(Head(list_heads[i]), l)
                 /\ Pop(i)
                 /\ UNCHANGED held

Dealloc(b) ==
    /\ live' = live \ {b}
    /\ \/ /\ list_index(b.layout) = {}
          /\ Fallback!Dealloc(b)
          /\ UNCHANGED list_heads
       \/ /\ list_index(b.layout) # {}
          /\ list_heads' = [list_heads EXCEPT ![Min(list_index(b.layout))] = << b.addr >> \o @]
          /\ UNCHANGED held

Next ==
    \/ \E l \in Layouts : Alloc(l)
    \/ \E b \in live : Dealloc(b)

Spec == Init /\ [][Next]_vars

-----------------------------------------------------------------------------
AbstractHeap == INSTANCE Heap

\* FixedSizeBlockAllocator is a heap if its fallback is one: blocks that
\* go around through the lists keep the size and alignment of their class.
IsHeap == AbstractHeap!Spec

\* Every block of a class that the fallback has given is either with one
\* caller or once in the list of its class, and there is no other block on a
\* list: a list never leads into memory that is in use, and no block is lost.
BlocksPartitioned ==
    \A i \in Classes :
        LET given == {h.addr : h \in {b \in held : b.layout = ClassLayout(i)}}
            used == {b.addr : b \in {c \in live : list_index(c.layout) # {}
                                                    /\ Min(list_index(c.layout)) = i}}
        IN  /\ IsInjective(list_heads[i])
            /\ Range(list_heads[i]) \cap used = {}
            /\ Range(list_heads[i]) \cup used = given
=============================================================================
