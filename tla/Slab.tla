-------------------------------- MODULE Slab --------------------------------
(***************************************************************************)
(* SlabAllocator, the kernel's global allocator (src/src/allocator/slab.rs *)
(* and src/src/allocator.rs), behind its lock.  A page holds a Cache, or a *)
(* Slab with its bufctl table and its objects, or a part of a large block. *)
(* The circular lists of slabs are sequences of page addresses.            *)
(***************************************************************************)
EXTENDS HeapBase, Sequences, FiniteSetsExt

CONSTANT MaxLive     \* bound: callers have at most this many blocks

PAGE_SIZE == 4096
MAX_SLAB_SIZE == 2048
SlabSize == 40       \* size_of::<Slab>()
BufCtlSize == 4      \* size_of::<BufCtl>()
END == -1            \* BufCtl::END: no index

VARIABLES
    next,          \* page_alloc.next
    node_caches,   \* the caches by class; a class outside the domain is null
    slabs,         \* the slabs by the address of their page
    panicked,      \* an expect has failed: the panic handler never returns
    live           \* auxiliary: the blocks the callers have

vars == << next, node_caches, slabs, panicked, live >>

PowersOfTwo == {2^k : k \in 0 .. 11}

\* size.trailing_zeros().saturating_sub(3)
ClassIndex(size) ==
    LET trailing_zeros == CHOOSE k \in 0 .. 11 : size % 2^k = 0 /\ size % 2^(k + 1) # 0
    IN  Max({trailing_zeros - 3, 0})

Small(l) == l.size <= MAX_SLAB_SIZE

Pages(size) == (size + PAGE_SIZE - 1) \div PAGE_SIZE

PageOf(addr) == addr - (addr % PAGE_SIZE)

-----------------------------------------------------------------------------
(* Lists.                                                                  *)

Lists == {"slabs_full", "slabs_partial", "slabs_free"}

list_add(c, list, p) == [c EXCEPT ![list] = << p >> \o @]

\* list_del does not know the list that the slab is on.
list_del(c, p) ==
    LET Without(s) == SelectSeq(s, LAMBDA q : q # p)
    IN  [c EXCEPT !.slabs_full = Without(@), !.slabs_partial = Without(@), !.slabs_free = Without(@)]

Move(c, p, list) == list_add(list_del(c, p), list, p)

-----------------------------------------------------------------------------
(* Caches and slabs.                                                       *)

\* Mutant of ObjSize: rounds down.
ObjSize_Down(size) == Max({n \in PowersOfTwo : n <= Max({size, 8})})

\* size.max(8).next_power_of_two()
ObjSize(size) == Min({n \in PowersOfTwo : n >= Max({size, 8})})

\* The cache that get_or_create_cache writes into the page p.
NewCache(p, size) ==
    LET obj_size == ObjSize(size)
    IN  [addr |-> p, obj_size |-> obj_size,
         num |-> (PAGE_SIZE - SlabSize) \div (obj_size + BufCtlSize),
         slabs_full |-> << >>, slabs_partial |-> << >>, slabs_free |-> << >>]

\* Mutant of s_mem: the objects begin where the bufctl table does.
s_mem_NoTable(p, num) == align_up(p + SlabSize, 8)

\* The first object of a slab is behind the header and the bufctl table.
s_mem(p, num) == align_up(p + SlabSize + num * BufCtlSize, 8)

\* The slab that cache_grow writes into the page p.
NewSlab(p, c) ==
    [s_mem |-> s_mem(p, c.num), free |-> 0, inuse |-> 0,
     bufctl |-> [i \in 0 .. c.num - 1 |-> IF i + 1 = c.num THEN END ELSE i + 1]]

Init ==
    /\ next = HeapStart
    /\ node_caches = << >>
    /\ slabs = << >>
    /\ panicked = FALSE
    /\ live = {}

\* f with f[x] = v, whether or not x is in its domain.
Put(f, x, v) == [y \in DOMAIN f \cup {x} |-> IF y = x THEN v ELSE f[y]]

\* Large blocks are whole pages; null when there are not enough.
AllocLarge(l) ==
    /\ ~Small(l)
    /\ \/ /\ next + Pages(l.size) * PAGE_SIZE > HeapEnd
          /\ UNCHANGED vars
       \/ /\ next + Pages(l.size) * PAGE_SIZE <= HeapEnd
          /\ next' = next + Pages(l.size) * PAGE_SIZE
          /\ live' = live \cup {Block(next, l)}
          /\ UNCHANGED << node_caches, slabs, panicked >>

\* Mutant of AfterAlloc: a slab with no object left stays where it is.
AfterAlloc_Stays(c, p, inuse) == c

\* The last part of alloc: a slab with no object left is full.
AfterAlloc(c, p, inuse) == IF inuse = c.num THEN Move(c, p, "slabs_full") ELSE c

\* Mutant of NeedsSlab: the list of free slabs is not looked at.
NeedsSlab_Partial(c) == c.slabs_partial = << >>

NeedsSlab(c) == c.slabs_partial = << >> /\ c.slabs_free = << >>

\* A cache is made for the first block of a class, and a slab when the cache
\* has none with an object left; each takes a page, or alloc panics.  A cache
\* may have been made when there is no page for its first slab.
AllocSmall(l) ==
    LET idx == ClassIndex(l.size)
        new == idx \notin DOMAIN node_caches
        cache == IF new THEN NewCache(next, l.size) ELSE node_caches[idx]
        grow == NeedsSlab(cache)
        page == IF new THEN next + PAGE_SIZE ELSE next
        end == IF grow THEN page + PAGE_SIZE ELSE page
        grown == IF grow THEN list_add(cache, "slabs_free", page) ELSE cache
        p == IF cache.slabs_partial # << >> THEN Head(cache.slabs_partial) ELSE Head(grown.slabs_free)
        slab == IF grow THEN NewSlab(page, cache) ELSE slabs[p]
        used == IF cache.slabs_partial # << >> THEN cache ELSE Move(grown, p, "slabs_partial")
    IN  /\ Small(l)
        /\ \/ /\ end > HeapEnd
              /\ panicked' = TRUE
              /\ IF new /\ page <= HeapEnd
                 THEN next' = page /\ node_caches' = Put(node_caches, idx, cache)
                 ELSE UNCHANGED << next, node_caches >>
              /\ UNCHANGED << slabs, live >>
           \/ /\ end <= HeapEnd
              /\ next' = end
              /\ slabs' = Put(slabs, p, [slab EXCEPT !.free = slab.bufctl[@], !.inuse = @ + 1])
              /\ node_caches' = Put(node_caches, idx, AfterAlloc(used, p, slab.inuse + 1))
              /\ live' = live \cup {Block(slab.s_mem + slab.free * cache.obj_size, l)}
              /\ UNCHANGED panicked

Alloc(l) == ~panicked /\ (AllocLarge(l) \/ AllocSmall(l))

\* The cache's last part of dealloc: the test for a slab that was full comes
\* first, so a slab of one object goes to the partial list when it is empty.
AfterDealloc(c, p, inuse) ==
    IF inuse + 1 = c.num THEN Move(c, p, "slabs_partial")
    ELSE IF inuse = 0 THEN Move(c, p, "slabs_free")
    ELSE c

\* Mutant of Chained: the object is not linked to the rest of the chain.
Chained_Lost(slab, obj_idx) ==
    [slab EXCEPT !.bufctl[obj_idx] = END, !.free = obj_idx, !.inuse = @ - 1]

\* The object becomes the first of the free ones.
Chained(slab, obj_idx) ==
    [slab EXCEPT !.bufctl[obj_idx] = slab.free, !.free = obj_idx, !.inuse = @ - 1]

\* The pages of a large block do not come back.
Dealloc(b) ==
    /\ ~panicked
    /\ live' = live \ {b}
    /\ UNCHANGED << next, panicked >>
    /\ \/ ~Small(b.layout) /\ UNCHANGED << node_caches, slabs >>
       \/ /\ Small(b.layout)
          /\ LET idx == ClassIndex(b.layout.size)
                 cache == node_caches[idx]
                 p == PageOf(b.addr)
                 slab == slabs[p]
             IN  /\ slabs' = [slabs EXCEPT ![p] = Chained(slab, (b.addr - slab.s_mem) \div cache.obj_size)]
                 /\ node_caches' = [node_caches EXCEPT ![idx] = AfterDealloc(cache, p, slab.inuse - 1)]

\* The panic handler never returns.
Halted == panicked /\ UNCHANGED vars

Next ==
    \/ Cardinality(live) < MaxLive /\ \E l \in Layouts : Alloc(l)
    \/ \E b \in live : Dealloc(b)
    \/ Halted

Spec == Init /\ [][Next]_vars

-----------------------------------------------------------------------------
AbstractHeap == INSTANCE Heap

\* SlabAllocator is a heap for layouts that it serves: no alignment above 8
\* for a small block, and no two object sizes that share a class.
IsHeap == AbstractHeap!Spec

\* The slabs of a cache.
SlabsOf(c) == UNION {Range(c[list]) : list \in Lists}

\* The objects of the slab p of c that callers have, by their index.
UsedObjects(c, p) ==
    {i \in 0 .. c.num - 1 : \E b \in live : b.addr = slabs[p].s_mem + i * c.obj_size}

\* The free chain of a slab visits every object that no caller has, once, and
\* nothing else, in whatever order objects were given back.
FreeChain ==
    \A idx \in DOMAIN node_caches :
        LET c == node_caches[idx]
        IN  \A p \in SlabsOf(c) :
                LET s == slabs[p]
                    left == c.num - s.inuse
                    chain[n \in 0 .. left] ==
                        IF n = 0 THEN s.free
                        ELSE LET i == chain[n - 1] IN IF i = END THEN END ELSE s.bufctl[i]
                IN  /\ s.inuse = Cardinality(UsedObjects(c, p))
                    /\ {chain[n] : n \in 0 .. left - 1} = (0 .. c.num - 1) \ UsedObjects(c, p)
                    /\ chain[left] = END

\* Every slab is on one list of one cache: on slabs_full when it has no object
\* left, on slabs_free only when all are, so that alloc finds an object in the
\* first slab of the list it looks at.
SlabsOnLists ==
    /\ \A idx \in DOMAIN node_caches :
           LET c == node_caches[idx]
           IN  /\ \A list \in Lists : IsInjective(c[list])
               /\ \A p \in Range(c.slabs_full) : slabs[p].inuse = c.num
               /\ \A p \in Range(c.slabs_partial) : slabs[p].inuse < c.num
               /\ \A p \in Range(c.slabs_free) : slabs[p].inuse = 0
    /\ \A p \in DOMAIN slabs :
           Cardinality({x \in (DOMAIN node_caches) \X Lists :
                            p \in Range(node_caches[x[1]][x[2]])}) = 1

\* No block that a caller may write to holds a cache, or the header or the
\* bufctl table of a slab.
MetadataIsNotLive ==
    \A b \in live :
        /\ \A idx \in DOMAIN node_caches :
               Apart(b.addr, b.layout.size, node_caches[idx].addr, PAGE_SIZE)
        /\ \A p \in DOMAIN slabs :
               Apart(b.addr, b.layout.size, p, SlabSize + Cardinality(DOMAIN slabs[p].bufctl) * BufCtlSize)

\* Small blocks do not leak: alloc gives a cache another slab only when
\* callers have every object of the slabs it has.
GrowsOnlyWhenFull ==
    [][\A idx \in DOMAIN node_caches :
           LET c == node_caches[idx]
           IN  SlabsOf(node_caches'[idx]) # SlabsOf(c)
                   => \A p \in SlabsOf(c) : Cardinality(UsedObjects(c, p)) = c.num]_vars

-----------------------------------------------------------------------------
(* What a comment of slab.rs says and the code does not do.                *)

\* "Recherche ou cree un cache pour une taille d'objet donnee": the objects
\* of the cache that serves a small block are as large as the block.
CacheServesSize ==
    \A b \in live :
        Small(b.layout) => node_caches[ClassIndex(b.layout.size)].obj_size >= b.layout.size
=============================================================================
