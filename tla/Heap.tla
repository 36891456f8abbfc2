---------------------------------- MODULE Heap ---------------------------------
(***************************************************************************)
(* malloc and free of user programs (umalloc.c): a circular list of free   *)
(* blocks by address, entered at freep.  Addresses and sizes count headers;*)
(* the anchor `base' has address 0, the heap begins above it.  A program   *)
(* that uses malloc does not call sbrk itself.                             *)
(***************************************************************************)
EXTENDS Integers, SequencesExt

CONSTANTS
  Requests,  \* sizes that the program asks for, in units with the header
  NALLOC,    \* what morecore asks for at least
  HEAP       \* what the kernel grants at most

HeapAssumption == Requests \subseteq Nat \ {0, 1} /\ NALLOC \in Nat \ {0} /\ HEAP \in Nat

VARIABLES
  ptr, size,  \* the headers
  freep,      \* -1 is the null pointer
  brk,        \* the first unit above the heap
  held,       \* what the program has: address of the header and size
  refused,    \* the last malloc returned 0 for this request, else 0
  mem         \* the test of usertests.c: where it is, its blocks from the newest

vars == <<ptr, size, freep, brk, held, refused, mem>>
Null == -1
BASE == 0

Init ==
  /\ ptr = [a \in 0 .. HEAP |-> Null] /\ size = [a \in 0 .. HEAP |-> 0]
  /\ freep = Null /\ brk = 1 /\ held = {} /\ refused = 0
  /\ mem \in {[at |-> "off", list |-> <<>>], [at |-> "fill", list |-> <<>>]}

\* l is a list: ptr, size, freep.  Its nodes, from freep to freep.
Walk(l) ==
  LET w == FoldLeft(LAMBDA n, i : Append(n, l.ptr[Last(n)]), <<l.freep>>, [i \in 1 .. HEAP + 1 |-> i])
  IN SubSeq(w, 1, Min({k \in 2 .. HEAP + 2 : w[k] = l.freep}))
Nodes(l) == Range(Walk(l))

-----------------------------------------------------------------------------
(* free                                                                    *)

\* p is the block before bp, or the last one.
Before(l, p, bp) ==
  LET q == l.ptr[p] IN (p < bp /\ bp < q) \/ (p >= q /\ (bp > p \/ bp < q))
Freed(l, bp) ==
  LET w == Walk(l)
      p == w[Min({k \in DOMAIN w : Before(l, w[k], bp)})]
      q == l.ptr[p]
      up == bp + l.size[bp] = q
      bsize == IF up THEN l.size[bp] + l.size[q] ELSE l.size[bp]
      bptr == IF up THEN l.ptr[q] ELSE q
      down == p + l.size[p] = bp
  IN [ptr |-> [l.ptr EXCEPT ![bp] = bptr, ![p] = IF down THEN bptr ELSE bp],
      size |-> [l.size EXCEPT ![bp] = bsize, ![p] = IF down THEN @ + bsize ELSE @],
      freep |-> p]

-----------------------------------------------------------------------------
(* malloc                                                                  *)

\* The first call makes base a list of itself.
List == IF freep # Null THEN [ptr |-> ptr, size |-> size, freep |-> freep]
        ELSE [ptr |-> [ptr EXCEPT ![BASE] = BASE], size |-> size, freep |-> BASE]

Fits(l, n) == LET w == Walk(l) IN {k \in 2 .. Len(w) : l.size[w[k]] >= n}

\* The tail of a block that is larger.
Taken(l, n) ==
  LET k == Min(Fits(l, n))   p == Walk(l)[k]   prevp == Walk(l)[k - 1]
      whole == l.size[p] = n
      at == IF whole THEN p ELSE p + l.size[p] - n
  IN [at |-> at,
      list |-> [ptr |-> IF whole THEN [l.ptr EXCEPT ![prevp] = l.ptr[p]] ELSE l.ptr,
                size |-> IF whole THEN l.size
                         ELSE [l.size EXCEPT ![p] = @ - n, ![at] = n],
                freep |-> prevp]]

morecore(l, nu) == Freed([l EXCEPT !.size[brk] = nu], brk)
Grown(n) == Max({n, NALLOC})

\* What joined blocks leave in memory is not read again, and left out.
SetList(l) ==
  LET nodes == Nodes(l) IN
  /\ freep' = l.freep
  /\ ptr' = [a \in 0 .. HEAP |-> IF a \in nodes THEN l.ptr[a] ELSE Null]
  /\ size' = [a \in 0 .. HEAP |->
               IF a \in nodes \cup {h.at : h \in held'} THEN l.size[a] ELSE 0]
Give(t, n) == held' = held \cup {[at |-> t.at, size |-> n]} /\ refused' = 0 /\ SetList(t.list)

Malloc(n) ==
  \/ /\ Fits(List, n) # {}
     /\ Give(Taken(List, n), n) /\ UNCHANGED brk
  \/ /\ Fits(List, n) = {} /\ brk + Grown(n) <= HEAP + 1
     /\ Give(Taken(morecore(List, Grown(n)), n), n)
     /\ brk' = brk + Grown(n)
  \/ /\ Fits(List, n) = {} /\ brk + Grown(n) > HEAP + 1
     /\ UNCHANGED <<brk, held>> /\ refused' = n /\ SetList(List)

Free(h) ==
  /\ held' = held \ {h} /\ refused' = 0 /\ SetList(Freed(List, h.at))
  /\ UNCHANGED brk

-----------------------------------------------------------------------------
(* The test mem: all the memory in blocks of one size, all of them back,   *)
(* then a larger one.                                                      *)

SMALL == 3
LARGE == 5
Fill ==
  /\ mem.at = "fill" /\ Malloc(SMALL)
  /\ mem' = IF refused' # 0 THEN [mem EXCEPT !.at = "drain"]
            ELSE [mem EXCEPT !.list = <<CHOOSE h \in held' : h \notin held>> \o @]
Drain ==
  /\ mem.at = "drain" /\ mem.list # <<>>
  /\ Free(Head(mem.list)) /\ mem' = [mem EXCEPT !.list = Tail(@)]
AskLarge ==
  /\ mem.at = "drain" /\ mem.list = <<>>
  /\ Malloc(LARGE) /\ mem' = [mem EXCEPT !.at = "done"]

Next ==
  \/ /\ mem.at = "off" /\ UNCHANGED mem
     /\ (\E n \in Requests : Malloc(n)) \/ (\E h \in held : Free(h))
  \/ Fill \/ Drain \/ AskLarge
Spec == Init /\ [][Next]_vars

-----------------------------------------------------------------------------
(* Properties                                                              *)

OnList == Nodes(List)
Spans == {<<a, a + size[a]>> : a \in OnList \ {BASE}} \cup {<<h.at, h.at + h.size>> : h \in held}

\* The list that malloc and free go through (umalloc.c:24-46, 62-89) is one
\* cycle in the order of addresses; its blocks and those of the program tile the
\* heap, so no unit has two owners and none is lost, however blocks are split
\* and joined; two free blocks never touch, so a request is refused only when
\* no run of free units has its size.  So mem passes.
HeapIsSound ==
  freep # Null =>
    /\ BASE \in OnList
    /\ \A a \in OnList : ptr[a] \in OnList /\
         (ptr[a] > a \/ (ptr[a] = BASE /\ a = Max(OnList)))
    /\ \A s \in Spans : s[1] < s[2] /\
         (s[2] = brk \/ Cardinality({t \in Spans : t[1] = s[2]}) = 1)
    /\ brk = 1 \/ Cardinality({t \in Spans : t[1] = 1}) = 1
    /\ FoldSet(LAMBDA s, n : n + s[2] - s[1], 0, Spans) = brk - 1
    /\ \A a, b \in OnList \ {BASE} : a + size[a] # b
    /\ refused # 0 => \A a \in OnList : size[a] < refused
    /\ mem.at = "done" => refused = 0
=============================================================================
