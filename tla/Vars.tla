---- MODULE Vars ----
(***************************************************************************)
(* Class Var (Var/Var.h, Var.cpp) and the objects that variables are       *)
(* handles of (BPObj.cpp): what the methods do to the heap h, a record of  *)
(* functions over the cells of the pool of variables.                      *)
(*                                                                         *)
(*   type      "free", "number", "text", "list", "ref" or "handle"         *)
(*   lock      the lock count in type_and_lock; the cell goes back to the   *)
(*             pool when it returns to 0                                   *)
(*   dlock, tlock   data and type are locked                               *)
(*   parent, index  the list the variable is an item of (Nil: none)        *)
(*   name      the name handle, 0 if unnamed; nlock counts the locks of a   *)
(*             name that variables hold                                    *)
(*   num, list, ref   the union; an item of a list may be Nil, which reads  *)
(*             as the number 0                                             *)
(*   next, prev, data, off, len, buf   texts (Texts) and handles (Rings),   *)
(*             which share the union and so the ring pointers              *)
(*   varptr    of an object: one of its handles (Nil: no such object)      *)
(*   err       errno is set;  failed: a lock was given back too often       *)
(*   defect    the step runs into one of the known defects, which README    *)
(*             lists; what the heap is after that means nothing              *)
(*                                                                         *)
(* Whatever a cell has beyond its type is kept at one value, so that heaps  *)
(* which differ in dead memory only are the same.                          *)
(***************************************************************************)
EXTENDS Texts, FiniteSets, SequencesExt

CONSTANTS
    Pool,       \* cells of variables
    Scratch,    \* further cells, for what lives within one step only
    Zero, One,  \* the global constants zero and eins
    Root,       \* the list thread->locals, which exists all the time
    Obj,        \* possible objects: semaphors, threads, streams
    Name,       \* name handles besides 0
    NaN         \* the number that is none

Cell == Pool \cup Scratch \cup {Zero, One, Root}

Fail(h) == [h EXCEPT !.failed = TRUE]
Defect(h) == [h EXCEPT !.defect = TRUE]
SetErr(h) == [h EXCEPT !.err = TRUE]

\* Var::new_var
NewCell(h) ==
    LET F == {c \in Pool : h.type[c] = "free"}
    IN  IF F # {} THEN CHOOSE c \in F : TRUE
        ELSE CHOOSE c \in Scratch : h.type[c] = "free"

---------------------------------------------------------------------------
(* Locks, names, types.                                                    *)

Lock(h, v) == [h EXCEPT !.lock[v] = @ + 1]

\* decr_lock() where the caller knows that another lock remains.
DecrLock(h, v) == [h EXCEPT !.lock[v] = @ - 1]

LockName(h, n) == IF n = 0 THEN h ELSE [h EXCEPT !.nlock[n] = @ + 1]
UnlockName(h, n) == IF n = 0 THEN h ELSE [h EXCEPT !.nlock[n] = @ - 1]

\* set_name: kill_name, then init_name
SetName(h, v, n) == [LockName(UnlockName(h, h.name[v]), n) EXCEPT !.name[v] = n]

SetType(h, v, t) == [h EXCEPT !.type[v] = t]
SetNumber(h, v, d) == [h EXCEPT !.type[v] = "number", !.num[v] = d]

\* type_or_data_locked() && (data_is_locked() || type differs): no data of type
\* t may be put into v.
BlockedByDataOnly(h, v, t) == h.dlock[v]
Blocked(h, v, t) == h.dlock[v] \/ (h.tlock[v] /\ h.type[v] # t)
TypeOrDataLocked(h, v) == h.dlock[v] \/ h.tlock[v]

\* Contains(p): v is p or a list above it.
RECURSIVE Holds(_, _, _)
Holds(h, v, p) == p # Nil /\ (p = v \/ Holds(h, v, h.parent[p]))

---------------------------------------------------------------------------
(* Handles and their objects.                                              *)

\* init_handle(BPObj*): the first handle of a new object.
InitHandle(h, v, o) ==
    SetType([Begin(h, v, o) EXCEPT !.varptr[o] = v], v, "handle")

\* ~BPObj: all handles lose the object, and stay linked to each other.
Delete(h, o) ==
    FoldSet(LAMBDA c, g : [g EXCEPT !.data[c] = Nil],
            [h EXCEPT !.varptr[o] = Nil],
            {c \in DOMAIN h.type : h.type[c] = "handle" /\ h.data[c] = o})

KillHandleOnly(h, v) ==
    IF Sole(h, v)
    THEN Begin(IF h.data[v] # Nil THEN Delete(h, h.data[v]) ELSE h, v, Nil)
    ELSE Leave(h, v, Nil)

\* kill_handle: the last handle kills the object.
KillHandle(h, v) ==
    LET o == h.data[v]
    IN  IF Sole(h, v)
        THEN Begin(IF o # Nil THEN Delete(h, o) ELSE h, v, Nil)
        ELSE Leave(IF o # Nil /\ h.varptr[o] = v THEN [h EXCEPT !.varptr[o] = h.next[v]] ELSE h,
                   v, Nil)

\* move_data of a handle.  The ring of one is not treated (a defect): v is then
\* linked to the cell of q, which no longer holds a handle.
MoveHandle(h, v, q) ==
    LET o == h.data[q]
        g == IF o # Nil /\ h.varptr[o] = q THEN [h EXCEPT !.varptr[o] = v] ELSE h
        m == ReplaceBlindly(g, v, q)
    IN  IF Sole(h, q) THEN Defect(m) ELSE Begin(m, q, Nil)

---------------------------------------------------------------------------
(* Destruction.                                                            *)

RECURSIVE Unlock(_, _), KillList(_, _)

\* kill_data: v is left without data, as the number 0.
KillData(h, v) ==
    SetNumber(
      CASE h.type[v] = "handle" -> KillHandle(h, v)
        [] h.type[v] = "ref"    -> [Unlock(h, h.ref[v]) EXCEPT !.ref[v] = Nil]
        [] h.type[v] = "text"   -> Kill(h, v)
        [] h.type[v] = "list"   -> KillList(h, v)
        [] OTHER                -> h,
      v, 0)

DiscardLinked(h, v, x) == IF x = Nil THEN h ELSE Unlock(h, x)

\* What happens to an item that is taken out of the list v.
Discard(h, v, x) ==
    IF x = Nil THEN h
    ELSE Unlock(IF h.parent[x] = v THEN [h EXCEPT !.parent[x] = Nil, !.index[x] = 0] ELSE h, x)

\* kill_list: from the last item to the first.
KillList(h, v) ==
    [FoldRight(LAMBDA x, g : Discard(g, v, x), h.list[v], h) EXCEPT !.list[v] = <<>>]

\* ~Var, delete_var
Free(h, v) ==
    [UnlockName(h, h.name[v]) EXCEPT !.type[v] = "free", !.name[v] = 0, !.parent[v] = Nil,
                                     !.index[v] = 0, !.dlock[v] = FALSE, !.tlock[v] = FALSE]
Release(h, v) == Free(KillData(h, v), v)

\* unlock
Unlock(h, v) ==
    IF h.lock[v] = 0 THEN Fail(h)
    ELSE IF h.lock[v] = 1 THEN Release(DecrLock(h, v), v)
    ELSE DecrLock(h, v)

---------------------------------------------------------------------------
(* Links between an item and its list.  Items are numbered from 1.         *)

AtEnd == 0 - 1

\* grow_list, as far as a script can see it
GrowList(h, v, n) ==
    [h EXCEPT !.list[v] = @ \o [i \in 1 .. n - Len(@) |-> Nil]]

\* init_link: the slot is free
InitLink(h, v, par, i) ==
    [h EXCEPT !.parent[v] = par, !.index[v] = i, !.list[par][i] = v]

\* init_link_force, init_link_grow: makes the slot, throws out what is in it
MakeSlot(h, par, i) ==
    IF i > Len(h.list[par]) THEN GrowList(h, par, i) ELSE Discard(h, par, h.list[par][i])
Place(h, par, i) == IF i = AtEnd THEN Len(h.list[par]) + 1 ELSE i
InitLinkForce(h, v, par, i) ==
    InitLink(MakeSlot(h, par, Place(h, par, i)), v, par, Place(h, par, i))

\* kill_link: the slot becomes empty; the parent pointer is the caller's business.
KillLink(h, v) == [h EXCEPT !.list[h.parent[v]][h.index[v]] = Nil]

\* Link
Link(h, v, par, i) ==
    IF \/ h.type[v] = "list" /\ Holds(h, v, par)
       \/ h.dlock[par]
       \/ h.parent[v] # Nil /\ h.dlock[h.parent[v]]
    THEN SetErr(h)
    ELSE InitLinkForce(IF h.parent[v] # Nil THEN KillLink(h, v) ELSE Lock(h, v), v, par, i)

\* index of the items of v after its array has been changed
Renumber(h, v) ==
    FoldLeft(LAMBDA g, i : IF g.list[v][i] = Nil THEN g ELSE [g EXCEPT !.index[g.list[v][i]] = i],
             h, [i \in 1 .. Len(h.list[v]) |-> i])

\* insert_items: n empty slots before item i
InsertSlots(h, v, i0, n0) ==
    LET used == Len(h.list[v])
        i == IF i0 > used + 1 THEN used + 1 ELSE i0
        n == n0 + (i0 - i)
        s == h.list[v]
    IN  Renumber([h EXCEPT !.list[v] = SubSeq(s, 1, i - 1) \o [k \in 1 .. n |-> Nil]
                                                          \o SubSeq(s, i, used)], v)

\* delete_items
DeleteItems(h, v, i, n0) ==
    LET s == h.list[v]
        e == IF n0 + i - 1 > Len(s) THEN Len(s) ELSE i + n0 - 1
    IN  IF n0 = 0 \/ i > Len(s) THEN h
        ELSE Renumber([FoldLeft(LAMBDA a, x : Discard(a, v, x), h, SubSeq(s, i, e))
                          EXCEPT !.list[v] = SubSeq(s, 1, i - 1) \o SubSeq(s, e + 1, Len(s))], v)

\* shrink_list
ShrinkList(h, v, n) ==
    [FoldRight(LAMBDA x, g : Discard(g, v, x), SubSeq(h.list[v], n + 1, Len(h.list[v])), h)
        EXCEPT !.list[v] = SubSeq(@, 1, n)]

---------------------------------------------------------------------------
(* Creation and copies.                                                    *)

\* new Var: an unlocked number 0 in the cell c
Make(h, c, n) == [LockName(SetNumber(h, c, 0), n) EXCEPT !.name[c] = n]

\* Var(par,idx,...) up to its data
MakeItem(h, c, par, i, n) == Lock(InitLinkForce(Make(h, c, n), c, par, i), c)

\* init_data(vtype) for a cell without data
InitData(h, v, t) == SetType(IF t = "text" THEN InitEmpty(h, v) ELSE h, v, t)

RECURSIVE CopyData(_, _, _)

\* init_list(cVek&): items are copied from the last to the first, with their
\* names, without their locks.
CopyList(h, v, q) ==
    LET n == Len(h.list[q])
        s == h.list[q]
        CopyTo(g, c, i) == CopyData(MakeItem(g, c, v, i, g.name[s[i]]), c, s[i])
        Copy(i, g) == IF s[i] = Nil THEN g ELSE CopyTo(g, NewCell(g), i)
    IN  FoldRight(Copy, [i \in 1 .. n |-> i], GrowList(SetType(h, v, "list"), v, n))

\* init_data(cVar&): v has no data; the locks of v stay.
CopyData(h, v, q) ==
    CASE h.type[q] = "number" -> SetNumber(h, v, h.num[q])
      [] h.type[q] = "text"   -> SetType(InitCopy(h, v, q), v, "text")
      [] h.type[q] = "list"   -> CopyList(h, v, q)
      [] h.type[q] = "ref"    -> SetType([Lock(h, h.ref[q]) EXCEPT !.ref[v] = h.ref[q]], v, "ref")
      [] h.type[q] = "handle" -> SetType(Join(h, v, q), v, "handle")
      [] OTHER                -> Fail(h)

\* new Var(cVar&): unnamed, unlocked
MakeCopy(h, c, q) == CopyData(Make(h, c, 0), c, q)

\* move_data: v has no data, q loses its data.
MoveData(h, v, q) ==
    SetNumber(
      CASE h.type[q] = "number" -> SetNumber(h, v, h.num[q])
        [] h.type[q] = "text"   -> SetType(TakeOver(h, v, q), v, "text")
        [] h.type[q] = "list"   ->
             FoldLeft(LAMBDA g, x : IF x = Nil THEN g ELSE [g EXCEPT !.parent[x] = v],
                      [h EXCEPT !.type[v] = "list", !.list[v] = h.list[q], !.list[q] = <<>>],
                      h.list[q])
        [] h.type[q] = "ref"    -> [h EXCEPT !.type[v] = "ref", !.ref[v] = h.ref[q], !.ref[q] = Nil]
        [] h.type[q] = "handle" -> SetType(MoveHandle(h, v, q), v, "handle")
        [] OTHER                -> Fail(h),
      q, 0)

\* swap_data, with the local variable z
SwapCells(h, v, q) ==
    LET Via(z) == Release(MoveData(MoveData(MoveData(Make(h, z, 0), z, q), q, v), v, z), z)
    IN  Via(NewCell(h))

\* SwapData.  The error for lists that intersect does not keep it from swapping
\* (a defect: a list that contains itself).
SwapData(h, v, q) ==
    LET cut == /\ h.parent[v] # h.parent[q]
               /\ \/ h.type[v] = "list" /\ Holds(h, v, q)
                  \/ h.type[q] = "list" /\ Holds(h, q, v)
        g == IF cut THEN Defect(SetErr(h)) ELSE h
    IN  IF Blocked(h, v, h.type[q]) \/ Blocked(h, q, h.type[v]) THEN SetErr(g)
        ELSE SwapCells(g, v, q)

\* set_data(vtype), SetList(): the locks are not looked at.
SetList(h, v) == InitData(KillData(h, v), v, "list")

SetVarRefUnlocked(h, v, p) ==
    Unlock([SetType(KillData(Lock(h, p), v), v, "ref") EXCEPT !.ref[v] = p], p)

\* set_data(Var*), SetVarRef: p must survive the old data of v.
SetVarRef(h, v, p) ==
    Unlock([SetType(Lock(KillData(Lock(h, p), v), p), v, "ref") EXCEPT !.ref[v] = p], p)

\* operator=(String&): set_data, from the string in the cell t
SetText(h, v, t) == SetType(InitCopy(KillData(h, v), v, t), v, "text")

---------------------------------------------------------------------------
(* Access to items.                                                        *)

\* operator[]: creates what is missing.  The item is then GetItem(..)
NeedItem(h, v, i0) ==
    LET i == Place(h, v, i0)
        n == Len(h.list[v])
    IN  IF i > n /\ h.dlock[v] THEN SetErr(h)
        ELSE IF i <= n /\ h.list[v][i] # Nil THEN h
        ELSE MakeItem(IF i > n THEN GrowList(h, v, i) ELSE h, NewCell(h), v, i, 0)

\* the reference operator[] returns: v itself after an error
ItemRef(h, v, i) == IF i <= Len(h.list[v]) THEN h.list[v][i] ELSE v

\* FindItem: the last item of that name; an empty slot is unnamed, and created
\* when it is found.  0: there is none.
FindIndex(h, v, n) ==
    LET I == {i \in 1 .. (IF h.type[v] = "list" THEN Len(h.list[v]) ELSE 0) :
                 (IF h.list[v][i] = Nil THEN 0 ELSE h.name[h.list[v][i]]) = n}
    IN  IF I = {} THEN 0 ELSE CHOOSE i \in I : \A k \in I : k <= i

ResizeList(h, v, n) ==
    IF h.dlock[v] THEN SetErr(h)
    ELSE IF n > Len(h.list[v]) THEN GrowList(h, v, n) ELSE ShrinkList(h, v, n)

\* InsertItem
InsertItem(h, v, i0, q) ==
    LET g == InsertSlots(h, v, Place(h, v, i0), 1)
    IN  IF h.dlock[v] \/ (h.parent[q] # Nil /\ h.dlock[h.parent[q]]) THEN SetErr(h)
        ELSE InitLink(IF h.parent[q] # Nil THEN KillLink(g, q) ELSE Lock(g, q),
                      q, v, Place(h, v, i0))

\* DeleteItem, by Vanish
DeleteItem(h, v, i) == IF h.dlock[v] THEN SetErr(h) ELSE DeleteItems(h, v, i, 1)

\* In AppendListItems: the data of v becomes the first item of v.
WrapInList(h, v) ==
    LET With(z) == Lock(InitLinkForce(SwapCells(InitData(Make(h, z, 0), z, "list"), v, z),
                                      z, v, 1), z)
    IN  With(NewCell(h))

\* AppendListItems: the items of the list q move over, any other q is copied.
MoveItems(h, v, q) ==
    LET n == Len(h.list[v])
        m == Len(h.list[q])
        Move(i, a) == IF h.list[q][i] = Nil THEN a ELSE InitLink(a, h.list[q][i], v, n + i)
    IN  [FoldRight(Move, [i \in 1 .. m |-> i], GrowList(h, v, n + m)) EXCEPT !.list[q] = <<>>]

AppendTo(h, v, q) ==
    LET Copied(c) == InsertItem(MakeCopy(h, c, q), v, AtEnd, c)
    IN  IF h.type[q] # "list" THEN Copied(NewCell(h))
        ELSE IF h.dlock[q] THEN SetErr(h)
        ELSE MoveItems(h, v, q)

AppendListItems(h, v, q) ==
    IF h.dlock[v] \/ (h.type[v] # "list" /\ h.tlock[v]) THEN SetErr(h)
    ELSE AppendTo(IF h.type[v] = "list" THEN h ELSE WrapInList(h, v), v, q)

====
