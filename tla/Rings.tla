---- MODULE Rings ----
(***************************************************************************)
(* The circular list in which a C++ object sits with every other object    *)
(* that shares one resource with it.  vipsi has two of them, written out    *)
(* twice by hand:                                                          *)
(*                                                                         *)
(*   String   next, prev, Data()       the strings that share one buffer    *)
(*   Handle   next, prev, data         the variables that share one BPObj   *)
(*                                                                         *)
(* There is no reference count: "next == this" is what tells the last user *)
(* that it has to free the buffer or to delete the object, and what tells   *)
(* a string that it may write.  All operators work on a record r with the   *)
(* fields next, prev and data, functions over the same set of members.     *)
(***************************************************************************)

\* next == this: nobody else uses what c uses.
Sole(r, c) == r.next[c] = c

\* c starts a ring of its own on the resource o.
Begin(r, c, o) ==
    [r EXCEPT !.next[c] = c, !.prev[c] = c, !.data[c] = o]

\* c joins the ring of q, behind q.
Join(r, c, q) ==
    [r EXCEPT !.next[c] = r.next[q],
              !.prev[c] = q,
              !.data[c] = r.data[q],
              !.prev[r.next[q]] = c,
              !.next[q] = c]

\* c leaves its ring; o is what a member without a resource shows as data.
Leave(r, c, o) ==
    Begin([r EXCEPT !.prev[r.next[c]] = r.prev[c],
                    !.next[r.prev[c]] = r.next[c]], c, o)

\* The unused c takes the place of q in the ring of q, and q is left without a
\* resource.
Replace(r, c, q, o) ==
    IF Sole(r, q)
    THEN Begin(Begin(r, c, r.data[q]), q, o)
    ELSE Begin([r EXCEPT !.next[c] = r.next[q],
                         !.prev[c] = r.prev[q],
                         !.data[c] = r.data[q],
                         !.prev[r.next[q]] = c,
                         !.next[r.prev[q]] = c], q, o)

\* The same without the case of a ring of one.
ReplaceBlindly(r, c, q) ==
    [r EXCEPT !.next[c] = r.next[q],
              !.prev[c] = r.prev[q],
              !.data[c] = r.data[q],
              !.prev[r.next[q]] = c,
              !.next[r.prev[q]] = c]

(***************************************************************************)
(* What a set of rings has to be.  M is the set of members in use.         *)
(***************************************************************************)

\* next and prev stay among the members in use, undo each other, and the
\* members of a ring show the same resource.
Linked(r, M) ==
    \A c \in M : /\ r.next[c] \in M /\ r.prev[r.next[c]] = c
                 /\ r.prev[c] \in M /\ r.next[r.prev[c]] = c
                 /\ r.data[r.next[c]] = r.data[c]

\* A set of members that a walk along next does not leave.
ClosedUnderNext(r, S) == \A c \in S : r.next[c] \in S

\* The users of a resource form one ring: whoever walks from one of them meets
\* all of them.  o is no resource: its members need not be connected.
OneRing(r, M, o) ==
    \A S \in SUBSET M :
        ClosedUnderNext(r, S) =>
            \A c \in S, d \in M : r.data[d] = r.data[c] /\ r.data[c] # o => d \in S

RingsOK(r, M, o) == Linked(r, M) /\ OneRing(r, M, o)

====
