----------------------------- MODULE NameHandles -----------------------------
(***************************************************************************)
(* The store of names (src/Source/Var/NameHandles.cpp): a name is kept     *)
(* once and gets a handle, so that names are compared by comparing handles.*)
(* HashRing[k] is a vector of entries for the names with hash index k; the *)
(* handle of an entry is <<k, i>> and must not change while it is locked.  *)
(*                                                                         *)
(* Holders are what keeps a locked handle: variables (Var::name), tokens   *)
(* of the compiler (Token::argument) and handles in compiled code.  Every  *)
(* holder has a handle all the time, that of the empty name if no other.   *)
(***************************************************************************)
EXTENDS Integers, FiniteSets, Sequences

CONSTANTS Name,     \* texts
          Empty,    \* the empty text
          Index,    \* hash indexes: 0 .. hr_size-1
          IndexOf,  \* IndexOf[s]: the upper bits of the hash of s
          Holder,   \* variables, tokens, code cells
          MaxUsage  \* bound on the usage counters, which leaks let grow

ASSUME NameAssumption ==
  /\ Empty \in Name
  /\ IndexOf \in [Name -> Index]
  /\ IsFiniteSet(Holder)
  /\ MaxUsage \in Nat

VARIABLES HashRing, \* HashRing[k]: the entries, with usage count and name
          nh,       \* nh[x]: the handle that x holds
          text      \* text[x]: the name that x was given

vars == <<HashRing, nh, text>>

HashData == [usage : Nat, name : Name]

(* HashData()                                                              *)
Unused == [usage |-> 0, name |-> Empty]

(* Handle 0, which is never really locked or unlocked.                     *)
Zero == <<IndexOf[Empty], 1>>

IsHandle(R, h) == h[1] \in Index /\ h[2] \in 1 .. Len(R[h[1]])

TypeOK ==
  /\ HashRing \in [Index -> Seq(HashData)]
  /\ nh \in [Holder -> Index \X Nat]
  /\ text \in [Holder -> Name]

Init ==
  /\ HashRing = [k \in Index |-> IF k = IndexOf[Empty]
                                 THEN <<[usage |-> 1, name |-> Empty]>> ELSE <<>>]
  /\ nh = [x \in Holder |-> Zero]
  /\ text = [x \in Holder |-> Empty]

-----------------------------------------------------------------------------
(* The procedures, on a ring R.                                            *)

GetNameForHandle(R, h) == R[h[1]][h[2]].name

WithUsage(hd, n) == [usage |-> n, name |-> hd.name]

(* Mistake: the lock of a name is given back twice.                        *)
UnlockTwice(R, h) ==
  IF h = Zero THEN R ELSE [R EXCEPT ![h[1]][h[2]] = WithUsage(@, @.usage - 2)]

UnlockNameHandle(R, h) ==
  IF h = Zero THEN R ELSE [R EXCEPT ![h[1]][h[2]] = WithUsage(@, @.usage - 1)]

(* Mistake: a copy of a handle is not counted.                             *)
LockUncounted(R, h) == R

LockNameHandle(R, h) ==
  IF h = Zero THEN R ELSE [R EXCEPT ![h[1]][h[2]] = WithUsage(@, @.usage + 1)]

Least(S) == {i \in S : \A j \in S : i <= j}

(* The entries that are in use for name s.                                 *)
Entries(R, s) ==
  {i \in 1 .. Len(R[IndexOf[s]]) :
     R[IndexOf[s]][i].usage > 0 /\ R[IndexOf[s]][i].name = s}

(* Mistake: names with the same hash are taken for equal.                  *)
FindByHash(R, s) ==
  LET used == {i \in 1 .. Len(R[IndexOf[s]]) : R[IndexOf[s]][i].usage > 0}
  IN  IF s = Empty \/ used = {} THEN Zero
      ELSE <<IndexOf[s], CHOOSE i \in used : i \in Least(used)>>

FindNameHandle(R, s) ==
  IF s = Empty \/ Entries(R, s) = {} THEN Zero
  ELSE <<IndexOf[s], CHOOSE i \in Entries(R, s) : i \in Least(Entries(R, s))>>

(* Mistake: a free entry is taken before the name was looked for.          *)
SlotsFreeFirst(R, s) ==
  LET list == R[IndexOf[s]]
      free == {i \in 1 .. Len(list) : list[i].usage = 0}
  IN  CASE free # {} -> Least(free)
        [] free = {} /\ Entries(R, s) # {} -> Least(Entries(R, s))
        [] OTHER -> {Len(list) + 1}

(* Where name s is put: at its entry if it has one, else at the first entry*)
(* that is not in use, else behind the last.                               *)
Slots(R, s) ==
  LET list == R[IndexOf[s]]
      free == {i \in 1 .. Len(list) : list[i].usage = 0}
  IN  CASE Entries(R, s) # {} -> Least(Entries(R, s))
        [] Entries(R, s) = {} /\ free # {} -> Least(free)
        [] OTHER -> {Len(list) + 1}

(* NewNameHandle: the ring after name s was entered at i and locked n times*)
NewNameHandle(R, s, i, n) ==
  LET list == R[IndexOf[s]]
      size == (Len(list) * 4) \div 3 + 1
  IN  [R EXCEPT ![IndexOf[s]] =
         [j \in 1 .. (IF i <= Len(list) THEN Len(list) ELSE size) |->
            IF j = i
            THEN [usage |-> (IF i <= Len(list) THEN list[i].usage ELSE 0) + n,
                  name  |-> s]
            ELSE IF j <= Len(list) THEN list[j] ELSE Unused]]

(* Mistake: a vector is freed when its last entry is not used.             *)
PurgeByLastEntry(R) ==
  [k \in Index |->
     IF R[k] = <<>> \/ R[k][Len(R[k])].usage = 0 THEN <<>>
     ELSE [i \in 1 .. Len(R[k]) |-> IF R[k][i].usage = 0 THEN Unused ELSE R[k][i]]]

(* Unused entries forget their name; a vector without a used one is freed. *)
NameHandlesPurgeCaches(R) ==
  [k \in Index |->
     IF \A i \in 1 .. Len(R[k]) : R[k][i].usage = 0 THEN <<>>
     ELSE [i \in 1 .. Len(R[k]) |-> IF R[k][i].usage = 0 THEN Unused ELSE R[k][i]]]

-----------------------------------------------------------------------------
(* What holders do.                                                        *)

(* Var::set_name(cString&) and the creation and destruction of holders: the*)
(* old name is unlocked before the new one is locked.                      *)
SetName(x, s) ==
  LET R == UnlockNameHandle(HashRing, nh[x])
  IN  /\ IF s = Empty
         THEN HashRing' = R /\ nh' = [nh EXCEPT ![x] = Zero]
         ELSE \E i \in Slots(R, s) :
                /\ HashRing' = NewNameHandle(R, s, i, 1)
                /\ nh' = [nh EXCEPT ![x] = <<IndexOf[s], i>>]
      /\ text' = [text EXCEPT ![x] = s]

(* Var(value, cstr name): a new variable locks the name that NewNameHandle *)
(* has locked already, so that there is one lock too many for ever.        *)
NewVar(x, s) ==
  /\ nh[x] = Zero /\ s # Empty
  /\ \E i \in Slots(HashRing, s) :
       /\ i \in Entries(HashRing, s) => HashRing[IndexOf[s]][i].usage + 2 <= MaxUsage
       /\ HashRing' = NewNameHandle(HashRing, s, i, 2)
       /\ nh' = [nh EXCEPT ![x] = <<IndexOf[s], i>>]
  /\ text' = [text EXCEPT ![x] = s]

(* Var::set_name(NameHandle), and the copies of tokens and variables.      *)
CopyName(x, y) ==
  /\ x # y
  /\ HashRing' = LockNameHandle(UnlockNameHandle(HashRing, nh[x]), nh[y])
  /\ nh' = [nh EXCEPT ![x] = nh[y]]
  /\ text' = [text EXCEPT ![x] = text[y]]

(* The lock of a token passes to the code that is generated for it.        *)
MoveName(x, y) ==
  /\ x # y /\ nh[y] = Zero
  /\ nh' = [nh EXCEPT ![y] = nh[x], ![x] = Zero]
  /\ text' = [text EXCEPT ![y] = text[x], ![x] = Empty]
  /\ UNCHANGED HashRing

Purge ==
  /\ HashRing' = NameHandlesPurgeCaches(HashRing)
  /\ UNCHANGED <<nh, text>>

Next ==
  \/ \E x \in Holder, s \in Name : SetName(x, s) \/ NewVar(x, s)
  \/ \E x \in Holder, y \in Holder : CopyName(x, y) \/ MoveName(x, y)
  \/ Purge

Spec == Init /\ [][Next]_vars

-----------------------------------------------------------------------------
(* Properties.                                                             *)

HoldersOf(n, h) == {x \in Holder : n[x] = h}

(* The name of a handle is the name it was given for, as long as anyone    *)
(* holds it, whatever others lock, unlock or purge in between; and a held  *)
(* handle is locked ("assert(hd[i].usage > 0)", NameHandles.cpp:129).      *)
NamesKept ==
  \A x \in Holder :
    /\ IsHandle(HashRing, nh[x])
    /\ GetNameForHandle(HashRing, nh[x]) = text[x]
    /\ HashRing[nh[x][1]][nh[x][2]].usage > 0

(* "Two texts can be tested for equality by comparing their handles"       *)
(* (NameHandles.h:27).                                                     *)
SameNameSameHandle ==
  \A x, y \in Holder : (nh[x] = nh[y]) <=> (text[x] = text[y])

(* The search for a name finds the handle of everybody who holds it.       *)
FindFindsHolders == \A x \in Holder : FindNameHandle(HashRing, text[x]) = nh[x]

(* Nobody's lock is lost: an entry is locked once for each of its holders. *)
UsageCoversHolders ==
  \A k \in Index : \A i \in 1 .. Len(HashRing[k]) :
    <<k, i>> # Zero => HashRing[k][i].usage >= Cardinality(HoldersOf(nh, <<k, i>>))
=============================================================================
