------------------------------- MODULE Sblist -------------------------------
(***************************************************************************)
(* The growable list of sblist.c, as socks_main and copy_loop_udp use      *)
(* theirs: by one thread, one call at a time (AuthList has the list that   *)
(* is shared).  The items live in one block of memory that is grown by     *)
(* blockitems cells when it is full; a cell that no longer belongs to the  *)
(* list keeps its content.                                                 *)
(*                                                                         *)
(* Abstracted: bytes of an item (a cell holds one), the addresses of the   *)
(* block.  sblist_new returned a list; its users look at that themselves.  *)
(***************************************************************************)
EXTENDS Integers, Sequences

CONSTANTS
    Item,        \* items
    Garbage,     \* content of memory that was never written
    BlockItems,  \* blockitems
    MaxCapa      \* bound: cells realloc can provide

ASSUME SblistAssumption ==
    /\ Garbage \notin Item
    /\ BlockItems \in Nat \ {0}
    /\ MaxCapa \in Nat

VARIABLES items, capa, count,
          result          \* what the last call returned
vars == <<items, capa, count, result>>

\* the representation: capa cells, of which the first count hold items
TypeOK ==
    /\ capa \in 0 .. MaxCapa
    /\ items \in [1 .. capa -> Item \cup {Garbage}]
    /\ count \in 0 .. capa
    /\ \A k \in 1 .. count : items[k] \in Item
    /\ result \in Int

Init ==
    /\ items = <<>>
    /\ capa = 0
    /\ count = 0
    /\ result = 0

-----------------------------------------------------------------------------
\* sblist_grow_if_needed: the block, and its size, that has room for one more
Grown == [k \in 1 .. capa + BlockItems |-> IF k <= capa THEN items[k] ELSE Garbage]

\* sblist_add while there is room
AddWithRoom(x) ==
    /\ count # capa
    /\ items' = [items EXCEPT ![count + 1] = x]
    /\ count' = count + 1
    /\ result' = 1
    /\ UNCHANGED capa

\* sblist_add when the block is full
AddGrows(x) ==
    /\ count = capa
    /\ capa + BlockItems <= MaxCapa
    /\ items' = [Grown EXCEPT ![count + 1] = x]
    /\ capa' = capa + BlockItems
    /\ count' = count + 1
    /\ result' = 1

\* sblist_add when the block is full and realloc fails
AddFails ==
    /\ count = capa
    /\ result' = 0
    /\ UNCHANGED <<items, capa, count>>

\* mutant: memmove moves one item less
DeleteMovesOneLess(i) ==
    /\ IF i < count
       THEN /\ items' = [k \in 1 .. capa |-> IF i < k /\ k < count - 1 THEN items[k + 1] ELSE items[k]]
            /\ count' = count - 1
       ELSE UNCHANGED <<items, count>>
    /\ UNCHANGED <<capa, result>>

\* sblist_delete: memmove of the items behind i
Delete(i) ==
    /\ IF i < count
       THEN /\ items' = [k \in 1 .. capa |-> IF i < k /\ k < count THEN items[k + 1] ELSE items[k]]
            /\ count' = count - 1
       ELSE UNCHANGED <<items, count>>
    /\ UNCHANGED <<capa, result>>

\* sblist_search with a comparison that tells x
Search(x) ==
    /\ LET Hit == {k \in 1 .. count : items[k] = x}
       IN IF Hit = {} THEN result' = -1
          ELSE \E k \in Hit : (\A j \in Hit : k <= j) /\ result' = k - 1
    /\ UNCHANGED <<items, capa, count>>

\* sblist_free_items, sblist_clear
FreeItems ==
    /\ items' = <<>>
    /\ capa' = 0
    /\ count' = 0
    /\ UNCHANGED result

-----------------------------------------------------------------------------
Next ==
    \/ \E x \in Item : AddWithRoom(x) \/ AddGrows(x) \/ Search(x)
    \/ AddFails
    \/ \E i \in 0 .. count : Delete(i)
    \/ FreeItems

Spec == Init /\ [][Next]_vars

-----------------------------------------------------------------------------
\* The block behaves like the sequence of its first count cells: growing keeps
\* the items, deleting moves up exactly those behind, and no call sees what
\* earlier items left behind.
Contents == [k \in 1 .. count |-> items[k]]
List == INSTANCE ItemList WITH list <- Contents
ItemListSpec == List!Spec

=============================================================================
