------------------------------ MODULE ItemList ------------------------------
(***************************************************************************)
(* What an sblist promises the code that uses it: a sequence of items that *)
(* grows at the end unless memory is short, from which an item at any      *)
(* place can be taken out, and that can be searched.                       *)
(***************************************************************************)
EXTENDS Integers, Sequences

CONSTANT Item

VARIABLES list, result      \* result: what the last call returned
vars == <<list, result>>

Init == list = <<>> /\ result = 0

Add(x) == list' = Append(list, x) /\ result' = 1

\* memory is short
AddRefused == UNCHANGED list /\ result' = 0

\* i counts from 0; places that are not in use are left alone
Delete(i) ==
    /\ list' = IF i < Len(list)
               THEN [k \in 1 .. Len(list) - 1 |-> IF k <= i THEN list[k] ELSE list[k + 1]]
               ELSE list
    /\ UNCHANGED result

\* the first place of x
Search(x) ==
    /\ \/ \E i \in DOMAIN list :
            /\ list[i] = x /\ \A j \in 1 .. i - 1 : list[j] # x
            /\ result' = i - 1
       \/ (\A i \in DOMAIN list : list[i] # x) /\ result' = -1
    /\ UNCHANGED list

Clear == list' = <<>> /\ UNCHANGED result

Next ==
    \/ \E x \in Item : Add(x) \/ Search(x)
    \/ AddRefused
    \/ \E i \in 0 .. Len(list) : Delete(i)
    \/ Clear

Spec == Init /\ [][Next]_vars
=============================================================================
