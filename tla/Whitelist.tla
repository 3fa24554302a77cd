------------------------------ MODULE Whitelist ------------------------------
(***************************************************************************)
(* What the client threads take the list of auth-once mode for: a set of   *)
(* addresses that is asked and extended in single steps.  ClientSession    *)
(* uses it in this form.                                                   *)
(***************************************************************************)
EXTENDS Sequences

CONSTANTS Thread, Ip

VARIABLES
    list,        \* the addresses, in the order they were added
    want, arg,   \* the call each thread is in, and its address
    answer       \* its result; "pending" before there is one
vars == <<list, want, arg, answer>>

Listed(a) == \E k \in DOMAIN list : list[k] = a

Init ==
    /\ list = <<>>
    /\ want \in [Thread -> {"check", "add"}]
    /\ arg \in [Thread -> Ip]
    /\ answer = [t \in Thread |-> "unlocked"]

Call(t, call, a) ==
    /\ answer[t] # "pending"
    /\ want' = [want EXCEPT ![t] = call]
    /\ arg' = [arg EXCEPT ![t] = a]
    /\ answer' = [answer EXCEPT ![t] = "pending"]
    /\ UNCHANGED list

Return(t, result) ==
    /\ answer[t] = "pending"
    /\ answer' = [answer EXCEPT ![t] = result]
    /\ UNCHANGED <<want, arg>>

\* the address is on the list, for either call
Find(t) == Listed(arg[t]) /\ Return(t, "listed") /\ UNCHANGED list

Miss(t) == want[t] = "check" /\ ~Listed(arg[t]) /\ Return(t, "unlisted") /\ UNCHANGED list

Add(t) ==
    /\ want[t] = "add"
    /\ ~Listed(arg[t])
    /\ \/ Return(t, "added") /\ list' = Append(list, arg[t])
       \/ Return(t, "short") /\ UNCHANGED list          \* of memory

\* the lock cannot be taken
Unlocked(t) == Return(t, "unlocked") /\ UNCHANGED list

Next == \E t \in Thread :
    \/ \E call \in {"check", "add"}, a \in Ip : Call(t, call, a)
    \/ Find(t) \/ Miss(t) \/ Add(t) \/ Unlocked(t)

Spec == Init /\ [][Next]_vars
=============================================================================
