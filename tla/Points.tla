------------------------------- MODULE Points --------------------------------
(***************************************************************************)
(* What the wallet promises, with no database in it: accounts are opened,  *)
(* every reference moves points at most once, and no deduction takes more  *)
(* than the account holds.                                                 *)
(***************************************************************************)
EXTENDS Integers

CONSTANTS
    AccountIds,
    Refs,
    Founders,       \* the accounts open from the start
    MaxPoints       \* the largest amount one transaction may move

VARIABLES
    open,           \* accounts that exist
    seen,           \* references that have been counted
    bal             \* balance of every account

pointsVars == <<open, seen, bal>>

Init ==
    /\ open = Founders
    /\ seen = {}
    /\ bal = [a \in AccountIds |-> 0]

Open(a) ==
    /\ a \notin open
    /\ open' = open \cup {a}
    /\ UNCHANGED <<seen, bal>>

Move(ref, a, amount) ==
    /\ a \in open /\ ref \notin seen
    /\ seen' = seen \cup {ref}
    /\ bal' = [bal EXCEPT ![a] = @ + amount]
    /\ UNCHANGED open

Earn(ref, a, n) == Move(ref, a, n)

Deduct(ref, a, n) == bal[a] >= n /\ Move(ref, a, -n)

Next ==
    \E a \in AccountIds :
        \/ Open(a)
        \/ \E ref \in Refs, n \in 1 .. MaxPoints : Earn(ref, a, n) \/ Deduct(ref, a, n)

Spec == Init /\ [][Next]_pointsVars

=============================================================================
