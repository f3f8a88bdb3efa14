------------------------------ MODULE Allocator -----------------------------
(***************************************************************************)
(* What a memory allocator promises: the extents it has granted and not    *)
(* yet got back never overlap and lie in the memory it was given, and a    *)
(* call changes one of them at most.                                       *)
(***************************************************************************)
EXTENDS Integers

CONSTANT Memory        \* the addresses it was or will be given
VARIABLE held          \* the extents granted: <<first address, length>>

Cells(e) == e[1]..(e[1] + e[2] - 1)
Apart(e, f) == e[1] + e[2] <= f[1] \/ f[1] + f[2] <= e[1]
Grantable(e, es) == Cells(e) \subseteq Memory /\ \A f \in es : Apart(e, f)

Init == held = {}
Grant   == \E e \in held' \ held : Grantable(e, held) /\ held' = held \cup {e}
Release == \E e \in held \ held' : held' = held \ {e}
Resize  == \E e \in held \ held', f \in held' \ held :
               Grantable(f, held \ {e}) /\ held' = (held \ {e}) \cup {f}
GiveUp  == held' = {}

Next == Grant \/ Release \/ Resize \/ GiveUp
Spec == Init /\ [][Next]_held
=============================================================================
