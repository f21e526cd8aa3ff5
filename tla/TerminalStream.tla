---------------------------- MODULE TerminalStream ----------------------------
(***************************************************************************)
(* What the browser terminal promises, seen from its two ends: what is     *)
(* typed reaches the PTY once and in order, what the PTY prints reaches    *)
(* the screen once and in order, however often the connection is replaced. *)
(* Characters are numbered in the order in which they are typed or         *)
(* printed.                                                                *)
(***************************************************************************)
EXTENDS Naturals, Sequences

VARIABLES
    typed, received,    \* number typed, what the PTY has read
    printed, shown      \* number printed, what the screen shows

terminal == <<typed, received, printed, shown>>

Count(n) == [i \in 1..n |-> i]

Init ==
    /\ typed = 0 /\ received = <<>>
    /\ printed = 0 /\ shown = <<>>

Type == typed' \in Nat /\ typed' > typed /\ UNCHANGED <<received, printed, shown>>

Receive ==
    /\ \E n \in Len(received) + 1..typed : received' = Count(n)
    /\ UNCHANGED <<typed, printed, shown>>

PtyPrints == printed' \in Nat /\ printed' > printed /\ UNCHANGED <<typed, received, shown>>

Show ==
    /\ \E n \in Len(shown) + 1..printed : shown' = Count(n)
    /\ UNCHANGED <<typed, received, printed>>

Next == Type \/ Receive \/ PtyPrints \/ Show

Spec == Init /\ [][Next]_terminal
=============================================================================
