------------------------------ MODULE Delivery ------------------------------
(***************************************************************************)
(* What a Kafka consumer of this system promises about one partition,      *)
(* whichever executor works through it: records are handled, perhaps more  *)
(* than once, and the group's committed offset never passes a record that  *)
(* was not handled.                                                        *)
(***************************************************************************)
EXTENDS Integers

CONSTANT N  \* the partition holds the offsets 0..N-1

VARIABLES
    handled,    \* offsets whose record some member has handled
    committed   \* the group's committed offset: where the next owner starts

Below(n) == 0..(n - 1)

Init == handled = {} /\ committed = 0

\* Records are handled, the committed offset moves, or both at once.  It may move
\* back: an owner that rewound commits from there.
Step ==
    \E h \in SUBSET Below(N), n \in 0..N :
        /\ handled' = handled \cup h
        /\ committed' = n
        /\ Below(n) \subseteq handled'

Safety == Init /\ [][Step]_<<handled, committed>>

=============================================================================
