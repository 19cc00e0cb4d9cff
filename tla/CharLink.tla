------------------------------ MODULE CharLink ------------------------------
(***************************************************************************)
(* What a character device promises its writers: it sends every character  *)
(* it has accepted, once, and in the order in which it accepted them.      *)
(***************************************************************************)
EXTENDS Sequences

CONSTANT Char       \* the characters

VARIABLES
    pending,        \* accepted, not sent yet
    sent            \* on the wire

Init == pending = <<>> /\ sent = <<>>

Accept(c) == pending' = Append(pending, c) /\ sent' = sent

Transmit ==
    /\ pending # <<>>
    /\ sent' = Append(sent, Head(pending))
    /\ pending' = Tail(pending)

Next == Transmit \/ \E c \in Char : Accept(c)

Spec == Init /\ [][Next]_<<pending, sent>>
=============================================================================
