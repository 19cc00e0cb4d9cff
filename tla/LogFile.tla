------------------------------ MODULE LogFile ------------------------------
(***************************************************************************)
(* What the logger promises: the characters that were handed over reach    *)
(* the file in that order.  Only a failed write loses some, all of them    *)
(* from the part that was being written.                                   *)
(***************************************************************************)
EXTENDS Naturals, Sequences

CONSTANTS Text    \* the texts that are logged: sequences of characters

VARIABLES backlog,  \* handed over and not yet written
          file      \* what is in the file

Init == backlog = << >> /\ file = << >>

Log == \E x \in Text : backlog' = backlog \o x /\ UNCHANGED file

\* The first n characters are written; the write may fail after the first k.
Write == \E n \in 1 .. Len(backlog) : \E k \in 0 .. n :
            /\ backlog' = SubSeq(backlog, n + 1, Len(backlog))
            /\ file' = file \o SubSeq(backlog, 1, k)

\* Log and Write at once, of all there is.
LogDirect == \E x \in Text : \E k \in 0 .. Len(x) :
                /\ backlog = << >>
                /\ file' = file \o SubSeq(x, 1, k)
                /\ UNCHANGED backlog

Spec == Init /\ [][Log \/ Write \/ LogDirect]_<<backlog, file>>
=============================================================================
