----------------------------- MODULE PacketLog -----------------------------
(***************************************************************************)
(* What a stream of packets promises, whatever buffers and files it goes   *)
(* through: the packets it accepts reach the far end once each and in      *)
(* order, and only a failure loses any.                                    *)
(***************************************************************************)
EXTENDS Naturals, Sequences

CONSTANT Packets

VARIABLES accepted, logged, failed
vars == <<accepted, logged, failed>>

Init == accepted = <<>> /\ logged = <<>> /\ failed = FALSE

Accept == /\ \E p \in Packets : accepted' = Append(accepted, p)
          /\ UNCHANGED <<logged, failed>>

Write == /\ Len(logged) < Len(accepted)
         /\ logged' = Append(logged, accepted[Len(logged) + 1])
         /\ UNCHANGED <<accepted, failed>>

\* The last of what was accepted and not written is given up.
Fail == /\ failed' = TRUE
        /\ \E n \in Len(logged) .. Len(accepted) : accepted' = SubSeq(accepted, 1, n)
        /\ UNCHANGED logged

Next == Accept \/ Write \/ Fail
Spec == Init /\ [][Next]_vars /\ WF_vars(Write)

=============================================================================
