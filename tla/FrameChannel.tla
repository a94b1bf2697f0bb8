----------------------------- MODULE FrameChannel -----------------------------
(* What the two ends of a tunnel connection rely on: the frames put into the *)
(* channel come out unchanged and in their order, none lost, doubled or made *)
(* up, until the connection is gone.                                         *)
EXTENDS Naturals, Sequences

CONSTANT Frames

VARIABLES sent, got

Init == sent = <<>> /\ got = <<>>

Put(f) == sent' = Append(sent, f) /\ UNCHANGED got

Take ==
    /\ Len(got) < Len(sent)
    /\ got' = Append(got, sent[Len(got) + 1])
    /\ UNCHANGED sent

Next == Take \/ \E f \in Frames : Put(f)
Spec == Init /\ [][Next]_<<sent, got>>
=============================================================================
