----------------------------- MODULE MCDerCodec -----------------------------
(* DerCodec with two-byte components: every boundary of a byte, every length up
   to one more than is allowed. *)
EXTENDS DerCodec, TLC

Edge == {0, 1, Base \div 2 - 1, Base \div 2, Base - 1}
ContentsOf == SeqOf(Edge, Width) \cup [1..(Width + 1) -> {0, 1, Base \div 2}]
                \cup [1..(Width + 2) -> {0, 1}]
=============================================================================
