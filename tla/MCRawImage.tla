----------------------------- MODULE MCRawImage -----------------------------
(* Four segments, one of them empty, for two slots. *)
EXTENDS RawImage, TLC

\* Segments of 2, 1, 0 and 2 bytes.
MCMaxOff == 0 :> 2 @@ 1 :> 3 @@ 2 :> 3 @@ 3 :> 5

MCOffs == {0, 1, 2, 4, 5, 6}
MCLens == {1, 3, 5}
MCFds == {3, 4, 5}
=============================================================================
