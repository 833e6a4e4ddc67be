----------------------------- MODULE MCImgCache -----------------------------
(* Small images for TLC: a 512-byte unit is 2 bytes here, a slot of 64K is 4. *)
EXTENDS ImgCache

CONSTANTS t1, t2

\* A seven byte image: an odd last unit, ranges that straddle units, reach past
\* the end, do not fit a slot by their length or by where they start, and more
\* to load than there are slots.
MCOffs == {-1, 1, 4, 7}
MCLens == {0, 2, 4, 5}

OneThread == {t1}
TwoThreads == {t1, t2}
=============================================================================
