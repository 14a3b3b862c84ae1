---------------------------- MODULE MCSyncCursor ----------------------------
(* Instances of SyncCursor for TLC. *)
EXTENDS SyncCursor, TLC

CONSTANTS c1, c2, c3, l1, l2, w1, w2

ThreeComics == {c1, c2, c3}
OneByOne == {{c1}, {c2}, {c3}}
InBulk == {{c1}, {c2, c3}}
=============================================================================
