---------------------------- MODULE MCUploadQueue ----------------------------
(* A large and a small file in a batch each, or one large file alone. *)
EXTENDS UploadQueue, TLC

CONSTANTS i1, i2, b1, b2, w1

LargeAndSmall == {i1, i2}
OneSmall == {i2}
TwoBatches == {b1, b2}
OneEach == b1 :> {i1} @@ b2 :> {i2}
OneWorker == {w1}

OneLarge == {i1}
NoSmall == {}
OneBatch == {b1}
JustOne == b1 :> {i1}
=============================================================================
