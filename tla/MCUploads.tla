------------------------------ MODULE MCUploads ------------------------------
EXTENDS Uploads, TLC

CONSTANTS u1, u2, r1, r2

MCUpload == {u1, u2}
MCOneUpload == {u1}
MCReq == {r1, r2}
MCSymmetry == Permutations(MCUpload) \cup Permutations(MCReq)
=============================================================================
