------------------------------ MODULE MCUploads ------------------------------
(* Instances of Uploads for TLC: connections and names are interchangeable.*)
EXTENDS Uploads, TLC

UploadSymmetry == Permutations(Conns) \cup Permutations(TmpNames)

=============================================================================
