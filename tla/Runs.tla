-------------------------------- MODULE Runs --------------------------------
(***************************************************************************)
(* Runs of sequence numbers: the vocabulary the properties of sequenced    *)
(* channels share.                                                         *)
(***************************************************************************)
EXTENDS Integers, Sequences

(* Each number is the successor of the one before.                         *)
Contiguous(s) == \A i \in 1 .. Len(s) - 1 : s[i + 1] = s[i] + 1

=============================================================================
