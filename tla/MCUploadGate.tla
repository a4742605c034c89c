---------------------------- MODULE MCUploadGate ----------------------------
(***************************************************************************)
(* Uploads for TLC: a proper document, one that only clamd objects to, one *)
(* that only the mock scanner objects to, and one for each other check;    *)
(* a missing header, a token without a subject and a good one; all         *)
(* settings the validator admits.                                          *)
(***************************************************************************)
EXTENDS UploadGate, TLC

CONSTANTS r1, r2

MCProper ==
    [pdf_name |-> TRUE, size |-> "fits", pdf_magic |-> TRUE, eicar |-> FALSE,
     malware |-> FALSE]

MCDocuments ==
    {MCProper, [MCProper EXCEPT !.malware = TRUE],
     [MCProper EXCEPT !.eicar = TRUE], [MCProper EXCEPT !.size = "large"],
     [MCProper EXCEPT !.size = "empty", !.pdf_magic = FALSE],
     [MCProper EXCEPT !.pdf_name = FALSE], [MCProper EXCEPT !.pdf_magic = FALSE]}

MCSymmetry == Permutations({r1, r2})
=============================================================================
