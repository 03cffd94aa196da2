--------------------------- MODULE MCReceiptStore ---------------------------
(* ReceiptStore on two threads and one archived version.                    *)
EXTENDS ReceiptStore, TLC

CONSTANTS t1, t2, legend

MCThreads == {t1, t2}
MCArchived == {legend}
Symmetry == Permutations(MCThreads)
=============================================================================
