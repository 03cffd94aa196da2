---------------------------- MODULE ReceiptChain ----------------------------
(***************************************************************************)
(* What the receipt store promises whoever reopens the database file: a    *)
(* hash-linked chain, anchored at a known hash, that only ever loses a     *)
(* sealed prefix and only ever grows at its tail.  One step of this        *)
(* specification is one durable commit, however many receipts it carries.  *)
(***************************************************************************)
EXTENDS Naturals, Sequences

CONSTANT Genesis

VARIABLES
    rows,    \* the receipts in the file, oldest first
    anchor   \* Genesis, or the seal of the newest pruned epoch

(***************************************************************************)
(* rs chains forward from a: what verify_from_seal(a) establishes, and     *)
(* verify_stream_hash() when a is Genesis.                                 *)
(***************************************************************************)
Linked(rs, a) ==
    \A i \in 1..Len(rs) : rs[i].parent = IF i = 1 THEN a ELSE rs[i - 1].hr

Init == rows = <<>> /\ anchor = Genesis

(***************************************************************************)
(* A commit drops the k oldest receipts (none, unless an epoch is pruned)  *)
(* and keeps the others, in order, below what it appends.  A prune leaves  *)
(* its own receipt behind, naming the new anchor.                          *)
(***************************************************************************)
Commit ==
    \E k \in 0..Len(rows) :
        /\ Len(rows') >= Len(rows) - k
        /\ SubSeq(rows', 1, Len(rows) - k) = SubSeq(rows, k + 1, Len(rows))
        /\ Linked(rows', anchor')
        /\ k > 0 => anchor' # anchor
        /\ anchor' # anchor =>
               \E j \in 1..Len(rows') : /\ rows'[j].op = "epoch_pruned"
                                        /\ rows'[j].ref = anchor'

Spec == Init /\ [][Commit]_<<rows, anchor>>
=============================================================================
