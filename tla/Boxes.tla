-------------------------------- MODULE Boxes --------------------------------
(***************************************************************************)
(* How much two faces overlap.  Detector and tracking each compute the     *)
(* intersection over the union (_iou, _normalized_iou).  A box is reduced  *)
(* to one dimension: an interval of the picture's width.  The overlap is a *)
(* fraction [inter, union], compared by multiplying out.                   *)
(***************************************************************************)
EXTENDS Integers

BoxRows == [left : Nat, width : Nat \ {0}]

Least(a, b) == IF a < b THEN a ELSE b
Greatest(a, b) == IF a > b THEN a ELSE b

Overlap(a, b) ==
  LET inter == Greatest(0, Least(a.left + a.width, b.left + b.width)
                             - Greatest(a.left, b.left))
  IN  [inter |-> inter, union |-> a.width + b.width - inter]

AtLeast(o, num, den) == o.inter * den >= num * o.union

Larger(o, p) == o.inter * p.union > p.inter * o.union
=============================================================================
