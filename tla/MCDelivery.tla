----------------------------- MODULE MCDelivery -----------------------------
(* Cohorts and values for checking Delivery with TLC: at 50% a device is just *)
(* inside the cohort of one release and just outside that of the others.     *)
EXTENDS Delivery, TLC

HomeOf == [d \in Devices |-> CHOOSE e \in Environments : TRUE]

BucketOf == [p \in Devices \X Releases |->
               IF p[2] = CHOOSE r \in Releases : TRUE THEN 4999 ELSE 5000]

Symmetry == Permutations(Operations)
=============================================================================
