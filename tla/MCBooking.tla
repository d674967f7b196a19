------------------------------ MODULE MCBooking ------------------------------
(***************************************************************************)
(* Values of the constants of Booking for TLC.                             *)
(***************************************************************************)
EXTENDS Booking, TLC

(* A zone without daylight saving time.                                    *)
OffsetFixed == [d \in FirstDate..LastDate |-> 0]

(* Clocks go back during day 0, which has 25 hours, and forward again        *)
(* during day 1, which has 23.                                             *)
OffsetSaving == [d \in FirstDate..LastDate |-> IF d = 1 THEN -1 ELSE 0]

(* Both readings of initState at one instant.                              *)
ReadOnce == {<<1, 1>>}

(* Across midnight, at the end of the longer day; and just after it.         *)
ReadTwice == {<<24, 25>>, <<25, 25>>}

(* The prices the hotels start with.                                       *)
OpeningPrices == [h \in Hotels |-> 1]

(* The accounts are alike.                                                 *)
AccountSymmetry == Permutations(Users)
=============================================================================
