---------------------------- MODULE MCStoredFiles ----------------------------
(* A small instance of StoredFiles: two bills and a label with three requests between
   them, which may overlap on the label and on one of the bills. *)
EXTENDS StoredFiles, TLC

CONSTANTS topUp, other, parcel, r1, r2, r3

TwoBills      == {topUp, other}
JustTopUp     == {topUp}
NoOwner       == {}
TheLabel      == {parcel}
Crowded       == {topUp, parcel}
ThreeRequests == {r1, r2, r3}
=============================================================================
