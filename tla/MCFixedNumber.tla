---------------------------- MODULE MCFixedNumber ---------------------------
EXTENDS FixedNumber
Formats8 == {[signed |-> s, width |-> 8, decimals |-> d] : s \in BOOLEAN, d \in {0, 1, 2}}
Values8 == {-128, -127, -64, -15, -10, -1, 0, 1, 5, 10, 15, 49, 100, 127, 128, 255}
=============================================================================
