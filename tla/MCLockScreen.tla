---------------------------- MODULE MCLockScreen ----------------------------
(* Instance of LockScreen for TLC: two keys, passwords of two digits.        *)
EXTENDS LockScreen

MCDigits == 1 .. 2
MCDefaultPassword == <<1, 2>>
=============================================================================
