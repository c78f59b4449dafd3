------------------------------ MODULE MCPalindrome -----------------------------
(* Values of the constants of Palindrome for TLC.                          *)
EXTENDS Palindrome

MCLower == [c \in Bytes |-> IF c = "A" THEN "a" ELSE c]
=============================================================================
