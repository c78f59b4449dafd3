------------------------------ MODULE BankTypes -------------------------------
(***************************************************************************)
(* The values that the bank's server and clients exchange (Beispiel 3,     *)
(* shared.h): ints of a fixed width, account numbers, requests and the     *)
(* record BankMgrData.                                                     *)
(***************************************************************************)
EXTENDS Integers

CONSTANTS
    Accounts,       \* account numbers of the server's CSV file
    AccountArgs,    \* account numbers that users type (argv, transfer target)
    Amounts,        \* amounts that users type; strtol accepts negative ones
    MaxInt          \* INT_MAX: an int has the values -MaxInt-1 .. MaxInt

Int32 == (-MaxInt - 1) .. MaxInt

(* A file lists every account once, and not as 0: get_account returns the  *)
(* first match, so later lines with the same number would never be used.   *)
ASSUME SharedAssumption ==
    /\ MaxInt \in Nat \ {0}
    /\ Accounts \subseteq Int32 \ {0}
    /\ AccountArgs \subseteq Int32
    /\ Amounts \subseteq Int32

(* What the machine keeps of a sum or difference of two ints.              *)
Wrap(x) == IF x > MaxInt THEN x - 2 * (MaxInt + 1)
           ELSE IF x < -MaxInt - 1 THEN x + 2 * (MaxInt + 1)
           ELSE x

-----------------------------------------------------------------------------
(* The codes of the action field, without the BANK_ACTION_ prefix.         *)

Requests == {"CONNECT", "DISCONNECT", "GET_BALANCE",
             "WITHDRAW", "DEPOSIT", "TRANSFER"}

BankMgrData == [action    : Requests \cup {"NONE", "CLOSED"},
                accountNr : Int32,
                secret    : Int,
                otherAcc  : Int32,
                data      : Int32,
                outcome   : BOOLEAN]

(* A request function of the client with its arguments.                    *)
Call == [action : Requests, money : Amounts \cup {0},
         other : AccountArgs \cup {0}]

-----------------------------------------------------------------------------
(* What requests mean for the balances b, a function from accounts.        *)

Move(b, a, amount) == [b EXCEPT ![a] = Wrap(@ + amount)]

(* The balances after a request q for account a was granted.               *)
Effect(b, a, q) ==
    CASE q.action = "WITHDRAW" -> Move(b, a, -q.money)
      [] q.action = "DEPOSIT"  -> Move(b, a, q.money)
      [] q.action = "TRANSFER" -> Move(Move(b, a, -q.money), q.other, q.money)
      [] OTHER                 -> b
=============================================================================
