----------------------------- MODULE LeadingZeros -----------------------------
(***************************************************************************)
(* How the server (src/pow.rs) and the two clients that come with it       *)
(* (utils/html-solver/static/solver.js, utils/solver.py) count the leading *)
(* zero bits of a hash.  A hash is a sequence of bytes; a byte has         *)
(* ByteBits bits, and the server's counter, a u8 in the code, wraps at     *)
(* CounterLimit, as it does where overflow is not checked.                 *)
(***************************************************************************)
EXTENDS Integers, Sequences, PowersOfTwo

CONSTANTS ByteBits, CounterLimit

ASSUME WidthAssumption == ByteBits \in Nat \ {0} /\ CounterLimit \in Nat \ {0}

AByte == 0..(TwoTo[ByteBits] - 1)

ZeroBytes(hash) ==
  CHOOSE n \in 0..Len(hash) :
    (\A i \in 1..n : hash[i] = 0) /\ (n = Len(hash) \/ hash[n + 1] # 0)

IsZero(hash) == ZeroBytes(hash) = Len(hash)

\* The first byte that is not zero.
Stop(hash) == hash[ZeroBytes(hash) + 1]

\* u8::leading_zeros
LeadingZerosOf(byte) ==
  CHOOSE z \in 0..ByteBits :
    TwoTo[ByteBits - z] <= 2 * byte /\ byte < TwoTo[ByteBits - z]

\* The server's count.  With overflow checks a hash of zeros panics instead.
count_leading_zeros(hash) ==
  (ByteBits * ZeroBytes(hash) + (IF IsZero(hash) THEN 0 ELSE LeadingZerosOf(Stop(hash))))
    % CounterLimit

\* Digit i, from 0, of a byte written in binary with all its digits.
Digit(byte, i) == (byte \div TwoTo[ByteBits - 1 - i]) % 2

\* The position of the first digit that is 1.
IndexOf1(byte) ==
  CHOOSE i \in 0..(ByteBits - 1) : Digit(byte, i) = 1 /\ \A j \in 0..(i - 1) : Digit(byte, j) = 0

\* solver.py: in "0b1..." the first 1 is always at position 2.
PythonCount(hash) == ByteBits * ZeroBytes(hash) + (IF IsZero(hash) THEN 0 ELSE 2)

\* solver.js
countLeadingZeros(hash) ==
  ByteBits * ZeroBytes(hash) + (IF IsZero(hash) THEN 0 ELSE IndexOf1(Stop(hash)))
=============================================================================
