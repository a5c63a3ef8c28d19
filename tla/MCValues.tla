------------------------------ MODULE MCValues ------------------------------
(***************************************************************************)
(* Digits of six bits and bytes of two: three bytes in a digit, numbers of *)
(* up to four digits.                                                      *)
(***************************************************************************)
EXTENDS Values

(* The objects of a number, as the scanner and the conversions make them.  *)
D(m) == Ints!normalize([i \in 1..4 |-> (m \div 64^(i - 1)) % 64], FALSE).d
I(m) == IntOf(Ints!normalize(D(IF m < 0 THEN -m ELSE m), m < 0))
S(m, w) == BitsOf(Bits!normalize(D(m), FALSE, w))
T(m, w) == BitsOf(Bits!normalize(D(m), TRUE, w))
Y(d, inv) == BytesOf(Bytes!Bytes(d, inv))

MCFew == {I(0), I(1), I(-2), I(64), S(1, 1), T(5, 7), Y(<<3, 0>>, TRUE), Bool(TRUE)}
MCOperands ==
  {I(m) : m \in {0, 1, 2, 3, 7, 63, 64, 65, 4095, 4096, 4159}} \cup {I(-m) : m \in {1, 2, 3, 63, 64, 4096, 4097}}
  \cup {S(0, 0), S(1, 1), S(0, 3), S(5, 3), S(63, 6), S(64, 7), S(3, 9)}
  \cup {T(0, 0), T(1, 1), T(2, 2), T(0, 6), T(63, 6), T(63, 7), T(70, 12)}
  \cup {Y(<<>>, FALSE), Y(<<2>>, FALSE), Y(<<0, 1>>, FALSE), Y(<<3, 2, 1, 1>>, FALSE), Y(<<1, 0>>, FALSE)}
  \cup {Y(<<>>, TRUE), Y(<<3>>, TRUE), Y(<<1, 0>>, TRUE), Y(<<0, 0, 0>>, TRUE), Bool(TRUE), Bool(FALSE)}
MCSeeds == MCOperands \cup {I(m) : m \in {4033, 262143, 262144, 258048}} \cup {I(-m) : m \in {4032, 262144, 200000}}
                      \cup {S(4095, 12), T(4095, 12), T(2049, 13), Y(<<3, 3, 3, 3>>, TRUE), Y(<<0, 0, 0, 1>>, FALSE)}
(* A division whose quotient is between 0 and -1.                          *)
MCLost == {I(-320)}
MCLostBy == {I(352)}
MCCounts == {-13, -7, -6, -3, -2, -1, 0, 1, 2, 3, 6, 7, 13}
MCPlaces == {-5, -1, 0, 2, 6, 9}
MCStrides == {-3, -1, 1, 2}
=============================================================================
