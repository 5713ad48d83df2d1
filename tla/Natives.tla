------------------------------ MODULE Natives ------------------------------
(***************************************************************************)
(* The natives on numbers, lists and strings, with the Dart code that      *)
(* calls them (lib/core/int.dart): a native that cannot produce a result   *)
(* returns a failure and the Dart code goes on with wider integers.        *)
(* Widths are parameters: a word has WordBits bits (a Smi one less), an    *)
(* int64 LongBits and an int IntBits.  A double is a whole number of       *)
(* halves, NaN or infinite.                                                *)
(***************************************************************************)
EXTENDS Integers, Sequences, FiniteSets, Bitwise

CONSTANTS WordBits, LongBits, IntBits,
          Doubles,        \* the halves of the doubles
          Units,          \* code units; those from 2 on need a two byte string
          MaxLength       \* bound on the length of lists and strings

VARIABLES list, string, errno,    \* the state natives work on
          call, answer            \* the last call and what it returned

natVars == <<list, string, errno, call, answer>>

(* n as a signed integer of the given width.                               *)
Wrap(n, bits) == LET u == n % 2^bits IN IF u >= 2^(bits - 1) THEN u - 2^bits ELSE u
MinSmi == -(2^(WordBits - 2))
MaxSmi == 2^(WordBits - 2) - 1
MinLong == -(2^(LongBits - 1))
IsValid(n) == MinSmi <= n /\ n <= MaxSmi

Smi(n) == <<"smi", n>>
Mint(n) == <<"mint", n>>
Bool(b) == <<"bool", b>>
Failure(why) == <<"failure", why>>
WrongArgument == Failure("wrong argument type")
OutOfBounds == Failure("index out of bounds")
IllegalState == Failure("illegal state")
ToInteger(n) == IF IsValid(n) THEN Smi(n) ELSE Mint(n)

(* C++ division and remainder truncate; shifts take the count modulo the   *)
(* width; >> keeps the sign.                                               *)
Abs(a) == IF a < 0 THEN -a ELSE a
Quotient(a, b) == IF (a < 0) = (b < 0) THEN Abs(a) \div Abs(b) ELSE -(Abs(a) \div Abs(b))
Remainder(a, b) == a - b * Quotient(a, b)
Positive(r, b) == IF r < 0 THEN r + Abs(b) ELSE r
Right(a, n, bits) == a \div 2^(n % bits)
Left(a, n, bits) == Wrap(a * 2^(n % bits), bits)
Bits(op, a, b) ==
  LET x == a % 2^LongBits
      y == b % 2^LongBits
  IN Wrap(CASE op = "&" -> x & y [] op = "|" -> x | y [] op = "^" -> x ^^ y, LongBits)
Compares(op, a, b) ==
  CASE op = "==" -> a = b [] op = "<" -> a < b [] op = "<=" -> a <= b
    [] op = ">" -> a > b [] op = ">=" -> a >= b

BitOps == {"&", "|", "^"}
CompareOps == {"==", "<", "<=", ">", ">="}
IntegerOps == {"+", "-", "*", "%", "~/", ">>", "<<"} \cup BitOps \cup CompareOps

(* HighestBit of the absolute value, 0 for 0; BitLength flips a negative.  *)
HighestBit(n) ==
  LET a == Abs(n)
  IN IF a = 0 THEN 0 ELSE CHOOSE b \in 0..LongBits : 2^b <= a /\ a < 2^(b + 1)
BitLength(n) == LET f == IF n < 0 THEN -n - 1 ELSE n IN IF f = 0 THEN 0 ELSE HighestBit(f) + 1
MulMightOverflow(a, b) == HighestBit(a) + HighestBit(b) >= LongBits - 2

-----------------------------------------------------------------------------
(* The natives on Smis.  Sums and products are formed on the tagged words: *)
(* they overflow when the result is no Smi.                                *)
SmiArithmetic(op, x, y) ==
  LET r == CASE op = "+" -> x + y [] op = "-" -> x - y [] op = "*" -> x * y
  IN IF IsValid(r) THEN Smi(r) ELSE WrongArgument

SmiDivision(op, x, y) ==
  IF y = 0 THEN OutOfBounds
  ELSE IF op = "%" THEN Smi(Positive(Remainder(x, y), y))
  ELSE IF IsValid(Quotient(x, y)) THEN Smi(Quotient(x, y)) ELSE WrongArgument

SmiShift(op, x, y) ==
  IF op = ">>" THEN Smi(Right(x, IF y >= WordBits THEN WordBits - 1 ELSE y, WordBits))
  ELSE LET r == Left(x, y, WordBits)
       IN IF y >= WordBits \/ ~IsValid(r) \/ Right(r, y, WordBits) # x
          THEN WrongArgument ELSE Smi(r)

SmiNegate(x) == IF x = MinSmi THEN OutOfBounds ELSE Smi(-x)
SmiBitNot(x) == Smi(-x - 1)

SmiNative(op, x, y) ==
  IF y[1] # "smi" THEN WrongArgument
  ELSE CASE op \in {"+", "-", "*"} -> SmiArithmetic(op, x, y[2])
         [] op \in {"%", "~/"} -> SmiDivision(op, x, y[2])
         [] op \in {">>", "<<"} -> SmiShift(op, x, y[2])
         [] op \in BitOps -> Smi(Bits(op, x, y[2]))
         [] op \in CompareOps -> Bool(Compares(op, x, y[2]))

(* The natives on int64.                                                   *)
MintSum(op, x, y) ==
  LET r == Wrap(IF op = "+" THEN x + y ELSE x - y, LongBits)
      safe == IF op = "+" THEN (x < 0) # (y < 0) ELSE (x < 0) = (y < 0)
  IN IF safe \/ (r < 0) = (x < 0) THEN ToInteger(r) ELSE OutOfBounds

(* A slip: no test for overflow.                                           *)
MintMulUnchecked(x, y) == ToInteger(Wrap(x * y, LongBits))

MintMul(x, y) == IF MulMightOverflow(x, y) THEN OutOfBounds ELSE ToInteger(Wrap(x * y, LongBits))

MintDivision(op, x, y) ==
  IF y = 0 THEN IllegalState
  ELSE IF x = MinLong /\ y = -1 THEN OutOfBounds
  ELSE ToInteger(IF op = "%" THEN Positive(Remainder(x, y), y) ELSE Quotient(x, y))

MintBitShr(x, y) ==
  ToInteger(IF y >= LongBits THEN (IF x < 0 THEN -1 ELSE 0) ELSE Right(x, y, LongBits))
MintBitShl(x, y) ==
  IF Wrap(BitLength(x) + y, LongBits) >= LongBits THEN OutOfBounds
  ELSE ToInteger(Left(x, y, LongBits))

MintNegate(x) == IF x = MinLong THEN OutOfBounds ELSE Mint(-x)
MintBitNot(x) == Mint(-x - 1)

MintNative(op, x, y) ==
  CASE op \in {"+", "-"} -> MintSum(op, x, y)
    [] op = "*" -> MintMul(x, y)
    [] op \in {"%", "~/"} -> MintDivision(op, x, y)
    [] op = ">>" -> MintBitShr(x, y)
    [] op = "<<" -> MintBitShl(x, y)
    [] op \in BitOps -> ToInteger(Bits(op, x, y))
    [] op \in CompareOps -> Bool(Compares(op, x, y))

(* The operators of _Smi and _Mint.  A Mint native that does not get a     *)
(* Mint fails, and the double dispatch makes both operands Mints; what     *)
(* overflows an int64 is left to big integers.                             *)
Wide(op, x, y) ==
  LET r == MintNative(op, x, y)
  IN CASE r = IllegalState -> <<"division by zero">>
       [] r = OutOfBounds -> <<"big">>
       [] OTHER -> r

Operator(op, x, y) ==
  LET r == IF x[1] = "smi" THEN SmiNative(op, x[2], y) ELSE WrongArgument
  IN CASE r = WrongArgument -> Wide(op, x[2], y[2])
       [] r = OutOfBounds -> <<"division by zero">>
       [] OTHER -> r

Negate(x) ==
  LET r == IF x[1] = "smi" THEN SmiNegate(x[2]) ELSE OutOfBounds
      m == MintNegate(x[2])
  IN IF r # OutOfBounds THEN r ELSE IF m = OutOfBounds THEN <<"big">> ELSE m
BitNot(x) == IF x[1] = "smi" THEN SmiBitNot(x[2]) ELSE MintBitNot(x[2])

-----------------------------------------------------------------------------
(* Doubles.  round() goes away from zero at a half.                        *)
Double(n) == <<"double", n>>
Special(d) == <<"special", d>>

Rounded(op, h) ==
  CASE op = "floor" -> h \div 2
    [] op = "ceil" -> -((-h) \div 2)
    [] op \in {"truncate", "toInt"} -> Quotient(h, 2)
    [] op = "round" -> IF h < 0 THEN -((-h + 1) \div 2) ELSE (h + 1) \div 2
RoundOps == {"floor", "ceil", "truncate", "toInt", "round"}

DoubleToInteger(op, d) ==
  IF d[1] = "special" THEN OutOfBounds ELSE ToInteger(Rounded(op, d[2]))

DoubleTruncDiv(d, e) ==
  IF e[2] = 0 THEN OutOfBounds ELSE Mint(Quotient(d[2], e[2]))

-----------------------------------------------------------------------------
(* Lists and strings.  An index is a Smi that the list natives convert to  *)
(* an int, and the string natives keep as a word.                          *)
AsInt(n) == Wrap(n, IntBits)

ListNew(n) == IF AsInt(n) < 0 THEN OutOfBounds ELSE <<"list", [i \in 1..AsInt(n) |-> 0]>>
ListIndexGet(l, n) ==
  IF AsInt(n) < 0 \/ AsInt(n) >= Len(l) THEN OutOfBounds ELSE Smi(l[AsInt(n) + 1])
ListIndexSet(l, n, v) ==
  IF AsInt(n) < 0 \/ AsInt(n) >= Len(l) THEN l ELSE [l EXCEPT ![AsInt(n) + 1] = v]

OneByte(units) == [two |-> FALSE, units |-> units]
TwoByte(units) == [two |-> TRUE, units |-> units]

(* The result has two byte units if one operand has; an empty operand      *)
(* gives back the other.                                                   *)
StringAdd(s, t) ==
  IF s.units = <<>> THEN t ELSE IF t.units = <<>> THEN s
  ELSE [two |-> s.two \/ t.two, units |-> s.units \o t.units]

StringCodeUnitAt(s, n) ==
  IF n < 0 \/ n >= Len(s.units) THEN OutOfBounds ELSE Smi(s.units[n + 1])

StringSubstring(s, from, to) ==
  IF from < 0 \/ to < from \/ to > Len(s.units) THEN OutOfBounds
  ELSE <<"string", [s EXCEPT !.units = SubSeq(s.units, from + 1, to)]>>

(* A one byte string keeps the low byte.                                   *)
StringSetCodeUnitAt(s, n, u) == [s EXCEPT !.units[n + 1] = IF s.two THEN u ELSE u % 2]
StringEqual(s, t) == Bool(s.units = t.units)

(* FillFrom copies the units of t over those of s from n on; a two byte    *)
(* string is no argument for a one byte one.                               *)
StringSetContent(s, n, t) ==
  IF t.two /\ ~s.two THEN s
  ELSE [s EXCEPT !.units = [i \in DOMAIN @ |->
                              IF i - n \in DOMAIN t.units THEN t.units[i - n] ELSE @[i]]]

(* IntParse: strtoll sets errno when the number is out of range, and never *)
(* clears it.                                                              *)
IntParse(text) ==
  [errno |-> IF text = "huge" THEN "ERANGE" ELSE errno,
   answer |-> IF text = "garbage" \/ text = "huge" \/ errno = "ERANGE"
              THEN OutOfBounds ELSE ToInteger(1)]

-----------------------------------------------------------------------------
Integers64 == {ToInteger(n) : n \in MinLong..(-MinLong - 1)} \cup {Mint(MinSmi)}
Strings == [two : BOOLEAN, units : UNION {[1..n -> Units] : n \in 0..MaxLength}]
WellFormed(s) == s.two \/ \A i \in DOMAIN s.units : s.units[i] < 2
Smis == MinSmi..MaxSmi

Init == list = <<>> /\ string = OneByte(<<>>) /\ errno = "none" /\ call = <<"none">> /\ answer = {}

Return(c, a) == call' = c /\ answer' = {a}

Integer ==
  /\ \E op \in IntegerOps, x, y \in Integers64 : Return(<<op, x, y>>, Operator(op, x, y))
  /\ UNCHANGED <<list, string, errno>>
Unary ==
  /\ \E x \in Integers64 : \/ Return(<<"neg", x>>, Negate(x))
                           \/ Return(<<"not", x>>, BitNot(x))
  /\ UNCHANGED <<list, string, errno>>
Floating ==
  /\ \/ \E op \in RoundOps, d \in {Double(h) : h \in Doubles} \cup {Special("NaN")} :
          Return(<<op, d>>, DoubleToInteger(op, d))
     \/ \E h, k \in Doubles : Return(<<"d~/", h, k>>, DoubleTruncDiv(Double(h), Double(k)))
  /\ UNCHANGED <<list, string, errno>>
Lists ==
  /\ \E n \in Smis :
       \/ /\ AsInt(n) <= MaxLength
          /\ Return(<<"list", n>>, ListNew(n))
          /\ list' = IF AsInt(n) < 0 THEN list ELSE ListNew(n)[2]
       \/ /\ Return(<<"get", n, list>>, ListIndexGet(list, n))
          /\ UNCHANGED list
       \/ \E v \in {1} :
            /\ Return(<<"set", n, list>>, IF ListIndexGet(list, n) = OutOfBounds
                                          THEN OutOfBounds ELSE Smi(v))
            /\ list' = ListIndexSet(list, n, v)
  /\ UNCHANGED <<string, errno>>
Text ==
  /\ \/ \E t \in {s \in Strings : WellFormed(s)} :
          \/ /\ Return(<<"add", string, t>>, <<"string", StringAdd(string, t)>>)
             /\ Len(string.units) + Len(t.units) <= MaxLength
             /\ string' = StringAdd(string, t)
          \/ Return(<<"equal", string, t>>, StringEqual(string, t)) /\ UNCHANGED string
     \/ \E n \in Smis : Return(<<"unit", string, n>>, StringCodeUnitAt(string, n)) /\ UNCHANGED string
     \/ \E n, m \in Smis :
          Return(<<"sub", string, n, m>>, StringSubstring(string, n, m)) /\ UNCHANGED string
     \/ \E n \in 0..MaxLength - 1, u \in Units :
          /\ n < Len(string.units)
          /\ string' = StringSetCodeUnitAt(string, n, u)
          /\ Return(<<"put", string, n, u>>, <<"null">>)
     \/ \E n \in 0..MaxLength, t \in {s \in Strings : WellFormed(s)} :
          /\ n + Len(t.units) <= Len(string.units)
          /\ string' = StringSetContent(string, n, t)
          /\ Return(<<"content", string, n, t>>,
                    IF t.two /\ ~string.two THEN WrongArgument ELSE <<"null">>)
  /\ UNCHANGED <<list, errno>>
Parse ==
  /\ \E text \in {"number", "garbage", "huge"} :
       /\ errno' = IntParse(text).errno
       /\ Return(<<"parse", text>>, IntParse(text).answer)
  /\ UNCHANGED <<list, string>>

(* Calls are independent but for the list, the string or errno they work   *)
(* on, so one of the three at a time is away from its initial value.       *)
Ready == call # <<"none">> /\ call' = <<"none">> /\ answer' = {} /\ UNCHANGED <<list, string, errno>>
Empty == OneByte(<<>>)
Next ==
  \/ Ready
  \/ /\ call = <<"none">>
     /\ \/ string = Empty /\ errno = "none" /\ Lists
        \/ list = <<>> /\ errno = "none" /\ Text
        \/ list = <<>> /\ string = Empty /\ Parse
        \/ list = <<>> /\ string = Empty /\ errno = "none" /\ (Integer \/ Unary \/ Floating)
Spec == Init /\ [][Next]_natVars

-----------------------------------------------------------------------------
(* The mathematical result of an integer operation.                        *)
Exact(op, x, y) ==
  CASE op = "+" -> x + y [] op = "-" -> x - y [] op = "*" -> x * y
    [] op = "%" -> x % Abs(y)
    [] op = "~/" -> CHOOSE q \in -Abs(x)..Abs(x) :
                      Abs(x - q * y) < Abs(y) /\ q * y * x >= 0 /\ Abs(q * y) <= Abs(x)
    [] op = ">>" -> x \div 2^(IF y > LongBits THEN LongBits ELSE y)
    [] op = "<<" -> x * 2^y
    [] op \in BitOps -> Bits(op, x, y)
(* Shifts for which the C++ code has no defined result: a negative count,  *)
(* and a count for which bit length plus count overflows an int64.         *)
Undefined(op, x, y) == \/ op \in {">>", "<<"} /\ y < 0
                       \/ op = "<<" /\ BitLength(x) + y > -MinLong - 1

Size(n) == IF n = 0 THEN 1 ELSE Abs(n)

(* Integer arithmetic gives the mathematical result, as a Smi whenever it  *)
(* is one, whichever of the three natives of the chain produced it; it     *)
(* goes to big integers only for a result, or a factor, near the limit.    *)
IntegersExact ==
  \A a \in answer :
    (Len(call) = 3 /\ call[1] \in IntegerOps) =>
      LET op == call[1]
          x == call[2][2]
          y == call[3][2]
      IN IF Undefined(op, x, y) THEN TRUE
         ELSE IF op \in CompareOps THEN a = Bool(Compares(op, x, y))
         ELSE IF op \in {"%", "~/"} /\ y = 0 THEN a = <<"division by zero">>
         ELSE IF a = <<"big">>
              THEN \/ op = "<<" /\ (y >= LongBits \/ Abs(x) * 2^y >= -MinLong)
                   \/ op = "*" /\ Size(x) * Size(y) >= 2^(LongBits - 2)
                   \/ op = "%" /\ x = MinLong
                   \/ op # "<<" /\ Abs(Exact(op, x, y)) >= -MinLong
              ELSE a = ToInteger(Exact(op, x, y))

(* The other natives: rounding, lists and strings against what they        *)
(* promise.                                                                *)
UnaryExact ==
  \A a \in answer :
    /\ call[1] = "neg" => a \in {Smi(-call[2][2]), Mint(-call[2][2])} \/ call[2][2] = MinLong
    /\ call[1] = "not" => a = IF IsValid(call[2][2]) /\ call[2][1] = "mint"
                             THEN Mint(-call[2][2] - 1) ELSE ToInteger(-call[2][2] - 1)
DoublesRounded ==
  \A a \in answer : (call[1] \in RoundOps /\ call[2][1] = "double") =>
    LET h == call[2][2]
        n == 2 * a[2]
    IN /\ Abs(h - n) < 2
       /\ call[1] = "floor" => n <= h
       /\ call[1] = "ceil" => n >= h
       /\ call[1] \in {"truncate", "toInt"} => Abs(n) <= Abs(h)
       /\ call[1] = "round" => Abs(h - n) <= 1 /\ (Abs(h - n) = 1 => Abs(n) > Abs(h))
(* An index outside of the list or string is an error, and only that.      *)
IndexChecked ==
  \A a \in answer :
    /\ call[1] \in {"get", "set"} => (a = OutOfBounds <=> call[2] \notin 0..Len(call[3]) - 1)
    /\ call[1] = "list" => (a = OutOfBounds <=> call[2] < 0)
    /\ call[1] = "unit" => (a = OutOfBounds <=> call[3] \notin 0..Len(call[2].units) - 1)
(* Strings hold the units put into them, in the width they need.           *)
StringsKeepUnits ==
  /\ WellFormed(string)
  /\ \A a \in answer :
       /\ call[1] = "add" => a[2].units = call[2].units \o call[3].units
       /\ call[1] = "equal" => a = Bool(call[2].units = call[3].units)
       /\ (call[1] = "content" /\ a # WrongArgument) =>
            string.units = SubSeq(call[2].units, 1, call[3]) \o call[4].units
                           \o SubSeq(call[2].units, call[3] + Len(call[4].units) + 1,
                                     Len(call[2].units))
       /\ (call[1] = "sub" /\ a # OutOfBounds) => Len(a[2].units) = call[4] - call[3]
(* int.parse throws a FormatException only for text that is no number, or  *)
(* none that fits.                                                         *)
ParseChecked ==
  \A a \in answer : call = <<"parse", "number">> => a = Smi(1)
NativesCorrect == IntegersExact /\ UnaryExact /\ DoublesRounded /\ IndexChecked /\ StringsKeepUnits
=============================================================================
