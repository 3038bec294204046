------------------------------- MODULE Money -------------------------------
(***************************************************************************)
(* Fixed-point money (src/src/common/money/money.ts).  A decimal amount,   *)
(* as it travels in requests and events, is its sign, its whole part and   *)
(* its two fraction digits; inside an aggregate it is a bigint number of   *)
(* minor units.                                                            *)
(***************************************************************************)
EXTENDS Integers

\* 10 ^ MONEY_SCALE: how many minor units make one unit.
MinorUnitsPerUnit == 100

\* The amounts MONEY_PATTERN accepts, with the fraction padded to two digits;
\* "+" stands for the absent sign.
Decimal == [sign : {"+", "-"}, whole : Nat, fraction : 0 .. MinorUnitsPerUnit - 1]

\* parseMoneyToMinorUnits: the digits of both parts read as one number.
ParseMoneyToMinorUnits(d) ==
    LET minorUnits == d.whole * MinorUnitsPerUnit + d.fraction
    IN  IF d.sign = "-" THEN -minorUnits ELSE minorUnits

\* formatMinorUnitsToMoney: the last two digits become the fraction.
FormatMinorUnitsToMoney(minorUnits) ==
    LET absolute == IF minorUnits < 0 THEN -minorUnits ELSE minorUnits
    IN  [sign     |-> IF minorUnits < 0 THEN "-" ELSE "+",
         whole    |-> absolute \div MinorUnitsPerUnit,
         fraction |-> absolute % MinorUnitsPerUnit]
=============================================================================
