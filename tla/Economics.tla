----------------------------- MODULE Economics -----------------------------
(***************************************************************************)
(* The arithmetic of packages/domain: rounding, rates, fees, the economics *)
(* of an investment, amounts entered by users and the terms of plans.      *)
(*                                                                         *)
(* Amounts are minor units (bigint: no width).  A computation is one step  *)
(* that leaves its inputs and its result in `worked`, for the properties   *)
(* to compare with a reference definition.  Inputs the functions refuse    *)
(* (negative amounts, no slots, rates out of range) leave it as it is.     *)
(***************************************************************************)
EXTENDS Naturals, Integers, Sequences

CONSTANTS
  Prices, Quantities, Rates, Caps,   \* inputs of the money functions
  Activations,                       \* instants: [y, m, d, h], a real date each
  TermValues                         \* duration_value

ASSUME EconomicsAssumption ==
  /\ Prices \subseteq Int /\ Quantities \subseteq Int
  /\ Rates \subseteq Int /\ Caps \subseteq Nat

VARIABLE worked

econVars == <<worked>>

Scale == 100
MaxRoi == 1000000

\* Mutant of DivRoundHalfUp: the fraction is cut off.
DivRoundDown(n, d) == n \div d

\* rounding.ts
DivRoundHalfUp(n, d) == (2 * n + d) \div (2 * d)

MulBps(amount, bps) == DivRoundHalfUp(amount * bps, 10000)
BpsAccepted(amount, bps) == bps >= 0 /\ amount >= 0

AtMost(a, b) == IF a < b THEN a ELSE b

\* Mutant of PercentFeeCapped: the cap is a floor.
FeeFloored(amount, bps, cap) ==
  IF MulBps(amount, bps) < cap THEN cap ELSE MulBps(amount, bps)

\* money.percentFeeCapped and roi.referralDepositReward
PercentFeeCapped(amount, bps, cap) == AtMost(MulBps(amount, bps), cap)

\* roi.computeInvestmentEconomics
EconomicsAccepted(price, qty, bps) ==
  qty > 0 /\ price > 0 /\ bps >= 0 /\ bps <= MaxRoi

Profit(price, qty, bps) == MulBps(price * qty, bps)

\* Mutant of MaturityValue: one slot's value, times the slots.
MaturityBySlot(price, qty, bps) == qty * (price + MulBps(price, bps))

MaturityValue(price, qty, bps) == price * qty + Profit(price, qty, bps)

\* Mutant of ParseMajor: padded on the left.
ParsePadLeft(major, digits) ==
  LET padded == SubSeq(<<0, 0>>, 1, 2 - Len(digits)) \o digits
  IN major * Scale + 10 * padded[1] + padded[2]

\* money.parseMajor: at most two digits after the point, padded on the right.
ParseMajor(major, digits) ==
  LET padded == digits \o SubSeq(<<0, 0>>, 1, 2 - Len(digits))
  IN major * Scale + 10 * padded[1] + padded[2]

\* money.format, without the grouping of thousands.
Format(amount) ==
  LET abs == IF amount < 0 THEN -amount ELSE amount
  IN [negative |-> amount < 0, major |-> abs \div Scale,
      digits |-> <<(abs % Scale) \div 10, abs % 10>>]

(***************************************************************************)
(* duration.ts: instants are UTC dates with an hour.                       *)
(***************************************************************************)
Leap(y) == y % 4 = 0 /\ (y % 100 # 0 \/ y % 400 = 0)
DaysInUtcMonth(y, m) ==
  IF m = 2 THEN IF Leap(y) THEN 29 ELSE 28
  ELSE IF m \in {4, 6, 9, 11} THEN 30 ELSE 31

\* Hours of an instant from the beginning of year 1, as Date.getTime counts.
Elapsed(i) ==
  LET before == <<0, 31, 59, 90, 120, 151, 181, 212, 243, 273, 304, 334>>
      y == i.y - 1
  IN 24 * (365 * y + (y \div 4) - (y \div 100) + (y \div 400) + before[i.m]
             + (IF Leap(i.y) /\ i.m > 2 THEN 1 ELSE 0) + i.d) + i.h

\* Mutant of AddUtcMonths: the day overflows into the month after.
AddMonthsOverflow(i, n) ==
  LET index == i.m - 1 + n
      y == i.y + (index \div 12)
      m == 1 + (index % 12)
      last == DaysInUtcMonth(y, m)
  IN IF i.d <= last THEN [i EXCEPT !.y = y, !.m = m]
     ELSE [i EXCEPT !.y = y + (m \div 12), !.m = 1 + (m % 12), !.d = i.d - last]

\* The day of the month is clamped to the last of the month it falls in.
AddUtcMonths(i, n) ==
  LET index == i.m - 1 + n
      y == i.y + (index \div 12)
      m == 1 + (index % 12)
  IN [i EXCEPT !.y = y, !.m = m, !.d = AtMost(i.d, DaysInUtcMonth(y, m))]

DurationUnits == {"HOURS", "DAYS", "WEEKS", "MONTHS", "YEARS"}

\* computeMaturesAt, in hours
MaturesAt(i, value, unit) ==
  CASE unit = "HOURS"  -> Elapsed(i) + value
    [] unit = "DAYS"   -> Elapsed(i) + 24 * value
    [] unit = "WEEKS"  -> Elapsed(i) + 168 * value
    [] unit = "MONTHS" -> Elapsed(AddUtcMonths(i, value))
    [] unit = "YEARS"  -> Elapsed(AddUtcMonths(i, 12 * value))

\* Activations are real dates.
ASSUME CalendarAssumption ==
  /\ TermValues \subseteq Nat
  /\ \A i \in Activations :
       /\ i \in [y : Nat \ {0}, m : 1..12, d : 1..31, h : 0..23]
       /\ i.d <= DaysInUtcMonth(i.y, i.m)

(***************************************************************************)
(* The computations                                                        *)
(***************************************************************************)
EconInit == worked = [of |-> "nothing"]

ComputeEconomics ==
  \E price \in Prices, qty \in Quantities, bps \in Rates :
    /\ EconomicsAccepted(price, qty, bps)
    /\ worked' = [of |-> "economics", price |-> price, qty |-> qty, bps |-> bps,
                  profit |-> Profit(price, qty, bps),
                  maturity |-> MaturityValue(price, qty, bps)]

ComputeFee ==
  \E amount \in Prices, bps \in Rates, cap \in Caps :
    /\ BpsAccepted(amount, bps)
    /\ worked' = [of |-> "fee", amount |-> amount, bps |-> bps, cap |-> cap,
                  fee |-> PercentFeeCapped(amount, bps, cap)]

EnterAmount ==
  \E major \in Quantities \cap Nat, len \in 0..2 : \E digits \in [1..len -> 0..9] :
    worked' = [of |-> "amount", major |-> major, digits |-> digits,
               minor |-> ParseMajor(major, digits)]

ComputeMaturity ==
  \E i \in Activations, value \in TermValues, unit \in DurationUnits :
    worked' = [of |-> "term", from |-> i, value |-> value, unit |-> unit,
               matures |-> MaturesAt(i, value, unit)]

EconNext ==
  /\ worked.of = "nothing"
  /\ \/ ComputeEconomics
     \/ ComputeFee
     \/ EnterAmount
     \/ ComputeMaturity

EconSpec == EconInit /\ [][EconNext]_econVars

(***************************************************************************)
(* Properties                                                              *)
(***************************************************************************)
\* The profit of an investment is within half a minor unit of principal x ROI,
\* a tie going up, and is computed once on the whole principal (RB-001, the
\* minimum withdrawal of RB-045 uses the same function for one slot).
ProfitIsNearest ==
  worked.of = "economics" =>
    LET exact == worked.price * worked.qty * worked.bps
        paid == worked.maturity - worked.price * worked.qty
    IN /\ paid = worked.profit
       /\ 2 * exact < 20000 * paid + 10000
       /\ 20000 * paid - 10000 <= 2 * exact

\* A fee (or a referral reward) never exceeds its cap nor the exact share by
\* more than rounding, and reaches the cap once the share does.
FeeIsCapped ==
  worked.of = "fee" =>
    /\ worked.fee <= worked.cap
    /\ 20000 * worked.fee - 10000 <= 2 * worked.amount * worked.bps
    /\ worked.amount * worked.bps >= 10000 * worked.cap => worked.fee = worked.cap

\* What a user enters is what is stored and shown: the minor units are the
\* decimal number entered, and formatting them reads the same.
AmountIsExact ==
  worked.of = "amount" =>
    LET Value(s) == IF Len(s) = 0 THEN 0 ELSE IF Len(s) = 1 THEN 10 * s[1]
                    ELSE 10 * s[1] + s[2]
        shown == Format(worked.minor)
    IN /\ worked.minor = Scale * worked.major + Value(worked.digits)
       /\ shown.major = worked.major /\ Value(shown.digits) = Value(worked.digits)

\* The money functions, together.
MoneyIsExact == ProfitIsNearest /\ FeeIsCapped /\ AmountIsExact

\* The calendar terms keep the order of activations to the day: an investment
\* activated earlier matures less than a day after one of the same terms
\* activated later (the clamp of duration.ts keeps the time of day, so those of
\* 28 January 23:00 and 29 January 0:00 do mature in the other order, on 28
\* February); and a term of months is never shorter than four weeks each.
MaturityKeepsOrder ==
  worked.of = "term" =>
    /\ \A i \in Activations :
         Elapsed(i) <= Elapsed(worked.from) =>
           MaturesAt(i, worked.value, worked.unit) < worked.matures + 24
    /\ worked.unit = "MONTHS" =>
         worked.matures - Elapsed(worked.from) >= 672 * worked.value
=============================================================================
