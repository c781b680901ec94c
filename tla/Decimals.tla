------------------------------ MODULE Decimals ------------------------------
(***************************************************************************)
(* The fixed-point arithmetic of the contracts.  A Decimal is the integer  *)
(* number of its DECIMAL_FRACTIONAL-ths, as cosmwasm_std::Decimal and      *)
(* cosmwasm_bignumber::Decimal256 store it, and every operation truncates  *)
(* where the code truncates.  The scale is 10^18 in the code and a         *)
(* constant here.  Overflow of Uint128 and Uint256 is left out: the        *)
(* products of the code are computed on 256 bits.                          *)
(***************************************************************************)
EXTENDS Integers

CONSTANT DECIMAL_FRACTIONAL

ASSUME ScaleAssumption == DECIMAL_FRACTIONAL \in Nat \ {0}

\* Decimal::one
One == DECIMAL_FRACTIONAL

\* Decimal::from_ratio and Decimal256::from_ratio; b = 0 panics in the code.
FromRatio(a, b) == (a * DECIMAL_FRACTIONAL) \div b

\* Uint128 * Decimal and Uint256 * Decimal256
Times(a, rate) == (a * rate) \div DECIMAL_FRACTIONAL

DecimalDivisionUp(a, rate) ==  \* mutant: rounded up
  (a * DECIMAL_FRACTIONAL + rate - 1) \div rate

\* decimal_division of the hub: a divided by a Decimal; rate = 0 panics.
DecimalDivision(a, rate) == (a * DECIMAL_FRACTIONAL) \div rate

\* The lesser of what is booked and what is delegated.
Least(a, b) == IF a <= b THEN a ELSE b

FromSubtractionSigned(minuend, subtrahend) ==  \* mutant: no absolute value
  [magnitude |-> minuend - subtrahend, negative |-> minuend < subtrahend]

(***************************************************************************)
(* SignedInt: a magnitude and whether the difference was negative.         *)
(***************************************************************************)
FromSubtraction(minuend, subtrahend) ==
  IF subtrahend <= minuend
  THEN [magnitude |-> minuend - subtrahend, negative |-> FALSE]
  ELSE [magnitude |-> subtrahend - minuend, negative |-> TRUE]

ExchangeRateOfIssued(bonded, issued, requested) ==  \* mutant: requests not counted
  IF bonded = 0 \/ issued = 0 THEN One ELSE FromRatio(bonded, issued)

ExchangeRateInverted(bonded, issued, requested) ==  \* mutant: numerator and denominator swapped
  IF bonded = 0 \/ issued + requested = 0 THEN One ELSE FromRatio(issued + requested, bonded)

(***************************************************************************)
(* State::update_statom_exchange_rate, as the rate it stores.              *)
(***************************************************************************)
ExchangeRate(bonded, issued, requested) ==
  IF bonded = 0 \/ issued + requested = 0
  THEN One
  ELSE FromRatio(bonded, issued + requested)

(***************************************************************************)
(* calculate_new_withdraw_rate.  slashed is the SignedInt by which the     *)
(* coins that arrived fall short of total, the value the batches being     *)
(* released were booked at.  A shortfall is charged one unit more than the *)
(* share of the batch and a surplus is credited one unit less; on a        *)
(* shortfall the sign of the subtraction is dropped.                       *)
(***************************************************************************)
SlashedShare(booked, total, slashed) ==
  LET weight == IF total # 0 THEN FromRatio(booked, total) ELSE 0
  IN  Times(slashed.magnitude, weight)

ActualUnbondedEven(booked, total, slashed) ==  \* mutant: no unit charged on a shortfall
  LET share == SlashedShare(booked, total, slashed)
  IN  IF slashed.negative THEN booked + share ELSE FromSubtraction(booked, share).magnitude

ActualUnbondedBooked(booked, total, slashed) == booked  \* mutant: the loss is not charged

ActualUnbonded(booked, total, slashed) ==
  LET share == SlashedShare(booked, total, slashed)
  IN  IF slashed.negative
      THEN booked + (IF share > 1 THEN share - 1 ELSE 0)
      ELSE FromSubtraction(booked, IF slashed.magnitude # 0 THEN share + 1 ELSE share).magnitude

NewWithdrawRate(amount, rate, total, slashed) ==
  IF amount # 0
  THEN FromRatio(ActualUnbonded(Times(amount, rate), total, slashed), amount)
  ELSE rate
=============================================================================
