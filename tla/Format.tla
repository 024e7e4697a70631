------------------------------- MODULE Format -------------------------------
(***************************************************************************)
(* The number formatter, src/kernel/format.c.  A result is the characters  *)
(* before the terminator, or nothing when the function returns false.      *)
(***************************************************************************)
EXTENDS Integers, Sequences

HexDigits == <<"0", "1", "2", "3", "4", "5", "6", "7",
               "8", "9", "A", "B", "C", "D", "E", "F">>
Character(digit) == HexDigits[digit + 1]

Refused == <<>>

(* The loop's digits, the last one first.                                  *)
Digits[value \in Nat] ==
  IF value = 0 THEN <<>> ELSE <<value % 10>> \o Digits[value \div 10]

(* Mutation: wants one byte more than the text and its terminator.         *)
DecimalWantsSpareByte(value, buffer_size) ==
  LET digits == IF value = 0 THEN <<0>> ELSE Digits[value]
      count == Len(digits)
  IN  IF buffer_size <= count + 1 THEN Refused
      ELSE [i \in 1 .. count |-> Character(digits[count + 1 - i])]

kformat_uint32_decimal(value, buffer_size) ==
  LET digits == IF value = 0 THEN <<0>> ELSE Digits[value]
      count == Len(digits)
  IN  IF buffer_size <= count THEN Refused
      ELSE [i \in 1 .. count |-> Character(digits[count + 1 - i])]

(* The same loop on a wider type.                                          *)
kformat_uint64_decimal(value, buffer_size) ==
  kformat_uint32_decimal(value, buffer_size)

(* Mutation: the digits come out last first.                               *)
HexReversed(value, buffer_size) ==
  IF buffer_size < 11 THEN Refused
  ELSE <<"0", "x">> \o
         [i \in 1 .. 8 |-> Character((value \div 16 ^ (i - 1)) % 16)]

kformat_uint32_hex(value, buffer_size) ==
  IF buffer_size < 11 THEN Refused
  ELSE <<"0", "x">> \o
         [i \in 1 .. 8 |-> Character((value \div 16 ^ (8 - i)) % 16)]

-----------------------------------------------------------------------------
(* The reference: what a reader takes a text for.                          *)

DigitOf(character) ==
  (CHOOSE i \in DOMAIN HexDigits : HexDigits[i] = character) - 1

ReadAs(text, base) ==
  LET value[n \in 0 .. Len(text)] ==
        IF n = 0 THEN 0 ELSE value[n - 1] * base + DigitOf(text[n])
  IN  value[Len(text)]

(* A decimal number without needless zeros.                                *)
IsDecimalFor(text, value) ==
  /\ text # <<>> /\ ReadAs(text, 10) = value
  /\ \A i \in DOMAIN text : DigitOf(text[i]) < 10
  /\ Len(text) > 1 => text[1] # "0"

IsHexFor(text, value) ==
  /\ Len(text) = 10 /\ SubSeq(text, 1, 2) = <<"0", "x">>
  /\ ReadAs(SubSeq(text, 3, 10), 16) = value
=============================================================================
