-------------------------------- MODULE Text ---------------------------------
(***************************************************************************)
(* Numbers in texts, as the upload's request header and the items of the   *)
(* store spell them (otaHttpParseUint32, parseDecU32, hexNibble).  A text   *)
(* is a sequence of character codes without the NUL that ends it in C.     *)
(***************************************************************************)
EXTENDS Integers, Sequences

Refused == -1

IsDigit(c) == c \in 48 .. 57
Lower(c) == IF c \in 65 .. 90 THEN c + 32 ELSE c

\* One more digit, tested before the product that could wrap.
TakeDigit(max, number, digit) ==
  IF number > (max - digit) \div 10 THEN Refused ELSE number * 10 + digit

\* The number a text of digits spells, refused when it is more than max.
Decimal(max, text) ==
  LET number[n \in 0 .. Len(text)] ==
        IF n = 0 THEN 0
        ELSE IF number[n - 1] = Refused \/ ~IsDigit(text[n]) THEN Refused
        ELSE TakeDigit(max, number[n - 1], text[n] - 48)
  IN IF text = << >> THEN Refused ELSE number[Len(text)]

Nibble(c) ==
  IF IsDigit(c) THEN c - 48
  ELSE IF Lower(c) \in 97 .. 102 THEN Lower(c) - 87 ELSE Refused
IsHex(text) == \A k \in 1 .. Len(text) : Nibble(text[k]) # Refused
=============================================================================
