------------------------------ MODULE HexText ------------------------------
(***************************************************************************)
(* The hexadecimal text of util.cpp.  A string is the sequence of its      *)
(* character codes and a vector<byte> a sequence of numbers below 256.     *)
(***************************************************************************)
EXTENDS Integers, Sequences

Bytes == 0 .. 255

(* char_to_byte(c).  The -1 it returns for any other character is          *)
(* converted to byte: 255.                                                 *)
CharToByte(c) ==
  IF c \in 48 .. 57 THEN c - 48            \* '0' .. '9'
  ELSE IF c \in 97 .. 102 THEN c - 97 + 10 \* 'a' .. 'f'
  ELSE IF c \in 65 .. 70 THEN c - 65 + 10  \* 'A' .. 'F'
  ELSE 255

(* is_hexstring(bin) compares that byte with the int -1.                   *)
IsHexstring(text) ==
  /\ Len(text) % 2 = 0
  /\ \A i \in DOMAIN text : CharToByte(text[i]) # -1

(* HEX_CHAR[d], and binary_to_hexstring(bin): the high digit first.        *)
HexChar(d) == IF d < 10 THEN 48 + d ELSE 97 + d - 10
BinaryToHexstring(bin) ==
  [i \in 1 .. 2 * Len(bin) |->
     HexChar(IF i % 2 = 1 THEN bin[(i + 1) \div 2] \div 16 ELSE bin[i \div 2] % 16)]

(* A faulty decoder: the digits of a byte are swapped.                     *)
HexstringToBinarySwapped(text) ==
  IF Len(text) % 2 = 1 THEN << >>
  ELSE [i \in 1 .. Len(text) \div 2 |->
          (16 * CharToByte(text[2 * i]) + CharToByte(text[2 * i - 1])) % 256]

(* hexstring_to_binary(bin), in the arithmetic of byte.                    *)
HexstringToBinary(text) ==
  IF Len(text) % 2 = 1 THEN << >>
  ELSE [i \in 1 .. Len(text) \div 2 |->
          (16 * CharToByte(text[2 * i - 1]) + CharToByte(text[2 * i])) % 256]
=============================================================================
