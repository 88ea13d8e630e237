-------------------------------- MODULE Utf8 --------------------------------
(***************************************************************************)
(* chutil/src/utf8.c: code points of 16 bits to bytes and back.  The code's *)
(* masks and shifts are % and \div here; the bits it joins with | do not    *)
(* overlap.                                                                 *)
(***************************************************************************)
EXTENDS Integers, Sequences

Unicode == 0..65535
Byte == 0..255

\* unicode_from_cstr, of the values of its four digits.
UnicodeFromCstr(dec) == ((dec[1] * 16 + dec[2]) * 16 + dec[3]) * 16 + dec[4]

\* The last byte of two or three.
LastByte(uc) == 128 + ((uc \div 16) % 4) * 16 + (uc % 16)

UnicodeToUtf8(uc) ==
    IF uc < 128 THEN <<((uc \div 16) % 16) * 16 + (uc % 16)>>
    ELSE IF uc < 2048
    THEN <<192 + ((uc \div 256) % 16) * 4 + ((uc \div 16) % 16) \div 4,
           LastByte(uc)>>
    ELSE <<224 + uc \div 4096,
           128 + ((uc \div 256) % 16) * 4 + ((uc \div 16) % 16) \div 4,
           LastByte(uc)>>

\* A byte of the form 10xxxxxx.
Follows(b) == b \div 64 = 2

\* unicode_from_utf8, of the bytes that are left: nothing, if they end too
\* soon, or the code point, a blank for what is malformed.
UnicodeFromUtf8(bytes) ==
    LET b == bytes[1]
    IN IF bytes = <<>> THEN <<>>
       ELSE IF b \div 128 = 0 THEN <<b>>
       ELSE IF b \div 32 = 6
       THEN IF Len(bytes) < 2 THEN <<>>
            ELSE IF ~ Follows(bytes[2]) THEN <<32>>
            ELSE <<(bytes[2] % 64) + (b % 32) * 64>>
       ELSE IF b \div 16 = 14
       THEN IF Len(bytes) < 3 THEN <<>>
            ELSE IF ~ (Follows(bytes[2]) /\ Follows(bytes[3])) THEN <<32>>
            ELSE <<(bytes[3] % 64) + (bytes[2] % 64) * 64 + (b % 16) * 4096>>
       ELSE <<32>>

============================================================================
