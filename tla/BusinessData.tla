---------------------------- MODULE BusinessData ----------------------------
(***************************************************************************)
(* The header of a published message: CBusinessDataUtil.h and CTimeUtil.h  *)
(* of src/src/server/common/util.  A text is a sequence of character codes.*)
(***************************************************************************)
EXTENDS Integers, Sequences

CONSTANTS
    CodeWidth,     \* digits of a check code: 8 in the code
    BusinessIds    \* BusinessIds[topic]: BusinessConfig's table

ASSUME WidthAssumption == CodeWidth \in Nat \ {0}

\* The powers of ten.
Ten[n \in 0..(CodeWidth + 1)] == IF n = 0 THEN 1 ELSE 10 * Ten[n - 1]
MaxLimit == Ten[CodeWidth + 1]

\* The last w decimal digits of n.
Digits(n, w) ==
    LET left[j \in 0..w] == IF j = 0 THEN n ELSE left[j - 1] \div 10
    IN  [i \in 1..w |-> 48 + (left[w - i] % 10)]

\* The number that a text of digits is read as.
Number(text) ==
    LET read[k \in 0..Len(text)] == IF k = 0 THEN 0 ELSE 10 * read[k - 1] + (text[k] - 48)
    IN  read[Len(text)]

\* getCurrentTimeString("yyyy-MM-dd HH:mm:ss") at instant t.
TimeString(t) ==
    Digits(t.yyyy, 4) \o <<45>> \o Digits(t.MM, 2) \o <<45>> \o Digits(t.dd, 2) \o <<32>>
        \o Digits(t.HH, 2) \o <<58>> \o Digits(t.mm, 2) \o <<58>> \o Digits(t.ss, 2)

\* get_time's reading of such a text, and the 14 digits made of it.
ParsedTime(text) ==
    LET At(i, w) == Number(SubSeq(text, i, i + w - 1))
    IN  [yyyy |-> At(1, 4), MM |-> At(6, 2), dd |-> At(9, 2),
         HH |-> At(12, 2), mm |-> At(15, 2), ss |-> At(18, 2)]

TimeFactor(text) ==
    LET t == ParsedTime(text)
    IN  Digits(t.yyyy, 4) \o Digits(t.MM, 2) \o Digits(t.dd, 2)
            \o Digits(t.HH, 2) \o Digits(t.mm, 2) \o Digits(t.ss, 2)

\* "safemine" followed by "dmps_adsServer".
ConfusionBytes == <<115, 97, 102, 101, 109, 105, 110, 101,
                    100, 109, 112, 115, 95, 97, 100, 115, 83, 101, 114, 118, 101, 114>>

\* Exclusive or of two bytes.
Xor(a, b) ==
    LET Bit(p) == p * (((a \div p) + (b \div p)) % 2)
    IN  Bit(1) + Bit(2) + Bit(4) + Bit(8) + Bit(16) + Bit(32) + Bit(64) + Bit(128)

XorResult(text) ==
    LET f == TimeFactor(text)
    IN  [i \in 1..Len(f) |-> Xor(f[i], ConfusionBytes[((i - 1) % Len(ConfusionBytes)) + 1])]

XorDecimal(text) ==
    LET x == XorResult(text)
        decimal[k \in 0..Len(x)] ==
            IF k = 0 THEN 0 ELSE (decimal[k - 1] * 256 + x[k]) % MaxLimit
    IN  decimal[Len(x)]

\* Padded with zeros to CodeWidth digits, or cut to the last CodeWidth.
CheckId(text) ==
    LET n == XorDecimal(text)
    IN  IF n < Ten[CodeWidth] THEN Digits(n, CodeWidth)
        ELSE SubSeq(Digits(n, CodeWidth + 1), 2, CodeWidth + 1)

\* stoi, which loses the leading zeros again.
CcId(text) == Number(CheckId(text))

BusinessId(topic) == IF topic \in DOMAIN BusinessIds THEN BusinessIds[topic] ELSE 0

-----------------------------------------------------------------------------
(***************************************************************************)
(* What the code should be, computed in another way: the bytes as one      *)
(* number in base 256, of which the last CodeWidth decimal digits count,   *)
(* as the sum of what each byte contributes to them.                       *)
(***************************************************************************)
ExactCode(text) ==
    LET x == XorResult(text)
        M == Ten[CodeWidth]
        power[j \in 0..Len(x)] == IF j = 0 THEN 1 ELSE (power[j - 1] * 256) % M
        sum[k \in 0..Len(x)] == IF k = 0 THEN 0 ELSE (sum[k - 1] + x[k] * power[Len(x) - k]) % M
    IN  sum[Len(x)]
=============================================================================
