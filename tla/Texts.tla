-------------------------------- MODULE Texts -------------------------------
(***************************************************************************)
(* Strings and the numbers in them: string.c, utils.c, the parser of        *)
(* shell_commands.c and the number output of terminal.c.  A text is the     *)
(* sequence of the character codes before a C string's terminator.          *)
(***************************************************************************)
EXTENDS Integers, SequencesExt, FiniteSetsExt

CONSTANTS
  HexDigits,  \* the hexadecimal digits of a uint32_t, 8
  Kilo        \* 1024

ASSUME TextsAssumption == HexDigits \in Nat \ {0} /\ Kilo \in Nat \ (0 .. 9)

SixteenTo(n) ==
  LET upTo[k \in 0 .. n] == IF k = 0 THEN 1 ELSE 16 * upTo[k - 1] IN upTo[n]

Word == SixteenTo(HexDigits)
Words == 0 .. (Word - 1)
Signed(word) == IF 2 * word < Word THEN word ELSE word - Word

\* A char is one byte and the words have more; the typed ones are ASCII.
Characters == {char \in 1 .. Word : 2 * char < Word}

Tab == 9  Blank == 32  Quote == 34  Minus == 45
Blanks == {Blank, Tab}
Digits == 48 .. 57

\* The characters from a position on up to the first one outside a set.
Span(text, from, set) ==
  SubSeq(text, from, Min({i \in from .. (Len(text) + 1) :
                            i = Len(text) + 1 \/ text[i] \notin set}) - 1)

Skipped(text, from, set) == from + Len(Span(text, from, set))

-----------------------------------------------------------------------------
(* Reading numbers.                                                         *)

\* shell_parse_uint32, from a position: the digits it finds there, which may be none.
DigitsAt(text, from) == Span(text, from, Digits)
DecimalValue(digits) ==
  LET upTo[n \in 0 .. Len(digits)] ==
        IF n = 0 THEN 0 ELSE (upTo[n - 1] * 10 + digits[n] - 48) % Word
  IN  upTo[Len(digits)]

\* What parse_hex32 takes each character for.  'F', and anything that is no digit,
\* leaves its variable unset: any word may come of it.
HexDigitsOf(char) ==
  CASE char \in 48 .. 57  -> {char - 48}
    [] char \in 97 .. 102 -> {char - 87}
    [] char \in 65 .. 69  -> {char - 55}
    [] OTHER -> {}

HasHexPrefix(text) == Len(text) > 2 /\ text[1] = 48 /\ text[2] \in {88, 120}

\* parse_hex32 of a text with its prefix: the values it may return.
HexValues(text) ==
  LET after[n \in 2 .. Len(text)] ==
        IF n = 2 THEN {0}
        ELSE IF HexDigitsOf(text[n]) = {} THEN Words
        ELSE {(16 * value + digit) % Word : value \in after[n - 1], digit \in HexDigitsOf(text[n])}
  IN  after[Len(text)]

-----------------------------------------------------------------------------
(* Writing numbers.                                                         *)

\* terminal_write_uint, str_append_uint64
Unsigned(number) ==
  LET lowFirst[n \in 0 .. number] ==
        IF n < 10 THEN <<48 + n>> ELSE <<48 + (n % 10)>> \o lowFirst[n \div 10]
  IN  Reverse(lowFirst[number])

\* terminal_write_decimal
Decimal(word) ==
  IF Signed(word) < 0 THEN <<Minus>> \o Unsigned(-Signed(word)) ELSE Unsigned(word)

\* terminal_write_hex32
Hex(word) ==
  [i \in 1 .. HexDigits |->
     LET digit == (word \div SixteenTo(HexDigits - i)) % 16
     IN  IF digit < 10 THEN 48 + digit ELSE 55 + digit]

\* bytes, KB, MB and GB
Unit(power) == <<1, Kilo, Kilo * Kilo, Kilo * Kilo * Kilo>>[power + 1]

\* format_bytes: bytes, KB, MB or GB, with tenths when there may be some.
FormatBytes(bytes) ==
  LET power == Max({n \in 0 .. 3 : n = 0 \/ bytes >= Unit(n)})
      unit  == Unit(power)
      rest  == bytes % unit
  IN  [number |-> Unsigned(bytes \div unit),
       tenths |-> IF power > 0 /\ rest >= unit \div 10 THEN Unsigned((rest * 10) \div unit) ELSE <<>>,
       unit |-> power]

-----------------------------------------------------------------------------
(* Comparing.                                                               *)

CharAt(text, i) == IF i \in DOMAIN text THEN text[i] ELSE 0
Stops(a, b) == Min({i \in 1 .. (Len(a) + 1) : i > Len(a) \/ CharAt(b, i) # a[i]})

strcmp(a, b) == CharAt(a, Stops(a, b)) - CharAt(b, Stops(a, b))
strncmp(a, b, n) == IF Stops(a, b) > n THEN 0 ELSE strcmp(a, b)
=============================================================================
