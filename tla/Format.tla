-------------------------------- MODULE Format --------------------------------
(***************************************************************************)
(* shim_vformat() of shim_startup.c, the formatter under fprintf() and     *)
(* vfprintf(), and what vfprintf() takes out of the buffer it fills.       *)
(*                                                                         *)
(* A format is a sequence of characters, an argument is what va_arg()      *)
(* reads: a word, a character, a string, or NULL for a null string.  The   *)
(* second half of the module says what a format means when it is written   *)
(* as a list of directives instead, as the C standard defines it.          *)
(***************************************************************************)
EXTENDS Integers, Sequences, FiniteSets, SequencesExt

CONSTANTS
  WORD,      \* 2^32: int, long and pointers
  BUFCAP     \* 1024: the size of vfprintf()'s buffer

ASSUME FormatAssumption ==
  /\ WORD \in Nat \ {0, 1} /\ WORD % 2 = 0
  /\ BUFCAP \in 1 .. WORD \div 2

NULL == <<"NULL">>  \* as a string argument
NUL == "NUL"      \* the character that ends a string
SkippedFlags == {"-", "0", "1", "2", "3", "4", "5", "6", "7", "8", "9"}
TakesArgument == {"d", "i", "u", "x", "X", "p", "c", "s"}

Least(m, n) == IF m < n THEN m ELSE n

(* The low half of a range are the numbers from 0, the high half those below. *)
AsSigned(v, range) == IF v < range \div 2 THEN v ELSE v - range

----------------------------------------------------------------------------
(* out_uint() *)
Digit(d, upper) ==
  LET lower == <<"0", "1", "2", "3", "4", "5", "6", "7", "8", "9",
                 "a", "b", "c", "d", "e", "f">>
      capital == <<"A", "B", "C", "D", "E", "F">>
  IN IF upper /\ d >= 10 THEN capital[d - 9] ELSE lower[d + 1]

(* v after k turns of the loop, which stores a digit at each turn until
   nothing is left. *)
Left(v, base) ==
  LET left[k \in 0 .. WORD] == IF k = 0 THEN v ELSE left[k - 1] \div base
  IN left

out_uint(v, base, upper) ==
  LET left == Left(v, base)
      n    == Min({k \in 1 .. WORD : left[k] = 0})
  IN [k \in 1 .. n |-> Digit(left[n - k] % base, upper)]

(* out_int(): the word read as a signed number; -v is taken in the word. *)
out_int(v) ==
  IF v >= WORD \div 2
    THEN <<"-">> \o out_uint(WORD - v, 10, FALSE)
    ELSE out_uint(v, 10, FALSE)

Converted(conversion, arg) ==
  CASE conversion \in {"d", "i"} -> out_int(arg)
    [] conversion = "u" -> out_uint(arg, 10, FALSE)
    [] conversion = "x" -> out_uint(arg, 16, FALSE)
    [] conversion = "X" -> out_uint(arg, 16, TRUE)
    [] conversion = "p" -> <<"0", "x">> \o out_uint(arg, 16, FALSE)
    [] conversion = "c" -> <<arg>>
    [] conversion = "s" ->
         IF arg = NULL THEN <<"(", "n", "u", "l", "l", ")">> ELSE arg

(* The first position from p on that holds none of these characters. *)
SkipOver(fmt, p, chars) ==
  LET q == SelectInSubSeq(fmt, p, Len(fmt), LAMBDA ch : ch \notin chars)
  IN IF q = 0 THEN Len(fmt) + 1 ELSE q

(* Where the conversion character of the directive at p stands: first the
   l's are passed over, then flags and width. *)
ConversionAt(fmt, p) == SkipOver(fmt, SkipOver(fmt, p + 1, {"l"}), SkippedFlags)

(* A turn of the loop: at is the position reached, taken how many arguments
   va_arg() has read, out all that out_char() was called with. *)
Turn(fmt, args, s) ==
  LET p == s.at
      q == ConversionAt(fmt, p)
      Goes(next, taken, text) == [at |-> next, taken |-> taken, out |-> s.out \o text]
  IN CASE p > Len(fmt) -> s
       [] p <= Len(fmt) /\ fmt[p] # "%" -> Goes(p + 1, s.taken, <<fmt[p]>>)
       [] p <= Len(fmt) /\ fmt[p] = "%" ->
            CASE q > Len(fmt) -> Goes(q, s.taken, <<>>)       \* a stray % at the end
              [] q <= Len(fmt) /\ fmt[q] \in TakesArgument ->
                   Goes(q + 1, s.taken + 1, Converted(fmt[q], args[s.taken + 1]))
              [] q <= Len(fmt) /\ fmt[q] \notin TakesArgument ->
                   Goes(q + 1, s.taken, IF fmt[q] = "%" THEN <<"%">> ELSE <<"%", fmt[q]>>)

(* What the buffer would hold were it large enough. *)
Produced(fmt, args) ==
  LET scan[n \in 0 .. Len(fmt)] ==
        IF n = 0 THEN [at |-> 1, taken |-> 0, out |-> <<>>]
                 ELSE Turn(fmt, args, scan[n - 1])
  IN scan[Len(fmt)].out

(* The buffer after len characters: pos is an unsigned long, so slot k holds
   the last character that found pos at k; then comes the terminator. *)
Buffer(fmt, args) ==
  LET all == Produced(fmt, args)
      len == Len(all)
      end == Least(len % WORD, BUFCAP - 1)
      last(k) == k + 1 + WORD * ((len - k - 1) \div WORD)
  IN [k \in {end} \union {j \in 0 .. BUFCAP - 1 : j < len} |->
        IF k = end THEN NUL ELSE all[last(k)]]

(* "return (int)pos" *)
Returned(len) == AsSigned(len % WORD, WORD)

(* A fault: the count is clamped to the buffer's size. *)
ClampedToSize(len) == IF Returned(len) < 0 THEN 0 ELSE Least(Returned(len), BUFCAP)

(* vfprintf(): "len < 0 ? 0 : len", then "if (n > sizeof(buf) - 1) ..." *)
Clamped(len) == IF Returned(len) < 0 THEN 0 ELSE Least(Returned(len), BUFCAP - 1)

(* The characters vfprintf() hands to write(): past the terminator, the
   buffer holds nothing it has stored. *)
Unstored == "unstored"
Printed(fmt, args) ==
  LET buf == Buffer(fmt, args)
  IN [k \in 1 .. Clamped(Len(Produced(fmt, args))) |->
        IF k - 1 \in DOMAIN buf THEN buf[k - 1] ELSE Unstored]

----------------------------------------------------------------------------
(* What a format means.  A directive is a plain character or a conversion
   with flags and width, and a number of l's. *)
Plain(ch) == [plain |-> ch]
Conversion(flags, longs, conversion) ==
  [flags |-> flags, longs |-> longs, conversion |-> conversion]

IsPlain(item) == "plain" \in DOMAIN item
Consumes(item) == ~ IsPlain(item) /\ item.conversion \in TakesArgument

(* How it is written. *)
Spelled(item) ==
  IF IsPlain(item)
    THEN <<item.plain>>
    ELSE <<"%">> \o item.flags \o [k \in 1 .. item.longs |-> "l"]
         \o <<item.conversion>>

Written(items) == FlattenSeq([i \in DOMAIN items |-> Spelled(items[i])])

(* An integer conversion with two l's takes 64 bits. *)
TakesInteger == {"d", "i", "u", "x", "X"}
LongLong(item) ==
  ~ IsPlain(item) /\ item.longs >= 2 /\ item.conversion \in TakesInteger
Values(item) == IF LongLong(item) THEN WORD * WORD ELSE WORD

(* Every conversion takes the next word, a 64-bit one the next two, low word
   first; %% takes none. *)
ArgumentOf(items, i) ==
  Cardinality({j \in 1 .. i : Consumes(items[j])})
    + Cardinality({j \in 1 .. i - 1 : LongLong(items[j])})

Argument(items, args, i) ==
  LET word == ArgumentOf(items, i)
  IN IF LongLong(items[i]) THEN args[word] + WORD * args[word + 1] ELSE args[word]

(* The numeral of a number: as many places as it needs, the k-th from the
   right worth base^(k-1). *)
Power(base) ==
  LET power[k \in 0 .. WORD] == IF k = 0 THEN 1 ELSE base * power[k - 1]
  IN power

Places(v, base) ==
  CHOOSE n \in 1 .. WORD : v < Power(base)[n] /\ (n > 1 => v >= Power(base)[n - 1])

Numeral(v, base, digits) ==
  [k \in 1 .. Places(v, base) |->
     digits[((v \div Power(base)[Places(v, base) - k]) % base) + 1]]

HexDigits == <<"0", "1", "2", "3", "4", "5", "6", "7", "8", "9">>
             \o <<"a", "b", "c", "d", "e", "f">>
CapitalDigits == SubSeq(HexDigits, 1, 10) \o <<"A", "B", "C", "D", "E", "F">>

(* An argument out of so many values, as the conversion shows it. *)
Shown(conversion, arg, values) ==
  CASE conversion \in {"d", "i"} ->
         LET v == AsSigned(arg, values)
         IN IF v < 0 THEN <<"-">> \o Numeral(-v, 10, HexDigits)
                     ELSE Numeral(v, 10, HexDigits)
    [] conversion = "u" -> Numeral(arg, 10, HexDigits)
    [] conversion = "x" -> Numeral(arg, 16, HexDigits)
    [] conversion = "X" -> Numeral(arg, 16, CapitalDigits)
    [] conversion = "p" -> <<"0", "x">> \o Numeral(arg, 16, HexDigits)
    [] conversion = "c" -> <<arg>>
    [] conversion = "s" ->
         IF arg = NULL THEN <<"(", "n", "u", "l", "l", ")">> ELSE arg
    [] conversion = "%" -> <<"%">>

Reads(items, args, i) ==
  IF IsPlain(items[i])
    THEN <<items[i].plain>>
    ELSE Shown(items[i].conversion,
               IF Consumes(items[i]) THEN Argument(items, args, i) ELSE 0,
               Values(items[i]))

(* What the list prints, width and flags left out. *)
Meaning(items, args) ==
  FlattenSeq([i \in DOMAIN items |-> Reads(items, args, i)])

(* The formats the formatter knows, when C is the set of characters: one l at
   most, for an integer, and not after flags and width; every conversion finds
   an argument of its kind, and an int can count the characters. *)
DigitChars == {"0", "1", "2", "3", "4", "5", "6", "7", "8", "9"}
              \union {"a", "b", "c", "d", "e", "f", "A", "B", "C", "D", "E", "F"}
Alphabet == DigitChars \union SkippedFlags \union TakesArgument
            \union {"%", "l", "n", "(", ")"}

Proper(item, C) ==
  IF IsPlain(item)
    THEN item.plain \in C \ {"%"}
    ELSE /\ item.flags \in Seq(SkippedFlags) /\ item.longs \in {0, 1}
         /\ item.longs = 1 => item.flags = <<>> /\ item.conversion \in TakesInteger
         /\ item.conversion \in TakesArgument \union {"%"}

ArgumentFits(conversion, arg, C) ==
  /\ conversion \in {"d", "i", "u", "x", "X", "p"} => arg \in 0 .. WORD - 1
  /\ conversion = "c" => arg \in C
  /\ conversion = "s" => arg = NULL \/ arg \in Seq(C)

WellWritten(items, args, C) ==
  /\ items \in Seq({items[i] : i \in DOMAIN items})
  /\ \A i \in DOMAIN items :
       /\ Proper(items[i], C)
       /\ Consumes(items[i]) =>
            ArgumentFits(items[i].conversion, args[ArgumentOf(items, i)], C)
  /\ Len(Meaning(items, args)) < WORD \div 2
=============================================================================
