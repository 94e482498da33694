------------------------------ MODULE MCShimIO ------------------------------
(***************************************************************************)
(* Small instances of ShimIO for TLC: one file, words of five bits, a      *)
(* buffer of six characters.                                               *)
(***************************************************************************)
EXTENDS ShimIO

Of(items, args) == [items |-> items, args |-> args]

MCChar ==
  {"i", "n", NUL, Unstored, "e", "f", "prefix", "colon", "null", "newline"}
  \union {"o", "l", "d", "a", "b", "h", "s", "c", "!", "%", "-", "(", "u", ")"}
  \union {"0", "1", "2", "3", "4", "5", "6", "7", "8", "9"}
  \union {"p", "x", "X", "A", "B", "C", "D", "E", "F"}

MCInherited == {{0, 1, 2}, {2}}
Mode(access, disposition) == [access |-> access, disposition |-> disposition]
MCModes ==
  {Mode({"read", "write"}, d) : d \in Dispositions}
  \union {Mode({"read"}, "OPEN_EXISTING"), Mode({"write"}, "OPEN_ALWAYS")}
MCContents == {<<"o", "l", "d">>}
MCTexts == {<<>>, <<"a", "b">>}

(* Elements of two bytes, of none, and 9 * 4 = 36 bytes, which is 4 in five
   bits. *)
MCElements == {[size |-> s, nmemb |-> n] : <<s, n>> \in {<<2, 2>>, <<0, 3>>, <<9, 4>>}}

(* Every conversion, numbers at the ends of their range, flags and width, an l,
   formats that just fit the buffer and that do not. *)
MCPrints ==
  {Of(<<Conversion(<<>>, 0, "d"), Conversion(<<>>, 1, "i")>>, <<31, 16>>),
   Of(<<Conversion(<<"0", "9">>, 0, "u"), Conversion(<<>>, 1, "x")>>, <<31, 26>>),
   Of(<<Conversion(<<"-">>, 0, "c"), Conversion(<<>>, 0, "p")>>, <<"c", 10>>),
   Of(<<Conversion(<<>>, 0, "s"), Conversion(<<>>, 0, "X"), Conversion(<<>>, 0, "%")>>,
      << <<"s">>, 27>>),
   Of(<<Plain("!"), Conversion(<<>>, 0, "s")>>, <<NULL>>)}

ASSUME MCFormats ==
  /\ Alphabet \subseteq MCChar
  /\ \A p \in MCPrints : WellWritten(p.items, p.args, MCChar)

MCBoxes == {[caption |-> <<"h", "i">>, text |-> NULL]}

(* %llx%5lu%u: 42 in two words, 7, 9 *)
MCOddPrints ==
  {Of(<<Conversion(<<>>, 2, "x"), Conversion(<<"5">>, 1, "u"),
        Conversion(<<>>, 0, "u")>>, <<10, 1, 7, 9>>)}
=============================================================================
