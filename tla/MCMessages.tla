----------------------------- MODULE MCMessages -----------------------------
(* Short arguments and header values for TLC. *)
EXTENDS Messages, SequencesExt

CONSTANTS
  MaxLength, MaxDigits,  \* bounds: characters of an argument, of a port
  MaxFirst, MaxSecond,   \* bounds: symbols in the two Connection headers
  MaxCacheControl        \* bound: symbols in each of two Cache-Control headers

AnySymbols == STRING

DigitSeq == <<"0", "1", "2", "3", "4", "5", "6", "7", "8", "9">>

\* External: std::from_chars() of a text that is all digits.
StdFromChars(text) == FoldLeft(LAMBDA n, c : (10 * n) + (SelectInSeq(DigitSeq, LAMBDA d : d = c) - 1), 0, text)

\* External: std::to_string() of a number.
RECURSIVE StdToText(_)
StdToText(n) ==
  IF n < 10 THEN <<DigitSeq[n + 1]>> ELSE Append(StdToText(n \div 10), DigitSeq[(n % 10) + 1])

\* Every short text of brackets, colons, one digit and one other character, "h" for
\* all characters without a meaning, and one host with every short text of some
\* digits and that character for a port.
Arguments ==
  BoundedSeq({"[", "]", ":", "h", "1"}, MaxLength)
    \cup {<<"h", ":">> \o port : port \in BoundedSeq({"0", "3", "5", "6", "h"}, MaxDigits)}

\* Headers in some order, those of one name together, as Beast keeps them.
Message(first, second, one, two) ==
  <<Header("host", <<"h">>), Header("x", <<"1">>), Header("x", <<"4">>),
    Header("connection", first), Header("connection", second),
    Header("te", <<"2">>), Header("y", <<"3">>), Header("content-length", <<"n">>),
    Header("z", <<"5">>), Header("cache-control", one), Header("cache-control", two)>>

\* An argument and a plain message, or an upstream and any message.
ShortInputs ==
  [argument : Arguments, headers : {Message(<<>>, <<>>, <<>>, <<>>)}, body : {FALSE}]
    \cup
  [argument : {<<"h", ":", "1">>},
   headers : {Message(first, second, one, two) :
                first \in BoundedSeq({"x", "host", "content-length", ",", " "}, MaxFirst),
                second \in BoundedSeq({"y", ",", " "}, MaxSecond),
                one, two \in BoundedSeq({"max-age", "no-store", "private", ","}, MaxCacheControl)},
   body : BOOLEAN]
=============================================================================
