--------------------------- MODULE NumberPrinting ---------------------------
(***************************************************************************)
(* Lab1, myprintf.c.  int and u32 are words of WORD values; a char* is the *)
(* address of a string in Memory.  Characters are atoms.                   *)
(***************************************************************************)
EXTENDS Integers, Sequences, SequencesExt

CONSTANTS WORD,     \* 2^32: how many values a word has
          Memory,   \* the strings, by address
          Glyph,    \* the characters that %c prints, by code
          Prints    \* the calls: a format, and the words that follow it

ASSUME PrintAssumption ==
  /\ WORD \in Nat \ {0, 1}
  /\ \A a \in DOMAIN Memory : Memory[a] \in Seq(STRING)
  /\ \A c \in Prints :
       c.fmt \in Seq(STRING) /\ c.args \in Seq(-(WORD \div 2) .. WORD - 1)

ctable == <<"0", "1", "2", "3", "4", "5", "6", "7",
            "8", "9", "A", "B", "C", "D", "E", "F">>

U32(x) == x % WORD

VARIABLES call,       \* the call of myprintf()
          pos, ap,    \* i, and the next argument
          out         \* the characters printed

printVars == <<call, pos, ap, out>>

PrintInit(c) == call = c /\ pos = 1 /\ ap = 1 /\ out = <<>>

\* Faulty variant: the digit is printed before the digits to its left.
LowDigitFirst(digits, c) == <<c>> \o digits
DigitAfter(digits, c) == Append(digits, c)

rpu(x, base) ==
  LET digits[y \in 0 .. WORD - 1] ==
        IF y = 0 THEN <<>> ELSE DigitAfter(digits[y \div base], ctable[(y % base) + 1])
  IN  digits[x]

printu(x) == IF x = 0 THEN <<"0">> ELSE rpu(x, 10)
printo(x) == IF x = 0 THEN <<"0">> ELSE rpu(x, 8)
printx(x) == IF x = 0 THEN <<"0", "x", "\n">> ELSE rpu(x, 16)
\* The product by -1 wraps around for the smallest int.
printd(x) == IF x < 0 THEN <<"-">> \o rpu(U32(-x), 10) ELSE rpu(x, 10)

Conversion(type, arg) ==
  CASE type = "s" -> Memory[arg]
    [] type = "u" -> printu(U32(arg))
    [] type = "d" -> printd(arg)
    [] type = "o" -> printo(U32(arg))
    [] type = "x" -> printx(U32(arg))
    [] OTHER -> <<Glyph[arg]>>

ScanEnds == pos > Len(call.fmt)

\* One turn of the loop of myprintf().
Convert ==
  /\ ~ScanEnds /\ call.fmt[pos] = "%" /\ pos < Len(call.fmt)
  /\ out' = out \o Conversion(call.fmt[pos + 1], call.args[ap])
  /\ pos' = pos + 2 /\ ap' = ap + 1
  /\ UNCHANGED call

Putchar ==
  /\ ~ScanEnds /\ ~(call.fmt[pos] = "%" /\ pos < Len(call.fmt))
  /\ out' = Append(out, call.fmt[pos]) /\ pos' = pos + 1
  /\ UNCHANGED <<call, ap>>

PrintNext == Convert \/ Putchar
=============================================================================
