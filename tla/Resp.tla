------------------------------- MODULE Resp -------------------------------
(***************************************************************************)
(* The wire protocol: resp_parse, which takes one command off the front of *)
(* a client's read buffer, and the array writer whose format clients send. *)
(*                                                                         *)
(* Data abstraction.  A buffer is a sequence of bytes; a byte is "CR",     *)
(* "LF", " ", a sign, "*", "$", a digit or a letter, where one letter      *)
(* stands for a whole command name.  No byte is NUL and every number that  *)
(* is sent fits in a long.                                                 *)
(***************************************************************************)
EXTENDS Integers, SequencesExt

Digits == <<"0", "1", "2", "3", "4", "5", "6", "7", "8", "9">>
DigitValue(byte) == (CHOOSE i \in DOMAIN Digits : Digits[i] = byte) - 1
CRLF  == <<"CR", "LF">>
Blank == {" ", "CR", "LF"}          \* the isspace bytes among ours

-----------------------------------------------------------------------------
(* Reading: a position is an index of the buffer, or one past its end *)

\* The first position from p on whose byte satisfies Stop, else one past buf.
Until(Stop(_), buf, p) ==
    Min({Len(buf) + 1} \cup {i \in p .. Len(buf) : Stop(buf[i])})

\* BUG: a CR at the end of the buffer is taken for the end of the line.
FindCr(buf, p) ==
    LET at == {i \in p .. Len(buf) : buf[i] = "CR"}
    IN  IF at = {} THEN 0 ELSE Min(at)

\* find_crlf: the position of the first CR LF from p on, 0 if there is none.
FindCrlf(buf, p) ==
    LET at == {i \in p .. Len(buf) - 1 : SubSeq(buf, i, i + 1) = CRLF}
    IN  IF at = {} THEN 0 ELSE Min(at)

\* strtol: it skips blanks, a CR LF too, and stops at the first non-digit.
Strtol(buf, p) ==
    LET start == Until(LAMBDA b : b \notin Blank, buf, p)
        sign  == IF start <= Len(buf) THEN buf[start] ELSE "+"
        from  == IF sign \in {"+", "-"} THEN start + 1 ELSE start
        to    == Until(LAMBDA b : b \notin Range(Digits), buf, from)
        n     == FoldLeft(LAMBDA acc, b : 10 * acc + DigitValue(b), 0,
                          SubSeq(buf, from, to - 1))
    IN  IF sign = "-" THEN -n ELSE n

\* The words of an inline command.
SplitInline(line) ==
    LET starts == {i \in DOMAIN line : /\ line[i] # " "
                                       /\ i > 1 => line[i - 1] = " "}
        Word(i) == SubSeq(line, i, Until(LAMBDA b : b = " ", line, i) - 1)
    IN  [n \in DOMAIN SetToSortSeq(starts, <) |->
            Word(SetToSortSeq(starts, <)[n])]

\* RespResult: the verdict, the arguments, and where the next command starts.
Parsed(status, args, next) == [status |-> status, args |-> args, next |-> next]
Incomplete == Parsed("INCOMPLETE", << >>, 1)
ParseError == Parsed("ERROR", << >>, 1)

\* The loop over the arguments.  What ends an argument's bytes is skipped,
\* whatever it is.
ParseArray(buf, argc, start) ==
    LET arg[args \in Seq(Seq(STRING)), next \in Nat, left \in Nat] ==
            LET crlf == FindCrlf(buf, next)
                slen == Strtol(buf, next + 1)
                rest == Len(buf) - next + 1
            IN  IF left = 0 THEN Parsed("OK", args, next)
                ELSE IF rest < 3 THEN Incomplete
                ELSE IF buf[next] # "$" THEN ParseError
                ELSE IF crlf = 0 THEN Incomplete
                ELSE IF slen < 0 THEN ParseError
                ELSE IF Len(buf) < crlf + 3 + slen THEN Incomplete
                ELSE arg[Append(args, SubSeq(buf, crlf + 2, crlf + 1 + slen)),
                         crlf + 4 + slen, left - 1]
    IN  arg[<< >>, start, argc]

\* resp_parse: next - 1 is the number of bytes consumed.
RespParse(buf) ==
    LET crlf == FindCrlf(buf, 1)
    IN  IF crlf = 0 THEN Incomplete
        ELSE IF buf[1] = "*"
             THEN LET argc == Strtol(buf, 2)
                  IN  IF argc <= 0 THEN ParseError
                      ELSE ParseArray(buf, argc, crlf + 2)
             ELSE LET args == SplitInline(SubSeq(buf, 1, crlf - 1))
                  IN  IF args = << >> THEN ParseError
                      ELSE Parsed("OK", args, crlf + 2)

-----------------------------------------------------------------------------
(* Writing: lengths below ten *)

\* resp_bulk and resp_array.
RespBulk(bytes)  == <<"$", Digits[Len(bytes) + 1]>> \o CRLF \o bytes \o CRLF
RespArray(items) == <<"*", Digits[Len(items) + 1]>> \o CRLF
                    \o FlattenSeq([i \in DOMAIN items |-> RespBulk(items[i])])
=============================================================================
