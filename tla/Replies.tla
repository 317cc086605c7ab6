------------------------------ MODULE Replies ------------------------------
(***************************************************************************)
(* What a handler appends to the client's write buffer.  A reply keeps the *)
(* number it carries (an integer reply, or the header of an array), the    *)
(* bulk strings in their order, and, for replies listed in hash-bucket     *)
(* order, the set of what is listed.  RESP framing is left out.            *)
(***************************************************************************)
EXTENDS Integers, Sequences

Reply(kind, n, bulk, names) ==
    [kind |-> kind, n |-> n, bulk |-> bulk, names |-> names]

Simple(msg)      == Reply(msg, 0, << >>, {})
Integer(i)       == Reply("int", i, << >>, {})
Bulk(s)          == Reply("bulk", 1, <<s>>, {})
Array(n, seq)    == Reply("array", n, seq, {})
Listing(n, set)  == Reply("array", n, << >>, set)

OK         == Simple("OK")
NullBulk   == Simple("null")
WrongType  == Simple("WRONGTYPE")
NotInteger == Simple("not an integer or out of range")
=============================================================================
