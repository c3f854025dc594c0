-------------------------------- MODULE Resp --------------------------------
(***************************************************************************)
(* The wire format (resp/parser.c, resp/serializer.c, resp/factory.c).     *)
(*                                                                         *)
(* A stream is a sequence of cells.  A header or a line with its line end  *)
(* is one cell, and so is every byte of a bulk string; the line end behind *)
(* a bulk string is a cell that may also be one of its bytes.              *)
(***************************************************************************)
EXTENDS Integers, Sequences, SequencesExt

CONSTANT Text   \* what a byte or a line may be: strings

ASSUME TextAssumption == {"", "\r\n"} \subseteq Text

Header(mark, n) == [mark |-> mark, n |-> n, s |-> ""]    \* $3\r\n *2\r\n :7\r\n
Line(mark, s)   == [mark |-> mark, n |-> 0, s |-> s]     \* +OK\r\n -ERR\r\n _\r\n
Byte(s)         == [mark |-> "", n |-> 0, s |-> s]
LineEnd         == Byte("\r\n")

(* The lengths in headers are digits, which strtoull reads. *)
Marks == {":", "+", "-", "_", "$", "*", ""}
Cell  == {c \in [mark : Marks, n : Int, s : Text] : c.mark \in {"$", "*"} => c.n \in Nat}

(* RESPValue and its constructors *)
Integer(n)      == [kind |-> ":", value |-> n]
SimpleString(s) == [kind |-> "+", string |-> s]
SimpleError(s)  == [kind |-> "-", message |-> s]
BulkString(b)   == [kind |-> "$", data |-> b]
Null            == [kind |-> "_"]
Array(a)        == [kind |-> "*", array |-> a]
NoValue         == [kind |-> ""]      \* RESPValue value = {0}

(***************************************************************************)
(* The parser.  It is not told how much was read: where it would go on     *)
(* behind the end of in, it reads what the buffer held before, BEYOND.     *)
(***************************************************************************)
Parsed(value, pos) == [code |-> "SUCCESS", value |-> value, pos |-> pos]
Failed(code)       == [code |-> code, value |-> NoValue, pos |-> 0]

(* A parser that looks for the line end instead of counting. *)
BulkUpToLineEnd(in, pos) ==
  LET ends == {i \in pos + 1 .. Len(in) : in[i] = LineEnd}
  IN  IF ends = {} THEN Failed("BEYOND")
      ELSE LET end == CHOOSE i \in ends : \A j \in ends : i <= j
           IN  Parsed(BulkString(SubSeq(in, pos + 1, end - 1)), end + 1)

parse_bulk_string(in, pos) ==
  LET end == pos + in[pos].n + 1
  IN  CASE end > Len(in)       -> Failed("BEYOND")
        [] end <= Len(in) /\ in[end] # LineEnd -> Failed("UNEXPECTED_TOKEN")
        [] OTHER -> Parsed(BulkString(SubSeq(in, pos + 1, end - 1)), end + 1)

(* The elements of an array one after the other, each where the one before *)
(* it ends, up to the first that fails.  at has the values at every        *)
(* position, one level down.                                               *)
parse_array(in, pos, at) ==
  LET n == in[pos].n
      elems[k \in 0 .. n] ==
        IF k = 0 THEN Parsed(NoValue, pos + 1)
        ELSE LET before == elems[k - 1]
             IN  IF before.code = "SUCCESS" THEN at[before.pos] ELSE before
  IN  IF elems[n].code = "SUCCESS"
      THEN Parsed(Array([i \in 1 .. n |-> elems[i].value]), elems[n].pos)
      ELSE Failed(elems[n].code)

resp_parse_value(in, pos, at) ==
  IF pos > Len(in) THEN Failed("BEYOND")
  ELSE CASE in[pos].mark = ":" -> Parsed(Integer(in[pos].n), pos + 1)
         [] in[pos].mark = "+" -> Parsed(SimpleString(in[pos].s), pos + 1)
         [] in[pos].mark = "-" -> Parsed(SimpleError(in[pos].s), pos + 1)
         [] in[pos].mark = "_" -> Parsed(Null, pos + 1)
         [] in[pos].mark = "$" -> parse_bulk_string(in, pos)
         [] in[pos].mark = "*" -> parse_array(in, pos, at)
         [] OTHER              -> Failed("UNKNOWN_DATA_TYPE_MARKER")

(* Every level of nesting takes the cell of a header, so that arrays in in *)
(* nest at most Len(in) deep.                                              *)
Values(in) ==
  LET at[depth \in 0 .. Len(in)] ==
        [pos \in 1 .. Len(in) + 1 |->
           resp_parse_value(in, pos, IF depth = 0 THEN <<>> ELSE at[depth - 1])]
  IN  at

resp_parse_input(in) == resp_parse_value(in, 1, Values(in)[Len(in)])

(***************************************************************************)
(* The serializer.                                                         *)
(***************************************************************************)
serialize_bulk_string(b) == <<Header("$", Len(b))>> \o b \o <<LineEnd>>

(* The elements of an array are no arrays: neither a request nor a reply   *)
(* has any inside another.                                                 *)
serialize_scalar(v) ==
  CASE v.kind = ":" -> <<Header(":", v.value)>>
    [] v.kind = "+" -> <<Line("+", v.string)>>
    [] v.kind = "-" -> <<Line("-", v.message)>>
    [] v.kind = "_" -> <<Line("_", "")>>
    [] v.kind = "$" -> serialize_bulk_string(v.data)

serialize_array(a) ==
  <<Header("*", Len(a))>> \o FlattenSeq([i \in 1 .. Len(a) |-> serialize_scalar(a[i])])

resp_serialize_value(v) ==
  IF v.kind = "*" THEN serialize_array(v.array) ELSE serialize_scalar(v)
=============================================================================
