---------------------------- MODULE CommandArgs ----------------------------
(***************************************************************************)
(* The argument parser (command/command_arg.c): it matches the arguments   *)
(* of a command with the definitions in command.h's terms, in the order of *)
(* the definitions.  Arguments with a token are searched for in what the   *)
(* earlier definitions left; what is used is marked as resolved.           *)
(*                                                                         *)
(* An argument is a bulk string, a sequence of cells of Resp; a word or a  *)
(* number is one cell.                                                     *)
(***************************************************************************)
EXTENDS Resp, FiniteSetsExt

CONSTANTS
  Capitals,   \* words in lower case -> their capitals, for str_eq_ci
  Numbers,    \* the words parse_int64 accepts -> their values
  NotInt      \* parse_int64 returned false

(***************************************************************************)
(* Definitions: COMMAND_ARG and COMMAND_ARG_ONE_OF.                        *)
(***************************************************************************)
Arg(name, type, optional, token) ==
  [name |-> name, type |-> type, is_optional |-> optional, token |-> token, inner |-> <<>>]

OneOf(name, optional, inner) ==
  [name |-> name, type |-> "ONEOF", is_optional |-> optional, token |-> "", inner |-> inner]

(* CommandArg: the definition that matched, and the value if there is one. *)
CommandArg(def, present, value) == [name |-> def.name, present |-> present, value |-> value]

Capital(w) == IF w \in DOMAIN Capitals THEN Capitals[w] ELSE w

CaseSensitive(arg, token) == arg = <<Byte(token)>>

str_eq_ci(arg, token) == Len(arg) = 1 /\ Capital(arg[1].s) = token

parse_int64(arg) ==
  IF Len(arg) = 1 /\ arg[1].s \in DOMAIN Numbers THEN Numbers[arg[1].s] ELSE NotInt

(* The result of strtoll is used unchecked: what is no number counts as 0. *)
strtoll(arg) == IF parse_int64(arg) = NotInt THEN 0 ELSE parse_int64(arg)

(***************************************************************************)
(* InputArgArray: a window [start, end) of the arguments, and which of all *)
(* arguments are resolved.                                                 *)
(***************************************************************************)
iaa_create(args) == [args |-> args, start |-> 1, end |-> Len(args) + 1, resolved |-> {}]

Unresolved(iaa) == (iaa.start .. iaa.end - 1) \ iaa.resolved

(* The position of the first unresolved argument of the window, 0 if none. *)
iaa_peek(iaa) == IF Unresolved(iaa) = {} THEN 0 ELSE Min(Unresolved(iaa))

iaa_consume(iaa, i) == [iaa EXCEPT !.resolved = @ \cup {i}]

(* The window behind a token at i: from the next unresolved argument up to *)
(* the next resolved one.                                                  *)
iaa_clone_shrinked_window(iaa, i) ==
  LET later == {j \in Unresolved(iaa) : j > i}
      start == IF later = {} THEN iaa.end ELSE Min(later)
      end   == Min({j \in start .. Len(iaa.args) : j \in iaa.resolved} \cup {Len(iaa.args) + 1})
  IN  [iaa EXCEPT !.start = start, !.end = end]

Result(code, out, iaa) == [code |-> code, out |-> out, iaa |-> iaa]

(***************************************************************************)
(* ARG_TYPE_STRING, INTEGER and UNIX_TIME; no command has a DOUBLE or KEY. *)
(***************************************************************************)
Convert(type, arg) ==
  CASE type = "STRING"    -> arg
    [] type = "INTEGER"   -> parse_int64(arg)
    [] type = "UNIX_TIME" -> strtoll(arg)

parse_value(def, iaa) ==
  LET i == iaa_peek(iaa)
      absent == CommandArg(def, FALSE, <<>>)
  IN  CASE i = 0 /\ def.is_optional  -> Result("SUCCESS", absent, iaa)
        [] i = 0 /\ ~def.is_optional -> Result("TOO_FEW_ARGS", absent, iaa)
        [] i # 0 /\ def.type = "INTEGER" /\ parse_int64(iaa.args[i]) = NotInt ->
             Result("TYPE_MISMATCH", absent, iaa_consume(iaa, i))
        [] OTHER ->
             Result("SUCCESS", CommandArg(def, TRUE, Convert(def.type, iaa.args[i])),
                    iaa_consume(iaa, i))

(***************************************************************************)
(* parse_command_argument and parse_argument call each other: the inner    *)
(* definitions of a ONEOF are arguments, of which none is a ONEOF.  Parse  *)
(* is parse_argument for the definitions of a level.                       *)
(***************************************************************************)
ParseWithToken(def, iaa, Parse(_, _)) ==
  LET hits == {i \in Unresolved(iaa) : str_eq_ci(iaa.args[i], def.token)}
      absent == CommandArg(def, FALSE, <<>>)
  IN  CASE def.token = "" -> Parse(def, iaa)
        [] def.token # "" /\ hits # {} ->
             LET used == iaa_consume(iaa, Min(hits))
                 r == Parse(def, iaa_clone_shrinked_window(used, Min(hits)))
             IN  [r EXCEPT !.iaa = [iaa EXCEPT !.resolved = r.iaa.resolved]]
        [] def.token # "" /\ hits = {} /\ def.is_optional ->
             Result("SUCCESS", absent, iaa)
        [] OTHER -> Result("TOKEN_MISMATCH", absent, iaa)

parse_plain(def, iaa) ==
  IF def.type = "PURE_TOKEN" THEN Result("SUCCESS", CommandArg(def, TRUE, <<>>), iaa)
  ELSE parse_value(def, iaa)

(* The first inner definition whose token is there decides. *)
parse_oneof(def, iaa) ==
  LET tried  == [i \in DOMAIN def.inner |-> ParseWithToken(def.inner[i], iaa, parse_plain)]
      found  == {i \in DOMAIN def.inner : tried[i].code # "TOKEN_MISMATCH"}
      absent == CommandArg(def, FALSE, <<>>)
  IN  CASE found # {}       -> tried[Min(found)]
        [] found = {} /\ def.is_optional  -> Result("SUCCESS", absent, iaa)
        [] OTHER -> Result("TYPE_MISMATCH", absent, iaa)

parse_argument(def, iaa) ==
  IF def.type = "ONEOF" THEN parse_oneof(def, iaa) ELSE parse_plain(def, iaa)

parse_command_argument(def, iaa) == ParseWithToken(def, iaa, parse_argument)

Collected(outs, r) == [code |-> r.code, outs |-> Append(outs, r.out), iaa |-> r.iaa]

NothingLeft(all) ==
  IF all.code = "SUCCESS" /\ Unresolved(all.iaa) # {}
  THEN [all EXCEPT !.code = "TOO_MANY_ARGS"]
  ELSE all

(* All definitions in their order, up to the first that fails, and nothing *)
(* may be left.                                                            *)
parse_command_arguments(defs, args) ==
  LET after[n \in 0 .. Len(defs)] ==
        IF n = 0 THEN [code |-> "SUCCESS", outs |-> <<>>, iaa |-> iaa_create(args)]
        ELSE LET before == after[n - 1]
             IN  IF before.code # "SUCCESS" THEN before
                 ELSE Collected(before.outs, parse_command_argument(defs[n], before.iaa))
  IN  NothingLeft(after[Len(defs)])
=============================================================================
