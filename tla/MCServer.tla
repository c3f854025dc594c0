------------------------------ MODULE MCServer ------------------------------
EXTENDS Server

MCText == STRING

W(s) == <<Byte(s)>>
Words(ss) == [i \in DOMAIN ss |-> W(ss[i])]

MCCapitals == [w \in {"nx", "xx", "gt", "lt"} |->
                 CASE w = "nx" -> "NX" [] w = "xx" -> "XX" [] w = "gt" -> "GT" [] w = "lt" -> "LT"]
             @@ ("ping" :> "PING") @@ ("set" :> "SET")

(* With MinInt = -128, MaxInt = 127, MsPerSec = 10 and Now = 20: 5 fits    *)
(* everywhere; 12 seconds from now and -128 negated do not fit; -13        *)
(* seconds from now fit although their product does not.                   *)
MCNumbers == ("5" :> 5) @@ ("12" :> 12) @@ ("-13" :> -13) @@ ("-128" :> -128)

MCMinInt == -128

(* SET k v with up to three options of all kinds, or four of the ones that *)
(* interact; the first key and value look like tokens.                     *)
Tokens  == {"NX", "xx", "GET", "EX", "PX", "EXAT", "PXAT", "KEEPTTL", "5", "-13", "junk"}
Tokens4 == {"nx", "GET", "EX", "EXAT", "12"}

SetCommands ==
  {Words(<<"SET", "NX", "EX">> \o o) : o \in UNION {[1 .. n -> Tokens] : n \in 0 .. 3}}
    \cup {Words(<<"set", "k", "v">> \o o) : o \in [1 .. 4 -> Tokens4]}

Bytes == {"k", "5", "-13", "-128", "NX", "gt"}

OtherCommands ==
  {Words(<<name>> \o o) : name \in {"GET", "DEL", "TTL", "EXISTS", "EXPIRE", "INCR", "DECR",
                                    "INCRBY", "DECRBY", "ping", "INFO", "SET", "FOO"},
                          o \in UNION {[1 .. n -> Bytes] : n \in 0 .. 3}}

(* A message with a line end in it, and one that looks like a request. *)
Odd  == <<W("PING"), <<Byte("a"), LineEnd, Byte("b")>> >>
Echo == <<W("PING"), Request(Words(<<"INCR", "k">>)) >>
Ping == Words(<<"ping">>)
Get  == Words(<<"GET", "k">>)

MCCutScripts == {<<Ping>>, <<Get, Ping>>, <<Ping, Odd>>, <<Odd, Get, Ping>>, <<Ping, Echo>>}

MCScripts ==
  {<<>>} \cup {<<cmd>> : cmd \in SetCommands \cup OtherCommands}
    \cup {<<a, b, c>> : a, b, c \in {Ping, Odd, Get}}
    \cup {<<Echo, a>> : a \in {Ping, Get}}
    \cup MCCutScripts

Args == {"-p", "--port", "-r", "--replicaof", "7", "99", "-7", "host", "stray"}

MCArgvs == UNION {[1 .. n -> Args] : n \in 0 .. 4}

MCPorts == ("7" :> 7) @@ ("99" :> 99) @@ ("-7" :> -7)
=============================================================================
