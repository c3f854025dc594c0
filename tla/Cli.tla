-------------------------------- MODULE Cli --------------------------------
(***************************************************************************)
(* The command line (cli.c) and what main makes of it.  An argument is a   *)
(* word.  Each definition takes the first of its options that no earlier   *)
(* definition used; used words are swapped to the front.                   *)
(***************************************************************************)
EXTENDS Integers, Sequences, SequencesExt, FiniteSetsExt

CONSTANTS
  Ports,       \* the words strtol finds a number in -> that number
  Addresses,   \* the words parse_socket_info accepts
  PortBound,   \* 2^16
  DEFAULT_PORT

ASSUME PortsAssumption ==
  /\ \A w \in DOMAIN Ports : Ports[w] \in Int
  /\ PortBound \in Nat \ {0}

(* An address has a space between its parts, which no key has. *)
ASSUME AddressesAssumption == "--port" \notin Addresses /\ "-p" \notin Addresses

CLI_OPTION_DEFINITIONS == <<
  [name |-> "port", keys |-> {"--port", "-p"}, type |-> "INTEGER", is_optional |-> TRUE],
  [name |-> "replicaof", keys |-> {"--replicaof", "-r"}, type |-> "STRING", is_optional |-> TRUE] >>

Absent     == [present |-> FALSE, word |-> ""]
Present(w) == [present |-> TRUE, word |-> w]

(* The words at from and to, and those behind them, change places one by   *)
(* one.                                                                    *)
Swap(args, i, j) == [args EXCEPT ![i] = args[j], ![j] = args[i]]

MoveOne(args, matched, opt_idx, consumed) == Swap(args, matched, opt_idx)

MoveToFront(args, matched, opt_idx, consumed) ==
  LET once == Swap(args, matched, opt_idx)
  IN  IF consumed = 1 THEN once ELSE Swap(once, matched + 1, opt_idx + 1)

(* The options so far, and the words from opt_idx on that are not used.    *)
Parsing(ok, args, opt_idx, opts) ==
  [ok |-> ok, args |-> args, opt_idx |-> opt_idx, opts |-> opts]

(* One round of the loop over the definitions. *)
ParseOption(acc, def) ==
  LET matches  == {j \in acc.opt_idx .. Len(acc.args) : acc.args[j] \in def.keys}
      matched  == Min(matches)
      consumed == IF def.type = "BOOL" THEN 1 ELSE 2
      word     == IF def.type = "BOOL" THEN "" ELSE acc.args[matched + 1]
      valid    == /\ matched + consumed - 1 <= Len(acc.args)
                  /\ def.type = "INTEGER" => word \in DOMAIN Ports
  IN  CASE ~acc.ok -> acc
        [] acc.ok /\ matches = {} ->
             Parsing(def.is_optional, acc.args, acc.opt_idx, Append(acc.opts, Absent))
        [] acc.ok /\ matches # {} /\ ~valid -> Parsing(FALSE, acc.args, acc.opt_idx, acc.opts)
        [] acc.ok /\ matches # {} /\ valid ->
             Parsing(TRUE, MoveToFront(acc.args, matched, acc.opt_idx, consumed),
                     acc.opt_idx + consumed, Append(acc.opts, Present(word)))

cli_parse_opts(args) ==
  ParseOption(ParseOption(Parsing(TRUE, args, 1, <<>>), CLI_OPTION_DEFINITIONS[1]),
              CLI_OPTION_DEFINITIONS[2])

(* main up to the socket: the options, or the usage message and exit(1).   *)
Options(args) ==
  LET r == cli_parse_opts(args)
      port == r.opts[1]
      replicaof == r.opts[2]
  IN  IF ~r.ok \/ (replicaof.present /\ replicaof.word \notin Addresses)
      THEN [ok |-> FALSE, port |-> 0, replica |-> FALSE]
      ELSE [ok |-> TRUE,
            port |-> IF port.present THEN Ports[port.word] % PortBound ELSE DEFAULT_PORT,
            replica |-> replicaof.present]
=============================================================================
