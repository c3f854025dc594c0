---------------------------- MODULE ServerProofs ----------------------------
(***************************************************************************)
(* The command line, the argument parser, the handlers' arithmetic and the *)
(* wire format, for every command line, script of commands, buffer size,   *)
(* width of integers and table of numbers and capitals.                    *)
(***************************************************************************)
EXTENDS Server, SequenceFacts

(***************************************************************************)
(* Least elements.                                                         *)
(***************************************************************************)
LEMMA MinIsLeast ==
  ASSUME NEW S, S \subseteq Nat, S # {}
  PROVE  Min(S) \in S /\ \A j \in S : Min(S) <= j
  <1> DEFINE R == OpToRel(<, Nat)
  <1>1. \A x, y \in Nat : <<x, y>> \in R <=> x < y
    BY DEF OpToRel
  <1>2. IsWellFoundedOn(R, Nat)
    BY NatLessThanWellFounded
  <1> HIDE DEF R
  <1>3. PICK x \in S : \A y \in S : ~(<<y, x>> \in R)
    BY <1>2, WFMin
  <1>4. \A y \in S : x <= y
    <2> SUFFICES ASSUME NEW y \in S PROVE x <= y
      OBVIOUS
    <2>1. x \in Nat /\ y \in Nat /\ ~(<<y, x>> \in R)
      BY <1>3
    <2>2. ~(y < x)
      BY <1>1, <2>1
    <2> QED BY <2>1, <2>2
  <1> QED BY <1>4, Zenon DEF Min

LEMMA MinIs ==
  ASSUME NEW S, S \subseteq Nat, NEW m \in S, \A j \in S : m <= j
  PROVE  Min(S) = m
  <1>1. Min(S) \in S /\ Min(S) <= m
    BY MinIsLeast
  <1>2. Min(S) \in Nat /\ m \in Nat /\ m <= Min(S)
    BY <1>1
  <1> QED BY <1>1, <1>2

LEMMA MinOfOne ==
  ASSUME NEW m \in Nat
  PROVE  Min({m}) = m
  BY MinIs

(***************************************************************************)
(* The command line.                                                       *)
(***************************************************************************)
Going(args, idx, opts) == Parsing(TRUE, args, idx, opts)

Matches(args, idx, def) == {j \in idx .. Len(args) : args[j] \in def.keys}

LEMMA OptionAbsent ==
  ASSUME NEW args, NEW idx, NEW opts, NEW def, def.is_optional,
         Matches(args, idx, def) = {}
  PROVE  ParseOption(Going(args, idx, opts), def)
           = Going(args, idx, Append(opts, Absent))
  BY DEF ParseOption, Going, Parsing, Matches

(* The first match is at m, and its value is there and valid. *)
Valid(args, idx, def, m) ==
  /\ idx \in Nat /\ m \in Nat /\ Len(args) \in Nat /\ m + 1 <= Len(args)
  /\ Matches(args, idx, def) # {} /\ Min(Matches(args, idx, def)) = m
  /\ def.type # "BOOL"
  /\ def.type = "INTEGER" => args[m + 1] \in DOMAIN Ports

With(opts, opt) == Append(opts, opt)

LEMMA WithOne == \A opt : With(<<>>, opt) = <<opt>>
  BY DEF With

LEMMA WithTwo ==
  ASSUME NEW opt1, NEW opt2
  PROVE  With(<<opt1>>, opt2) = <<opt1, opt2>>
  BY AppendToOne DEF With

LEMMA OptionPresent ==
  ASSUME NEW args, NEW idx, NEW opts, NEW def, NEW m, Valid(args, idx, def, m),
         NEW next, next = idx + 2, NEW word, word = args[m + 1]
  PROVE  ParseOption(Going(args, idx, opts), def)
           = Going(MoveToFront(args, m, idx, 2), next, With(opts, Present(word)))
  <1> USE DEF Valid
  <1> DEFINE M == Matches(args, idx, def)
             acc == Going(args, idx, opts)
  <1>1. acc.ok = TRUE /\ acc.args = args /\ acc.opt_idx = idx /\ acc.opts = opts
    BY DEF Going, Parsing
  <1>2. {j \in acc.opt_idx .. Len(acc.args) : acc.args[j] \in def.keys} = M
    BY <1>1 DEF Matches
  <1>3. m + 2 - 1 = m + 1
    OBVIOUS
  <1>4. Min(M) = m /\ M # {}
    OBVIOUS
  <1> SUFFICES ParseOption(acc, def)
                 = Going(MoveToFront(args, m, idx, 2), idx + 2,
                         With(opts, Present(args[m + 1])))
    OBVIOUS
  <1> HIDE DEF acc, M
  <1> QED BY <1>1, <1>2, <1>3, <1>4, Zenon DEF ParseOption, Going, With

PortDef    == CLI_OPTION_DEFINITIONS[1]
ReplicaDef == CLI_OPTION_DEFINITIONS[2]

LEMMA TwoDefinitions ==
  /\ PortDef.keys = {"--port", "-p"} /\ PortDef.type = "INTEGER" /\ PortDef.is_optional
  /\ ReplicaDef.keys = {"--replicaof", "-r"} /\ ReplicaDef.type = "STRING"
  /\ ReplicaDef.is_optional
  BY DEF PortDef, ReplicaDef, CLI_OPTION_DEFINITIONS

PortKeys    == {"-p", "--port"}
ReplicaKeys == {"-r", "--replicaof"}

(* The command line is valid and has these options. *)
IsParsed(r, opt1, opt2) == r.ok = TRUE /\ r.opts = <<opt1, opt2>>

Says(args, opt1, opt2) == IsParsed(cli_parse_opts(args), opt1, opt2)

LEMMA PortFirst ==
  ASSUME NEW args, Len(args) \in Nat, Len(args) >= 2, args[1] \in PortKeys,
         args[2] \in DOMAIN Ports, MoveToFront(args, 1, 1, 2) = args
  PROVE  ParseOption(Going(args, 1, <<>>), PortDef)
           = Going(args, 3, <<Present(args[2])>>)
  <1>1. 1 \in Matches(args, 1, PortDef) /\ Matches(args, 1, PortDef) \subseteq Nat
        /\ \A i \in Matches(args, 1, PortDef) : 1 <= i
    BY TwoDefinitions DEF Matches, PortKeys
  <1>2. Min(Matches(args, 1, PortDef)) = 1
    BY <1>1, MinIs
  <1>3. Valid(args, 1, PortDef, 1)
    BY <1>1, <1>2, TwoDefinitions DEF Valid
  <1>4. 3 = 1 + 2 /\ args[2] = args[1 + 1]
    OBVIOUS
  <1> QED BY <1>3, <1>4, OptionPresent, WithOne

LEMMA ReplicaAt ==
  ASSUME NEW args, NEW idx \in Nat, idx >= 1, Len(args) = idx + 1, args[idx] \in ReplicaKeys,
         NEW opt
  PROVE  IsParsed(ParseOption(Going(args, idx, <<opt>>), ReplicaDef),
                  opt, Present(args[idx + 1]))
  <1>1. idx \in Matches(args, idx, ReplicaDef) /\ Matches(args, idx, ReplicaDef) \subseteq Nat
        /\ \A i \in Matches(args, idx, ReplicaDef) : idx <= i
    BY TwoDefinitions DEF Matches, ReplicaKeys
  <1>2. Min(Matches(args, idx, ReplicaDef)) = idx
    BY <1>1, MinIs
  <1>3. Valid(args, idx, ReplicaDef, idx)
    BY <1>1, <1>2, TwoDefinitions DEF Valid
  <1>4. With(<<opt>>, Present(args[idx + 1])) = <<opt, Present(args[idx + 1])>>
    BY WithTwo
  <1>5. ParseOption(Going(args, idx, <<opt>>), ReplicaDef)
          = Going(MoveToFront(args, idx, idx, 2), idx + 2,
                    <<opt, Present(args[idx + 1])>>)
    BY <1>3, <1>4, OptionPresent
  <1> DEFINE pair == <<opt, Present(args[idx + 1])>>
             moved == MoveToFront(args, idx, idx, 2)
             next == idx + 2
  <1> HIDE DEF pair, moved, next
  <1>6. Going(moved, next, pair).ok = TRUE /\ Going(moved, next, pair).opts = pair
    BY DEF Going, Parsing
  <1> QED BY <1>5, <1>6 DEF IsParsed, pair, moved, next

LEMMA PortAndReplica ==
  ASSUME NEW k \in PortKeys, NEW n \in DOMAIN Ports, NEW j \in ReplicaKeys, NEW a \in Addresses
  PROVE  Says(<<k, n, j, a>>, Present(n), Present(a))
  <1> DEFINE args == <<k, n, j, a>>
  <1>1. Len(args) = 4 /\ args[1] = k /\ args[2] = n /\ args[3] = j /\ args[4] = a
    OBVIOUS
  <1>2. MoveToFront(args, 1, 1, 2) = args
    BY DEF MoveToFront, Swap
  <1> HIDE DEF args
  <1>3. ParseOption(Going(args, 1, <<>>), PortDef)
          = Going(args, 3, <<Present(n)>>)
    BY <1>1, <1>2, PortFirst
  <1>4. IsParsed(ParseOption(Going(args, 3, <<Present(n)>>), ReplicaDef), Present(n), Present(a))
    <2>1. 3 \in Nat /\ 3 >= 1 /\ Len(args) = 3 + 1 /\ args[3 + 1] = a /\ args[3] \in ReplicaKeys
      BY <1>1
    <2> QED BY <2>1, ReplicaAt, Zenon
  <1>5. Says(args, Present(n), Present(a))
    BY <1>3, <1>4 DEF Says, cli_parse_opts, Going, PortDef, ReplicaDef
  <1> QED BY <1>5 DEF args

LEMMA ReplicaAndPort ==
  ASSUME NEW k \in PortKeys, NEW n \in DOMAIN Ports, NEW j \in ReplicaKeys, NEW a \in Addresses
  PROVE  Says(<<j, a, k, n>>, Present(n), Present(a))
  <1> DEFINE args == <<j, a, k, n>>
             back == <<k, n, j, a>>
             M == Matches(args, 1, PortDef)
  <1>1. /\ Len(args) = 4 /\ args[1] = j /\ args[2] = a /\ args[3] = k /\ args[4] = n
        /\ Len(back) = 4 /\ back[3] = j /\ back[4] = a
    OBVIOUS
  <1>2. MoveToFront(args, 3, 1, 2) = back
    BY DEF MoveToFront, Swap
  <1> HIDE DEF args, back
  <1>3. j \notin PortDef.keys /\ a \notin PortDef.keys /\ k \in PortDef.keys
    BY TwoDefinitions, AddressesAssumption DEF PortKeys, ReplicaKeys
  <1>4. 3 \in M /\ M \subseteq Nat /\ \A i \in M : 3 <= i
    BY <1>1, <1>3 DEF Matches
  <1>5. Min(M) = 3
    BY <1>4, MinIs
  <1>6. Valid(args, 1, PortDef, 3)
    BY <1>1, <1>4, <1>5, TwoDefinitions DEF Valid
  <1>7. ParseOption(Going(args, 1, <<>>), PortDef) = Going(back, 3, <<Present(n)>>)
    <2>1. 3 = 1 + 2 /\ n = args[3 + 1]
      BY <1>1
    <2> QED BY <1>2, <1>6, <2>1, OptionPresent, WithOne
  <1>8. IsParsed(ParseOption(Going(back, 3, <<Present(n)>>), ReplicaDef), Present(n), Present(a))
    <2>1. 3 \in Nat /\ 3 >= 1 /\ Len(back) = 3 + 1 /\ back[3 + 1] = a /\ back[3] \in ReplicaKeys
      BY <1>1
    <2> QED BY <2>1, ReplicaAt, Zenon
  <1>9. Says(args, Present(n), Present(a))
    BY <1>7, <1>8 DEF Says, cli_parse_opts, Going, PortDef, ReplicaDef
  <1> QED BY <1>9 DEF args

LEMMA PortAlone ==
  ASSUME NEW k \in PortKeys, NEW n \in DOMAIN Ports
  PROVE  Says(<<k, n>>, Present(n), Absent)
  <1> DEFINE args == <<k, n>>
  <1>1. Len(args) = 2 /\ args[1] = k /\ args[2] = n
    OBVIOUS
  <1>2. MoveToFront(args, 1, 1, 2) = args
    BY DEF MoveToFront, Swap
  <1> HIDE DEF args
  <1>3. ParseOption(Going(args, 1, <<>>), PortDef)
          = Going(args, 3, <<Present(n)>>)
    BY <1>1, <1>2, PortFirst
  <1>4. Matches(args, 3, ReplicaDef) = {}
    BY <1>1 DEF Matches
  <1>5. ParseOption(Going(args, 3, <<Present(n)>>), ReplicaDef)
          = Going(args, 3, <<Present(n), Absent>>)
    <2>1. Append(<<Present(n)>>, Absent) = <<Present(n), Absent>>
      BY AppendToOne
    <2>2. ReplicaDef.is_optional
      BY TwoDefinitions
    <2> QED BY <1>4, <2>1, <2>2, OptionAbsent, Zenon
  <1>6. Says(args, Present(n), Absent)
    <2>1. Says(args, Present(n), Absent)
            <=> IsParsed(Going(args, 3, <<Present(n), Absent>>), Present(n), Absent)
      BY <1>3, <1>5, Zenon DEF Says, cli_parse_opts, Going, PortDef, ReplicaDef
    <2> QED BY <2>1, Zenon DEF Going, IsParsed, Parsing
  <1> QED BY <1>6 DEF args

LEMMA NoPort ==
  ASSUME NEW args, Matches(args, 1, PortDef) = {}
  PROVE  ParseOption(Going(args, 1, <<>>), PortDef) = Going(args, 1, <<Absent>>)
  <1>1. Append(<<>>, Absent) = <<Absent>>
    OBVIOUS
  <1>2. PortDef.is_optional
    BY TwoDefinitions
  <1> QED BY <1>1, <1>2, OptionAbsent, Zenon

LEMMA ReplicaAlone ==
  ASSUME NEW j \in ReplicaKeys, NEW a \in Addresses
  PROVE  Says(<<j, a>>, Absent, Present(a))
  <1> DEFINE args == <<j, a>>
  <1>1. Len(args) = 2 /\ args[1] = j /\ args[2] = a
    OBVIOUS
  <1> HIDE DEF args
  <1>2. j \notin PortDef.keys /\ a \notin PortDef.keys
    BY TwoDefinitions, AddressesAssumption DEF PortKeys, ReplicaKeys
  <1>3. Matches(args, 1, PortDef) = {}
    BY <1>1, <1>2 DEF Matches
  <1>4. IsParsed(ParseOption(Going(args, 1, <<Absent>>), ReplicaDef), Absent, Present(a))
    <2>1. 1 \in Nat /\ 1 >= 1 /\ Len(args) = 1 + 1 /\ args[1 + 1] = a /\ args[1] \in ReplicaKeys
      BY <1>1
    <2> QED BY <2>1, ReplicaAt, Zenon
  <1>5. Says(args, Absent, Present(a))
    BY <1>3, <1>4, NoPort DEF Says, cli_parse_opts, Going, PortDef, ReplicaDef
  <1> QED BY <1>5 DEF args

LEMMA NoOptions == Says(<<>>, Absent, Absent)
  <1>1. Matches(<<>>, 1, PortDef) = {} /\ Matches(<<>>, 1, ReplicaDef) = {}
    BY DEF Matches
  <1>2. Append(<<Absent>>, Absent) = <<Absent, Absent>>
    BY AppendToOne
  <1>3. ParseOption(Going(<<>>, 1, <<Absent>>), ReplicaDef)
          = Going(<<>>, 1, <<Absent, Absent>>)
    <2>1. ReplicaDef.is_optional
      BY TwoDefinitions
    <2> QED BY <1>1, <1>2, <2>1, OptionAbsent, Zenon
  <1> QED BY <1>1, <1>3, NoPort DEF Says, IsParsed, cli_parse_opts, Going, PortDef, ReplicaDef, Parsing

(* What Options makes of options that were parsed. *)
LEMMA OptionsOf ==
  ASSUME NEW args, NEW opt1, NEW opt2, Says(args, opt1, opt2),
         opt2.present => opt2.word \in Addresses
  PROVE  /\ Options(args).replica = opt2.present
         /\ Options(args).port = IF opt1.present THEN Ports[opt1.word] % PortBound ELSE DEFAULT_PORT
  <1> DEFINE r == cli_parse_opts(args)
  <1>1. r.ok = TRUE /\ r.opts = <<opt1, opt2>>
    BY DEF Says, IsParsed
  <1>2. r.opts[1] = opt1 /\ r.opts[2] = opt2
    BY <1>1
  <1> HIDE DEF r
  <1> QED BY <1>1, <1>2 DEF Options, r

AsMainSaw == phase # "starting" => port = Options(argv).port /\ replica = Options(argv).replica

LEMMA MainReadsOptions == Spec => []AsMainSaw
  <1>1. Init => AsMainSaw
    BY DEF Init, AsMainSaw
  <1>2. AsMainSaw /\ [Next]_vars => AsMainSaw'
    <2> SUFFICES ASSUME AsMainSaw, [Next]_vars PROVE AsMainSaw'
      OBVIOUS
    <2>1. CASE main
      BY <2>1 DEF main, AsMainSaw
    <2>2. CASE ClientSends
      BY <2>2 DEF ClientSends, AsMainSaw
    <2>3. CASE HandleInput
      <3>1. phase # "starting" /\ argv' = argv /\ port' = port /\ replica' = replica
        BY <2>3 DEF HandleInput
      <3> QED BY <3>1 DEF AsMainSaw
    <2>4. CASE Hangup
      BY <2>4 DEF Hangup, AsMainSaw
    <2>5. CASE UNCHANGED vars
      BY <2>5 DEF vars, AsMainSaw
    <2> QED BY <2>1, <2>2, <2>3, <2>4, <2>5 DEF Next
  <1> QED BY <1>1, <1>2, PTL DEF Spec

LEMMA OptionWords ==
  /\ ~Absent.present
  /\ \A w : Present(w).present /\ Present(w).word = w
  BY DEF Absent, Present

LEMMA PortInRange ==
  ASSUME NEW w \in DOMAIN Ports, Ports[w] \in 0 .. PortBound - 1
  PROVE  Ports[w] % PortBound = Ports[w]
  BY PortsAssumption

(* A command line of the options of the usage message is understood,       *)
(* whatever the ports, the addresses and the width of a port: the second   *)
(* definition finds its words behind the ones that cli_parse_opts moved.   *)
THEOREM CommandLine == Spec => []OptionsUnderstood
  <1>1. AsMainSaw => OptionsUnderstood
    <2> SUFFICES ASSUME AsMainSaw, phase # "starting",
                        NEW p \in {<<>>} \cup (PortKeys \X DOMAIN Ports),
                        NEW r \in {<<>>} \cup (ReplicaKeys \X Addresses),
                        argv \in {p \o r, r \o p}
                 PROVE  /\ replica <=> r # <<>>
                        /\ p = <<>> => port = DEFAULT_PORT
                        /\ p # <<>> =>
                             (Ports[p[2]] \in 0 .. PortBound - 1 => port = Ports[p[2]])
      BY DEF OptionsUnderstood, PortKeys, ReplicaKeys
    <2>1. port = Options(argv).port /\ replica = Options(argv).replica
      BY DEF AsMainSaw
    <2>2. CASE p = <<>> /\ r = <<>>
      <3>1. argv = <<>>
        BY <2>2
      <3> QED BY <2>1, <2>2, <3>1, NoOptions, OptionsOf, OptionWords
    <2>3. CASE p = <<>> /\ r # <<>>
      <3>1. PICK j \in ReplicaKeys, a \in Addresses : r = <<j, a>>
        BY <2>3
      <3>2. argv = <<j, a>>
        BY <2>3, <3>1
      <3>3. Says(argv, Absent, Present(a))
        BY <3>2, ReplicaAlone
      <3> QED BY <2>1, <2>3, <3>3, OptionsOf, OptionWords
    <2>4. CASE p # <<>> /\ r = <<>>
      <3>1. PICK k \in PortKeys, n \in DOMAIN Ports : p = <<k, n>>
        BY <2>4
      <3>2. argv = <<k, n>>
        BY <2>4, <3>1
      <3>3. Says(argv, Present(n), Absent)
        BY <3>2, PortAlone
      <3>4. port = Ports[n] % PortBound /\ ~replica
        BY <2>1, <3>3, OptionsOf, OptionWords
      <3> QED BY <2>4, <3>1, <3>4, PortInRange
    <2>5. CASE p # <<>> /\ r # <<>>
      <3>1. PICK k \in PortKeys, n \in DOMAIN Ports : p = <<k, n>>
        BY <2>5
      <3>2. PICK j \in ReplicaKeys, a \in Addresses : r = <<j, a>>
        BY <2>5
      <3>3. argv = <<k, n, j, a>> \/ argv = <<j, a, k, n>>
        BY <3>1, <3>2
      <3>4. Says(argv, Present(n), Present(a))
        BY <3>3, PortAndReplica, ReplicaAndPort
      <3>5. port = Ports[n] % PortBound /\ replica
        BY <2>1, <3>4, OptionsOf, OptionWords
      <3> QED BY <2>5, <3>1, <3>5, PortInRange
    <2> QED BY <2>2, <2>3, <2>4, <2>5
  <1> QED BY <1>1, MainReadsOptions, PTL

(***************************************************************************)
(* The arithmetic of int64_t.  Adding a multiple of the number of values   *)
(* does not change what a sum wraps to.                                    *)
(***************************************************************************)
LEMMA Division ==
  ASSUME NEW y \in Int, NEW M \in Nat, M > 0
  PROVE  y = M * (y \div M) + (y % M) /\ y % M \in 0 .. M - 1 /\ y \div M \in Int
  OBVIOUS

LEMMA SmallMultiple ==
  ASSUME NEW M \in Nat, M > 0, NEW k \in Int, M * k > -M, M * k < M
  PROVE  k = 0
  <1>1. CASE k >= 1
    <2>1. M * k >= M
      BY <1>1
    <2> QED BY <2>1
  <1>2. CASE k <= -1
    <2>1. M * k <= -M
      BY <1>2
    <2> QED BY <2>1
  <1> QED BY <1>1, <1>2

LEMMA ModShift ==
  ASSUME NEW M \in Nat, M > 0, NEW x \in 0 .. M - 1, NEW q \in Int
  PROVE  (x - M * q) % M = x
  <1> DEFINE y == x - M * q
             d == y \div M
             e == y % M
  <1>1. y = M * d + e /\ e \in 0 .. M - 1 /\ d \in Int
    BY Division
  <1>2. M * q \in Int /\ M * d \in Int /\ y = x - M * q
    BY <1>1
  <1> HIDE DEF y, d, e
  <1>3. M * (q + d) = M * q + M * d
    BY <1>1
  <1>4. M * (q + d) = x - e /\ q + d \in Int
    BY <1>1, <1>2, <1>3
  <1>5. M * (q + d) > -M /\ M * (q + d) < M
    BY <1>1, <1>4
  <1>6. q + d = 0
    BY <1>4, <1>5, SmallMultiple
  <1>7. M * (q + d) = 0
    BY <1>6
  <1>8. x = e
    BY <1>1, <1>4, <1>7
  <1> QED BY <1>8 DEF e, y

LEMMA WrapExact ==
  ASSUME NEW n \in MinInt .. MaxInt
  PROVE  Wrap64(n) = n
  <1> DEFINE M == MaxInt - MinInt + 1
             x == n - MinInt
  <1>1. M \in Nat /\ M > 0 /\ x \in 0 .. M - 1 /\ x + MinInt = n
    BY Int64Assumption
  <1>2. Wrap64(n) = (x % M) + MinInt
    BY DEF Wrap64
  <1> HIDE DEF M, x
  <1>3. x % M = x
    BY <1>1
  <1> QED BY <1>1, <1>2, <1>3

(* A product that overflows does no harm when the sum fits. *)
LEMMA WrapSum ==
  ASSUME NEW a \in Int, NEW b \in Int, a + b \in MinInt .. MaxInt
  PROVE  Wrap64(a + Wrap64(b)) = a + b
  <1> DEFINE M == MaxInt - MinInt + 1
             y == b - MinInt
             q == y \div M
             x == a + b - MinInt
  <1>1. M \in Nat /\ M > 0 /\ x \in 0 .. M - 1 /\ y \in Int /\ MinInt \in Int
    BY Int64Assumption
  <1>2. y = M * q + (y % M) /\ y % M \in 0 .. M - 1 /\ q \in Int
    <2> HIDE DEF M, y
    <2> QED BY <1>1, Division
  <1>3. Wrap64(b) = (y % M) + MinInt
    BY DEF Wrap64
  <1> DEFINE n == a + Wrap64(b)
             p == M * q
  <1>4. n = a + (y % M) + MinInt /\ n \in Int
    <2> HIDE DEF M, y
    <2> QED BY <1>1, <1>2, <1>3
  <1>5. \A i \in Int : Wrap64(i) = ((i - MinInt) % M) + MinInt
    BY DEF Wrap64
  <1>6. x = a + y /\ x + MinInt = a + b
    BY <1>1
  <1>7. p \in Int
    BY <1>1, <1>2
  <1> HIDE DEF M, y, q, x, p, n
  <1>8. y % M = y - p
    BY <1>1, <1>2, <1>7 DEF p
  <1>9. n - MinInt = x - p
    BY <1>1, <1>4, <1>6, <1>7, <1>8
  <1>10. (x - p) % M = x
    BY <1>1, <1>2, ModShift DEF p
  <1>11. Wrap64(n) = ((n - MinInt) % M) + MinInt
    BY <1>4, <1>5
  <1>12. Wrap64(n) = a + b
    BY <1>6, <1>9, <1>10, <1>11
  <1> QED BY <1>12 DEF n

(***************************************************************************)
(* The argument parser.  Between two definitions the window is all of the  *)
(* arguments, of which R are resolved.                                     *)
(***************************************************************************)
Whole(args, R) == [args |-> args, start |-> 1, end |-> Len(args) + 1, resolved |-> R]

Free(args, R) == (1 .. Len(args)) \ R

(* One more is resolved, or none where i is 0. *)
Take(R, i) == IF i = 0 THEN R ELSE R \cup {i}

Given(def, value) == CommandArg(def, TRUE, value)
NotGiven(def)     == CommandArg(def, FALSE, <<>>)

LEMMA WholeFields ==
  ASSUME NEW args, NEW R
  PROVE  /\ Whole(args, R).args = args /\ Whole(args, R).start = 1
         /\ Whole(args, R).end = Len(args) + 1 /\ Whole(args, R).resolved = R
  BY DEF Whole

LEMMA WholeResolved ==
  ASSUME NEW args, NEW R, NEW U
  PROVE  [Whole(args, R) EXCEPT !.resolved = U] = Whole(args, U)
  BY DEF Whole

LEMMA WholeFree ==
  ASSUME NEW args, NEW R, Len(args) \in Nat
  PROVE  Unresolved(Whole(args, R)) = Free(args, R)
  BY DEF Whole, Unresolved, Free

LEMMA WholeConsume ==
  ASSUME NEW args, NEW R, NEW i, i # 0
  PROVE  iaa_consume(Whole(args, R), i) = Whole(args, Take(R, i))
  <1>1. Take(R, i) = R \cup {i}
    BY DEF Take
  <1>2. iaa_consume(Whole(args, R), i) = [Whole(args, R) EXCEPT !.resolved = R \cup {i}]
    <2> DEFINE W == Whole(args, R)
    <2>1. W.resolved = R
      BY WholeFields
    <2> HIDE DEF W
    <2>2. iaa_consume(W, i) = [W EXCEPT !.resolved = R \cup {i}]
      BY <2>1 DEF iaa_consume
    <2> QED BY <2>2 DEF W
  <1> QED BY <1>1, <1>2, WholeResolved

LEMMA FreeTake ==
  ASSUME NEW args, NEW R, NEW i, Len(args) \in Nat
  PROVE  Free(args, Take(R, i)) = Free(args, R) \ {i}
  BY DEF Free, Take

LEMMA FreeNat ==
  ASSUME NEW args, NEW R, Len(args) \in Nat
  PROVE  Free(args, R) \subseteq Nat /\ 0 \notin Free(args, R)
  BY DEF Free

LEMMA ResultFields ==
  ASSUME NEW code, NEW out, NEW iaa
  PROVE  /\ Result(code, out, iaa).code = code /\ Result(code, out, iaa).out = out
         /\ Result(code, out, iaa).iaa = iaa
  BY DEF Result

(* The window behind a token at e: it begins at the next free argument.    *)
LEMMA WindowBehind ==
  ASSUME NEW args, NEW R, Len(args) \in Nat, NEW e \in Free(args, R)
  PROVE  LET w == iaa_clone_shrinked_window(Whole(args, Take(R, e)), e)
             later == {j \in Free(args, R) : j > e}
         IN  /\ w.args = args /\ w.resolved = Take(R, e)
             /\ \A i : iaa_consume(w, i).resolved = Take(R, e) \cup {i}
             /\ later = {} => Unresolved(w) = {}
             /\ later # {} => Unresolved(w) # {} /\ Min(Unresolved(w)) = Min(later)
  <1> DEFINE U == Take(R, e)
             v == Whole(args, U)
             w == iaa_clone_shrinked_window(v, e)
             later == {j \in Free(args, R) : j > e}
             start == IF later = {} THEN Len(args) + 1 ELSE Min(later)
             ends == {j \in start .. Len(args) : j \in U} \cup {Len(args) + 1}
             end == Min(ends)
  <1>1. e \in 1 .. Len(args) /\ e \notin R /\ U = R \cup {e}
    BY DEF Free, Take
  <1>2. {j \in Unresolved(v) : j > e} = later
    BY <1>1, WholeFree DEF Free, Take
  <1>3. v.args = args /\ v.end = Len(args) + 1 /\ v.resolved = U /\ v.start = 1
    BY WholeFields
  <1>4. w = [v EXCEPT !.start = start, !.end = end]
    <2> HIDE DEF v, later, U
    <2> QED BY <1>2, <1>3 DEF iaa_clone_shrinked_window
  <1>5. w.args = args /\ w.resolved = U /\ w.start = start /\ w.end = end
    <2> HIDE DEF start, end, U
    <2> QED BY <1>4 DEF Whole
  <1>51. \A i : iaa_consume(w, i).resolved = U \cup {i}
    <2> HIDE DEF start, end, U
    <2> QED BY <1>4 DEF Whole, iaa_consume
  <1>6. later \subseteq 1 .. Len(args) /\ later \subseteq Nat
    BY DEF Free
  <1>7. later # {} => Min(later) \in later /\ \A j \in later : Min(later) <= j
    BY <1>6, MinIsLeast
  <1>8. start \in 1 .. Len(args) + 1 /\ (later # {} => start \in later)
    <2>1. CASE later = {}
      BY <2>1
    <2>2. CASE later # {}
      <3>1. start = Min(later) /\ start \in later
        BY <1>7, <2>2
      <3> HIDE DEF later, start
      <3> QED BY <1>6, <3>1
    <2> QED BY <2>1, <2>2
  <1>9. ends \subseteq Nat /\ Len(args) + 1 \in ends
    <2> HIDE DEF start, U
    <2> QED BY <1>8
  <1>10. end \in ends /\ \A j \in ends : end <= j
    <2> HIDE DEF ends
    <2> QED BY <1>9, MinIsLeast
  <1>11. end \in start .. Len(args) + 1 /\ (end <= Len(args) => end \in U)
    <2> HIDE DEF start, U, end
    <2> QED BY <1>8, <1>10
  <1> HIDE DEF end, ends
  <1>12. Unresolved(w) = (start .. end - 1) \ U
    <2> HIDE DEF start, U, w
    <2> QED BY <1>5 DEF Unresolved
  <1>13. CASE later = {}
    <2>1. start = Len(args) + 1
      BY <1>13
    <2>2. start .. end - 1 = {}
      <3> HIDE DEF start
      <3> QED BY <1>11, <2>1
    <2> QED BY <1>5, <1>51, <1>12, <1>13, <2>2
  <1>14. CASE later # {}
    <2> DEFINE m == Min(later)
    <2>1. start = m /\ m \in later /\ m \in 1 .. Len(args) /\ \A j \in later : m <= j
      BY <1>6, <1>7, <1>14
    <2>2. m \notin U
      BY <1>1, <2>1 DEF Free
    <2> HIDE DEF start, m, later
    <2>3. m \in Unresolved(w) /\ Unresolved(w) \subseteq Nat /\ \A j \in Unresolved(w) : m <= j
      <3> HIDE DEF U, w
      <3>1. end # m
        BY <1>11, <2>1, <2>2
      <3> QED BY <1>11, <1>12, <2>1, <2>2, <3>1
    <2>4. Min(Unresolved(w)) = m
      BY <2>3, MinIs
    <2>5. Unresolved(w) # {} /\ Min(Unresolved(w)) = Min(later)
      BY <2>3, <2>4 DEF m
    <2> QED BY <1>5, <1>51, <1>14, <2>5 DEF later
  <1> QED BY <1>13, <1>14

LEMMA NumberOrNot ==
  ASSUME NEW arg
  PROVE  /\ IsNumber(arg) => parse_int64(arg) = Value(arg) /\ parse_int64(arg) # NotInt
         /\ ~IsNumber(arg) => parse_int64(arg) = NotInt
         /\ strtoll(arg) = Value(arg)
         /\ Value(arg) \in Int
  <1>1. CASE IsNumber(arg)
    <2>1. parse_int64(arg) = Numbers[arg[1].s] /\ Value(arg) = Numbers[arg[1].s]
      BY <1>1 DEF IsNumber, parse_int64, Value
    <2>2. Numbers[arg[1].s] \in MinInt .. MaxInt /\ Numbers[arg[1].s] # NotInt
      BY <1>1, NumbersAssumption DEF IsNumber
    <2> QED BY <1>1, <2>1, <2>2, Int64Assumption DEF strtoll
  <1>2. CASE ~IsNumber(arg)
    BY <1>2 DEF IsNumber, parse_int64, Value, strtoll
  <1> QED BY <1>1, <1>2

(* The value of a definition is the first unresolved argument of a window. *)
Suits(def, arg) == def.type = "INTEGER" => IsNumber(arg)

LEMMA PeekFirst ==
  ASSUME NEW iaa, NEW i, i = Min(Unresolved(iaa)), Unresolved(iaa) # {}
  PROVE  iaa_peek(iaa) = i
  BY DEF iaa_peek

LEMMA ValueMissing ==
  ASSUME NEW iaa, NEW def, Unresolved(iaa) = {}
  PROVE  /\ def.is_optional => parse_value(def, iaa) = Result("SUCCESS", NotGiven(def), iaa)
         /\ ~def.is_optional => parse_value(def, iaa) = Result("TOO_FEW_ARGS", NotGiven(def), iaa)
  <1>1. iaa_peek(iaa) = 0
    BY DEF iaa_peek
  <1>2. CASE def.is_optional
    BY <1>1, <1>2, Zenon DEF parse_value, NotGiven
  <1>3. CASE ~def.is_optional
    BY <1>1, <1>3, Zenon DEF parse_value, NotGiven
  <1> QED BY <1>2, <1>3

LEMMA ValueThere ==
  ASSUME NEW iaa, NEW def, NEW i, i = Min(Unresolved(iaa)), Unresolved(iaa) # {}, i # 0
  PROVE  /\ Suits(def, iaa.args[i]) =>
              parse_value(def, iaa)
                = Result("SUCCESS", Given(def, Convert(def.type, iaa.args[i])), iaa_consume(iaa, i))
         /\ ~Suits(def, iaa.args[i]) =>
              parse_value(def, iaa) = Result("TYPE_MISMATCH", NotGiven(def), iaa_consume(iaa, i))
  <1>1. iaa_peek(iaa) = i
    BY PeekFirst
  <1>2. CASE Suits(def, iaa.args[i])
    <2>1. ~(def.type = "INTEGER" /\ parse_int64(iaa.args[i]) = NotInt)
      BY <1>2, NumberOrNot DEF Suits
    <2> QED BY <1>1, <1>2, <2>1, Zenon DEF parse_value, Given
  <1>3. CASE ~Suits(def, iaa.args[i])
    <2>1. def.type = "INTEGER" /\ parse_int64(iaa.args[i]) = NotInt
      BY <1>3, NumberOrNot DEF Suits
    <2> QED BY <1>1, <1>3, <2>1, Zenon DEF parse_value, NotGiven
  <1> QED BY <1>2, <1>3

(***************************************************************************)
(* A definition without a token takes the first argument that is left.     *)
(***************************************************************************)
IsValueDef(def) == def.token = "" /\ def.type \notin {"ONEOF", "PURE_TOKEN"}

LEMMA ValueDef ==
  ASSUME NEW def, IsValueDef(def), NEW iaa
  PROVE  parse_command_argument(def, iaa) = parse_value(def, iaa)
  BY Zenon DEF IsValueDef, parse_command_argument, ParseWithToken, parse_argument, parse_plain

LEMMA NextValue ==
  ASSUME NEW def, IsValueDef(def), NEW args, NEW R, Len(args) \in Nat,
         NEW i \in Free(args, R), i = Min(Free(args, R)), Suits(def, args[i])
  PROVE  parse_command_argument(def, Whole(args, R))
           = Result("SUCCESS", Given(def, Convert(def.type, args[i])), Whole(args, Take(R, i)))
  <1>1. i # 0 /\ i = Min(Unresolved(Whole(args, R))) /\ Unresolved(Whole(args, R)) # {}
    BY FreeNat, WholeFree
  <1>2. Whole(args, R).args[i] = args[i]
    BY WholeFields
  <1> QED BY <1>1, <1>2, ValueDef, ValueThere, WholeConsume

LEMMA NextValueUnsuited ==
  ASSUME NEW def, IsValueDef(def), NEW args, NEW R, Len(args) \in Nat,
         NEW i \in Free(args, R), i = Min(Free(args, R)), ~Suits(def, args[i])
  PROVE  parse_command_argument(def, Whole(args, R)).code # "SUCCESS"
  <1>1. i # 0 /\ i = Min(Unresolved(Whole(args, R))) /\ Unresolved(Whole(args, R)) # {}
    BY FreeNat, WholeFree
  <1>2. Whole(args, R).args[i] = args[i]
    BY WholeFields
  <1> QED BY <1>1, <1>2, ValueDef, ValueThere, ResultFields

LEMMA NoNextValue ==
  ASSUME NEW def, IsValueDef(def), NEW args, NEW R, Len(args) \in Nat, Free(args, R) = {}
  PROVE  /\ def.is_optional =>
              parse_command_argument(def, Whole(args, R))
                = Result("SUCCESS", NotGiven(def), Whole(args, R))
         /\ ~def.is_optional => parse_command_argument(def, Whole(args, R)).code # "SUCCESS"
  <1>1. Unresolved(Whole(args, R)) = {}
    BY WholeFree
  <1> QED BY <1>1, ValueDef, ValueMissing, ResultFields

(***************************************************************************)
(* A definition with a token.                                              *)
(***************************************************************************)
IsAt(args, i, def) == str_eq_ci(args[i], def.token)

Lacks(args, R, def) == \A i \in Free(args, R) : ~IsAt(args, i, def)

(* The token is at e, and its value, if it has one, at t. *)
Finds(def, args, R, e, t, r) ==
  /\ e \in Free(args, R) /\ IsAt(args, e, def)
  /\ \/ /\ def.type = "PURE_TOKEN" /\ t = 0
        /\ r = Result("SUCCESS", Given(def, <<>>), Whole(args, Take(R, e)))
     \/ /\ def.type # "PURE_TOKEN" /\ t \in Free(args, R) /\ t > e /\ Suits(def, args[t])
        /\ r = Result("SUCCESS", Given(def, Convert(def.type, args[t])),
                      Whole(args, Take(Take(R, e), t)))

(* The token is at e, and its value is missing or no number. *)
Breaks(def, args, R, e, r) ==
  /\ e \in Free(args, R) /\ IsAt(args, e, def) /\ def.type # "PURE_TOKEN"
  /\ r.code # "SUCCESS" /\ r.code # "TOKEN_MISMATCH"
  /\ \/ \A j \in Free(args, R) : ~(j > e)
     \/ \E j \in Free(args, R) : j > e /\ ~Suits(def, args[j])

(* What a level of the parser makes of a result found in the window. *)
Reattached(iaa, r) == [r EXCEPT !.iaa = [iaa EXCEPT !.resolved = r.iaa.resolved]]

LEMMA Reattach ==
  ASSUME NEW args, NEW R, NEW code, NEW out, NEW w, NEW U, w.resolved = U
  PROVE  Reattached(Whole(args, R), Result(code, out, w)) = Result(code, out, Whole(args, U))
  <1>1. Result(code, out, w).iaa.resolved = U
    BY ResultFields
  <1>2. [Whole(args, R) EXCEPT !.resolved = Result(code, out, w).iaa.resolved] = Whole(args, U)
    BY <1>1, WholeResolved
  <1> DEFINE x == Whole(args, U)
  <1>3. Reattached(Whole(args, R), Result(code, out, w)) = [Result(code, out, w) EXCEPT !.iaa = x]
    BY <1>2 DEF Reattached
  <1> HIDE DEF x
  <1>4. [Result(code, out, w) EXCEPT !.iaa = x] = Result(code, out, x)
    BY DEF Result
  <1> QED BY <1>3, <1>4 DEF x

Window(args, R, e) == iaa_clone_shrinked_window(Whole(args, Take(R, e)), e)

LEMMA TokenHits ==
  ASSUME NEW args, NEW R, NEW def, Len(args) \in Nat, ~Lacks(args, R, def)
  PROVE  LET hits == {i \in Unresolved(Whole(args, R)) : str_eq_ci(Whole(args, R).args[i], def.token)}
         IN  hits # {} /\ Min(hits) \in Free(args, R) /\ IsAt(args, Min(hits), def)
  <1> DEFINE hits == {i \in Unresolved(Whole(args, R)) :
                        str_eq_ci(Whole(args, R).args[i], def.token)}
  <1>1. hits = {i \in Free(args, R) : IsAt(args, i, def)}
    BY WholeFree, WholeFields DEF IsAt
  <1>2. hits \subseteq Nat /\ hits # {}
    BY <1>1, FreeNat DEF Lacks
  <1> HIDE DEF hits
  <1>3. Min(hits) \in hits
    BY <1>2, MinIsLeast
  <1> QED BY <1>1, <1>2, <1>3 DEF hits

LEMMA TokenNoHits ==
  ASSUME NEW args, NEW R, NEW def, Len(args) \in Nat, Lacks(args, R, def)
  PROVE  {i \in Unresolved(Whole(args, R)) : str_eq_ci(Whole(args, R).args[i], def.token)} = {}
  BY WholeFree, WholeFields DEF IsAt, Lacks

LEMMA TokenMissing ==
  ASSUME NEW args, NEW R, NEW def, Len(args) \in Nat, def.token # "", Lacks(args, R, def)
  PROVE  /\ ~def.is_optional =>
              ParseWithToken(def, Whole(args, R), parse_plain)
                = Result("TOKEN_MISMATCH", NotGiven(def), Whole(args, R))
         /\ def.is_optional =>
              ParseWithToken(def, Whole(args, R), parse_argument)
                = Result("SUCCESS", NotGiven(def), Whole(args, R))
  <1> DEFINE iaa == Whole(args, R)
  <1>1. {i \in Unresolved(iaa) : str_eq_ci(iaa.args[i], def.token)} = {}
    BY TokenNoHits
  <1> HIDE DEF iaa
  <1>2. ~def.is_optional =>
          ParseWithToken(def, iaa, parse_plain) = Result("TOKEN_MISMATCH", NotGiven(def), iaa)
    BY <1>1, Zenon DEF ParseWithToken, NotGiven
  <1>3. def.is_optional =>
          ParseWithToken(def, iaa, parse_argument) = Result("SUCCESS", NotGiven(def), iaa)
    BY <1>1, Zenon DEF ParseWithToken, NotGiven
  <1> QED BY <1>2, <1>3 DEF iaa

LEMMA TokenFound ==
  ASSUME NEW args, NEW R, NEW def, Len(args) \in Nat, def.token # "", ~Lacks(args, R, def)
  PROVE  \E e \in Free(args, R) :
           /\ IsAt(args, e, def)
           /\ ParseWithToken(def, Whole(args, R), parse_plain)
                = Reattached(Whole(args, R), parse_plain(def, Window(args, R, e)))
           /\ ParseWithToken(def, Whole(args, R), parse_argument)
                = Reattached(Whole(args, R), parse_argument(def, Window(args, R, e)))
  <1> DEFINE iaa == Whole(args, R)
             hits == {i \in Unresolved(iaa) : str_eq_ci(iaa.args[i], def.token)}
             e == Min(hits)
  <1>1. hits # {} /\ e \in Free(args, R) /\ IsAt(args, e, def)
    BY TokenHits
  <1>2. iaa_consume(iaa, e) = Whole(args, Take(R, e))
    <2> HIDE DEF e
    <2>1. e # 0
      BY <1>1, FreeNat
    <2> QED BY <2>1, WholeConsume
  <1>3. iaa_clone_shrinked_window(iaa_consume(iaa, e), e) = Window(args, R, e)
    <2> HIDE DEF e, iaa
    <2> QED BY <1>2 DEF Window
  <1> HIDE DEF iaa
  <1>4. ParseWithToken(def, iaa, parse_plain)
          = Reattached(iaa, parse_plain(def, Window(args, R, e)))
    BY <1>1, <1>3, Zenon DEF ParseWithToken, Reattached
  <1>5. ParseWithToken(def, iaa, parse_argument)
          = Reattached(iaa, parse_argument(def, Window(args, R, e)))
    BY <1>1, <1>3, Zenon DEF ParseWithToken, Reattached
  <1> HIDE DEF hits, e
  <1> QED BY <1>1, <1>4, <1>5 DEF iaa

(* An inner definition of a ONEOF: its token is not there, it is found, or *)
(* it breaks.                                                              *)
IsInnerDef(def) == def.token # "" /\ ~def.is_optional /\ def.type # "ONEOF"

LEMMA InnerOutcome ==
  ASSUME NEW args, NEW R, NEW def, Len(args) \in Nat, IsInnerDef(def), NEW r,
         r = ParseWithToken(def, Whole(args, R), parse_plain)
  PROVE  \/ Lacks(args, R, def) /\ r.code = "TOKEN_MISMATCH"
         \/ \E e, t : Finds(def, args, R, e, t, r)
         \/ \E e : Breaks(def, args, R, e, r)
  <1>1. CASE Lacks(args, R, def)
    <2>1. r = Result("TOKEN_MISMATCH", NotGiven(def), Whole(args, R))
      BY <1>1, TokenMissing DEF IsInnerDef
    <2> QED BY <1>1, <2>1, ResultFields
  <1>2. CASE ~Lacks(args, R, def)
    <2>1. PICK e \in Free(args, R) :
            /\ IsAt(args, e, def)
            /\ r = Reattached(Whole(args, R), parse_plain(def, Window(args, R, e)))
      BY <1>2, TokenFound DEF IsInnerDef
    <2> DEFINE w == Window(args, R, e)
               later == {j \in Free(args, R) : j > e}
    <2>2. /\ w.args = args /\ w.resolved = Take(R, e)
          /\ \A i : iaa_consume(w, i).resolved = Take(R, e) \cup {i}
          /\ later = {} => Unresolved(w) = {}
          /\ later # {} => Unresolved(w) # {} /\ Min(Unresolved(w)) = Min(later)
      BY WindowBehind DEF Window
    <2> HIDE DEF w
    <2>3. CASE def.type = "PURE_TOKEN"
      <3>1. parse_plain(def, w) = Result("SUCCESS", Given(def, <<>>), w)
        BY <2>3, Zenon DEF parse_plain, Given
      <3>2. r = Result("SUCCESS", Given(def, <<>>), Whole(args, Take(R, e)))
        BY <2>1, <2>2, <3>1, Reattach DEF w
      <3>3. Finds(def, args, R, e, 0, r)
        BY <2>1, <2>3, <3>2 DEF Finds
      <3> QED BY <3>3
    <2>4. CASE def.type # "PURE_TOKEN" /\ later = {}
      <3>1. parse_plain(def, w) = Result("TOO_FEW_ARGS", NotGiven(def), w)
        <4>1. parse_plain(def, w) = parse_value(def, w)
          BY <2>4, Zenon DEF parse_plain
        <4> QED BY <2>2, <2>4, <4>1, ValueMissing DEF IsInnerDef
      <3>2. r = Result("TOO_FEW_ARGS", NotGiven(def), Whole(args, Take(R, e)))
        BY <2>1, <2>2, <3>1, Reattach DEF w
      <3>3. r.code = "TOO_FEW_ARGS"
        BY <3>2, ResultFields
      <3>4. Breaks(def, args, R, e, r)
        BY <2>1, <2>4, <3>3 DEF Breaks
      <3> QED BY <3>4
    <2>5. CASE def.type # "PURE_TOKEN" /\ later # {}
      <3> DEFINE t == Min(later)
      <3>1. t \in later
        <4>1. later \subseteq Nat
          BY FreeNat
        <4> HIDE DEF later
        <4> QED BY <2>5, <4>1, MinIsLeast
      <3>2. t \in Free(args, R) /\ t > e /\ t # 0
        BY <3>1, FreeNat
      <3> HIDE DEF t, later
      <3>3. t = Min(Unresolved(w)) /\ Unresolved(w) # {} /\ w.args[t] = args[t]
        BY <2>2, <2>5 DEF t
      <3>4. parse_plain(def, w) = parse_value(def, w)
        BY <2>5, Zenon DEF parse_plain
      <3>5. iaa_consume(w, t).resolved = Take(Take(R, e), t)
        BY <2>2, <3>2 DEF Take
      <3>6. CASE Suits(def, args[t])
        <4>1. parse_plain(def, w)
                = Result("SUCCESS", Given(def, Convert(def.type, args[t])), iaa_consume(w, t))
          BY <3>2, <3>3, <3>4, <3>6, ValueThere
        <4>2. r = Result("SUCCESS", Given(def, Convert(def.type, args[t])),
                         Whole(args, Take(Take(R, e), t)))
          BY <2>1, <3>5, <4>1, Reattach DEF w
        <4>3. Finds(def, args, R, e, t, r)
          BY <2>1, <2>5, <3>2, <3>6, <4>2 DEF Finds
        <4> QED BY <4>3
      <3>7. CASE ~Suits(def, args[t])
        <4>1. parse_plain(def, w) = Result("TYPE_MISMATCH", NotGiven(def), iaa_consume(w, t))
          BY <3>2, <3>3, <3>4, <3>7, ValueThere
        <4>2. r = Result("TYPE_MISMATCH", NotGiven(def), Whole(args, Take(Take(R, e), t)))
          BY <2>1, <3>5, <4>1, Reattach DEF w
        <4>3. r.code = "TYPE_MISMATCH"
          BY <4>2, ResultFields
        <4>4. Breaks(def, args, R, e, r)
          BY <2>1, <2>5, <3>2, <3>7, <4>3 DEF Breaks
        <4> QED BY <4>4
      <3> QED BY <3>6, <3>7
    <2> QED BY <2>3, <2>4, <2>5
  <1> QED BY <1>1, <1>2

LEMMA BehindPureToken ==
  ASSUME NEW args, NEW R, NEW def, Len(args) \in Nat, NEW e \in Free(args, R)
  PROVE  Reattached(Whole(args, R), Result("SUCCESS", Given(def, <<>>), Window(args, R, e)))
           = Result("SUCCESS", Given(def, <<>>), Whole(args, Take(R, e)))
  <1> DEFINE w == Window(args, R, e)
             later == {j \in Free(args, R) : j > e}
  <1>1. /\ w.args = args /\ w.resolved = Take(R, e)
        /\ \A i : iaa_consume(w, i).resolved = Take(R, e) \cup {i}
        /\ later = {} => Unresolved(w) = {}
        /\ later # {} => Unresolved(w) # {} /\ Min(Unresolved(w)) = Min(later)
    BY WindowBehind DEF Window
  <1> HIDE DEF w, later
  <1>2. w.resolved = Take(R, e)
    BY <1>1
  <1> QED BY <1>2, Reattach DEF w

(* An optional token by itself. *)
NoToken(def, args, R, r) ==
  /\ Lacks(args, R, def)
  /\ r = Result("SUCCESS", NotGiven(def), Whole(args, R))

TokenAt(def, args, R, r, e) ==
  /\ e \in Free(args, R) /\ IsAt(args, e, def)
  /\ r = Result("SUCCESS", Given(def, <<>>), Whole(args, Take(R, e)))

LEMMA PureTokenOutcome ==
  ASSUME NEW args, NEW R, NEW def, Len(args) \in Nat,
         def.token # "", def.is_optional, def.type = "PURE_TOKEN", NEW r,
         r = parse_command_argument(def, Whole(args, R))
  PROVE  NoToken(def, args, R, r) \/ \E e : TokenAt(def, args, R, r, e)
  <1>1. r = ParseWithToken(def, Whole(args, R), parse_argument)
    BY DEF parse_command_argument
  <1>2. CASE Lacks(args, R, def)
    BY <1>1, <1>2, TokenMissing DEF NoToken
  <1>3. CASE ~Lacks(args, R, def)
    <2>1. PICK e \in Free(args, R) :
            /\ IsAt(args, e, def)
            /\ r = Reattached(Whole(args, R), parse_argument(def, Window(args, R, e)))
      BY <1>1, <1>3, TokenFound
    <2> DEFINE w == Window(args, R, e)
    <2> HIDE DEF w
    <2>2. parse_argument(def, w) = Result("SUCCESS", Given(def, <<>>), w)
      BY Zenon DEF parse_argument, parse_plain, Given
    <2>3. r = Reattached(Whole(args, R), Result("SUCCESS", Given(def, <<>>), w))
      BY <2>1, <2>2 DEF w
    <2>4. r = Result("SUCCESS", Given(def, <<>>), Whole(args, Take(R, e)))
      BY <2>3, BehindPureToken DEF w
    <2> QED BY <2>1, <2>4 DEF TokenAt
  <1> QED BY <1>2, <1>3

(***************************************************************************)
(* The first inner definition of a ONEOF whose token is there decides.     *)
(***************************************************************************)
IsOneOfDef(def) ==
  /\ def.token = "" /\ def.type = "ONEOF" /\ def.is_optional
  /\ DOMAIN def.inner \subseteq Nat
  /\ \A i \in DOMAIN def.inner : IsInnerDef(def.inner[i])

Tried(def, iaa) == [i \in DOMAIN def.inner |-> ParseWithToken(def.inner[i], iaa, parse_plain)]

Deciding(def, iaa) == {i \in DOMAIN def.inner : Tried(def, iaa)[i].code # "TOKEN_MISMATCH"}

LEMMA OneOfByInner ==
  ASSUME NEW def, NEW iaa, IsOneOfDef(def)
  PROVE  /\ Deciding(def, iaa) = {} =>
              parse_command_argument(def, iaa) = Result("SUCCESS", NotGiven(def), iaa)
         /\ Deciding(def, iaa) # {} =>
              parse_command_argument(def, iaa) = Tried(def, iaa)[Min(Deciding(def, iaa))]
  <1>1. parse_command_argument(def, iaa) = parse_oneof(def, iaa)
    BY Zenon DEF IsOneOfDef, parse_command_argument, ParseWithToken, parse_argument
  <1>2. def.is_optional
    BY DEF IsOneOfDef
  <1>3. parse_oneof(def, iaa)
          = CASE Deciding(def, iaa) # {} -> Tried(def, iaa)[Min(Deciding(def, iaa))]
              [] Deciding(def, iaa) = {} /\ def.is_optional ->
                   Result("SUCCESS", NotGiven(def), iaa)
              [] OTHER -> Result("TYPE_MISMATCH", NotGiven(def), iaa)
    BY Zenon DEF parse_oneof, Deciding, Tried, NotGiven
  <1>4. CASE Deciding(def, iaa) = {}
    <2>1. parse_oneof(def, iaa) = Result("SUCCESS", NotGiven(def), iaa)
      BY <1>2, <1>3, <1>4, Zenon
    <2> QED BY <1>1, <1>4, <2>1
  <1>5. CASE Deciding(def, iaa) # {}
    <2>1. parse_oneof(def, iaa) = Tried(def, iaa)[Min(Deciding(def, iaa))]
      BY <1>3, <1>5, Zenon
    <2> QED BY <1>1, <1>5, <2>1
  <1> QED BY <1>4, <1>5

LEMMA OneOfOutcome ==
  ASSUME NEW def, NEW args, NEW R, Len(args) \in Nat, IsOneOfDef(def), NEW r,
         r = parse_command_argument(def, Whole(args, R))
  PROVE  \/ /\ \A i \in DOMAIN def.inner : Lacks(args, R, def.inner[i])
            /\ r = Result("SUCCESS", NotGiven(def), Whole(args, R))
         \/ \E i \in DOMAIN def.inner : \E e, t : Finds(def.inner[i], args, R, e, t, r)
         \/ \E i \in DOMAIN def.inner : \E e : Breaks(def.inner[i], args, R, e, r)
  <1> DEFINE iaa == Whole(args, R)
             tried == Tried(def, iaa)
             found == Deciding(def, iaa)
  <1>1. \A i \in DOMAIN def.inner :
          /\ IsInnerDef(def.inner[i])
          /\ tried[i] = ParseWithToken(def.inner[i], iaa, parse_plain)
    BY DEF IsOneOfDef, Tried
  <1>2. found = {i \in DOMAIN def.inner : tried[i].code # "TOKEN_MISMATCH"}
    BY DEF Deciding
  <1>3. \A i \in DOMAIN def.inner :
          \/ Lacks(args, R, def.inner[i]) /\ tried[i].code = "TOKEN_MISMATCH"
          \/ \E e, t : Finds(def.inner[i], args, R, e, t, tried[i])
          \/ \E e : Breaks(def.inner[i], args, R, e, tried[i])
    <2> HIDE DEF tried
    <2> QED BY <1>1, InnerOutcome
  <1>4. \A i \in DOMAIN def.inner : i \notin found => Lacks(args, R, def.inner[i])
    <2> SUFFICES ASSUME NEW i \in DOMAIN def.inner, tried[i].code = "TOKEN_MISMATCH"
                 PROVE  Lacks(args, R, def.inner[i])
      BY <1>2
    <2>1. ~ \E e, t : Finds(def.inner[i], args, R, e, t, tried[i])
      <3> SUFFICES ASSUME NEW e, NEW t, Finds(def.inner[i], args, R, e, t, tried[i]) PROVE FALSE
        OBVIOUS
      <3> HIDE DEF tried
      <3>1. tried[i].code = "SUCCESS"
        BY ResultFields DEF Finds
      <3> QED BY <3>1
    <2>2. ~ \E e : Breaks(def.inner[i], args, R, e, tried[i])
      BY DEF Breaks
    <2> QED BY <1>3, <2>1, <2>2
  <1>5. CASE found = {}
    <2>1. r = Result("SUCCESS", NotGiven(def), iaa)
      BY <1>5, OneOfByInner
    <2> QED BY <1>4, <1>5, <2>1
  <1>6. CASE found # {}
    <2> DEFINE m == Min(found)
    <2>1. found \subseteq Nat
      BY <1>2 DEF IsOneOfDef
    <2>2. m \in found
      <3> HIDE DEF found
      <3> QED BY <1>6, <2>1, MinIsLeast
    <2>3. r = tried[m]
      BY <1>6, OneOfByInner
    <2> HIDE DEF m, found, tried
    <2>4. m \in DOMAIN def.inner /\ tried[m].code # "TOKEN_MISMATCH"
      BY <1>2, <2>2
    <2> QED BY <1>3, <2>3, <2>4
  <1> QED BY <1>5, <1>6

(***************************************************************************)
(* The definitions in their order.                                         *)
(***************************************************************************)
Begin(args) == [code |-> "SUCCESS", outs |-> <<>>, iaa |-> iaa_create(args)]

NextArg(def, before) ==
  IF before.code # "SUCCESS" THEN before
  ELSE Collected(before.outs, parse_command_argument(def, before.iaa))

IsAfter(f, defs, args, n) ==
  f = [i \in 0 .. n |-> IF i = 0 THEN Begin(args) ELSE NextArg(defs[i], f[i - 1])]

LEMMA AfterExists ==
  ASSUME NEW defs, NEW args
  PROVE  \A n \in Nat : \E f : IsAfter(f, defs, args, n)
  <1> DEFINE T == {n \in Nat : \E f : IsAfter(f, defs, args, n)}
  <1>1. 0 \in T
    <2> DEFINE f == [i \in 0 .. 0 |-> Begin(args)]
    <2>1. \A i \in 0 .. 0 : i = 0
      OBVIOUS
    <2>2. f = [i \in 0 .. 0 |-> IF i = 0 THEN Begin(args) ELSE NextArg(defs[i], f[i - 1])]
      BY <2>1
    <2> HIDE DEF f
    <2>3. IsAfter(f, defs, args, 0)
      BY <2>2 DEF IsAfter
    <2> QED BY <2>3
  <1>2. ASSUME NEW n \in Nat, n \in T
        PROVE  n + 1 \in T
    <2>1. PICK f : IsAfter(f, defs, args, n)
      BY <1>2
    <2> DEFINE g == [i \in 0 .. n + 1 |->
                       IF i \in 0 .. n THEN f[i] ELSE NextArg(defs[i], f[i - 1])]
    <2>2. \A i \in 0 .. n : f[i] = IF i = 0 THEN Begin(args) ELSE NextArg(defs[i], f[i - 1])
      BY <2>1 DEF IsAfter
    <2>3. \A i \in 0 .. n + 1 : i = 0 \/ i - 1 \in 0 .. n
      OBVIOUS
    <2>4. \A i \in 0 .. n : i \in 0 .. n + 1 /\ g[i] = f[i]
      OBVIOUS
    <2>5. \A i \in 0 .. n + 1 : g[i] = IF i = 0 THEN Begin(args) ELSE NextArg(defs[i], g[i - 1])
      BY <2>2, <2>3, <2>4
    <2>6. g = [i \in 0 .. n + 1 |-> g[i]]
      OBVIOUS
    <2> HIDE DEF g
    <2>7. IsAfter(g, defs, args, n + 1)
      BY <2>5, <2>6 DEF IsAfter
    <2> QED BY <2>7
  <1> HIDE DEF T
  <1>3. \A n \in Nat : n \in T
    BY <1>1, <1>2, NatSetInduction
  <1> QED BY <1>3 DEF T

LEMMA ArgumentsInOrder ==
  ASSUME NEW defs, NEW args, Len(defs) \in Nat
  PROVE  \E f : /\ f[0] = Begin(args)
                /\ \A n \in 1 .. Len(defs) : f[n] = NextArg(defs[n], f[n - 1])
                /\ parse_command_arguments(defs, args) = NothingLeft(f[Len(defs)])
  <1> DEFINE f == CHOOSE g : IsAfter(g, defs, args, Len(defs))
  <1>1. IsAfter(f, defs, args, Len(defs))
    BY AfterExists
  <1>2. parse_command_arguments(defs, args) = NothingLeft(f[Len(defs)])
    BY Zenon DEF parse_command_arguments, IsAfter, Begin, NextArg
  <1> HIDE DEF f
  <1>3. f[0] = Begin(args)
    BY <1>1 DEF IsAfter
  <1>4. \A n \in 1 .. Len(defs) : n \in 0 .. Len(defs) /\ n # 0
    OBVIOUS
  <1>5. \A n \in 1 .. Len(defs) : f[n] = NextArg(defs[n], f[n - 1])
    BY <1>1, <1>4 DEF IsAfter
  <1> QED BY <1>2, <1>3, <1>5

So(outs, args, R) == [code |-> "SUCCESS", outs |-> outs, iaa |-> Whole(args, R)]

Fails(all) == all.code # "SUCCESS"

Succeeds(all, outs) == all.code = "SUCCESS" /\ all.outs = outs

LEMMA BeginSo ==
  ASSUME NEW args
  PROVE  Begin(args) = So(<<>>, args, {})
  BY DEF Begin, So, iaa_create, Whole

LEMMA NextSo ==
  ASSUME NEW def, NEW outs, NEW args, NEW R, NEW out, NEW U,
         parse_command_argument(def, Whole(args, R)) = Result("SUCCESS", out, Whole(args, U))
  PROVE  NextArg(def, So(outs, args, R)) = So(With(outs, out), args, U)
  <1> DEFINE b == So(outs, args, R)
             r == Result("SUCCESS", out, Whole(args, U))
  <1>1. b.code = "SUCCESS" /\ b.outs = outs /\ b.iaa = Whole(args, R)
    BY DEF So
  <1>2. r.code = "SUCCESS" /\ r.out = out /\ r.iaa = Whole(args, U)
    BY ResultFields
  <1> HIDE DEF b, r
  <1>3. NextArg(def, b) = Collected(outs, r)
    BY <1>1, Zenon DEF NextArg, r
  <1>4. Collected(outs, r) = So(With(outs, out), args, U)
    BY <1>2, Zenon DEF Collected, So, With
  <1> QED BY <1>3, <1>4 DEF b

LEMMA NextFails ==
  ASSUME NEW def, NEW outs, NEW args, NEW R,
         parse_command_argument(def, Whole(args, R)).code # "SUCCESS"
  PROVE  Fails(NextArg(def, So(outs, args, R)))
  <1> DEFINE b == So(outs, args, R)
             r == parse_command_argument(def, Whole(args, R))
  <1>1. b.code = "SUCCESS" /\ b.outs = outs /\ b.iaa = Whole(args, R)
    BY DEF So
  <1>2. NextArg(def, b) = Collected(outs, r)
    <2> HIDE DEF b
    <2> QED BY <1>1, Zenon DEF NextArg
  <1> HIDE DEF b, r
  <1>3. Collected(outs, r).code = r.code
    BY DEF Collected
  <1> QED BY <1>2, <1>3 DEF b, r, Fails

LEMMA NextStuck ==
  ASSUME NEW def, NEW before, Fails(before)
  PROVE  Fails(NextArg(def, before))
  BY DEF NextArg, Fails

LEMMA EndStuck ==
  ASSUME NEW all, Fails(all)
  PROVE  Fails(NothingLeft(all))
  BY DEF NothingLeft, Fails

LEMMA EndSo ==
  ASSUME NEW outs, NEW args, NEW R, Len(args) \in Nat
  PROVE  /\ Free(args, R) = {} => Succeeds(NothingLeft(So(outs, args, R)), outs)
         /\ Free(args, R) # {} => Fails(NothingLeft(So(outs, args, R)))
  <1> DEFINE b == So(outs, args, R)
  <1>1. b.code = "SUCCESS" /\ b.outs = outs /\ b.iaa = Whole(args, R)
    BY DEF So
  <1>2. Unresolved(b.iaa) = Free(args, R)
    BY <1>1, WholeFree
  <1>3. [b EXCEPT !.code = "TOO_MANY_ARGS"].code = "TOO_MANY_ARGS"
    BY DEF So
  <1> HIDE DEF b
  <1>4. CASE Free(args, R) = {}
    BY <1>1, <1>2, <1>4 DEF NothingLeft, Succeeds, b
  <1>5. CASE Free(args, R) # {}
    BY <1>1, <1>2, <1>3, <1>5 DEF NothingLeft, Fails, b
  <1> QED BY <1>4, <1>5

LEMMA FreeFirst ==
  ASSUME NEW args, Len(args) \in Nat
  PROVE  /\ Free(args, {}) = 1 .. Len(args) /\ Free(args, {1}) = 2 .. Len(args)
         /\ Free(args, {1, 2}) = 3 .. Len(args)
         /\ Take({}, 1) = {1} /\ Take({1}, 2) = {1, 2}
         /\ Len(args) >= 1 => 1 \in Free(args, {}) /\ 1 = Min(Free(args, {}))
         /\ Len(args) >= 2 => 2 \in Free(args, {1}) /\ 2 = Min(Free(args, {1}))
  <1>1. /\ Free(args, {}) = 1 .. Len(args) /\ Free(args, {1}) = 2 .. Len(args)
        /\ Free(args, {1, 2}) = 3 .. Len(args)
        /\ Take({}, 1) = {1} /\ Take({1}, 2) = {1, 2}
    BY DEF Free, Take
  <1>2. Len(args) >= 1 => 1 \in Free(args, {}) /\ 1 = Min(Free(args, {}))
    <2> DEFINE S == 1 .. Len(args)
    <2>1. S \subseteq Nat /\ \A j \in S : 1 <= j
      OBVIOUS
    <2>2. Len(args) >= 1 => 1 \in S
      OBVIOUS
    <2> HIDE DEF S
    <2>3. 1 \in S => Min(S) = 1
      BY <2>1, MinIs
    <2> QED BY <1>1, <2>2, <2>3 DEF S
  <1>3. Len(args) >= 2 => 2 \in Free(args, {1}) /\ 2 = Min(Free(args, {1}))
    <2> DEFINE S == 2 .. Len(args)
    <2>1. S \subseteq Nat /\ \A j \in S : 2 <= j
      OBVIOUS
    <2>2. Len(args) >= 2 => 2 \in S
      OBVIOUS
    <2> HIDE DEF S
    <2>3. 2 \in S => Min(S) = 2
      BY <2>1, MinIs
    <2> QED BY <1>1, <2>2, <2>3 DEF S
  <1> QED BY <1>1, <1>2, <1>3

(* A word of a command, which must be there. *)
IsWordDef(def) == IsValueDef(def) /\ ~def.is_optional /\ def.type = "STRING"

LEMMA WordSuits ==
  ASSUME NEW def, IsWordDef(def), NEW arg
  PROVE  Suits(def, arg) /\ Convert(def.type, arg) = arg /\ IsValueDef(def) /\ ~def.is_optional
  BY DEF IsWordDef, Suits, Convert

LEMMA FirstWord ==
  ASSUME NEW def, IsWordDef(def), NEW args, Len(args) \in Nat
  PROVE  /\ Len(args) = 0 => Fails(NextArg(def, Begin(args)))
         /\ Len(args) >= 1 => NextArg(def, Begin(args)) = So(<<Given(def, args[1])>>, args, {1})
  <1>1. CASE Len(args) = 0
    <2>1. Free(args, {}) = {}
      BY <1>1, FreeFirst
    <2>2. parse_command_argument(def, Whole(args, {})).code # "SUCCESS"
      BY <2>1, NoNextValue, WordSuits
    <2> QED BY <1>1, <2>2, BeginSo, NextFails
  <1>2. CASE Len(args) >= 1
    <2>1. 1 \in Free(args, {}) /\ 1 = Min(Free(args, {})) /\ Take({}, 1) = {1}
      BY <1>2, FreeFirst
    <2>2. parse_command_argument(def, Whole(args, {}))
            = Result("SUCCESS", Given(def, args[1]), Whole(args, {1}))
      <3>1. Suits(def, args[1]) /\ Convert(def.type, args[1]) = args[1] /\ IsValueDef(def)
        BY WordSuits
      <3>2. parse_command_argument(def, Whole(args, {}))
              = Result("SUCCESS", Given(def, Convert(def.type, args[1])), Whole(args, Take({}, 1)))
        BY <2>1, <3>1, NextValue
      <3> QED BY <2>1, <3>1, <3>2
    <2>3. NextArg(def, So(<<>>, args, {})) = So(With(<<>>, Given(def, args[1])), args, {1})
      BY <2>2, NextSo
    <2> QED BY <1>2, <2>3, BeginSo, WithOne
  <1> QED BY <1>1, <1>2

LEMMA SecondValue ==
  ASSUME NEW def, IsValueDef(def), ~def.is_optional, NEW outs, NEW args, Len(args) \in Nat
  PROVE  /\ Len(args) < 2 => Fails(NextArg(def, So(outs, args, {1})))
         /\ Len(args) >= 2 /\ ~Suits(def, args[2]) => Fails(NextArg(def, So(outs, args, {1})))
         /\ Len(args) >= 2 /\ Suits(def, args[2]) =>
              NextArg(def, So(outs, args, {1}))
                = So(With(outs, Given(def, Convert(def.type, args[2]))), args, {1, 2})
  <1>1. CASE Len(args) < 2
    <2>1. Free(args, {1}) = {}
      BY <1>1, FreeFirst
    <2>2. parse_command_argument(def, Whole(args, {1})).code # "SUCCESS"
      BY <2>1, NoNextValue
    <2> QED BY <1>1, <2>2, NextFails
  <1>2. CASE Len(args) >= 2
    <2>1. 2 \in Free(args, {1}) /\ 2 = Min(Free(args, {1})) /\ Take({1}, 2) = {1, 2}
      BY <1>2, FreeFirst
    <2>2. CASE Suits(def, args[2])
      <3>1. parse_command_argument(def, Whole(args, {1}))
              = Result("SUCCESS", Given(def, Convert(def.type, args[2])), Whole(args, {1, 2}))
        <4>1. parse_command_argument(def, Whole(args, {1}))
                = Result("SUCCESS", Given(def, Convert(def.type, args[2])),
                         Whole(args, Take({1}, 2)))
          BY <2>1, <2>2, NextValue
        <4> QED BY <2>1, <4>1
      <3> QED BY <1>2, <2>2, <3>1, NextSo
    <2>3. CASE ~Suits(def, args[2])
      <3>1. parse_command_argument(def, Whole(args, {1})).code # "SUCCESS"
        BY <2>1, <2>3, NextValueUnsuited
      <3> QED BY <1>2, <2>3, <3>1, NextFails
    <2> QED BY <1>2, <2>2, <2>3
  <1> QED BY <1>1, <1>2

(***************************************************************************)
(* What the parser makes of the arguments of each command.                 *)
(***************************************************************************)
KeyDef          == Arg("key", "STRING", FALSE, "")
MessageDef      == Arg("message", "STRING", TRUE, "")
NumberDef(name) == Arg(name, "INTEGER", FALSE, "")

LEMMA DefFields ==
  /\ IsWordDef(KeyDef) /\ IsValueDef(MessageDef) /\ MessageDef.is_optional
  /\ MessageDef.type = "STRING"
  /\ \A name : IsValueDef(NumberDef(name)) /\ ~NumberDef(name).is_optional
               /\ NumberDef(name).type = "INTEGER" /\ NumberDef(name).name = name
  BY DEF KeyDef, MessageDef, NumberDef, Arg, IsWordDef, IsValueDef

LEMMA GivenFields ==
  ASSUME NEW def, NEW value
  PROVE  /\ Given(def, value).present /\ Given(def, value).name = def.name
         /\ Given(def, value).value = value
         /\ ~NotGiven(def).present
  BY DEF Given, NotGiven, CommandArg

LEMMA NumberSuits ==
  ASSUME NEW name, NEW arg
  PROVE  /\ Suits(NumberDef(name), arg) <=> IsNumber(arg)
         /\ IsNumber(arg) => Convert(NumberDef(name).type, arg) = Value(arg)
  <1>1. NumberDef(name).type = "INTEGER"
    BY DefFields
  <1>2. Suits(NumberDef(name), arg) <=> IsNumber(arg)
    BY <1>1 DEF Suits
  <1>3. Convert("INTEGER", arg) = parse_int64(arg)
    BY DEF Convert
  <1> QED BY <1>1, <1>2, <1>3, NumberOrNot

LEMMA FreeAfter ==
  ASSUME NEW args, Len(args) \in Nat
  PROVE  /\ Free(args, {}) = {} <=> Len(args) = 0
         /\ Free(args, {1}) = {} <=> Len(args) <= 1
         /\ Free(args, {1, 2}) = {} <=> Len(args) <= 2
  <1>1. (1 .. Len(args) = {}) <=> Len(args) = 0
    <2>1. Len(args) # 0 => 1 \in 1 .. Len(args)
      OBVIOUS
    <2> QED BY <2>1
  <1>2. (2 .. Len(args) = {}) <=> Len(args) <= 1
    <2>1. ~(Len(args) <= 1) => 2 \in 2 .. Len(args)
      OBVIOUS
    <2> QED BY <2>1
  <1>3. (3 .. Len(args) = {}) <=> Len(args) <= 2
    <2>1. ~(Len(args) <= 2) => 3 \in 3 .. Len(args)
      OBVIOUS
    <2> QED BY <2>1
  <1> QED BY <1>1, <1>2, <1>3, FreeFirst

LEMMA InfoArguments ==
  ASSUME NEW args, Len(args) \in Nat
  PROVE  /\ Len(args) = 0 => Succeeds(parse_command_arguments(<<>>, args), <<>>)
         /\ Len(args) # 0 => Fails(parse_command_arguments(<<>>, args))
  <1>1. Len(<<>>) = 0 /\ 0 \in Nat
    OBVIOUS
  <1>2. PICK f : f[0] = Begin(args) /\ parse_command_arguments(<<>>, args) = NothingLeft(f[0])
    BY <1>1, ArgumentsInOrder
  <1>3. parse_command_arguments(<<>>, args) = NothingLeft(So(<<>>, args, {}))
    BY <1>2, BeginSo
  <1> QED BY <1>3, EndSo, FreeAfter

LEMMA OneArgument ==
  ASSUME NEW def, NEW args
  PROVE  parse_command_arguments(<<def>>, args) = NothingLeft(NextArg(def, Begin(args)))
  <1> DEFINE defs == <<def>>
  <1>1. Len(defs) = 1 /\ defs[1] = def
    OBVIOUS
  <1> HIDE DEF defs
  <1>2. PICK f : /\ f[0] = Begin(args)
                 /\ \A n \in 1 .. Len(defs) : f[n] = NextArg(defs[n], f[n - 1])
                 /\ parse_command_arguments(defs, args) = NothingLeft(f[Len(defs)])
    <2>1. Len(defs) \in Nat
      BY <1>1
    <2> QED BY <2>1, ArgumentsInOrder
  <1>3. f[1] = NextArg(def, f[0])
    <2>1. 1 \in 1 .. Len(defs) /\ 1 - 1 = 0
      BY <1>1
    <2> QED BY <1>1, <1>2, <2>1
  <1> QED BY <1>1, <1>2, <1>3 DEF defs

LEMMA TwoArguments ==
  ASSUME NEW def1, NEW def2, NEW args
  PROVE  parse_command_arguments(<<def1, def2>>, args)
           = NothingLeft(NextArg(def2, NextArg(def1, Begin(args))))
  <1> DEFINE defs == <<def1, def2>>
  <1>1. Len(defs) = 2 /\ defs[1] = def1 /\ defs[2] = def2
    OBVIOUS
  <1> HIDE DEF defs
  <1>2. PICK f : /\ f[0] = Begin(args)
                 /\ \A n \in 1 .. Len(defs) : f[n] = NextArg(defs[n], f[n - 1])
                 /\ parse_command_arguments(defs, args) = NothingLeft(f[Len(defs)])
    <2>1. Len(defs) \in Nat
      BY <1>1
    <2> QED BY <2>1, ArgumentsInOrder
  <1>3. f[1] = NextArg(def1, f[0]) /\ f[2] = NextArg(def2, f[1])
    <2>1. 1 \in 1 .. Len(defs) /\ 1 - 1 = 0 /\ 2 \in 1 .. Len(defs) /\ 2 - 1 = 1
      BY <1>1
    <2> QED BY <1>1, <1>2, <2>1
  <1> QED BY <1>1, <1>2, <1>3 DEF defs

LEMMA ThreeArguments ==
  ASSUME NEW def1, NEW def2, NEW def3, NEW args
  PROVE  parse_command_arguments(<<def1, def2, def3>>, args)
           = NothingLeft(NextArg(def3, NextArg(def2, NextArg(def1, Begin(args)))))
  <1> DEFINE defs == <<def1, def2, def3>>
  <1>1. Len(defs) = 3 /\ defs[1] = def1 /\ defs[2] = def2 /\ defs[3] = def3
    OBVIOUS
  <1> HIDE DEF defs
  <1>2. PICK f : /\ f[0] = Begin(args)
                 /\ \A n \in 1 .. Len(defs) : f[n] = NextArg(defs[n], f[n - 1])
                 /\ parse_command_arguments(defs, args) = NothingLeft(f[Len(defs)])
    <2>1. Len(defs) \in Nat
      BY <1>1
    <2> QED BY <2>1, ArgumentsInOrder
  <1>3. f[1] = NextArg(def1, f[0]) /\ f[2] = NextArg(def2, f[1]) /\ f[3] = NextArg(def3, f[2])
    <2>1. /\ 1 \in 1 .. Len(defs) /\ 1 - 1 = 0 /\ 2 \in 1 .. Len(defs) /\ 2 - 1 = 1
          /\ 3 \in 1 .. Len(defs) /\ 3 - 1 = 2
      BY <1>1
    <2> QED BY <1>1, <1>2, <2>1
  <1> QED BY <1>1, <1>2, <1>3 DEF defs

LEMMA FiveArguments ==
  ASSUME NEW def1, NEW def2, NEW def3, NEW def4, NEW def5, NEW args
  PROVE  parse_command_arguments(<<def1, def2, def3, def4, def5>>, args)
           = NothingLeft(NextArg(def5, NextArg(def4,
               NextArg(def3, NextArg(def2, NextArg(def1, Begin(args)))))))
  <1> DEFINE defs == <<def1, def2, def3, def4, def5>>
  <1>1. /\ Len(defs) = 5 /\ defs[1] = def1 /\ defs[2] = def2 /\ defs[3] = def3
        /\ defs[4] = def4 /\ defs[5] = def5
    OBVIOUS
  <1> HIDE DEF defs
  <1>2. PICK f : /\ f[0] = Begin(args)
                 /\ \A n \in 1 .. Len(defs) : f[n] = NextArg(defs[n], f[n - 1])
                 /\ parse_command_arguments(defs, args) = NothingLeft(f[Len(defs)])
    <2>1. Len(defs) \in Nat
      BY <1>1
    <2> QED BY <2>1, ArgumentsInOrder
  <1>3. /\ f[1] = NextArg(def1, f[0]) /\ f[2] = NextArg(def2, f[1]) /\ f[3] = NextArg(def3, f[2])
        /\ f[4] = NextArg(def4, f[3]) /\ f[5] = NextArg(def5, f[4])
    <2>1. /\ 1 \in 1 .. Len(defs) /\ 1 - 1 = 0 /\ 2 \in 1 .. Len(defs) /\ 2 - 1 = 1
          /\ 3 \in 1 .. Len(defs) /\ 3 - 1 = 2 /\ 4 \in 1 .. Len(defs) /\ 4 - 1 = 3
          /\ 5 \in 1 .. Len(defs) /\ 5 - 1 = 4
      BY <1>1
    <2> QED BY <1>1, <1>2, <2>1
  <1> QED BY <1>1, <1>2, <1>3 DEF defs

LEMMA EndAfter ==
  ASSUME NEW args, Len(args) \in Nat, NEW outs
  PROVE  /\ Len(args) <= 1 => Succeeds(NothingLeft(So(outs, args, {1})), outs)
         /\ Len(args) > 1 => Fails(NothingLeft(So(outs, args, {1})))
         /\ Len(args) <= 2 => Succeeds(NothingLeft(So(outs, args, {1, 2})), outs)
         /\ Len(args) > 2 => Fails(NothingLeft(So(outs, args, {1, 2})))
  <1>1. /\ Len(args) <= 1 => Free(args, {1}) = {}
        /\ Len(args) > 1 => Free(args, {1}) # {}
        /\ Len(args) <= 2 => Free(args, {1, 2}) = {}
        /\ Len(args) > 2 => Free(args, {1, 2}) # {}
    BY FreeAfter
  <1> QED BY <1>1, EndSo

LEMMA Lengths ==
  ASSUME NEW args, Len(args) \in Nat
  PROVE  /\ Len(args) > 1 => ~(Len(args) = 1)
         /\ Len(args) > 2 => ~(Len(args) = 2)
         /\ Len(args) >= 2 => Len(args) = 2 \/ Len(args) > 2
  <1> DEFINE n == Len(args)
  <1>1. n \in Nat
    OBVIOUS
  <1> HIDE DEF n
  <1>2. /\ n > 1 => ~(n = 1)
        /\ n > 2 => ~(n = 2)
        /\ n >= 2 => n = 2 \/ n > 2
    BY <1>1
  <1> QED BY <1>2 DEF n

LEMMA KeyArguments ==
  ASSUME NEW args, Len(args) \in Nat
  PROVE  /\ Len(args) = 1 => Succeeds(parse_command_arguments(KeyArg, args),
                                      <<Given(KeyDef, args[1])>>)
         /\ ~(Len(args) = 1) => Fails(parse_command_arguments(KeyArg, args))
  <1> DEFINE b == NextArg(KeyDef, Begin(args))
             outs == <<Given(KeyDef, args[1])>>
  <1>1. parse_command_arguments(KeyArg, args) = NothingLeft(b)
    BY OneArgument DEF KeyArg, KeyDef
  <1>2. /\ Len(args) = 0 => Fails(b)
        /\ Len(args) >= 1 => b = So(outs, args, {1})
    BY FirstWord, DefFields
  <1> HIDE DEF b, outs
  <1>3. CASE Len(args) = 0
    BY <1>1, <1>2, <1>3, EndStuck
  <1>4. CASE Len(args) = 1
    BY <1>1, <1>2, <1>4, EndAfter DEF outs
  <1>5. CASE Len(args) > 1
    <2>1. b = So(outs, args, {1})
      BY <1>2, <1>5
    <2>2. Fails(NothingLeft(So(outs, args, {1})))
      BY <1>5, EndAfter
    <2>3. ~(Len(args) = 1)
      BY <1>5, Lengths, Zenon
    <2> QED BY <1>1, <2>1, <2>2, <2>3, Zenon
  <1> QED BY <1>3, <1>4, <1>5

KeyAndNumber(args, name) == NextArg(NumberDef(name), NextArg(KeyDef, Begin(args)))

LEMMA KeyThenNumber ==
  ASSUME NEW args, Len(args) \in Nat, NEW name
  PROVE  /\ Len(args) < 2 \/ ~IsNumber(args[2]) => Fails(KeyAndNumber(args, name))
         /\ Len(args) >= 2 /\ IsNumber(args[2]) =>
              KeyAndNumber(args, name)
                = So(<<Given(KeyDef, args[1]), Given(NumberDef(name), Value(args[2]))>>, args, {1, 2})
  <1> DEFINE def == NumberDef(name)
             first == <<Given(KeyDef, args[1])>>
             b1 == NextArg(KeyDef, Begin(args))
             b2 == NextArg(def, b1)
  <1>1. /\ Len(args) = 0 => Fails(b1)
        /\ Len(args) >= 1 => b1 = So(first, args, {1})
    BY FirstWord, DefFields
  <1>2. IsValueDef(def) /\ ~def.is_optional
    BY DefFields
  <1>3. Suits(def, args[2]) <=> IsNumber(args[2])
    BY NumberSuits
  <1>4. IsNumber(args[2]) =>
          With(first, Given(def, Convert(def.type, args[2]))) = <<Given(KeyDef, args[1]), Given(def, Value(args[2]))>>
    BY NumberSuits, WithTwo
  <1> DEFINE outs == <<Given(KeyDef, args[1]), Given(def, Value(args[2]))>>
  <1> HIDE DEF first, b1, def
  <1>5. CASE Len(args) = 0
    <2>1. Fails(b2)
      BY <1>1, <1>5, NextStuck
    <2> QED BY <1>5, <2>1 DEF b1, def, KeyAndNumber
  <1>6. CASE Len(args) >= 1
    <2>1. b2 = NextArg(def, So(first, args, {1}))
      BY <1>1, <1>6
    <2>2. CASE Len(args) < 2 \/ ~IsNumber(args[2])
      <3>1. Fails(b2)
        <4>1. CASE Len(args) < 2
          BY <1>2, <2>1, <4>1, SecondValue
        <4>2. CASE Len(args) >= 2 /\ ~IsNumber(args[2])
          BY <1>2, <1>3, <2>1, <4>2, SecondValue
        <4> QED BY <2>2, <4>1, <4>2
      <3> QED BY <2>2, <3>1 DEF b1, def, KeyAndNumber
    <2>3. CASE Len(args) >= 2 /\ IsNumber(args[2])
      <3>1. b2 = So(With(first, Given(def, Convert(def.type, args[2]))), args, {1, 2})
        BY <1>2, <1>3, <2>1, <2>3, SecondValue
      <3>2. b2 = So(outs, args, {1, 2})
        BY <1>4, <2>3, <3>1
      <3> QED BY <2>3, <3>2 DEF b1, def, KeyAndNumber
    <2> QED BY <2>2, <2>3
  <1> QED BY <1>5, <1>6

LEMMA DeltaArguments ==
  ASSUME NEW args, Len(args) \in Nat, NEW name
  PROVE  /\ Len(args) = 2 /\ IsNumber(args[2]) =>
              Succeeds(parse_command_arguments(DeltaArg(name), args),
                       <<Given(KeyDef, args[1]), Given(NumberDef(name), Value(args[2]))>>)
         /\ ~(Len(args) = 2 /\ IsNumber(args[2])) =>
              Fails(parse_command_arguments(DeltaArg(name), args))
  <1> DEFINE p == parse_command_arguments(DeltaArg(name), args)
             b == KeyAndNumber(args, name)
             outs == <<Given(KeyDef, args[1]), Given(NumberDef(name), Value(args[2]))>>
  <1>1. p = NothingLeft(b)
    BY TwoArguments DEF DeltaArg, KeyDef, NumberDef, KeyAndNumber
  <1>2. /\ Len(args) < 2 \/ ~IsNumber(args[2]) => Fails(b)
        /\ Len(args) >= 2 /\ IsNumber(args[2]) => b = So(outs, args, {1, 2})
    BY KeyThenNumber
  <1> HIDE DEF b, outs, p
  <1>3. CASE Len(args) < 2 \/ ~IsNumber(args[2])
    <2>1. Fails(p)
      BY <1>1, <1>2, <1>3, EndStuck
    <2> QED BY <1>3, <2>1 DEF p
  <1>4. CASE Len(args) >= 2 /\ IsNumber(args[2])
    <2>1. b = So(outs, args, {1, 2})
      BY <1>2, <1>4
    <2>2. /\ Len(args) <= 2 => Succeeds(NothingLeft(So(outs, args, {1, 2})), outs)
          /\ Len(args) > 2 => Fails(NothingLeft(So(outs, args, {1, 2})))
      BY EndAfter
    <2>3. CASE Len(args) = 2
      <3>1. Succeeds(p, outs)
        BY <1>1, <2>1, <2>2, <2>3
      <3> QED BY <1>4, <2>3, <3>1 DEF p, outs
    <2>4. CASE Len(args) > 2
      <3>1. Fails(p)
        BY <1>1, <2>1, <2>2, <2>4
      <3>2. ~(Len(args) = 2)
        BY <2>4, Lengths, Zenon
      <3> QED BY <3>1, <3>2, Zenon DEF p
    <2>5. Len(args) = 2 \/ Len(args) > 2
      BY <1>4, Lengths, Zenon
    <2> QED BY <2>3, <2>4, <2>5, Zenon
  <1> QED BY <1>3, <1>4

LEMMA PingArguments ==
  ASSUME NEW args, Len(args) \in Nat
  PROVE  /\ Len(args) = 0 => Succeeds(parse_command_arguments(<<MessageDef>>, args),
                                      <<NotGiven(MessageDef)>>)
         /\ Len(args) = 1 => Succeeds(parse_command_arguments(<<MessageDef>>, args),
                                      <<Given(MessageDef, args[1])>>)
         /\ Len(args) > 1 => Fails(parse_command_arguments(<<MessageDef>>, args))
  <1> DEFINE def == MessageDef
             p == parse_command_arguments(<<def>>, args)
             b == NextArg(def, So(<<>>, args, {}))
             outs == <<Given(def, args[1])>>
  <1>1. p = NothingLeft(b)
    BY OneArgument, BeginSo
  <1>2. IsValueDef(def) /\ def.is_optional /\ def.type = "STRING"
    BY DefFields
  <1>3. Suits(def, args[1]) /\ Convert(def.type, args[1]) = args[1]
    BY <1>2 DEF Suits, Convert
  <1> HIDE DEF def
  <1>4. CASE Len(args) = 0
    <2>1. Free(args, {}) = {}
      BY <1>4, FreeAfter
    <2>2. parse_command_argument(def, Whole(args, {})) = Result("SUCCESS", NotGiven(def), Whole(args, {}))
      BY <1>2, <2>1, NoNextValue
    <2>3. b = So(<<NotGiven(def)>>, args, {})
      BY <2>2, NextSo, WithOne
    <2> HIDE DEF b, p
    <2>4. Succeeds(p, <<NotGiven(def)>>)
      BY <1>1, <2>1, <2>3, EndSo
    <2> QED BY <1>4, <2>4 DEF p, def
  <1>5. CASE Len(args) >= 1
    <2>1. 1 \in Free(args, {}) /\ 1 = Min(Free(args, {})) /\ Take({}, 1) = {1}
      BY <1>5, FreeFirst
    <2>2. parse_command_argument(def, Whole(args, {}))
            = Result("SUCCESS", Given(def, args[1]), Whole(args, {1}))
      <3>1. parse_command_argument(def, Whole(args, {}))
              = Result("SUCCESS", Given(def, Convert(def.type, args[1])), Whole(args, Take({}, 1)))
        BY <1>2, <1>3, <2>1, NextValue
      <3> QED BY <1>3, <2>1, <3>1
    <2>3. b = So(outs, args, {1})
      BY <2>2, NextSo, WithOne
    <2>4. /\ Len(args) <= 1 => Succeeds(NothingLeft(So(outs, args, {1})), outs)
          /\ Len(args) > 1 => Fails(NothingLeft(So(outs, args, {1})))
      <3> HIDE DEF outs
      <3> QED BY EndAfter
    <2> HIDE DEF outs, b, p
    <2>5. /\ Len(args) = 1 => Succeeds(p, outs)
          /\ Len(args) > 1 => Fails(p)
      BY <1>1, <2>3, <2>4
    <2> QED BY <1>5, <2>5 DEF outs, def, p
  <1> QED BY <1>4, <1>5

(***************************************************************************)
(* Tokens are words in capitals.                                           *)
(***************************************************************************)
LEMMA TokenIsUpper ==
  ASSUME NEW arg, NEW token, token # ""
  PROVE  str_eq_ci(arg, token) <=> Upper(arg) = token
  BY DEF str_eq_ci, Upper

AreTokens(names) == DOMAIN names \subseteq Nat /\ \A i \in DOMAIN names : names[i][2] # ""

ConditionDef(names) == OneOf("condition", TRUE, Conditions(names))

LEMMA ConditionFields ==
  ASSUME NEW names, AreTokens(names)
  PROVE  /\ IsOneOfDef(ConditionDef(names))
         /\ DOMAIN ConditionDef(names).inner = DOMAIN names
         /\ \A i \in DOMAIN names :
              /\ ConditionDef(names).inner[i].name = names[i][1]
              /\ ConditionDef(names).inner[i].token = names[i][2]
              /\ ConditionDef(names).inner[i].type = "PURE_TOKEN"
  <1> USE DEF AreTokens
  <1> DEFINE def == ConditionDef(names)
  <1>1. /\ def.token = "" /\ def.type = "ONEOF" /\ def.is_optional
        /\ def.inner = Conditions(names)
    BY DEF ConditionDef, OneOf
  <1>2. DOMAIN Conditions(names) = DOMAIN names
    BY DEF Conditions
  <1>3. ASSUME NEW i \in DOMAIN names
        PROVE  /\ Conditions(names)[i].name = names[i][1]
               /\ Conditions(names)[i].token = names[i][2]
               /\ Conditions(names)[i].type = "PURE_TOKEN"
               /\ ~Conditions(names)[i].is_optional
    BY DEF Conditions, Arg
  <1> HIDE DEF def
  <1>4. \A i \in DOMAIN names : IsInnerDef(Conditions(names)[i])
    BY <1>3 DEF IsInnerDef
  <1>5. IsOneOfDef(def)
    BY <1>1, <1>2, <1>4 DEF IsOneOfDef
  <1> QED BY <1>1, <1>2, <1>3, <1>5 DEF def

(* A condition is there or not; it never breaks. *)
NoCondition(names, args, R, r) ==
  /\ \A i \in DOMAIN names : \A j \in Free(args, R) : Upper(args[j]) # names[i][2]
  /\ r = Result("SUCCESS", NotGiven(ConditionDef(names)), Whole(args, R))

ConditionAt(names, args, R, r, i, e, a) ==
  /\ i \in DOMAIN names /\ e \in Free(args, R)
  /\ a.present /\ a.name = names[i][1] /\ Upper(args[e]) = names[i][2]
  /\ r = Result("SUCCESS", a, Whole(args, Take(R, e)))

LEMMA ConditionOutcome ==
  ASSUME NEW names, AreTokens(names), NEW args, NEW R, Len(args) \in Nat, NEW r,
         r = parse_command_argument(ConditionDef(names), Whole(args, R))
  PROVE  \/ NoCondition(names, args, R, r)
         \/ \E i, e, a : ConditionAt(names, args, R, r, i, e, a)
  <1> DEFINE def == ConditionDef(names)
  <1>1. /\ IsOneOfDef(def)
        /\ DOMAIN def.inner = DOMAIN names
        /\ \A i \in DOMAIN names :
              /\ def.inner[i].name = names[i][1]
              /\ def.inner[i].token = names[i][2]
              /\ def.inner[i].type = "PURE_TOKEN"
    BY ConditionFields
  <1> HIDE DEF def
  <1>11. \A i \in DOMAIN names : names[i][2] # ""
    BY DEF AreTokens
  <1>2. \A i \in DOMAIN names : \A j : IsAt(args, j, def.inner[i]) <=> Upper(args[j]) = names[i][2]
    BY <1>1, <1>11, TokenIsUpper DEF IsAt
  <1>3. CASE /\ \A i \in DOMAIN def.inner : Lacks(args, R, def.inner[i])
             /\ r = Result("SUCCESS", NotGiven(def), Whole(args, R))
    BY <1>1, <1>2, <1>3 DEF Lacks, def, NoCondition
  <1>4. CASE \E i \in DOMAIN def.inner : \E e, t : Finds(def.inner[i], args, R, e, t, r)
    <2>1. PICK i \in DOMAIN names : \E e, t : Finds(def.inner[i], args, R, e, t, r)
      BY <1>1, <1>4
    <2>2. PICK e, t : Finds(def.inner[i], args, R, e, t, r)
      BY <2>1
    <2> DEFINE a == Given(def.inner[i], <<>>)
    <2>3. /\ e \in Free(args, R) /\ IsAt(args, e, def.inner[i])
          /\ r = Result("SUCCESS", a, Whole(args, Take(R, e)))
      BY <1>1, <2>2 DEF Finds
    <2>4. a.present /\ a.name = names[i][1]
      BY <1>1 DEF Given, CommandArg
    <2> HIDE DEF a
    <2>5. Upper(args[e]) = names[i][2]
      BY <1>2, <2>3
    <2>6. ConditionAt(names, args, R, r, i, e, a)
      BY <2>3, <2>4, <2>5 DEF ConditionAt
    <2> QED BY <2>6
  <1>5. CASE \E i \in DOMAIN def.inner : \E e : Breaks(def.inner[i], args, R, e, r)
    BY <1>1, <1>5 DEF Breaks
  <1> QED BY <1>1, <1>3, <1>4, <1>5, OneOfOutcome DEF def

LEMMA WithThree ==
  ASSUME NEW a, NEW b, NEW c
  PROVE  With(<<a, b>>, c) = <<a, b, c>>
  BY AppendToTwo DEF With

ExpireNames == << <<"nx", "NX">>, <<"xx", "XX">>, <<"gt", "GT">>, <<"lt", "LT">> >>

LEMMA ExpireNamesAre ==
  /\ AreTokens(ExpireNames)
  /\ \A i \in DOMAIN ExpireNames :
       /\ ExpireNames[i][2] # "" /\ ExpireNames[i][2] \in {"NX", "XX", "GT", "LT"}
       /\ ExpireNames[i][1] = ConditionName[ExpireNames[i][2]]
  /\ \A w \in {"NX", "XX", "GT", "LT"} : \E i \in DOMAIN ExpireNames : ExpireNames[i][2] = w
  <1>1. DOMAIN ExpireNames = 1 .. 4 /\ DOMAIN ExpireNames \subseteq Nat
    BY DEF ExpireNames
  <1>2. /\ ExpireNames[1][1] = "nx" /\ ExpireNames[1][2] = "NX"
        /\ ExpireNames[2][1] = "xx" /\ ExpireNames[2][2] = "XX"
        /\ ExpireNames[3][1] = "gt" /\ ExpireNames[3][2] = "GT"
        /\ ExpireNames[4][1] = "lt" /\ ExpireNames[4][2] = "LT"
    BY DEF ExpireNames
  <1>3. /\ ConditionName["NX"] = "nx" /\ ConditionName["XX"] = "xx"
        /\ ConditionName["GT"] = "gt" /\ ConditionName["LT"] = "lt"
    BY DEF ConditionName
  <1>4. \A i \in 1 .. 4 : i \in {1, 2, 3, 4}
    OBVIOUS
  <1>5. {1, 2, 3, 4} \subseteq 1 .. 4
    OBVIOUS
  <1>6. \A i \in 1 .. 4 : /\ ExpireNames[i][2] # "" /\ ExpireNames[i][2] \in {"NX", "XX", "GT", "LT"}
                          /\ ExpireNames[i][1] = ConditionName[ExpireNames[i][2]]
    <2> SUFFICES ASSUME NEW i \in 1 .. 4
                 PROVE  /\ ExpireNames[i][2] # "" /\ ExpireNames[i][2] \in {"NX", "XX", "GT", "LT"}
                        /\ ExpireNames[i][1] = ConditionName[ExpireNames[i][2]]
      OBVIOUS
    <2>1. CASE i = 1
      BY <1>2, <1>3, <2>1
    <2>2. CASE i = 2
      BY <1>2, <1>3, <2>2
    <2>3. CASE i = 3
      BY <1>2, <1>3, <2>3
    <2>4. CASE i = 4
      BY <1>2, <1>3, <2>4
    <2> QED BY <1>4, <2>1, <2>2, <2>3, <2>4
  <1>7. \A w \in {"NX", "XX", "GT", "LT"} : \E i \in {1, 2, 3, 4} : ExpireNames[i][2] = w
    BY <1>2
  <1>8. \A w \in {"NX", "XX", "GT", "LT"} : \E i \in 1 .. 4 : ExpireNames[i][2] = w
    BY <1>5, <1>7, Zenon
  <1> QED BY <1>1, <1>6, <1>8 DEF AreTokens

(* The condition of an EXPIRE, as its handler sees it. *)
ExpireCondition(args, a) ==
  \/ Len(args) = 2 /\ ~a.present
  \/ /\ Len(args) = 3 /\ a.present /\ Upper(args[3]) \in {"NX", "XX", "GT", "LT"}
     /\ a.name = ConditionName[Upper(args[3])]

LEMMA ThirdFree ==
  ASSUME NEW args, Len(args) \in Nat, NEW e \in Free(args, {1, 2})
  PROVE  /\ e \in 3 .. Len(args) /\ Len(args) > 2
         /\ Len(args) = 3 => e = 3
         /\ Free(args, Take({1, 2}, e)) = {} <=> Len(args) = 3
  <1> DEFINE n == Len(args)
             U == Free(args, Take({1, 2}, e))
  <1>1. n \in Nat /\ Free(args, {1, 2}) = 3 .. n
    BY FreeFirst
  <1>2. U = (3 .. n) \ {e}
    BY <1>1, FreeTake
  <1>3. e \in 3 .. n
    BY <1>1
  <1> HIDE DEF n, U
  <1>4. e \in Int /\ n > 2 /\ (n = 3 => e = 3)
    BY <1>1, <1>3
  <1>5. n = 3 => U = {}
    BY <1>2, <1>3
  <1>6. n > 3 => U # {}
    <2>1. n > 3 => 3 \in 3 .. n /\ 4 \in 3 .. n
      BY <1>1
    <2>2. 3 # e \/ 4 # e
      OBVIOUS
    <2> QED BY <1>2, <2>1, <2>2
  <1>7. n = 3 \/ (n > 3 /\ ~(n = 3))
    BY <1>1, <1>4
  <1> QED BY <1>3, <1>4, <1>5, <1>6, <1>7 DEF n, U

LEMMA ExpireArguments ==
  ASSUME NEW args, Len(args) \in Nat, NEW p, p = parse_command_arguments(ExpireArgs, args)
  PROVE  /\ \/ Fails(p)
            \/ \E a : /\ Succeeds(p, <<Given(KeyDef, args[1]),
                                       Given(NumberDef("seconds"), Value(args[2])), a>>)
                      /\ ExpireCondition(args, a)
                      /\ IsNumber(args[2])
         /\ Len(args) >= 2 /\ IsNumber(args[2])
            /\ (Len(args) = 2 \/ (Len(args) = 3 /\ Upper(args[3]) \in {"NX", "XX", "GT", "LT"}))
            => ~Fails(p)
  <1> DEFINE b == KeyAndNumber(args, "seconds")
             k == Given(KeyDef, args[1])
             s == Given(NumberDef("seconds"), Value(args[2]))
             def == ConditionDef(ExpireNames)
             R == {1, 2}
  <1>1. p = NothingLeft(NextArg(def, b))
    BY ThreeArguments DEF ExpireArgs, KeyDef, NumberDef, KeyAndNumber, ConditionDef, ExpireNames
  <1>2. /\ Len(args) < 2 \/ ~IsNumber(args[2]) => Fails(b)
        /\ Len(args) >= 2 /\ IsNumber(args[2]) => b = So(<<k, s>>, args, R)
    BY KeyThenNumber
  <1> HIDE DEF b, k, s, def
  <1>3. CASE Len(args) < 2 \/ ~IsNumber(args[2])
    <2>1. Fails(p)
      BY <1>1, <1>2, <1>3, NextStuck, EndStuck
    <2>2. ~(Len(args) >= 2 /\ IsNumber(args[2]))
      BY <1>3
    <2> QED BY <2>1, <2>2
  <1>4. CASE Len(args) >= 2 /\ IsNumber(args[2])
    <2> DEFINE r == parse_command_argument(def, Whole(args, R))
    <2> HIDE DEF r
    <2>1. b = So(<<k, s>>, args, R)
      BY <1>2, <1>4
    <2>2. \A out, U : r = Result("SUCCESS", out, Whole(args, U)) =>
            /\ Free(args, U) = {} => Succeeds(p, <<k, s, out>>)
            /\ Free(args, U) # {} => Fails(p)
      <3> SUFFICES ASSUME NEW out, NEW U, r = Result("SUCCESS", out, Whole(args, U))
                   PROVE  /\ Free(args, U) = {} => Succeeds(p, <<k, s, out>>)
                          /\ Free(args, U) # {} => Fails(p)
        OBVIOUS
      <3> DEFINE outs == <<k, s, out>>
      <3>1. NextArg(def, b) = So(With(<<k, s>>, out), args, U)
        <4> HIDE DEF R
        <4> QED BY <2>1, NextSo DEF r
      <3>2. NextArg(def, b) = So(outs, args, U)
        BY <3>1, WithThree
      <3> HIDE DEF outs
      <3>3. /\ Free(args, U) = {} => Succeeds(p, outs)
            /\ Free(args, U) # {} => Fails(p)
        BY <1>1, <3>2, EndSo
      <3> QED BY <3>3 DEF outs
    <2>3. \/ NoCondition(ExpireNames, args, R, r)
          \/ \E i, e, a : ConditionAt(ExpireNames, args, R, r, i, e, a)
      <3> HIDE DEF R
      <3>1. r = parse_command_argument(ConditionDef(ExpireNames), Whole(args, R))
        BY DEF r, def
      <3> QED BY <3>1, ExpireNamesAre, ConditionOutcome
    <2>4. CASE NoCondition(ExpireNames, args, R, r)
      <3>1. /\ Free(args, R) = {} => Succeeds(p, <<k, s, NotGiven(def)>>)
            /\ Free(args, R) # {} => Fails(p)
        BY <2>2, <2>4 DEF NoCondition, def
      <3>2. Free(args, R) = {} <=> Len(args) <= 2
        BY FreeAfter
      <3>3. CASE Len(args) = 2
        <4>1. ~NotGiven(def).present
          BY GivenFields
        <4>2. ExpireCondition(args, NotGiven(def))
          BY <3>3, <4>1 DEF ExpireCondition
        <4>3. Succeeds(p, <<k, s, NotGiven(def)>>)
          BY <3>1, <3>2, <3>3
        <4>4. ~Fails(p)
          BY <4>3 DEF Succeeds, Fails
        <4> QED BY <1>4, <4>2, <4>3, <4>4 DEF k, s
      <3>4. CASE Len(args) > 2
        <4>1. Fails(p)
          BY <3>1, <3>2, <3>4
        <4>2. ~(Len(args) = 2)
          BY <3>4, Lengths, Zenon
        <4>3. ~(Len(args) = 3 /\ Upper(args[3]) \in {"NX", "XX", "GT", "LT"})
          <5> SUFFICES ASSUME Len(args) = 3, Upper(args[3]) \in {"NX", "XX", "GT", "LT"} PROVE FALSE
            OBVIOUS
          <5>1. 3 \in Free(args, R)
            BY FreeFirst
          <5>2. PICK i \in DOMAIN ExpireNames : ExpireNames[i][2] = Upper(args[3])
            BY ExpireNamesAre
          <5> QED BY <2>4, <5>1, <5>2 DEF NoCondition
        <4> QED BY <4>1, <4>2, <4>3
      <3>5. Len(args) = 2 \/ Len(args) > 2
        BY <1>4, Lengths, Zenon
      <3> QED BY <3>3, <3>4, <3>5
    <2>5. CASE \E i, e, a : ConditionAt(ExpireNames, args, R, r, i, e, a)
      <3>1. PICK i, e, a : ConditionAt(ExpireNames, args, R, r, i, e, a)
        BY <2>5
      <3>2. i \in DOMAIN ExpireNames /\ e \in Free(args, R)
        BY <3>1 DEF ConditionAt
      <3>3. /\ a.present /\ a.name = ExpireNames[i][1] /\ Upper(args[e]) = ExpireNames[i][2]
            /\ r = Result("SUCCESS", a, Whole(args, Take(R, e)))
        BY <3>1 DEF ConditionAt
      <3>4. /\ Len(args) > 2
            /\ Len(args) = 3 => e = 3
            /\ Free(args, Take(R, e)) = {} <=> Len(args) = 3
        BY <3>2, ThirdFree
      <3>5. ~(Len(args) = 2)
        BY <3>4, Lengths, Zenon
      <3>6. /\ Free(args, Take(R, e)) = {} => Succeeds(p, <<k, s, a>>)
            /\ Free(args, Take(R, e)) # {} => Fails(p)
        <4> HIDE DEF R
        <4> QED BY <2>2, <3>3
      <3>7. CASE Len(args) = 3
        <4>1. Succeeds(p, <<k, s, a>>)
          BY <3>4, <3>6, <3>7
        <4>2. ExpireCondition(args, a)
          <5>1. Upper(args[3]) = ExpireNames[i][2] /\ a.name = ExpireNames[i][1]
            BY <3>3, <3>4, <3>7
          <5>2. /\ ExpireNames[i][2] \in {"NX", "XX", "GT", "LT"}
                /\ ExpireNames[i][1] = ConditionName[ExpireNames[i][2]]
            BY <3>2, ExpireNamesAre
          <5> QED BY <3>3, <3>7, <5>1, <5>2 DEF ExpireCondition
        <4>3. ~Fails(p)
          BY <4>1 DEF Succeeds, Fails
        <4> QED BY <1>4, <4>1, <4>2, <4>3 DEF k, s
      <3>8. CASE ~(Len(args) = 3)
        BY <3>4, <3>5, <3>6, <3>8
      <3> QED BY <3>7, <3>8
    <2> QED BY <2>3, <2>4, <2>5
  <1>5. (Len(args) < 2 \/ ~IsNumber(args[2])) \/ (Len(args) >= 2 /\ IsNumber(args[2]))
    OBVIOUS
  <1> QED BY <1>3, <1>4, <1>5

(***************************************************************************)
(* SET.  Its options are taken one after the other from the set of places  *)
(* that are left; a place 0 stands for an option that is not given.        *)
(***************************************************************************)
SetValueDef   == Arg("value", "STRING", FALSE, "")
GetDef        == Arg("get", "PURE_TOKEN", TRUE, "GET")
SetNames      == << <<"nx", "NX">>, <<"xx", "XX">> >>
ExpirationDef == SetArgs[5]

SetTokens  == {"NX", "XX"}
TimeTokens == {"EX", "PX", "EXAT", "PXAT"}

LEMMA SetNamesAre ==
  /\ AreTokens(SetNames)
  /\ \A i \in DOMAIN SetNames :
       \/ SetNames[i][1] = "nx" /\ SetNames[i][2] = "NX"
       \/ SetNames[i][1] = "xx" /\ SetNames[i][2] = "XX"
  /\ \A w \in SetTokens : \E i \in DOMAIN SetNames : SetNames[i][2] = w
  <1>1. DOMAIN SetNames = 1 .. 2 /\ DOMAIN SetNames \subseteq Nat
    BY DEF SetNames
  <1>2. /\ SetNames[1][1] = "nx" /\ SetNames[1][2] = "NX"
        /\ SetNames[2][1] = "xx" /\ SetNames[2][2] = "XX"
    BY DEF SetNames
  <1>3. \A i \in 1 .. 2 : i = 1 \/ i = 2
    OBVIOUS
  <1>4. 1 \in 1 .. 2 /\ 2 \in 1 .. 2
    OBVIOUS
  <1>5. \A i \in DOMAIN SetNames :
          \/ SetNames[i][1] = "nx" /\ SetNames[i][2] = "NX"
          \/ SetNames[i][1] = "xx" /\ SetNames[i][2] = "XX"
    BY <1>1, <1>2, <1>3
  <1>6. \A w \in SetTokens : \E i \in DOMAIN SetNames : SetNames[i][2] = w
    BY <1>1, <1>2, <1>4 DEF SetTokens
  <1>7. AreTokens(SetNames)
    BY <1>1, <1>5 DEF AreTokens
  <1> QED BY <1>5, <1>6, <1>7

(* The units of an expiration: the name the handler looks at, its token.   *)
IsTime(name, token) ==
  \/ name = "seconds" /\ token = "EX"
  \/ name = "milliseconds" /\ token = "PX"
  \/ name = "unix-time-seconds" /\ token = "EXAT"
  \/ name = "unix-time-milliseconds" /\ token = "PXAT"

IsUnit(def) ==
  \/ def.type \in {"INTEGER", "UNIX_TIME"} /\ IsTime(def.name, def.token)
  \/ def.type = "PURE_TOKEN" /\ def.name = "keepttl" /\ def.token = "KEEPTTL"

LEMMA ExpirationFields ==
  /\ IsOneOfDef(ExpirationDef)
  /\ \A i \in DOMAIN ExpirationDef.inner : IsUnit(ExpirationDef.inner[i])
  /\ \A w \in TimeTokens \cup {"KEEPTTL"} :
       \E i \in DOMAIN ExpirationDef.inner : ExpirationDef.inner[i].token = w
  <1> DEFINE inner == << Arg("seconds", "INTEGER", FALSE, "EX"),
                         Arg("milliseconds", "INTEGER", FALSE, "PX"),
                         Arg("unix-time-seconds", "UNIX_TIME", FALSE, "EXAT"),
                         Arg("unix-time-milliseconds", "UNIX_TIME", FALSE, "PXAT"),
                         Arg("keepttl", "PURE_TOKEN", FALSE, "KEEPTTL") >>
             def == OneOf("expiration", TRUE, inner)
  <1>1. ExpirationDef = def
    BY DEF ExpirationDef, SetArgs
  <1>2. /\ def.token = "" /\ def.type = "ONEOF" /\ def.is_optional /\ def.inner = inner
    <2> HIDE DEF inner
    <2> QED BY DEF OneOf
  <1>3. DOMAIN inner = 1 .. 5
    OBVIOUS
  <1>4. /\ inner[1] = Arg("seconds", "INTEGER", FALSE, "EX")
        /\ inner[2] = Arg("milliseconds", "INTEGER", FALSE, "PX")
        /\ inner[3] = Arg("unix-time-seconds", "UNIX_TIME", FALSE, "EXAT")
        /\ inner[4] = Arg("unix-time-milliseconds", "UNIX_TIME", FALSE, "PXAT")
        /\ inner[5] = Arg("keepttl", "PURE_TOKEN", FALSE, "KEEPTTL")
    OBVIOUS
  <1> HIDE DEF inner, def
  <1>5. /\ inner[1].token = "EX" /\ inner[2].token = "PX" /\ inner[3].token = "EXAT"
        /\ inner[4].token = "PXAT" /\ inner[5].token = "KEEPTTL"
    BY <1>4 DEF Arg
  <1>6. ASSUME NEW i \in 1 .. 5 PROVE IsInnerDef(inner[i]) /\ IsUnit(inner[i])
    <2>1. CASE i = 1
      <3>1. /\ inner[1].name = "seconds" /\ inner[1].type = "INTEGER"
            /\ inner[1].token = "EX" /\ ~inner[1].is_optional
        BY <1>4 DEF Arg
      <3> QED BY <2>1, <3>1 DEF IsInnerDef, IsUnit, IsTime
    <2>2. CASE i = 2
      <3>1. /\ inner[2].name = "milliseconds" /\ inner[2].type = "INTEGER"
            /\ inner[2].token = "PX" /\ ~inner[2].is_optional
        BY <1>4 DEF Arg
      <3> QED BY <2>2, <3>1 DEF IsInnerDef, IsUnit, IsTime
    <2>3. CASE i = 3
      <3>1. /\ inner[3].name = "unix-time-seconds" /\ inner[3].type = "UNIX_TIME"
            /\ inner[3].token = "EXAT" /\ ~inner[3].is_optional
        BY <1>4 DEF Arg
      <3> QED BY <2>3, <3>1 DEF IsInnerDef, IsUnit, IsTime
    <2>4. CASE i = 4
      <3>1. /\ inner[4].name = "unix-time-milliseconds" /\ inner[4].type = "UNIX_TIME"
            /\ inner[4].token = "PXAT" /\ ~inner[4].is_optional
        BY <1>4 DEF Arg
      <3> QED BY <2>4, <3>1 DEF IsInnerDef, IsUnit, IsTime
    <2>5. CASE i = 5
      <3>1. /\ inner[5].name = "keepttl" /\ inner[5].type = "PURE_TOKEN"
            /\ inner[5].token = "KEEPTTL" /\ ~inner[5].is_optional
        BY <1>4 DEF Arg
      <3> QED BY <2>5, <3>1 DEF IsInnerDef, IsUnit, IsTime
    <2> QED BY <2>1, <2>2, <2>3, <2>4, <2>5
  <1>7. {1, 2, 3, 4, 5} \subseteq 1 .. 5
    OBVIOUS
  <1>8. \A w \in TimeTokens \cup {"KEEPTTL"} : \E i \in {1, 2, 3, 4, 5} : inner[i].token = w
    BY <1>5 DEF TimeTokens
  <1>9. IsOneOfDef(def)
    <2>1. DOMAIN inner \subseteq Nat
      BY <1>3
    <2> QED BY <1>2, <1>3, <1>6, <2>1 DEF IsOneOfDef
  <1> QED BY <1>1, <1>2, <1>3, <1>6, <1>7, <1>8, <1>9

(* What was read of the places U as a condition at c, GET at g and an      *)
(* expiration at e with its time at t.                                     *)
ConditionRead(args, U, c, a) ==
  \/ c = 0 /\ ~a.present /\ \A j \in U : Upper(args[j]) \notin SetTokens
  \/ /\ c \in U /\ a.present
     /\ \/ a.name = "nx" /\ Upper(args[c]) = "NX"
        \/ a.name = "xx" /\ Upper(args[c]) = "XX"

GetRead(args, U, g, a) ==
  \/ g = 0 /\ ~a.present /\ \A j \in U : Upper(args[j]) # "GET"
  \/ g \in U /\ a.present /\ Upper(args[g]) = "GET"

ExpirationRead(args, U, e, t, a) ==
  \/ /\ e = 0 /\ t = 0 /\ ~a.present
     /\ \A j \in U : Upper(args[j]) \notin TimeTokens \cup {"KEEPTTL"}
  \/ /\ e \in U /\ t = 0 /\ a.present /\ a.name = "keepttl" /\ Upper(args[e]) = "KEEPTTL"
  \/ /\ e \in U /\ t \in U /\ t > e /\ a.present
     /\ IsTime(a.name, Upper(args[e])) /\ a.value = Value(args[t])

ExpirationBreaks(args, U) ==
  \E e \in U : /\ Upper(args[e]) \in TimeTokens
               /\ \/ \A j \in U : ~(j > e)
                  \/ \E j \in U : j > e /\ ~IsNumber(args[j])

LEMMA SetCondition ==
  ASSUME NEW args, NEW R, Len(args) \in Nat
  PROVE  \E c, a : /\ ConditionRead(args, Free(args, R), c, a)
                   /\ parse_command_argument(ConditionDef(SetNames), Whole(args, R))
                        = Result("SUCCESS", a, Whole(args, Take(R, c)))
  <1> DEFINE r == parse_command_argument(ConditionDef(SetNames), Whole(args, R))
             none == NotGiven(ConditionDef(SetNames))
  <1> HIDE DEF r, none
  <1>1. \/ NoCondition(SetNames, args, R, r)
        \/ \E i, e, a : ConditionAt(SetNames, args, R, r, i, e, a)
    BY SetNamesAre, ConditionOutcome DEF r
  <1>2. CASE NoCondition(SetNames, args, R, r)
    <2>1. \A j \in Free(args, R) : Upper(args[j]) \notin SetTokens
      BY <1>2, SetNamesAre DEF NoCondition
    <2>2. r = Result("SUCCESS", none, Whole(args, Take(R, 0)))
      BY <1>2 DEF NoCondition, none, Take
    <2>3. ~none.present
      BY GivenFields DEF none
    <2>4. ConditionRead(args, Free(args, R), 0, none)
      BY <2>1, <2>3 DEF ConditionRead
    <2> QED BY <2>2, <2>4 DEF r
  <1>3. CASE \E i, e, a : ConditionAt(SetNames, args, R, r, i, e, a)
    <2>1. PICK i, e, a : ConditionAt(SetNames, args, R, r, i, e, a)
      BY <1>3
    <2>2. /\ i \in DOMAIN SetNames /\ e \in Free(args, R)
          /\ a.present /\ a.name = SetNames[i][1] /\ Upper(args[e]) = SetNames[i][2]
          /\ r = Result("SUCCESS", a, Whole(args, Take(R, e)))
      BY <2>1 DEF ConditionAt
    <2>3. ConditionRead(args, Free(args, R), e, a)
      BY <2>2, SetNamesAre DEF ConditionRead
    <2> QED BY <2>2, <2>3 DEF r
  <1> QED BY <1>1, <1>2, <1>3

LEMMA SetGet ==
  ASSUME NEW args, NEW R, Len(args) \in Nat
  PROVE  \E g, a : /\ GetRead(args, Free(args, R), g, a)
                   /\ parse_command_argument(GetDef, Whole(args, R))
                        = Result("SUCCESS", a, Whole(args, Take(R, g)))
  <1> DEFINE r == parse_command_argument(GetDef, Whole(args, R))
             none == NotGiven(GetDef)
             some == Given(GetDef, <<>>)
  <1>1. GetDef.token = "GET" /\ GetDef.is_optional /\ GetDef.type = "PURE_TOKEN"
    BY DEF GetDef, Arg
  <1>2. \A j : IsAt(args, j, GetDef) <=> Upper(args[j]) = "GET"
    BY <1>1, TokenIsUpper DEF IsAt
  <1>3. ~none.present /\ some.present
    BY DEF Given, NotGiven, CommandArg
  <1> HIDE DEF r, none, some
  <1>4. NoToken(GetDef, args, R, r) \/ \E e : TokenAt(GetDef, args, R, r, e)
    <2>1. GetDef.token # ""
      BY <1>1
    <2>2. r = parse_command_argument(GetDef, Whole(args, R))
      BY DEF r
    <2> QED BY <1>1, <2>1, <2>2, PureTokenOutcome, Zenon
  <1>5. CASE NoToken(GetDef, args, R, r)
    <2>1. GetRead(args, Free(args, R), 0, none)
      BY <1>2, <1>3, <1>5 DEF GetRead, Lacks, NoToken
    <2>2. r = Result("SUCCESS", none, Whole(args, Take(R, 0)))
      BY <1>5 DEF Take, NoToken, none
    <2> QED BY <2>1, <2>2 DEF r
  <1>6. CASE \E e : TokenAt(GetDef, args, R, r, e)
    <2>0. PICK e : TokenAt(GetDef, args, R, r, e)
      BY <1>6
    <2>1. /\ e \in Free(args, R) /\ IsAt(args, e, GetDef)
          /\ r = Result("SUCCESS", some, Whole(args, Take(R, e)))
      BY <2>0 DEF TokenAt, some
    <2>2. GetRead(args, Free(args, R), e, some)
      BY <1>2, <1>3, <2>1 DEF GetRead
    <2> QED BY <2>1, <2>2 DEF r
  <1> QED BY <1>4, <1>5, <1>6

LEMMA TimeConverted ==
  ASSUME NEW def, NEW arg, def.type \in {"INTEGER", "UNIX_TIME"}, Suits(def, arg)
  PROVE  Convert(def.type, arg) = Value(arg)
  <1>1. CASE def.type = "INTEGER"
    <2>1. IsNumber(arg) /\ Convert(def.type, arg) = parse_int64(arg)
      BY <1>1 DEF Suits, Convert
    <2> QED BY <2>1, NumberOrNot
  <1>2. CASE def.type = "UNIX_TIME"
    <2>1. Convert(def.type, arg) = strtoll(arg)
      BY <1>2 DEF Convert
    <2> QED BY <2>1, NumberOrNot
  <1> QED BY <1>1, <1>2

LEMMA SetExpiration ==
  ASSUME NEW args, NEW R, Len(args) \in Nat, NEW r,
         r = parse_command_argument(ExpirationDef, Whole(args, R))
  PROVE  \/ r.code # "SUCCESS" /\ ExpirationBreaks(args, Free(args, R))
         \/ \E e, t, a : /\ ExpirationRead(args, Free(args, R), e, t, a)
                         /\ r = Result("SUCCESS", a, Whole(args, Take(Take(R, e), t)))
  <1> DEFINE def == ExpirationDef
             U == Free(args, R)
  <1>1. /\ IsOneOfDef(def)
        /\ \A i \in DOMAIN def.inner : IsUnit(def.inner[i])
        /\ \A w \in TimeTokens \cup {"KEEPTTL"} : \E i \in DOMAIN def.inner : def.inner[i].token = w
    BY ExpirationFields
  <1> HIDE DEF def
  <1>2. \A i \in DOMAIN def.inner : \A j : IsAt(args, j, def.inner[i]) <=> Upper(args[j]) = def.inner[i].token
    <2>1. \A i \in DOMAIN def.inner : def.inner[i].token # ""
      BY <1>1 DEF IsOneOfDef, IsInnerDef
    <2> QED BY <2>1, TokenIsUpper DEF IsAt
  <1>3. \/ /\ \A i \in DOMAIN def.inner : Lacks(args, R, def.inner[i])
           /\ r = Result("SUCCESS", NotGiven(def), Whole(args, R))
        \/ \E i \in DOMAIN def.inner : \E e, t : Finds(def.inner[i], args, R, e, t, r)
        \/ \E i \in DOMAIN def.inner : \E e : Breaks(def.inner[i], args, R, e, r)
    BY <1>1, OneOfOutcome DEF def
  <1>4. CASE /\ \A i \in DOMAIN def.inner : Lacks(args, R, def.inner[i])
             /\ r = Result("SUCCESS", NotGiven(def), Whole(args, R))
    <2> DEFINE a == NotGiven(def)
    <2>1. ~a.present
      BY GivenFields
    <2>2. \A j \in U : Upper(args[j]) \notin TimeTokens \cup {"KEEPTTL"}
      BY <1>1, <1>2, <1>4 DEF Lacks
    <2> HIDE DEF a
    <2>3. ExpirationRead(args, U, 0, 0, a)
      BY <2>1, <2>2 DEF ExpirationRead
    <2>4. Take(Take(R, 0), 0) = R
      BY DEF Take
    <2>5. r = Result("SUCCESS", a, Whole(args, Take(Take(R, 0), 0)))
      BY <1>4, <2>4 DEF a
    <2> QED BY <2>3, <2>5
  <1>5. CASE \E i \in DOMAIN def.inner : \E e, t : Finds(def.inner[i], args, R, e, t, r)
    <2>1. PICK i \in DOMAIN def.inner : \E e, t : Finds(def.inner[i], args, R, e, t, r)
      BY <1>5
    <2>2. PICK e, t : Finds(def.inner[i], args, R, e, t, r)
      BY <2>1
    <2> DEFINE d == def.inner[i]
    <2>3. e \in U /\ Upper(args[e]) = d.token /\ IsUnit(d)
      BY <1>1, <1>2, <2>1, <2>2 DEF Finds
    <2> HIDE DEF d
    <2>4. CASE /\ d.type = "PURE_TOKEN" /\ t = 0
               /\ r = Result("SUCCESS", Given(d, <<>>), Whole(args, Take(R, e)))
      <3> DEFINE a == Given(d, <<>>)
      <3>1. a.present /\ a.name = d.name
        BY DEF Given, CommandArg
      <3>2. d.name = "keepttl" /\ d.token = "KEEPTTL"
        BY <2>3, <2>4 DEF IsUnit
      <3> HIDE DEF a
      <3>3. ExpirationRead(args, U, e, 0, a)
        BY <2>3, <3>1, <3>2 DEF ExpirationRead
      <3>4. r = Result("SUCCESS", a, Whole(args, Take(Take(R, e), 0)))
        BY <2>4 DEF Take, a
      <3> QED BY <3>3, <3>4
    <2>5. CASE /\ d.type # "PURE_TOKEN" /\ t \in U /\ t > e /\ Suits(d, args[t])
               /\ r = Result("SUCCESS", Given(d, Convert(d.type, args[t])),
                             Whole(args, Take(Take(R, e), t)))
      <3> DEFINE v == Convert(d.type, args[t])
                 a == Given(d, v)
      <3>1. a.present /\ a.name = d.name /\ a.value = v
        BY GivenFields
      <3>2. IsTime(d.name, d.token) /\ d.type \in {"INTEGER", "UNIX_TIME"}
        BY <2>3, <2>5 DEF IsUnit
      <3>3. v = Value(args[t])
        BY <2>5, <3>2, TimeConverted
      <3> HIDE DEF a, v
      <3>4. ExpirationRead(args, U, e, t, a)
        BY <2>3, <2>5, <3>1, <3>2, <3>3 DEF ExpirationRead
      <3>5. r = Result("SUCCESS", a, Whole(args, Take(Take(R, e), t)))
        BY <2>5 DEF a, v
      <3> QED BY <3>4, <3>5
    <2> QED BY <2>2, <2>4, <2>5 DEF Finds, d
  <1>6. CASE \E i \in DOMAIN def.inner : \E e : Breaks(def.inner[i], args, R, e, r)
    <2>1. PICK i \in DOMAIN def.inner : \E e : Breaks(def.inner[i], args, R, e, r)
      BY <1>6
    <2>2. PICK e : Breaks(def.inner[i], args, R, e, r)
      BY <2>1
    <2> DEFINE d == def.inner[i]
    <2>3. /\ e \in U /\ Upper(args[e]) = d.token /\ IsUnit(d) /\ d.type # "PURE_TOKEN"
          /\ r.code # "SUCCESS"
          /\ \/ \A j \in U : ~(j > e)
             \/ \E j \in U : j > e /\ ~Suits(d, args[j])
      BY <1>1, <1>2, <2>1, <2>2 DEF Breaks
    <2> HIDE DEF d, U
    <2>4. Upper(args[e]) \in TimeTokens
      BY <2>3 DEF IsUnit, IsTime, TimeTokens
    <2>5. \A j : ~Suits(d, args[j]) => ~IsNumber(args[j])
      BY DEF Suits
    <2>6. ExpirationBreaks(args, U)
      BY <2>3, <2>4, <2>5 DEF ExpirationBreaks
    <2> QED BY <2>3, <2>6 DEF U
  <1> QED BY <1>3, <1>4, <1>5, <1>6

LEMMA WithFour ==
  ASSUME NEW a, NEW b, NEW c, NEW d
  PROVE  With(<<a, b, c>>, d) = <<a, b, c, d>>
  BY AppendToThree DEF With

LEMMA WithFive ==
  ASSUME NEW a, NEW b, NEW c, NEW d, NEW e
  PROVE  With(<<a, b, c, d>>, e) = <<a, b, c, d, e>>
  BY AppendToFour DEF With

KeyAndValue(args) == NextArg(SetValueDef, NextArg(KeyDef, Begin(args)))

LEMMA KeyThenValue ==
  ASSUME NEW args, Len(args) \in Nat
  PROVE  /\ Len(args) < 2 => Fails(KeyAndValue(args))
         /\ Len(args) >= 2 =>
              KeyAndValue(args)
                = So(<<Given(KeyDef, args[1]), Given(SetValueDef, args[2])>>, args, {1, 2})
  <1> DEFINE def == SetValueDef
             first == <<Given(KeyDef, args[1])>>
             b1 == NextArg(KeyDef, Begin(args))
             b2 == NextArg(def, b1)
             outs == <<Given(KeyDef, args[1]), Given(def, args[2])>>
  <1>1. /\ Len(args) = 0 => Fails(b1)
        /\ Len(args) >= 1 => b1 = So(first, args, {1})
    BY FirstWord, DefFields
  <1>2. IsWordDef(def)
    BY DEF SetValueDef, Arg, IsWordDef, IsValueDef
  <1>3. IsValueDef(def) /\ ~def.is_optional
    BY <1>2 DEF IsWordDef
  <1>4. Suits(def, args[2]) /\ With(first, Given(def, Convert(def.type, args[2]))) = outs
    BY <1>2, WordSuits, WithTwo
  <1> HIDE DEF first, b1, def, outs
  <1>5. CASE Len(args) = 0
    <2>1. Fails(b2)
      BY <1>1, <1>5, NextStuck
    <2> QED BY <1>5, <2>1 DEF b1, def, KeyAndValue
  <1>6. CASE Len(args) >= 1
    <2>1. b2 = NextArg(def, So(first, args, {1}))
      BY <1>1, <1>6
    <2>2. CASE Len(args) < 2
      <3>1. Fails(b2)
        BY <1>3, <2>1, <2>2, SecondValue
      <3> QED BY <2>2, <3>1 DEF b1, def, KeyAndValue
    <2>3. CASE Len(args) >= 2
      <3>1. b2 = So(With(first, Given(def, Convert(def.type, args[2]))), args, {1, 2})
        BY <1>3, <1>4, <2>1, <2>3, SecondValue
      <3>2. b2 = So(outs, args, {1, 2})
        BY <1>4, <3>1
      <3> QED BY <2>3, <3>2 DEF b1, def, KeyAndValue, outs
    <2> QED BY <2>2, <2>3
  <1> QED BY <1>5, <1>6

(* What the parser makes of a SET: the options it has read, the places     *)
(* that are left behind GET, and how it ends.                              *)
OptionPlaces(args) == 3 .. Len(args)

SetBreaks(args, p, c, a3, g, a4) ==
  /\ ConditionRead(args, OptionPlaces(args), c, a3)
  /\ GetRead(args, OptionPlaces(args) \ {c}, g, a4)
  /\ ExpirationBreaks(args, (OptionPlaces(args) \ {c}) \ {g})
  /\ Fails(p)

SetReads(args, p, c, a3, g, a4, e, t, a5) ==
  /\ ConditionRead(args, OptionPlaces(args), c, a3)
  /\ GetRead(args, OptionPlaces(args) \ {c}, g, a4)
  /\ ExpirationRead(args, (OptionPlaces(args) \ {c}) \ {g}, e, t, a5)
  /\ IF (((OptionPlaces(args) \ {c}) \ {g}) \ {e}) \ {t} = {}
     THEN Succeeds(p, <<Given(KeyDef, args[1]), Given(SetValueDef, args[2]), a3, a4, a5>>)
     ELSE Fails(p)

LEMMA SetArguments ==
  ASSUME NEW args, Len(args) \in Nat, NEW p, p = parse_command_arguments(SetArgs, args)
  PROVE  /\ Len(args) < 2 => Fails(p)
         /\ Len(args) >= 2 =>
              \/ \E c, a3, g, a4 : SetBreaks(args, p, c, a3, g, a4)
              \/ \E c, a3, g, a4, e, t, a5 : SetReads(args, p, c, a3, g, a4, e, t, a5)
  <1> DEFINE b2 == KeyAndValue(args)
             k == Given(KeyDef, args[1])
             v == Given(SetValueDef, args[2])
             cdef == ConditionDef(SetNames)
             b3 == NextArg(cdef, b2)
             b4 == NextArg(GetDef, b3)
             b5 == NextArg(ExpirationDef, b4)
             R == {1, 2}
             U == OptionPlaces(args)
  <1>1. p = NothingLeft(b5)
    <2>1. SetArgs = <<KeyDef, SetValueDef, cdef, GetDef, ExpirationDef>>
      BY DEF SetArgs, KeyDef, SetValueDef, ConditionDef, SetNames, GetDef, ExpirationDef
    <2> HIDE DEF cdef
    <2> QED BY <2>1, FiveArguments DEF KeyAndValue
  <1>2. /\ Len(args) < 2 => Fails(b2)
        /\ Len(args) >= 2 => b2 = So(<<k, v>>, args, R)
    BY KeyThenValue
  <1>3. Free(args, R) = U
    BY FreeFirst DEF OptionPlaces
  <1> HIDE DEF b2, k, v, cdef, R, U
  <1>4. CASE Len(args) < 2
    <2>1. Fails(p)
      BY <1>1, <1>2, <1>4, NextStuck, EndStuck
    <2> QED BY <1>4, <2>1
  <1>5. CASE Len(args) >= 2
    <2>1. b2 = So(<<k, v>>, args, R)
      BY <1>2, <1>5
    <2>2. PICK c, a3 : /\ ConditionRead(args, U, c, a3)
                       /\ parse_command_argument(cdef, Whole(args, R))
                            = Result("SUCCESS", a3, Whole(args, Take(R, c)))
      BY <1>3, SetCondition DEF cdef
    <2> DEFINE R3 == Take(R, c)
               U3 == U \ {c}
    <2>3. b3 = So(<<k, v, a3>>, args, R3)
      BY <2>1, <2>2, NextSo, WithThree
    <2>4. Free(args, R3) = U3
      BY <1>3, FreeTake
    <2> HIDE DEF b3, R3, U3
    <2>5. PICK g, a4 : /\ GetRead(args, U3, g, a4)
                       /\ parse_command_argument(GetDef, Whole(args, R3))
                            = Result("SUCCESS", a4, Whole(args, Take(R3, g)))
      BY <2>4, SetGet
    <2> DEFINE R4 == Take(R3, g)
               U4 == U3 \ {g}
    <2>6. b4 = So(<<k, v, a3, a4>>, args, R4)
      BY <2>3, <2>5, NextSo, WithFour
    <2>7. Free(args, R4) = U4
      BY <2>4, FreeTake
    <2> DEFINE r == parse_command_argument(ExpirationDef, Whole(args, R4))
    <2> HIDE DEF b4, R4, U4, r
    <2>8. \/ r.code # "SUCCESS" /\ ExpirationBreaks(args, U4)
          \/ \E e, t, a : /\ ExpirationRead(args, U4, e, t, a)
                          /\ r = Result("SUCCESS", a, Whole(args, Take(Take(R4, e), t)))
      BY <2>7, SetExpiration DEF r
    <2>9. CASE r.code # "SUCCESS" /\ ExpirationBreaks(args, U4)
      <3>1. Fails(b5)
        BY <2>6, <2>9, NextFails DEF r
      <3> HIDE DEF b5
      <3>2. Fails(p)
        BY <1>1, <3>1, EndStuck
      <3>3. SetBreaks(args, p, c, a3, g, a4)
        BY <2>2, <2>5, <2>9, <3>2 DEF SetBreaks, U, U3, U4
      <3> QED BY <1>5, <3>3
    <2>10. CASE \E e, t, a : /\ ExpirationRead(args, U4, e, t, a)
                             /\ r = Result("SUCCESS", a, Whole(args, Take(Take(R4, e), t)))
      <3>1. PICK e, t, a5 : /\ ExpirationRead(args, U4, e, t, a5)
                            /\ r = Result("SUCCESS", a5, Whole(args, Take(Take(R4, e), t)))
        BY <2>10
      <3> DEFINE R5 == Take(Take(R4, e), t)
                 outs == <<k, v, a3, a4, a5>>
      <3>2. b5 = So(outs, args, R5)
        <4>1. b5 = So(With(<<k, v, a3, a4>>, a5), args, R5)
          BY <2>6, <3>1, NextSo DEF r
        <4> QED BY <4>1, WithFive
      <3>3. Free(args, R5) = (U4 \ {e}) \ {t}
        <4> DEFINE Q == Take(R4, e)
        <4>1. Free(args, Q) = U4 \ {e}
          BY <2>7, FreeTake
        <4> HIDE DEF Q
        <4>2. Free(args, Take(Q, t)) = Free(args, Q) \ {t}
          BY FreeTake
        <4> QED BY <4>1, <4>2 DEF Q
      <3> HIDE DEF b5, R5, outs
      <3>4. IF (U4 \ {e}) \ {t} = {} THEN Succeeds(p, outs) ELSE Fails(p)
        BY <1>1, <3>2, <3>3, EndSo
      <3>5. SetReads(args, p, c, a3, g, a4, e, t, a5)
        BY <2>2, <2>5, <3>1, <3>4 DEF SetReads, U, U3, U4, outs, k, v
      <3> QED BY <1>5, <3>5
    <2> QED BY <2>8, <2>9, <2>10
  <1> QED BY <1>4, <1>5

(***************************************************************************)
(* From what was read to a reading: the places of the options play the     *)
(* roles.                                                                  *)
(***************************************************************************)
ArgsOf(cmd, args) ==
  /\ Len(cmd) \in Nat /\ Len(args) \in Nat /\ Len(cmd) = Len(args) + 1
  /\ \A i \in 1 .. Len(args) : args[i] = cmd[i + 1]

SetPlaces(args, c, g, e, t) ==
  /\ {c, g, e, t} \subseteq {0} \cup OptionPlaces(args)
  /\ OptionPlaces(args) \subseteq {c, g, e, t}
  /\ c # 0 => c # g /\ c # e /\ c # t
  /\ g # 0 => g # e /\ g # t
  /\ t # 0 => e # 0 /\ e < t

Roles == {"condition", "get", "expiration", "time"}

Plays(args, i) == IF i = 0 THEN {} ELSE {Upper(args[i])}

(* The word at x of the arguments, if any, is all that plays the role. *)
OnlyAt(cmd, args, f, role, x) ==
  /\ DOMAIN f = 4 .. Len(cmd) /\ x \in {0} \cup OptionPlaces(args)
  /\ \A j \in DOMAIN f : f[j] = role <=> j = x + 1

LEMMA PlayingIs ==
  ASSUME NEW cmd, NEW args, ArgsOf(cmd, args), NEW f, NEW role, NEW x,
         OnlyAt(cmd, args, f, role, x)
  PROVE  Playing(cmd, f, role) = Plays(args, x)
  <1> DEFINE J == {j \in DOMAIN f : f[j] = role}
             n == Len(args)
  <1>1. Playing(cmd, f, role) = {Upper(cmd[i]) : i \in J}
    BY DEF Playing
  <1>2. /\ n \in Nat /\ DOMAIN f = 4 .. n + 1 /\ OptionPlaces(args) = 3 .. n
        /\ x \in {0} \cup 3 .. n
    BY DEF ArgsOf, OptionPlaces, OnlyAt
  <1> HIDE DEF n
  <1>3. CASE x = 0
    <2>1. \A j \in DOMAIN f : j # x + 1
      BY <1>2, <1>3
    <2>2. J = {}
      BY <2>1 DEF OnlyAt
    <2> HIDE DEF J
    <2> QED BY <1>1, <1>3, <2>2 DEF Plays
  <1>4. CASE x \in 3 .. n
    <2>1. x + 1 \in DOMAIN f /\ x # 0 /\ x \in 1 .. n
      BY <1>2, <1>4
    <2>2. J = {x + 1}
      BY <2>1 DEF OnlyAt
    <2>3. args[x] = cmd[x + 1]
      BY <2>1 DEF ArgsOf, n
    <2> HIDE DEF J
    <2> QED BY <1>1, <2>1, <2>2, <2>3 DEF Plays
  <1> QED BY <1>2, <1>3, <1>4

IsReading(cmd, args, f, c, g, e, t) ==
  /\ f \in Injection(4 .. Len(cmd), Roles)
  /\ Playing(cmd, f, "condition") = Plays(args, c)
  /\ Playing(cmd, f, "get") = Plays(args, g)
  /\ Playing(cmd, f, "expiration") = Plays(args, e)
  /\ Playing(cmd, f, "time") = Plays(args, t)
  /\ \A i, j \in DOMAIN f : f[i] = "expiration" /\ f[j] = "time" => i < j
  /\ t # 0 => TimeOf(cmd, f) = args[t]

LEMMA ReadingExists ==
  ASSUME NEW cmd, NEW args, ArgsOf(cmd, args), NEW c, NEW g, NEW e, NEW t,
         SetPlaces(args, c, g, e, t)
  PROVE  \E f : IsReading(cmd, args, f, c, g, e, t)
  <1> DEFINE n == Len(args)
             f == [j \in 4 .. n + 1 |-> IF j = c + 1 THEN "condition"
                                         ELSE IF j = g + 1 THEN "get"
                                         ELSE IF j = e + 1 THEN "expiration" ELSE "time"]
  <1>1. n \in Nat /\ Len(cmd) = n + 1 /\ OptionPlaces(args) = 3 .. n
    BY DEF ArgsOf, OptionPlaces
  <1>2. /\ c \in {0} \cup 3 .. n /\ g \in {0} \cup 3 .. n
        /\ e \in {0} \cup 3 .. n /\ t \in {0} \cup 3 .. n
        /\ 3 .. n \subseteq {c, g, e, t}
        /\ c # 0 => c # g /\ c # e /\ c # t
        /\ g # 0 => g # e /\ g # t
        /\ t # 0 => e # 0 /\ e < t
    BY <1>1 DEF SetPlaces
  <1>3. DOMAIN f = 4 .. n + 1 /\ f \in [4 .. n + 1 -> Roles]
    BY DEF Roles
  <1>4. \A j \in 4 .. n + 1 : f[j] = IF j = c + 1 THEN "condition"
                                     ELSE IF j = g + 1 THEN "get"
                                     ELSE IF j = e + 1 THEN "expiration" ELSE "time"
    OBVIOUS
  <1> HIDE DEF n, f
  <1>5. c \in Nat /\ g \in Nat /\ e \in Nat /\ t \in Nat
    BY <1>1, <1>2
  <1>6. \A j \in 4 .. n + 1 : j = c + 1 \/ j = g + 1 \/ j = e + 1 \/ j = t + 1
    <2> SUFFICES ASSUME NEW j \in 4 .. n + 1
                 PROVE  j = c + 1 \/ j = g + 1 \/ j = e + 1 \/ j = t + 1
      OBVIOUS
    <2> DEFINE i == j - 1
    <2>1. i \in 3 .. n /\ j = i + 1
      BY <1>1
    <2> HIDE DEF i
    <2>2. i = c \/ i = g \/ i = e \/ i = t
      BY <1>2, <2>1
    <2> QED BY <2>1, <2>2
  <1>7. /\ \A j \in DOMAIN f : f[j] = "condition" <=> j = c + 1
        /\ \A j \in DOMAIN f : f[j] = "get" <=> j = g + 1
        /\ \A j \in DOMAIN f : f[j] = "expiration" <=> j = e + 1
        /\ \A j \in DOMAIN f : f[j] = "time" <=> j = t + 1
    <2> SUFFICES ASSUME NEW j \in 4 .. n + 1
                 PROVE  /\ f[j] = "condition" <=> j = c + 1
                        /\ f[j] = "get" <=> j = g + 1
                        /\ f[j] = "expiration" <=> j = e + 1
                        /\ f[j] = "time" <=> j = t + 1
      BY <1>3
    <2>1. j > 1 /\ j \in Nat
      BY <1>1
    <2>2. CASE j = c + 1
      BY <1>2, <1>4, <1>5, <2>1, <2>2
    <2>3. CASE j = g + 1
      BY <1>2, <1>4, <1>5, <2>1, <2>3
    <2>4. CASE j = e + 1
      BY <1>2, <1>4, <1>5, <2>1, <2>4
    <2>5. CASE j = t + 1
      BY <1>2, <1>4, <1>5, <2>1, <2>5
    <2> QED BY <1>6, <2>2, <2>3, <2>4, <2>5
  <1>8. f \in Injection(4 .. Len(cmd), Roles)
    <2>1. \A i, j \in DOMAIN f : f[i] = f[j] => i = j
      <3> SUFFICES ASSUME NEW i \in DOMAIN f, NEW j \in DOMAIN f, f[i] = f[j] PROVE i = j
        OBVIOUS
      <3>1. f[i] \in {"condition", "get", "expiration", "time"}
        BY <1>3 DEF Roles
      <3> QED BY <1>7, <3>1
    <2> QED BY <1>1, <1>3, <2>1 DEF Injection, IsInjective
  <1>9. /\ Playing(cmd, f, "condition") = Plays(args, c)
        /\ Playing(cmd, f, "get") = Plays(args, g)
        /\ Playing(cmd, f, "expiration") = Plays(args, e)
        /\ Playing(cmd, f, "time") = Plays(args, t)
    <2>1. DOMAIN f = 4 .. Len(cmd) /\ OptionPlaces(args) = 3 .. n
      BY <1>1, <1>3
    <2>2. /\ c \in {0} \cup OptionPlaces(args) /\ g \in {0} \cup OptionPlaces(args)
          /\ e \in {0} \cup OptionPlaces(args) /\ t \in {0} \cup OptionPlaces(args)
      BY DEF SetPlaces
    <2>3. /\ OnlyAt(cmd, args, f, "condition", c) /\ OnlyAt(cmd, args, f, "get", g)
          /\ OnlyAt(cmd, args, f, "expiration", e) /\ OnlyAt(cmd, args, f, "time", t)
      BY <1>7, <2>1, <2>2, Zenon DEF OnlyAt
    <2>4. Playing(cmd, f, "condition") = Plays(args, c)
      BY <2>3, PlayingIs
    <2>5. Playing(cmd, f, "get") = Plays(args, g)
      BY <2>3, PlayingIs
    <2>6. Playing(cmd, f, "expiration") = Plays(args, e)
      BY <2>3, PlayingIs
    <2>7. Playing(cmd, f, "time") = Plays(args, t)
      BY <2>3, PlayingIs
    <2> QED BY <2>4, <2>5, <2>6, <2>7
  <1>10. \A i, j \in DOMAIN f : f[i] = "expiration" /\ f[j] = "time" => i < j
    <2> SUFFICES ASSUME NEW i \in DOMAIN f, NEW j \in DOMAIN f,
                        f[i] = "expiration", f[j] = "time"
                 PROVE  i < j
      OBVIOUS
    <2>1. i = e + 1 /\ j = t + 1 /\ j > 1
      BY <1>1, <1>3, <1>7
    <2> QED BY <1>2, <1>5, <2>1
  <1>11. t # 0 => TimeOf(cmd, f) = args[t]
    <2> SUFFICES ASSUME t # 0 PROVE TimeOf(cmd, f) = args[t]
      OBVIOUS
    <2>1. t + 1 \in DOMAIN f /\ t \in 1 .. n
      BY <1>1, <1>2, <1>3
    <2>2. (CHOOSE j \in DOMAIN f : f[j] = "time") = t + 1
      BY <1>7, <2>1
    <2>3. TimeOf(cmd, f) = cmd[t + 1]
      BY <2>2 DEF TimeOf
    <2> QED BY <2>1, <2>3 DEF ArgsOf, n
  <1>12. IsReading(cmd, args, f, c, g, e, t)
    BY <1>8, <1>9, <1>10, <1>11 DEF IsReading
  <1> QED BY <1>12

LEMMA ExpireTimes ==
  ASSUME NEW a
  PROVE  /\ ~a.present => get_expire_time(a).type = "NO_EXPIRE"
         /\ a.present /\ a.name = "keepttl" => get_expire_time(a).type = "KEEP_OLD"
         /\ a.present /\ a.name = "seconds" =>
              /\ get_expire_time(a).type = "UNIX_TS"
              /\ get_expire_time(a).ts = Wrap64(Now + Wrap64(a.value * MsPerSec))
         /\ a.present /\ a.name = "milliseconds" =>
              /\ get_expire_time(a).type = "UNIX_TS"
              /\ get_expire_time(a).ts = Wrap64(Now + a.value)
         /\ a.present /\ a.name = "unix-time-seconds" =>
              /\ get_expire_time(a).type = "UNIX_TS"
              /\ get_expire_time(a).ts = Wrap64(a.value * MsPerSec)
         /\ a.present /\ a.name = "unix-time-milliseconds" =>
              /\ get_expire_time(a).type = "UNIX_TS"
              /\ get_expire_time(a).ts = a.value
  <1>1. CASE ~a.present
    <2>1. get_expire_time(a) = [type |-> "NO_EXPIRE", ts |-> 0]
      BY <1>1, Zenon DEF get_expire_time
    <2> QED BY <1>1, <2>1
  <1>2. CASE a.present /\ a.name = "keepttl"
    <2>1. get_expire_time(a) = [type |-> "KEEP_OLD", ts |-> 0]
      BY <1>2, Zenon DEF get_expire_time
    <2> QED BY <1>2, <2>1
  <1>3. CASE a.present /\ a.name # "keepttl"
    <2> DEFINE ts == CASE a.name = "seconds"                -> Wrap64(Now + Wrap64(a.value * MsPerSec))
                       [] a.name = "milliseconds"           -> Wrap64(Now + a.value)
                       [] a.name = "unix-time-seconds"      -> Wrap64(a.value * MsPerSec)
                       [] a.name = "unix-time-milliseconds" -> a.value
    <2>1. get_expire_time(a) = [type |-> "UNIX_TS", ts |-> ts]
      BY <1>3, Zenon DEF get_expire_time
    <2>2. /\ a.name = "seconds" => ts = Wrap64(Now + Wrap64(a.value * MsPerSec))
          /\ a.name = "milliseconds" => ts = Wrap64(Now + a.value)
          /\ a.name = "unix-time-seconds" => ts = Wrap64(a.value * MsPerSec)
          /\ a.name = "unix-time-milliseconds" => ts = a.value
      OBVIOUS
    <2> HIDE DEF ts
    <2>3. get_expire_time(a).type = "UNIX_TS" /\ get_expire_time(a).ts = ts
      BY <2>1
    <2> QED BY <1>3, <2>2, <2>3
  <1> QED BY <1>1, <1>2, <1>3

LEMMA PlacesRead ==
  ASSUME NEW args, Len(args) \in Nat, NEW c, NEW a3, NEW g, NEW a4, NEW e, NEW t, NEW a5,
         ConditionRead(args, OptionPlaces(args), c, a3),
         GetRead(args, OptionPlaces(args) \ {c}, g, a4),
         ExpirationRead(args, (OptionPlaces(args) \ {c}) \ {g}, e, t, a5),
         (((OptionPlaces(args) \ {c}) \ {g}) \ {e}) \ {t} = {}
  PROVE  SetPlaces(args, c, g, e, t)
  <1> DEFINE U == OptionPlaces(args)
  <1>1. U \subseteq Nat /\ 0 \notin U
    BY DEF OptionPlaces
  <1> HIDE DEF U
  <1>2. c = 0 \/ c \in U
    BY DEF ConditionRead, U
  <1>3. g = 0 \/ g \in U \ {c}
    BY DEF GetRead, U
  <1>4. \/ e = 0 /\ t = 0
        \/ e \in (U \ {c}) \ {g} /\ t = 0
        \/ e \in (U \ {c}) \ {g} /\ t \in (U \ {c}) \ {g} /\ t > e
    BY DEF ExpirationRead, U
  <1>5. U \subseteq {c, g, e, t}
    BY DEF U
  <1>6. t # 0 => e # 0 /\ e < t
    BY <1>1, <1>4
  <1>7. {c, g, e, t} \subseteq {0} \cup U
    BY <1>2, <1>3, <1>4
  <1>8. (c # 0 => c # g /\ c # e /\ c # t) /\ (g # 0 => g # e /\ g # t)
    BY <1>1, <1>2, <1>3, <1>4
  <1> QED BY <1>5, <1>6, <1>7, <1>8 DEF SetPlaces, U

LEMMA ReadingIsSetReading ==
  ASSUME NEW cmd, NEW args, Len(args) \in Nat, NEW f, NEW c, NEW a3, NEW g, NEW a4, NEW e, NEW t, NEW a5,
         IsReading(cmd, args, f, c, g, e, t),
         ConditionRead(args, OptionPlaces(args), c, a3),
         GetRead(args, OptionPlaces(args) \ {c}, g, a4),
         ExpirationRead(args, (OptionPlaces(args) \ {c}) \ {g}, e, t, a5)
  PROVE  f \in SetReadings(cmd)
  <1>0. 0 \notin OptionPlaces(args)
    BY DEF OptionPlaces
  <1>1. Plays(args, c) \subseteq {"NX", "XX"}
    BY DEF Plays, ConditionRead
  <1>2. Plays(args, g) \subseteq {"GET"}
    BY DEF Plays, GetRead
  <1>3. /\ Plays(args, e) \subseteq {"EX", "PX", "EXAT", "PXAT", "KEEPTTL"}
        /\ Plays(args, t) # {} <=> Plays(args, e) \ {"KEEPTTL"} # {}
    <2>1. CASE e = 0 /\ t = 0
      BY <2>1 DEF Plays
    <2>2. CASE e # 0 /\ t = 0 /\ Upper(args[e]) = "KEEPTTL"
      BY <2>2 DEF Plays
    <2>3. CASE e # 0 /\ t # 0 /\ Upper(args[e]) \in {"EX", "PX", "EXAT", "PXAT"}
      BY <2>3 DEF Plays
    <2> QED BY <1>0, <2>1, <2>2, <2>3 DEF ExpirationRead, IsTime
  <1>4. f \in Injection(4 .. Len(cmd), {"condition", "get", "expiration", "time"})
    BY DEF IsReading, Roles
  <1>5. /\ Playing(cmd, f, "condition") \subseteq {"NX", "XX"}
        /\ Playing(cmd, f, "get") \subseteq {"GET"}
        /\ Playing(cmd, f, "expiration") \subseteq {"EX", "PX", "EXAT", "PXAT", "KEEPTTL"}
        /\ Playing(cmd, f, "time") # {} <=> Playing(cmd, f, "expiration") \ {"KEEPTTL"} # {}
        /\ \A i, j \in DOMAIN f : f[i] = "expiration" /\ f[j] = "time" => i < j
    BY <1>1, <1>2, <1>3 DEF IsReading
  <1> QED BY <1>4, <1>5 DEF SetReadings

LEMMA SetFields ==
  ASSUME NEW k, NEW v, NEW a3, NEW a4, NEW a5
  PROVE  LET op == process_set(<<k, v, a3, a4, a5>>)
         IN  /\ op.key = k.value /\ op.value = v.value
             /\ op.nx <=> a3.present /\ a3.name = "nx"
             /\ op.xx <=> a3.present /\ a3.name = "xx"
             /\ op.get <=> a4.present
             /\ op.expiration = get_expire_time(a5)
  <1> DEFINE args == <<k, v, a3, a4, a5>>
  <1>1. args[1] = k /\ args[2] = v /\ args[3] = a3 /\ args[4] = a4 /\ args[5] = a5
    OBVIOUS
  <1> HIDE DEF args
  <1>2. /\ process_set(args).key = k.value /\ process_set(args).value = v.value
        /\ process_set(args).expiration = get_expire_time(a5)
    BY <1>1 DEF process_set
  <1>3. process_set(args).nx <=> a3.present /\ a3.name = "nx"
    BY <1>1 DEF process_set
  <1>4. process_set(args).xx <=> a3.present /\ a3.name = "xx"
    BY <1>1 DEF process_set
  <1>5. process_set(args).get <=> a4.present
    BY <1>1 DEF process_set
  <1> QED BY <1>2, <1>3, <1>4, <1>5 DEF args

Exact(n, result) == n \in MinInt .. MaxInt => result = n

(* The time of a SET is exact although its seconds are wrapped before the  *)
(* clock is added.                                                         *)
LEMMA SetTimeExact ==
  ASSUME NEW cmd, NEW args, Len(args) \in Nat, NEW f, NEW c, NEW g, NEW e, NEW t, NEW a, NEW U,
         IsReading(cmd, args, f, c, g, e, t), ExpirationRead(args, U, e, t, a),
         0 \notin U, get_expire_time(a).type = "UNIX_TS"
  PROVE  Exact(SetTime(cmd, f), get_expire_time(a).ts)
  <1> DEFINE n == a.value
             m == n * MsPerSec
             x == get_expire_time(a)
  <1>1. /\ e \in U /\ t \in U /\ a.present
        /\ IsTime(a.name, Upper(args[e])) /\ n = Value(args[t])
    BY ExpireTimes DEF ExpirationRead
  <1>2. e # 0 /\ t # 0
    BY <1>1
  <1>3. n = Value(TimeOf(cmd, f)) /\ n \in Int
    BY <1>1, <1>2, NumberOrNot DEF IsReading
  <1>4. Playing(cmd, f, "expiration") = {Upper(args[e])}
    BY <1>2 DEF IsReading, Plays
  <1>5. Now \in Int /\ m \in Int /\ MsPerSec \in Int
    BY <1>3, Int64Assumption
  <1> DEFINE P == Playing(cmd, f, "expiration")
             N == Value(TimeOf(cmd, f))
  <1>6. /\ P = {"EX"} => SetTime(cmd, f) = Now + N * MsPerSec
        /\ P = {"PX"} => SetTime(cmd, f) = Now + N
        /\ P = {"EXAT"} => SetTime(cmd, f) = N * MsPerSec
        /\ P = {"PXAT"} => SetTime(cmd, f) = N
    <2>1. SetTime(cmd, f) = CASE P = {"EX"}   -> Now + N * MsPerSec
                              [] P = {"PX"}   -> Now + N
                              [] P = {"EXAT"} -> N * MsPerSec
                              [] P = {"PXAT"} -> N
      BY Zenon DEF SetTime
    <2>2. {"EX"} # {"PX"} /\ {"EX"} # {"EXAT"} /\ {"EX"} # {"PXAT"} /\ {"PX"} # {"EXAT"}
          /\ {"PX"} # {"PXAT"} /\ {"EXAT"} # {"PXAT"}
      OBVIOUS
    <2> HIDE DEF P, N
    <2> QED BY <2>1, <2>2
  <1>7. N = n /\ P = {Upper(args[e])}
    BY <1>3, <1>4
  <1> HIDE DEF n, x, P, N
  <1>8. CASE a.name = "seconds" /\ Upper(args[e]) = "EX"
    <2>1. x.ts = Wrap64(Now + Wrap64(m))
      BY <1>1, <1>8, ExpireTimes DEF n, x
    <2>2. SetTime(cmd, f) = Now + m
      BY <1>6, <1>7, <1>8
    <2> HIDE DEF m
    <2>3. Now + m \in MinInt .. MaxInt => x.ts = Now + m
      BY <1>5, <2>1, WrapSum
    <2> QED BY <2>2, <2>3 DEF Exact, x
  <1>9. CASE a.name = "milliseconds" /\ Upper(args[e]) = "PX"
    <2>1. x.ts = Wrap64(Now + n)
      BY <1>1, <1>9, ExpireTimes DEF n, x
    <2>2. SetTime(cmd, f) = Now + n
      BY <1>6, <1>7, <1>9
    <2> DEFINE y == Now + n
    <2> HIDE DEF y
    <2>3. y \in MinInt .. MaxInt => Wrap64(y) = y
      BY WrapExact
    <2> QED BY <2>1, <2>2, <2>3 DEF Exact, x, y
  <1>10. CASE a.name = "unix-time-seconds" /\ Upper(args[e]) = "EXAT"
    <2>1. x.ts = Wrap64(m)
      BY <1>1, <1>10, ExpireTimes DEF n, x
    <2>2. SetTime(cmd, f) = m
      BY <1>6, <1>7, <1>10
    <2> HIDE DEF m
    <2>3. m \in MinInt .. MaxInt => Wrap64(m) = m
      BY WrapExact
    <2> QED BY <2>1, <2>2, <2>3 DEF Exact, x
  <1>11. CASE a.name = "unix-time-milliseconds" /\ Upper(args[e]) = "PXAT"
    <2>1. x.ts = n
      BY <1>1, <1>11, ExpireTimes DEF n, x
    <2>2. SetTime(cmd, f) = n
      BY <1>6, <1>7, <1>11
    <2> QED BY <2>1, <2>2 DEF Exact, x
  <1> QED BY <1>1, <1>8, <1>9, <1>10, <1>11 DEF IsTime

LEMMA SetMeansThis ==
  ASSUME NEW cmd, NEW args, Len(args) \in Nat, NEW f, NEW c, NEW a3, NEW g, NEW a4, NEW e, NEW t, NEW a5,
         IsReading(cmd, args, f, c, g, e, t),
         ConditionRead(args, OptionPlaces(args), c, a3),
         GetRead(args, OptionPlaces(args) \ {c}, g, a4),
         ExpirationRead(args, (OptionPlaces(args) \ {c}) \ {g}, e, t, a5),
         NEW op, op.key = cmd[2], op.value = cmd[3],
         op.nx <=> a3.present /\ a3.name = "nx",
         op.xx <=> a3.present /\ a3.name = "xx",
         op.get <=> a4.present,
         op.expiration = get_expire_time(a5)
  PROVE  SetMeans(cmd, f, op)
  <1>0. 0 \notin OptionPlaces(args)
    BY DEF OptionPlaces
  <1>1. (op.nx <=> Plays(args, c) = {"NX"}) /\ (op.xx <=> Plays(args, c) = {"XX"})
    <2>1. CASE c = 0 /\ ~a3.present
      BY <2>1 DEF Plays
    <2>2. CASE c # 0 /\ a3.present /\ a3.name = "nx" /\ Upper(args[c]) = "NX"
      BY <2>2 DEF Plays
    <2>3. CASE c # 0 /\ a3.present /\ a3.name = "xx" /\ Upper(args[c]) = "XX"
      BY <2>3 DEF Plays
    <2> QED BY <1>0, <2>1, <2>2, <2>3 DEF ConditionRead
  <1>2. op.get <=> Plays(args, g) # {}
    <2>1. CASE g = 0 /\ ~a4.present
      BY <2>1 DEF Plays
    <2>2. CASE g # 0 /\ a4.present
      BY <2>2 DEF Plays
    <2> QED BY <1>0, <2>1, <2>2 DEF GetRead
  <1>3. op.expiration.type = CASE Plays(args, e) = {} -> "NO_EXPIRE"
                               [] Plays(args, e) = {"KEEPTTL"} -> "KEEP_OLD"
                               [] OTHER -> "UNIX_TS"
    <2> DEFINE y == op.expiration.type
    <2>1. CASE e = 0 /\ ~a5.present
      <3>1. y = "NO_EXPIRE" /\ Plays(args, e) = {}
        BY <2>1, ExpireTimes DEF Plays
      <3> QED BY <3>1
    <2>2. CASE e # 0 /\ a5.present /\ a5.name = "keepttl" /\ Upper(args[e]) = "KEEPTTL"
      <3>1. y = "KEEP_OLD" /\ Plays(args, e) = {"KEEPTTL"}
        BY <2>2, ExpireTimes DEF Plays
      <3> QED BY <3>1
    <2>3. CASE e # 0 /\ a5.present /\ IsTime(a5.name, Upper(args[e]))
      <3>1. y = "UNIX_TS"
        BY <2>3, ExpireTimes DEF IsTime
      <3>2. Plays(args, e) # {} /\ Plays(args, e) # {"KEEPTTL"}
        BY <2>3 DEF Plays, IsTime
      <3> QED BY <3>1, <3>2
    <2> QED BY <1>0, <2>1, <2>2, <2>3 DEF ExpirationRead
  <1> QED BY <1>1, <1>2, <1>3 DEF SetMeans, IsReading

(***************************************************************************)
(* From a reading to what is read: a word's role follows from its capitals *)
(* alone, so that no option is taken for another.                          *)
(***************************************************************************)
ArgRoles(args, h) ==
  /\ \A i, j \in OptionPlaces(args) : h[i] = h[j] => i = j
  /\ \A j \in OptionPlaces(args) :
       /\ h[j] \in Roles
       /\ h[j] = "condition" <=> Upper(args[j]) \in SetTokens
       /\ h[j] = "get" <=> Upper(args[j]) = "GET"
       /\ h[j] = "expiration" <=> Upper(args[j]) \in TimeTokens \cup {"KEEPTTL"}
       /\ h[j] = "time" =>
            /\ IsNumber(args[j])
            /\ \E i \in OptionPlaces(args) :
                 i < j /\ h[i] = "expiration" /\ Upper(args[i]) \in TimeTokens
       /\ Upper(args[j]) \in TimeTokens =>
            \E i \in OptionPlaces(args) : j < i /\ h[i] = "time"

LEMMA NumberIsNoToken ==
  ASSUME NEW arg, IsNumber(arg)
  PROVE  Upper(arg) \notin SetTokens \cup {"GET"} \cup TimeTokens \cup {"KEEPTTL"}
  <1>1. Upper(arg) = Capital(arg[1].s) /\ arg[1].s \in DOMAIN Numbers
    BY DEF IsNumber, Upper
  <1> QED BY <1>1, NumbersAssumption DEF SetTokens, TimeTokens

LEMMA RolesOfReading ==
  ASSUME NEW cmd, NEW args, ArgsOf(cmd, args), NEW f \in SetReadings(cmd), Proper(cmd, f)
  PROVE  ArgRoles(args, [j \in OptionPlaces(args) |-> f[j + 1]])
  <1> DEFINE U == OptionPlaces(args)
             n == Len(args)
             h == [j \in U |-> f[j + 1]]
  <1>1. n \in Nat /\ U = 3 .. n /\ Len(cmd) = n + 1
    BY DEF ArgsOf, OptionPlaces
  <1>2. /\ f \in [4 .. n + 1 -> Roles] /\ \A i, j \in 4 .. n + 1 : f[i] = f[j] => i = j
        /\ DOMAIN f = 4 .. n + 1
    BY <1>1 DEF SetReadings, Injection, IsInjective, Roles
  <1>3. \A j \in U : args[j] = cmd[j + 1]
    <2>1. \A j \in 3 .. n : j \in 1 .. n
      OBVIOUS
    <2> QED BY <1>1, <2>1 DEF ArgsOf, n
  <1>4. \A j \in U : h[j] = f[j + 1]
    OBVIOUS
  <1> HIDE DEF n, h, U
  <1>5. /\ \A j \in U : j + 1 \in DOMAIN f /\ j \in Nat
        /\ \A i \in DOMAIN f : i - 1 \in U /\ (i - 1) + 1 = i /\ i \in Nat
    BY <1>1, <1>2
  <1>6. \A i \in DOMAIN f : Upper(cmd[i]) \in Playing(cmd, f, f[i])
    BY DEF Playing
  <1>7. \A role, w : w \in Playing(cmd, f, role) => \E i \in DOMAIN f : f[i] = role /\ Upper(cmd[i]) = w
    BY DEF Playing
  <1>8. /\ Playing(cmd, f, "condition") \subseteq SetTokens
        /\ Playing(cmd, f, "get") \subseteq {"GET"}
        /\ Playing(cmd, f, "expiration") \subseteq TimeTokens \cup {"KEEPTTL"}
        /\ Playing(cmd, f, "time") # {} <=> Playing(cmd, f, "expiration") \ {"KEEPTTL"} # {}
        /\ \A i, j \in DOMAIN f : f[i] = "expiration" /\ f[j] = "time" => i < j
    BY DEF SetReadings, SetTokens, TimeTokens
  <1>9. \A i, j \in U : h[i] = h[j] => i = j
    <2> SUFFICES ASSUME NEW i \in U, NEW j \in U, h[i] = h[j] PROVE i = j
      OBVIOUS
    <2>1. f[i + 1] = f[j + 1] /\ i + 1 \in 4 .. n + 1 /\ j + 1 \in 4 .. n + 1
      BY <1>2, <1>4, <1>5
    <2>2. i + 1 = j + 1
      BY <1>2, <2>1
    <2> QED BY <1>5, <2>2
  <1>10. ASSUME NEW j \in U
         PROVE  /\ h[j] \in Roles
                /\ h[j] = "condition" <=> Upper(args[j]) \in SetTokens
                /\ h[j] = "get" <=> Upper(args[j]) = "GET"
                /\ h[j] = "expiration" <=> Upper(args[j]) \in TimeTokens \cup {"KEEPTTL"}
                /\ h[j] = "time" =>
                     /\ IsNumber(args[j])
                     /\ \E i \in U : i < j /\ h[i] = "expiration" /\ Upper(args[i]) \in TimeTokens
                /\ Upper(args[j]) \in TimeTokens => \E i \in U : j < i /\ h[i] = "time"
    <2> DEFINE w == Upper(args[j])
    <2>1. h[j] = f[j + 1] /\ h[j] \in Roles /\ j + 1 \in DOMAIN f /\ w = Upper(cmd[j + 1])
      BY <1>2, <1>3, <1>4, <1>5
    <2>2. w \in Playing(cmd, f, h[j])
      BY <1>6, <2>1
    <2>3. h[j] = "time" => IsNumber(args[j])
      <3> SUFFICES ASSUME h[j] = "time" PROVE IsNumber(args[j])
        OBVIOUS
      <3>1. Playing(cmd, f, "time") # {}
        BY <2>2
      <3>2. (CHOOSE i \in DOMAIN f : f[i] = "time") = j + 1
        <4>1. \A i \in DOMAIN f : f[i] = "time" <=> i = j + 1
          BY <1>2, <2>1
        <4> QED BY <2>1, <4>1
      <3>3. TimeOf(cmd, f) = cmd[j + 1]
        BY <3>2 DEF TimeOf
      <3> QED BY <1>3, <3>1, <3>3 DEF Proper
    <2>4. h[j] = "time" => w \notin SetTokens \cup {"GET"} \cup TimeTokens \cup {"KEEPTTL"}
      BY <2>3, NumberIsNoToken
    <2>5. h[j] = "time" =>
            \E i \in U : i < j /\ h[i] = "expiration" /\ Upper(args[i]) \in TimeTokens
      <3> SUFFICES ASSUME h[j] = "time"
                   PROVE  \E i \in U : i < j /\ h[i] = "expiration" /\ Upper(args[i]) \in TimeTokens
        OBVIOUS
      <3>1. PICK x : x \in Playing(cmd, f, "expiration") \ {"KEEPTTL"}
        BY <1>8, <2>2
      <3>2. PICK i \in DOMAIN f : f[i] = "expiration" /\ Upper(cmd[i]) = x
        BY <1>7, <3>1
      <3>3. x \in TimeTokens
        BY <1>8, <3>1
      <3>4. i < j + 1
        BY <1>8, <2>1, <3>2
      <3> DEFINE k == i - 1
      <3>5. k \in U /\ k + 1 = i /\ k < j
        BY <1>5, <3>4
      <3> HIDE DEF k
      <3>6. h[k] = "expiration" /\ Upper(args[k]) \in TimeTokens
        BY <1>3, <1>4, <3>2, <3>3, <3>5
      <3> QED BY <3>5, <3>6
    <2>6. h[j] = "condition" => w \in SetTokens
      BY <1>8, <2>2
    <2>7. h[j] = "get" => w = "GET"
      BY <1>8, <2>2
    <2>8. h[j] = "expiration" => w \in TimeTokens \cup {"KEEPTTL"}
      BY <1>8, <2>2
    <2>9. /\ h[j] = "condition" <=> w \in SetTokens
          /\ h[j] = "get" <=> w = "GET"
          /\ h[j] = "expiration" <=> w \in TimeTokens \cup {"KEEPTTL"}
      BY <2>1, <2>4, <2>6, <2>7, <2>8 DEF Roles, SetTokens, TimeTokens
    <2>10. w \in TimeTokens => \E i \in U : j < i /\ h[i] = "time"
      <3> SUFFICES ASSUME w \in TimeTokens PROVE \E i \in U : j < i /\ h[i] = "time"
        OBVIOUS
      <3>1. f[j + 1] = "expiration" /\ w # "KEEPTTL"
        BY <2>1, <2>9 DEF TimeTokens
      <3>2. w \in Playing(cmd, f, "expiration") \ {"KEEPTTL"}
        BY <2>1, <2>2, <3>1
      <3>3. PICK x : x \in Playing(cmd, f, "time")
        BY <1>8, <3>2
      <3>4. PICK i \in DOMAIN f : f[i] = "time"
        BY <1>7, <3>3
      <3>5. j + 1 < i
        BY <1>8, <2>1, <3>1, <3>4
      <3> DEFINE k == i - 1
      <3>6. k \in U /\ k + 1 = i /\ j < k
        BY <1>5, <3>5
      <3> HIDE DEF k
      <3>7. h[k] = "time"
        BY <1>4, <3>4, <3>6
      <3> QED BY <3>6, <3>7
    <2> QED BY <2>1, <2>3, <2>5, <2>9, <2>10
  <1> QED BY <1>9, <1>10 DEF ArgRoles, U, h

LEMMA SetAccepts ==
  ASSUME NEW args, Len(args) \in Nat, Len(args) >= 2, NEW h, ArgRoles(args, h),
         NEW p, p = parse_command_arguments(SetArgs, args)
  PROVE  ~Fails(p)
  <1> DEFINE U == OptionPlaces(args)
  <1>1. U \subseteq Nat /\ 0 \notin U
    BY DEF OptionPlaces
  <1>2. \A i, j \in U : h[i] = h[j] => i = j
    BY DEF ArgRoles
  <1>3. \A j \in U :
          /\ h[j] \in Roles
          /\ h[j] = "condition" <=> Upper(args[j]) \in SetTokens
          /\ h[j] = "get" <=> Upper(args[j]) = "GET"
          /\ h[j] = "expiration" <=> Upper(args[j]) \in TimeTokens \cup {"KEEPTTL"}
    BY DEF ArgRoles
  <1>4. \A j \in U : h[j] = "time" =>
          /\ IsNumber(args[j])
          /\ \E i \in U : i < j /\ h[i] = "expiration" /\ Upper(args[i]) \in TimeTokens
    BY DEF ArgRoles
  <1>5. \A j \in U : Upper(args[j]) \in TimeTokens => \E i \in U : j < i /\ h[i] = "time"
    BY DEF ArgRoles
  <1> HIDE DEF U
  <1>6. ASSUME NEW c, NEW a, ConditionRead(args, U, c, a)
        PROVE  \A j \in U : j \in U \ {c} <=> h[j] # "condition"
    <2>1. CASE c = 0 /\ \A j \in U : Upper(args[j]) \notin SetTokens
      BY <1>1, <1>3, <2>1
    <2>2. CASE c \in U /\ Upper(args[c]) \in SetTokens
      BY <1>2, <1>3, <2>2
    <2>3. "NX" \in SetTokens /\ "XX" \in SetTokens
      BY DEF SetTokens
    <2> QED BY <1>6, <2>1, <2>2, <2>3 DEF ConditionRead
  <1>7. ASSUME NEW c, NEW a, ConditionRead(args, U, c, a), NEW g, NEW b, GetRead(args, U \ {c}, g, b)
        PROVE  \A j \in U : j \in (U \ {c}) \ {g} <=> h[j] # "condition" /\ h[j] # "get"
    <2>1. \A j \in U : j \in U \ {c} <=> h[j] # "condition"
      BY <1>6, <1>7
    <2>2. CASE g = 0 /\ \A j \in U \ {c} : Upper(args[j]) # "GET"
      BY <1>1, <1>3, <2>1, <2>2
    <2>3. CASE g \in U \ {c} /\ Upper(args[g]) = "GET"
      BY <1>2, <1>3, <2>1, <2>3
    <2> QED BY <1>7, <2>2, <2>3 DEF GetRead
  <1>8. ASSUME NEW c, NEW a3, NEW g, NEW a4, SetBreaks(args, p, c, a3, g, a4)
        PROVE  FALSE
    <2> DEFINE V == (U \ {c}) \ {g}
    <2>1. \A j \in U : j \in V <=> h[j] # "condition" /\ h[j] # "get"
      BY <1>7, <1>8 DEF SetBreaks, U
    <2>2. V \subseteq U
      OBVIOUS
    <2>3. ExpirationBreaks(args, V)
      BY <1>8 DEF SetBreaks, U
    <2> HIDE DEF V
    <2>4. PICK e \in V : /\ Upper(args[e]) \in TimeTokens
                         /\ \/ \A j \in V : ~(j > e)
                            \/ \E j \in V : j > e /\ ~IsNumber(args[j])
      BY <2>3 DEF ExpirationBreaks
    <2>5. PICK i \in U : e < i /\ h[i] = "time"
      BY <1>5, <2>2, <2>4
    <2>6. i \in V /\ i > e
      BY <1>1, <2>1, <2>2, <2>5
    <2>7. PICK j \in V : j > e /\ ~IsNumber(args[j])
      BY <2>4, <2>6
    <2>8. h[j] # "time"
      BY <1>4, <2>2, <2>7
    <2>9. h[j] = "expiration"
      BY <1>3, <2>1, <2>2, <2>8 DEF Roles
    <2>10. h[e] = "expiration"
      BY <1>3, <2>2, <2>4
    <2>11. j = e
      BY <1>2, <2>2, <2>9, <2>10
    <2> QED BY <1>1, <2>2, <2>7, <2>11
  <1>9. ASSUME NEW c, NEW a3, NEW g, NEW a4, NEW e, NEW t, NEW a5,
               SetReads(args, p, c, a3, g, a4, e, t, a5)
        PROVE  ~Fails(p)
    <2> DEFINE V == (U \ {c}) \ {g}
    <2>1. \A j \in U : j \in V <=> h[j] # "condition" /\ h[j] # "get"
      BY <1>7, <1>9 DEF SetReads, U
    <2>2. V \subseteq U
      OBVIOUS
    <2>3. /\ ExpirationRead(args, V, e, t, a5)
          /\ (V \ {e}) \ {t} = {} =>
                Succeeds(p, <<Given(KeyDef, args[1]), Given(SetValueDef, args[2]), a3, a4, a5>>)
      BY <1>9 DEF SetReads, U
    <2> HIDE DEF V
    <2>4. \A j \in V : h[j] = "expiration" \/ h[j] = "time"
      BY <1>3, <2>1, <2>2 DEF Roles
    <2>5. ASSUME NEW j \in V, h[j] = "time"
          PROVE  \E i \in V : h[i] = "expiration" /\ Upper(args[i]) \in TimeTokens /\ i # j
      <3>1. PICK i \in U : i < j /\ h[i] = "expiration" /\ Upper(args[i]) \in TimeTokens
        BY <1>4, <2>2, <2>5
      <3> QED BY <2>1, <2>5, <3>1
    <2>6. (V \ {e}) \ {t} = {}
      <3>1. CASE /\ e = 0 /\ t = 0
                 /\ \A j \in V : Upper(args[j]) \notin TimeTokens \cup {"KEEPTTL"}
        <4>1. \A j \in V : h[j] # "expiration"
          BY <1>3, <2>2, <3>1
        <4> QED BY <2>4, <2>5, <4>1
      <3>2. CASE e \in V /\ Upper(args[e]) = "KEEPTTL"
        <4>1. h[e] = "expiration"
          BY <1>3, <2>2, <3>2
        <4>2. \A j \in V : h[j] # "time"
          <5> SUFFICES ASSUME NEW j \in V, h[j] = "time" PROVE FALSE
            OBVIOUS
          <5>1. PICK i \in V : h[i] = "expiration" /\ Upper(args[i]) \in TimeTokens
            BY <2>5
          <5>2. i = e
            BY <1>2, <2>2, <3>2, <4>1, <5>1
          <5> QED BY <3>2, <5>1, <5>2 DEF TimeTokens
        <4>3. \A j \in V : j = e
          BY <1>2, <2>2, <2>4, <3>2, <4>1, <4>2
        <4> QED BY <4>3
      <3>3. CASE e \in V /\ t \in V /\ t > e /\ Upper(args[e]) \in TimeTokens
        <4>1. h[e] = "expiration"
          BY <1>3, <2>2, <3>3
        <4>2. t # e
          BY <1>1, <2>2, <3>3
        <4>3. h[t] = "time"
          BY <1>2, <2>2, <2>4, <3>3, <4>1, <4>2
        <4>4. \A j \in V : j = e \/ j = t
          BY <1>2, <2>2, <2>4, <3>3, <4>1, <4>3
        <4> QED BY <4>4
      <3>4. \A name, w : IsTime(name, w) => w \in TimeTokens
        BY DEF IsTime, TimeTokens
      <3> QED BY <2>3, <3>1, <3>2, <3>3, <3>4 DEF ExpirationRead
    <2> QED BY <2>3, <2>6 DEF Succeeds, Fails
  <1>10. \/ \E c, a3, g, a4 : SetBreaks(args, p, c, a3, g, a4)
         \/ \E c, a3, g, a4, e, t, a5 : SetReads(args, p, c, a3, g, a4, e, t, a5)
    BY SetArguments
  <1> QED BY <1>8, <1>9, <1>10

(* What the parser says of a SET, in terms of its readings. *)
LEMMA SetUnderstood ==
  ASSUME NEW cmd, NEW args, ArgsOf(cmd, args), NEW p, p = parse_command_arguments(SetArgs, args)
  PROVE  /\ Len(args) < 2 => Fails(p)
         /\ Len(args) >= 2 /\ (\E f \in SetReadings(cmd) : Proper(cmd, f)) => ~Fails(p)
         /\ Fails(p) \/ \E f \in SetReadings(cmd) :
                            /\ SetMeans(cmd, f, process_set(p.outs))
                            /\ process_set(p.outs).expiration.type = "UNIX_TS" =>
                                 Exact(SetTime(cmd, f), process_set(p.outs).expiration.ts)
  <1>1. Len(args) \in Nat
    BY DEF ArgsOf
  <1>2. Len(args) < 2 => Fails(p)
    BY <1>1, SetArguments
  <1>3. Len(args) >= 2 /\ (\E f \in SetReadings(cmd) : Proper(cmd, f)) => ~Fails(p)
    <2> SUFFICES ASSUME Len(args) >= 2, NEW f \in SetReadings(cmd), Proper(cmd, f)
                 PROVE  ~Fails(p)
      OBVIOUS
    <2> DEFINE h == [j \in OptionPlaces(args) |-> f[j + 1]]
    <2>1. ArgRoles(args, h)
      BY RolesOfReading
    <2> HIDE DEF h
    <2> QED BY <1>1, <2>1, SetAccepts
  <1>4. ASSUME Len(args) >= 2, ~Fails(p)
        PROVE  \E f \in SetReadings(cmd) :
                 /\ SetMeans(cmd, f, process_set(p.outs))
                 /\ process_set(p.outs).expiration.type = "UNIX_TS" =>
                      Exact(SetTime(cmd, f), process_set(p.outs).expiration.ts)
    <2>1. PICK c, a3, g, a4, e, t, a5 : SetReads(args, p, c, a3, g, a4, e, t, a5)
      BY <1>1, <1>4, SetArguments DEF SetBreaks
    <2> DEFINE U == OptionPlaces(args)
               k == Given(KeyDef, args[1])
               v == Given(SetValueDef, args[2])
               op == process_set(<<k, v, a3, a4, a5>>)
    <2>2. /\ ConditionRead(args, U, c, a3)
          /\ GetRead(args, U \ {c}, g, a4)
          /\ ExpirationRead(args, (U \ {c}) \ {g}, e, t, a5)
      BY <2>1 DEF SetReads
    <2>3. (((U \ {c}) \ {g}) \ {e}) \ {t} = {}
      BY <1>4, <2>1 DEF SetReads
    <2>4. p.outs = <<k, v, a3, a4, a5>>
      BY <2>1, <2>3 DEF SetReads, Succeeds
    <2>5. SetPlaces(args, c, g, e, t)
      BY <1>1, <2>2, <2>3, PlacesRead
    <2>6. PICK f : IsReading(cmd, args, f, c, g, e, t)
      BY <2>5, ReadingExists
    <2>7. f \in SetReadings(cmd)
      BY <1>1, <2>2, <2>6, ReadingIsSetReading
    <2>8. k.value = cmd[2] /\ v.value = cmd[3]
      <3>1. k.value = args[1] /\ v.value = args[2]
        BY GivenFields
      <3>2. args[1] = cmd[2] /\ args[2] = cmd[3]
        <4>1. 1 \in 1 .. Len(args) /\ 2 \in 1 .. Len(args) /\ 1 + 1 = 2 /\ 2 + 1 = 3
          BY <1>1, <1>4
        <4> QED BY <4>1 DEF ArgsOf
      <3> QED BY <3>1, <3>2
    <2> HIDE DEF k, v
    <2>9. /\ op.key = k.value /\ op.value = v.value
          /\ op.nx <=> a3.present /\ a3.name = "nx"
          /\ op.xx <=> a3.present /\ a3.name = "xx"
          /\ op.get <=> a4.present
          /\ op.expiration = get_expire_time(a5)
      BY SetFields
    <2> HIDE DEF op
    <2>10. SetMeans(cmd, f, op)
      BY <1>1, <2>2, <2>6, <2>8, <2>9, SetMeansThis
    <2>11. op.expiration.type = "UNIX_TS" => Exact(SetTime(cmd, f), op.expiration.ts)
      <3> DEFINE V == (U \ {c}) \ {g}
      <3>1. 0 \notin V
        BY DEF OptionPlaces
      <3>2. ExpirationRead(args, V, e, t, a5)
        BY <2>2
      <3> HIDE DEF V
      <3> QED BY <1>1, <2>6, <2>9, <3>1, <3>2, SetTimeExact
    <2> QED BY <2>4, <2>7, <2>10, <2>11 DEF op
  <1>5. Fails(p) \/ (Len(args) >= 2 /\ ~Fails(p))
    BY <1>1, <1>2
  <1> QED BY <1>2, <1>3, <1>4, <1>5

(***************************************************************************)
(* Dispatch.                                                               *)
(***************************************************************************)
CommandNames == {"PING", "SET", "GET", "DEL", "INFO", "TTL", "EXISTS", "EXPIRE",
                 "INCR", "DECR", "INCRBY", "DECRBY"}

LEMMA CommandTable ==
  /\ DOMAIN COMMANDS = 1 .. 12
  /\ COMMANDS[1].name = "PING"    /\ COMMANDS[1].args = <<MessageDef>>
  /\ COMMANDS[2].name = "SET"     /\ COMMANDS[2].args = SetArgs
  /\ COMMANDS[3].name = "GET"     /\ COMMANDS[3].args = KeyArg
  /\ COMMANDS[4].name = "DEL"     /\ COMMANDS[4].args = KeyArg
  /\ COMMANDS[5].name = "INFO"    /\ COMMANDS[5].args = <<>>
  /\ COMMANDS[6].name = "TTL"     /\ COMMANDS[6].args = KeyArg
  /\ COMMANDS[7].name = "EXISTS"  /\ COMMANDS[7].args = KeyArg
  /\ COMMANDS[8].name = "EXPIRE"  /\ COMMANDS[8].args = ExpireArgs
  /\ COMMANDS[9].name = "INCR"    /\ COMMANDS[9].args = KeyArg
  /\ COMMANDS[10].name = "DECR"   /\ COMMANDS[10].args = KeyArg
  /\ COMMANDS[11].name = "INCRBY" /\ COMMANDS[11].args = DeltaArg("increment")
  /\ COMMANDS[12].name = "DECRBY" /\ COMMANDS[12].args = DeltaArg("decrement")
  <1>1. DOMAIN COMMANDS = 1 .. 12
    BY DEF COMMANDS
  <1>2. COMMANDS[1].name = "PING" /\ COMMANDS[1].args = <<MessageDef>>
    BY DEF COMMANDS, MessageDef
  <1>3. COMMANDS[2].name = "SET" /\ COMMANDS[2].args = SetArgs
    BY DEF COMMANDS
  <1>4. COMMANDS[3].name = "GET" /\ COMMANDS[3].args = KeyArg
    BY DEF COMMANDS
  <1>5. COMMANDS[4].name = "DEL" /\ COMMANDS[4].args = KeyArg
    BY DEF COMMANDS
  <1>6. COMMANDS[5].name = "INFO" /\ COMMANDS[5].args = <<>>
    BY DEF COMMANDS
  <1>7. COMMANDS[6].name = "TTL" /\ COMMANDS[6].args = KeyArg
    BY DEF COMMANDS
  <1>8. COMMANDS[7].name = "EXISTS" /\ COMMANDS[7].args = KeyArg
    BY DEF COMMANDS
  <1>9. COMMANDS[8].name = "EXPIRE" /\ COMMANDS[8].args = ExpireArgs
    BY DEF COMMANDS
  <1>10. COMMANDS[9].name = "INCR" /\ COMMANDS[9].args = KeyArg
    BY DEF COMMANDS
  <1>11. COMMANDS[10].name = "DECR" /\ COMMANDS[10].args = KeyArg
    BY DEF COMMANDS
  <1>12. COMMANDS[11].name = "INCRBY" /\ COMMANDS[11].args = DeltaArg("increment")
    BY DEF COMMANDS
  <1>13. COMMANDS[12].name = "DECRBY" /\ COMMANDS[12].args = DeltaArg("decrement")
    BY DEF COMMANDS
  <1> QED BY <1>1, <1>2, <1>3, <1>4, <1>5, <1>6, <1>7, <1>8, <1>9, <1>10, <1>11, <1>12, <1>13

LEMMA CommandsDistinct ==
  /\ \A i \in DOMAIN COMMANDS : COMMANDS[i].name \in CommandNames
  /\ \A i, j \in DOMAIN COMMANDS : COMMANDS[i].name = COMMANDS[j].name => i = j
  <1>1. \A i \in 1 .. 12 : i \in {1, 2, 3, 4, 5, 6, 7, 8, 9, 10, 11, 12}
    OBVIOUS
  <1>2. \A i \in 1 .. 12 : COMMANDS[i].name \in CommandNames
    BY <1>1, CommandTable DEF CommandNames
  <1>3. \A i, j \in 1 .. 12 : COMMANDS[i].name = COMMANDS[j].name => i = j
    <2> SUFFICES ASSUME NEW i \in 1 .. 12, NEW j \in 1 .. 12, COMMANDS[i].name = COMMANDS[j].name
                 PROVE  i = j
      OBVIOUS
    <2>1. CASE i = 1
      BY <1>1, <2>1, CommandTable
    <2>2. CASE i = 2
      BY <1>1, <2>2, CommandTable
    <2>3. CASE i = 3
      BY <1>1, <2>3, CommandTable
    <2>4. CASE i = 4
      BY <1>1, <2>4, CommandTable
    <2>5. CASE i = 5
      BY <1>1, <2>5, CommandTable
    <2>6. CASE i = 6
      BY <1>1, <2>6, CommandTable
    <2>7. CASE i = 7
      BY <1>1, <2>7, CommandTable
    <2>8. CASE i = 8
      BY <1>1, <2>8, CommandTable
    <2>9. CASE i = 9
      BY <1>1, <2>9, CommandTable
    <2>10. CASE i = 10
      BY <1>1, <2>10, CommandTable
    <2>11. CASE i = 11
      BY <1>1, <2>11, CommandTable
    <2>12. CASE i = 12
      BY <1>1, <2>12, CommandTable
    <2> QED BY <1>1, <2>1, <2>2, <2>3, <2>4, <2>5, <2>6, <2>7, <2>8, <2>9, <2>10, <2>11, <2>12
  <1> QED BY <1>2, <1>3, CommandTable

LEMMA LookupFinds ==
  ASSUME NEW word, NEW i \in DOMAIN COMMANDS, Upper(word) = COMMANDS[i].name
  PROVE  Lookup(word) = i
  <1> DEFINE found == {j \in DOMAIN COMMANDS : str_eq_ci(word, COMMANDS[j].name)}
  <1>1. \A j \in DOMAIN COMMANDS : COMMANDS[j].name # ""
    BY CommandsDistinct DEF CommandNames
  <1>2. \A j \in DOMAIN COMMANDS : str_eq_ci(word, COMMANDS[j].name) <=> Upper(word) = COMMANDS[j].name
    BY <1>1, TokenIsUpper
  <1>3. found = {i}
    BY <1>2, CommandsDistinct
  <1>4. i \in Nat
    BY CommandTable
  <1>5. Lookup(word) = IF found = {} THEN 0 ELSE Min(found)
    BY DEF Lookup
  <1> HIDE DEF found
  <1>6. Min(found) = i
    BY <1>3, <1>4, MinOfOne
  <1> QED BY <1>3, <1>5, <1>6

LEMMA LookupMisses ==
  ASSUME NEW word, Upper(word) \notin CommandNames
  PROVE  Lookup(word) = 0
  <1> DEFINE found == {j \in DOMAIN COMMANDS : str_eq_ci(word, COMMANDS[j].name)}
  <1>1. \A j \in DOMAIN COMMANDS : COMMANDS[j].name # ""
    BY CommandsDistinct DEF CommandNames
  <1>2. \A j \in DOMAIN COMMANDS : ~str_eq_ci(word, COMMANDS[j].name)
    BY <1>1, TokenIsUpper, CommandsDistinct
  <1>3. found = {}
    BY <1>2
  <1>4. Lookup(word) = IF found = {} THEN 0 ELSE Min(found)
    BY DEF Lookup
  <1> HIDE DEF found
  <1> QED BY <1>3, <1>4

LEMMA Dispatched ==
  ASSUME NEW word, NEW args, NEW i \in DOMAIN COMMANDS, Upper(word) = COMMANDS[i].name
  PROVE  process_command_helper(word, args)
           = Dispatch(COMMANDS[i].name, parse_command_arguments(COMMANDS[i].args, args))
  <1>1. Lookup(word) = i /\ i # 0
    BY LookupFinds, CommandTable
  <1> QED BY <1>1, Zenon DEF process_command_helper

LEMMA NotDispatched ==
  ASSUME NEW word, NEW args, Upper(word) \notin CommandNames
  PROVE  process_command_helper(word, args) = Refuses("UNKNOWN COMMAND")
  <1>1. Lookup(word) = 0
    BY LookupMisses
  <1> QED BY <1>1, Zenon DEF process_command_helper

(* What comes of it. *)
LEMMA Refused ==
  ASSUME NEW why
  PROVE  Refuses(why).did = "refuse"
  BY DEF Refuses

LEMMA DispatchRefuses ==
  ASSUME NEW name, NEW p, Fails(p)
  PROVE  Dispatch(name, p).did = "refuse" /\ OperationOf(Dispatch(name, p)) = NoOperation
  <1>1. Dispatch(name, p) = Refuses("Invalid command arguments")
    BY DEF Dispatch, Fails
  <1>2. Dispatch(name, p).did = "refuse"
    BY <1>1, Refused, Zenon
  <1> QED BY <1>2 DEF OperationOf

LEMMA DispatchRuns ==
  ASSUME NEW name, NEW p, ~Fails(p)
  PROVE  /\ Dispatch(name, p).did = "run"
         /\ name \notin {"PING", "INFO"} =>
              OperationOf(Dispatch(name, p)) = Operation(name, p.outs)
         /\ name \in {"PING", "INFO"} => OperationOf(Dispatch(name, p)) = NoOperation
  <1> DEFINE does == Dispatch(name, p)
  <1>1. does = Runs(name, p.outs)
    BY DEF Dispatch, Fails
  <1>2. does.did = "run" /\ does.name = name /\ does.args = p.outs
    BY <1>1 DEF Runs
  <1> HIDE DEF does
  <1>3. OperationOf(does) = IF name \notin {"PING", "INFO"} THEN Operation(name, p.outs) ELSE NoOperation
    BY <1>2 DEF OperationOf
  <1> QED BY <1>2, <1>3 DEF does

(***************************************************************************)
(* The two properties, of a command, what was done with it and the         *)
(* operation.                                                              *)
(***************************************************************************)
Understood(cmd, did, op) ==
  /\ WellFormed(cmd) => did = "run"
  /\ Malformed(cmd) => did = "refuse"
  /\ op # NoOperation => op.key = cmd[2]
  /\ did = "run" /\ IsSet(cmd) => \E f \in SetReadings(cmd) : SetMeans(cmd, f, op)
  /\ did = "run" /\ IsExpire(cmd) =>
       op.condition = IF Len(cmd) = 4 THEN ConditionName[Upper(cmd[4])] ELSE "none"

Precise(cmd, did, op) ==
  did = "run" =>
    /\ IsSet(cmd) /\ op.expiration.type = "UNIX_TS" =>
         \E f \in SetReadings(cmd) :
           SetMeans(cmd, f, op) /\ Exact(SetTime(cmd, f), op.expiration.ts)
    /\ IsExpire(cmd) => Exact(Now + Value(cmd[3]) * MsPerSec, op.expires_at)
    /\ IsDelta(cmd) =>
         Exact(IF Upper(cmd[1]) = "INCRBY" THEN Value(cmd[3]) ELSE -Value(cmd[3]), op.delta)

Right(cmd, does) ==
  Understood(cmd, does.did, OperationOf(does)) /\ Precise(cmd, does.did, OperationOf(does))

LEMMA ArgsPlaces ==
  ASSUME NEW cmd, NEW args, ArgsOf(cmd, args)
  PROVE  /\ Len(args) \in Nat
         /\ (Len(cmd) = 1 <=> Len(args) = 0) /\ (Len(cmd) = 2 <=> Len(args) = 1)
         /\ (Len(cmd) = 3 <=> Len(args) = 2) /\ (Len(cmd) = 4 <=> Len(args) = 3)
         /\ (Len(cmd) >= 3 <=> Len(args) >= 2) /\ (Len(cmd) <= 2 <=> Len(args) <= 1)
         /\ (Len(args) <= 1 <=> ~(Len(args) > 1)) /\ (Len(args) <= 1 <=> Len(args) \in {0, 1})
         /\ (Len(args) >= 2 <=> ~(Len(args) < 2))
         /\ (Len(args) \in {2, 3} => Len(args) >= 2)
         /\ (Len(args) = 1 => args[1] = cmd[2])
         /\ (Len(args) >= 2 => args[1] = cmd[2] /\ args[2] = cmd[3])
         /\ (Len(args) = 3 => args[3] = cmd[4])
  <1> DEFINE n == Len(args)
             m == Len(cmd)
  <1>1. n \in Nat /\ m \in Nat /\ m = n + 1 /\ \A i \in 1 .. n : args[i] = cmd[i + 1]
    BY DEF ArgsOf
  <1> HIDE DEF n, m
  <1>2. /\ (m = 1 <=> n = 0) /\ (m = 2 <=> n = 1) /\ (m = 3 <=> n = 2) /\ (m = 4 <=> n = 3)
        /\ (m >= 3 <=> n >= 2) /\ (m <= 2 <=> n <= 1)
        /\ (n <= 1 <=> ~(n > 1)) /\ (n <= 1 <=> n \in {0, 1}) /\ (n >= 2 <=> ~(n < 2))
        /\ (n \in {2, 3} => n >= 2)
    BY <1>1
  <1>3. /\ n = 1 => 1 \in 1 .. n
        /\ n >= 2 => 1 \in 1 .. n /\ 2 \in 1 .. n
        /\ n = 3 => 3 \in 1 .. n
        /\ 1 + 1 = 2 /\ 2 + 1 = 3 /\ 3 + 1 = 4
    BY <1>1
  <1>4. /\ n = 1 => args[1] = cmd[2]
        /\ n >= 2 => args[1] = cmd[2] /\ args[2] = cmd[3]
        /\ n = 3 => args[3] = cmd[4]
    BY <1>1, <1>3
  <1> QED BY <1>1, <1>2, <1>4 DEF n, m

(* The forms of a command by its name. *)
LEMMA Forms ==
  ASSUME NEW cmd
  PROVE  /\ Upper(cmd[1]) \notin CommandNames => ~WellFormed(cmd) /\ Malformed(cmd)
         /\ Upper(cmd[1]) # "SET" => ~IsSet(cmd)
         /\ Upper(cmd[1]) # "EXPIRE" => ~IsExpire(cmd)
         /\ Upper(cmd[1]) \notin {"INCRBY", "DECRBY"} => ~IsDelta(cmd)
         /\ Upper(cmd[1]) # "SET" => (Malformed(cmd) <=> ~WellFormed(cmd))
         /\ Upper(cmd[1]) \in {"GET", "DEL", "TTL", "EXISTS", "INCR", "DECR"} =>
              (WellFormed(cmd) <=> Len(cmd) = 2)
         /\ Upper(cmd[1]) \in {"INCRBY", "DECRBY"} => (WellFormed(cmd) <=> IsDelta(cmd))
         /\ Upper(cmd[1]) = "PING" => (WellFormed(cmd) <=> Len(cmd) <= 2)
         /\ Upper(cmd[1]) = "INFO" => (WellFormed(cmd) <=> Len(cmd) = 1)
         /\ Upper(cmd[1]) = "EXPIRE" => (WellFormed(cmd) <=> IsExpire(cmd))
         /\ Upper(cmd[1]) = "SET" =>
              (WellFormed(cmd) <=> IsSet(cmd) /\ \E f \in SetReadings(cmd) : Proper(cmd, f))
  BY DEF WellFormed, Malformed, IsSet, IsExpire, IsDelta, IsOfKey, IsPing, IsInfo, CommandNames

LEMMA UnknownRight ==
  ASSUME NEW cmd, NEW args, Upper(cmd[1]) \notin CommandNames
  PROVE  Right(cmd, process_command_helper(cmd[1], args))
  <1> DEFINE does == process_command_helper(cmd[1], args)
  <1>1. does.did = "refuse"
    BY NotDispatched, Refused, Zenon
  <1> HIDE DEF does
  <1>2. OperationOf(does) = NoOperation
    BY <1>1 DEF OperationOf
  <1>3. Understood(cmd, "refuse", NoOperation)
    BY Forms DEF Understood
  <1>4. Precise(cmd, "refuse", NoOperation)
    BY DEF Precise
  <1> QED BY <1>1, <1>2, <1>3, <1>4 DEF Right, does

(* A command that is refused. *)
LEMMA RefusedRight ==
  ASSUME NEW cmd, NEW name, NEW p, Fails(p), ~WellFormed(cmd)
  PROVE  Right(cmd, Dispatch(name, p))
  <1>1. Dispatch(name, p).did = "refuse" /\ OperationOf(Dispatch(name, p)) = NoOperation
    BY DispatchRefuses
  <1>2. Understood(cmd, "refuse", NoOperation)
    BY DEF Understood
  <1>3. Precise(cmd, "refuse", NoOperation)
    BY DEF Precise
  <1> QED BY <1>1, <1>2, <1>3 DEF Right

(* A command without options that is run. *)
LEMMA RunRight ==
  ASSUME NEW cmd, NEW name, NEW p, ~Fails(p), WellFormed(cmd),
         ~IsSet(cmd), ~IsExpire(cmd), ~IsDelta(cmd),
         OperationOf(Dispatch(name, p)) = NoOperation \/ OperationOf(Dispatch(name, p)).key = cmd[2]
  PROVE  Right(cmd, Dispatch(name, p))
  <1> DEFINE op == OperationOf(Dispatch(name, p))
  <1>1. Dispatch(name, p).did = "run"
    BY DispatchRuns
  <1>2. op = NoOperation \/ op.key = cmd[2]
    OBVIOUS
  <1> HIDE DEF op
  <1>3. Understood(cmd, "run", op)
    BY <1>2 DEF Understood, Malformed
  <1>4. Precise(cmd, "run", op)
    BY DEF Precise
  <1> QED BY <1>1, <1>3, <1>4 DEF Right, op

LEMMA PingRight ==
  ASSUME NEW cmd, NEW args, ArgsOf(cmd, args), Upper(cmd[1]) = "PING"
  PROVE  Right(cmd, Dispatch("PING", parse_command_arguments(<<MessageDef>>, args)))
  <1> DEFINE p == parse_command_arguments(<<MessageDef>>, args)
  <1>1. Len(args) \in Nat /\ (WellFormed(cmd) <=> Len(args) <= 1)
    BY ArgsPlaces, Forms
  <1>2. /\ Len(args) = 0 => Succeeds(p, <<NotGiven(MessageDef)>>)
        /\ Len(args) = 1 => Succeeds(p, <<Given(MessageDef, args[1])>>)
        /\ Len(args) > 1 => Fails(p)
    BY <1>1, PingArguments
  <1> HIDE DEF p
  <1>3. CASE Fails(p)
    <2>1. ~(Len(args) = 0) /\ ~(Len(args) = 1)
      BY <1>2, <1>3 DEF Fails, Succeeds
    <2>2. ~(Len(args) <= 1)
      BY <2>1, ArgsPlaces, Zenon
    <2> QED BY <1>1, <1>3, <2>2, RefusedRight DEF p
  <1>4. CASE ~Fails(p)
    <2>1. Len(args) <= 1
      BY <1>2, <1>4, ArgsPlaces, Zenon
    <2>2. OperationOf(Dispatch("PING", p)) = NoOperation
      BY <1>4, DispatchRuns
    <2>3. ~IsSet(cmd) /\ ~IsExpire(cmd) /\ ~IsDelta(cmd) /\ WellFormed(cmd)
      BY <1>1, <2>1, Forms
    <2> QED BY <1>4, <2>2, <2>3, RunRight DEF p
  <1> QED BY <1>3, <1>4

LEMMA InfoRight ==
  ASSUME NEW cmd, NEW args, ArgsOf(cmd, args), Upper(cmd[1]) = "INFO"
  PROVE  Right(cmd, Dispatch("INFO", parse_command_arguments(<<>>, args)))
  <1> DEFINE p == parse_command_arguments(<<>>, args)
  <1>1. Len(args) \in Nat /\ (WellFormed(cmd) <=> Len(args) = 0)
    BY ArgsPlaces, Forms
  <1>2. Fails(p) <=> ~(Len(args) = 0)
    BY <1>1, InfoArguments DEF Fails, Succeeds
  <1> HIDE DEF p
  <1>3. CASE Fails(p)
    BY <1>1, <1>2, <1>3, RefusedRight DEF p
  <1>4. CASE ~Fails(p)
    <2>1. OperationOf(Dispatch("INFO", p)) = NoOperation
      BY <1>4, DispatchRuns
    <2>2. ~IsSet(cmd) /\ ~IsExpire(cmd) /\ ~IsDelta(cmd) /\ WellFormed(cmd)
      BY <1>1, <1>2, <1>4, Forms
    <2> QED BY <1>4, <2>1, <2>2, RunRight DEF p
  <1> QED BY <1>3, <1>4

KeyNames == {"GET", "DEL", "TTL", "EXISTS", "INCR", "DECR"}

LEMMA KeyOperation ==
  ASSUME NEW name \in KeyNames, NEW outs
  PROVE  Operation(name, outs).key = outs[1].value
  <1>1. CASE name = "GET"
    <2>1. Operation(name, outs) = process_get(outs)
      BY <1>1, Zenon DEF Operation
    <2> QED BY <2>1 DEF process_get
  <1>2. CASE name = "DEL"
    <2>1. Operation(name, outs) = process_del(outs)
      BY <1>2, Zenon DEF Operation
    <2> QED BY <2>1 DEF process_del
  <1>3. CASE name = "TTL"
    <2>1. Operation(name, outs) = process_ttl(outs)
      BY <1>3, Zenon DEF Operation
    <2> QED BY <2>1 DEF process_ttl
  <1>4. CASE name = "EXISTS"
    <2>1. Operation(name, outs) = process_exists(outs)
      BY <1>4, Zenon DEF Operation
    <2> QED BY <2>1 DEF process_exists
  <1>5. CASE name = "INCR"
    <2>1. Operation(name, outs) = process_incr(outs)
      BY <1>5, Zenon DEF Operation
    <2> QED BY <2>1 DEF process_incr
  <1>6. CASE name = "DECR"
    <2>1. Operation(name, outs) = process_decr(outs)
      BY <1>6, Zenon DEF Operation
    <2> QED BY <2>1 DEF process_decr
  <1> QED BY <1>1, <1>2, <1>3, <1>4, <1>5, <1>6 DEF KeyNames

LEMMA KeyRight ==
  ASSUME NEW cmd, NEW args, ArgsOf(cmd, args), NEW name \in KeyNames, Upper(cmd[1]) = name
  PROVE  Right(cmd, Dispatch(name, parse_command_arguments(KeyArg, args)))
  <1> DEFINE p == parse_command_arguments(KeyArg, args)
             outs == <<Given(KeyDef, args[1])>>
  <1>1. Len(args) \in Nat /\ (WellFormed(cmd) <=> Len(args) = 1)
    BY ArgsPlaces, Forms DEF KeyNames
  <1>2. /\ Len(args) = 1 => Succeeds(p, outs)
        /\ ~(Len(args) = 1) => Fails(p)
    BY <1>1, KeyArguments
  <1>3. outs[1].value = args[1]
    BY GivenFields
  <1> HIDE DEF p, outs
  <1>4. CASE Fails(p)
    BY <1>1, <1>2, <1>4, RefusedRight DEF p, Fails, Succeeds
  <1>5. CASE ~Fails(p)
    <2>1. Len(args) = 1 /\ p.outs = outs
      BY <1>2, <1>5 DEF Succeeds
    <2>2. OperationOf(Dispatch(name, p)) = Operation(name, outs)
      <3>1. name \notin {"PING", "INFO"}
        BY DEF KeyNames
      <3> QED BY <1>5, <2>1, <3>1, DispatchRuns
    <2>3. Operation(name, outs).key = cmd[2]
      BY <1>3, <2>1, KeyOperation, ArgsPlaces
    <2>4. ~IsSet(cmd) /\ ~IsExpire(cmd) /\ ~IsDelta(cmd) /\ WellFormed(cmd)
      BY <1>1, <2>1, Forms DEF KeyNames
    <2> QED BY <1>5, <2>2, <2>3, <2>4, RunRight DEF p
  <1> QED BY <1>4, <1>5

LEMMA DeltaForm ==
  ASSUME NEW cmd, NEW args, ArgsOf(cmd, args), Upper(cmd[1]) \in {"INCRBY", "DECRBY"}
  PROVE  IsDelta(cmd) <=> Len(args) = 2 /\ IsNumber(args[2])
  <1>1. Len(args) = 2 => args[2] = cmd[3]
    BY ArgsPlaces
  <1> QED BY <1>1, ArgsPlaces, Zenon DEF IsDelta

LEMMA DeltaRight ==
  ASSUME NEW cmd, NEW args, ArgsOf(cmd, args), NEW name, NEW unit,
         Upper(cmd[1]) = name, name \in {"INCRBY", "DECRBY"}
  PROVE  Right(cmd, Dispatch(name, parse_command_arguments(DeltaArg(unit), args)))
  <1> DEFINE p == parse_command_arguments(DeltaArg(unit), args)
             k == Given(KeyDef, args[1])
             v == Given(NumberDef(unit), Value(args[2]))
             n == Value(args[2])
  <1>1. Len(args) \in Nat /\ (WellFormed(cmd) <=> IsDelta(cmd))
    BY ArgsPlaces, Forms
  <1>2. IsDelta(cmd) <=> Len(args) = 2 /\ IsNumber(args[2])
    BY DeltaForm
  <1>3. /\ Len(args) = 2 /\ IsNumber(args[2]) => Succeeds(p, <<k, v>>)
        /\ ~(Len(args) = 2 /\ IsNumber(args[2])) => Fails(p)
    BY <1>1, DeltaArguments
  <1>4. k.value = args[1] /\ v.value = n
    BY GivenFields
  <1> HIDE DEF p, k, v
  <1>5. CASE Fails(p)
    <2>1. ~WellFormed(cmd)
      BY <1>1, <1>2, <1>3, <1>5 DEF Fails, Succeeds
    <2> QED BY <1>5, <2>1, RefusedRight DEF p
  <1>6. CASE ~Fails(p)
    <2> DEFINE op == Operation(name, <<k, v>>)
    <2>1. Len(args) = 2 /\ p.outs = <<k, v>>
      BY <1>3, <1>6 DEF Succeeds
    <2>2. Dispatch(name, p).did = "run" /\ OperationOf(Dispatch(name, p)) = op
      <3>1. name \notin {"PING", "INFO"}
        OBVIOUS
      <3> QED BY <1>6, <2>1, <3>1, DispatchRuns
    <2>3. args[1] = cmd[2] /\ args[2] = cmd[3]
      BY <2>1, ArgsPlaces
    <2>4. <<k, v>>[1] = k /\ <<k, v>>[2] = v
      OBVIOUS
    <2>5. op.key = k.value /\ (name = "INCRBY" => op.delta = n)
          /\ (name = "DECRBY" => op.delta = Wrap64(-n))
      <3> DEFINE outs == <<k, v>>
      <3> HIDE DEF outs
      <3>1. CASE name = "INCRBY"
        <4>1. Operation(name, outs) = process_incrby(outs)
          BY <3>1, Zenon DEF Operation
        <4> QED BY <1>4, <2>4, <3>1, <4>1 DEF process_incrby, outs
      <3>2. CASE name = "DECRBY"
        <4>1. Operation(name, outs) = process_decrby(outs)
          BY <3>2, Zenon DEF Operation
        <4> QED BY <1>4, <2>4, <3>2, <4>1 DEF process_decrby, outs
      <3> QED BY <3>1, <3>2
    <2> DEFINE x == -n
    <2>6. Exact(IF Upper(cmd[1]) = "INCRBY" THEN Value(cmd[3]) ELSE -Value(cmd[3]), op.delta)
      <3>1. CASE name = "INCRBY"
        BY <2>3, <2>5, <3>1 DEF Exact
      <3>2. CASE name = "DECRBY"
        <4>1. op.delta = Wrap64(x) /\ -Value(cmd[3]) = x
          BY <2>3, <2>5, <3>2
        <4> HIDE DEF x, op
        <4>2. x \in MinInt .. MaxInt => Wrap64(x) = x
          BY WrapExact
        <4> QED BY <3>2, <4>1, <4>2 DEF Exact
      <3> QED BY <3>1, <3>2
    <2> HIDE DEF op
    <2>7. WellFormed(cmd) /\ ~IsSet(cmd) /\ ~IsExpire(cmd)
      BY <1>1, <1>2, <1>3, <1>6, Forms
    <2>8. Understood(cmd, "run", op)
      BY <1>4, <2>3, <2>5, <2>7 DEF Understood, Malformed
    <2>9. Precise(cmd, "run", op)
      BY <2>6, <2>7 DEF Precise
    <2> QED BY <2>2, <2>8, <2>9 DEF Right, p
  <1> QED BY <1>5, <1>6

LEMMA ExpireForm ==
  ASSUME NEW cmd, NEW args, ArgsOf(cmd, args), Upper(cmd[1]) = "EXPIRE"
  PROVE  IsExpire(cmd) <=>
           /\ Len(args) = 2 \/ (Len(args) = 3 /\ Upper(args[3]) \in {"NX", "XX", "GT", "LT"})
           /\ IsNumber(args[2])
  <1>1. /\ Len(args) = 2 => args[2] = cmd[3]
        /\ Len(args) = 3 => args[2] = cmd[3] /\ args[3] = cmd[4]
    BY ArgsPlaces
  <1>2. (Len(cmd) = 3 <=> Len(args) = 2) /\ (Len(cmd) = 4 <=> Len(args) = 3)
    BY ArgsPlaces
  <1>3. Len(args) = 3 => ~(Len(args) = 2)
    OBVIOUS
  <1>4. Len(cmd) = 3 => ~(Len(cmd) = 4)
    OBVIOUS
  <1> QED BY <1>1, <1>2, <1>3, <1>4, Zenon DEF IsExpire

LEMMA ExpireFields ==
  ASSUME NEW k, NEW s, NEW a
  PROVE  LET op == Operation("EXPIRE", <<k, s, a>>)
         IN  /\ op.key = k.value
             /\ op.expires_at = Wrap64(Now + Wrap64(s.value * MsPerSec))
             /\ op.condition = IF a.present THEN a.name ELSE "none"
  <1> DEFINE outs == <<k, s, a>>
  <1>1. outs[1] = k /\ outs[2] = s /\ outs[3] = a
    OBVIOUS
  <1> HIDE DEF outs
  <1>2. Operation("EXPIRE", outs) = process_expire(outs)
    BY Zenon DEF Operation
  <1>3. process_expire(outs).key = k.value
    BY <1>1 DEF process_expire
  <1>4. process_expire(outs).expires_at = Wrap64(Now + Wrap64(s.value * MsPerSec))
    BY <1>1 DEF process_expire
  <1>5. process_expire(outs).condition = IF a.present THEN a.name ELSE "none"
    BY <1>1 DEF process_expire, resolve_expire_condition
  <1> QED BY <1>2, <1>3, <1>4, <1>5 DEF outs

LEMMA ExpireRight ==
  ASSUME NEW cmd, NEW args, ArgsOf(cmd, args), Upper(cmd[1]) = "EXPIRE"
  PROVE  Right(cmd, Dispatch("EXPIRE", parse_command_arguments(ExpireArgs, args)))
  <1> DEFINE p == parse_command_arguments(ExpireArgs, args)
             n == Value(args[2])
             m == n * MsPerSec
             k == Given(KeyDef, args[1])
             s == Given(NumberDef("seconds"), n)
             Named == Upper(args[3]) \in {"NX", "XX", "GT", "LT"}
  <1>1. Len(args) \in Nat /\ (WellFormed(cmd) <=> IsExpire(cmd))
    BY ArgsPlaces, Forms
  <1>2. IsExpire(cmd) <=> (Len(args) = 2 \/ (Len(args) = 3 /\ Named)) /\ IsNumber(args[2])
    BY ExpireForm
  <1>3. /\ \/ Fails(p)
           \/ \E a : /\ Succeeds(p, <<k, s, a>>)
                     /\ ExpireCondition(args, a)
                     /\ IsNumber(args[2])
        /\ Len(args) >= 2 /\ IsNumber(args[2]) /\ (Len(args) = 2 \/ (Len(args) = 3 /\ Named)) => ~Fails(p)
    BY <1>1, ExpireArguments
  <1>4. k.value = args[1] /\ s.value = n
    BY GivenFields
  <1>5. n \in Int /\ m \in Int /\ Now \in Int
    BY NumberOrNot, Int64Assumption
  <1> HIDE DEF p, k, s, Named, n
  <1>6. CASE Fails(p)
    <2>1. ~WellFormed(cmd)
      <3> SUFFICES ASSUME WellFormed(cmd) PROVE FALSE
        OBVIOUS
      <3>1. (Len(args) = 2 \/ (Len(args) = 3 /\ Named)) /\ IsNumber(args[2])
        BY <1>1, <1>2
      <3>2. Len(args) >= 2
        BY <3>1
      <3> QED BY <1>3, <1>6, <3>1, <3>2, Zenon
    <2> QED BY <1>6, <2>1, RefusedRight DEF p
  <1>7. CASE ~Fails(p)
    <2>1. PICK a : /\ Succeeds(p, <<k, s, a>>)
                   /\ ExpireCondition(args, a)
                   /\ IsNumber(args[2])
      BY <1>3, <1>7
    <2> DEFINE op == Operation("EXPIRE", <<k, s, a>>)
    <2>2. Dispatch("EXPIRE", p).did = "run" /\ OperationOf(Dispatch("EXPIRE", p)) = op
      BY <1>7, <2>1, DispatchRuns DEF Succeeds
    <2>3. /\ op.key = k.value
          /\ op.expires_at = Wrap64(Now + Wrap64(s.value * MsPerSec))
          /\ op.condition = IF a.present THEN a.name ELSE "none"
      BY ExpireFields
    <2> HIDE DEF op
    <2>4. Len(args) = 2 \/ Len(args) = 3
      BY <2>1 DEF ExpireCondition
    <2>5. args[1] = cmd[2] /\ args[2] = cmd[3] /\ (Len(args) = 3 => args[3] = cmd[4])
      <3>1. Len(args) >= 2
        BY <2>4, ArgsPlaces, Zenon
      <3> QED BY <3>1, ArgsPlaces
    <2>6. op.condition = IF Len(cmd) = 4 THEN ConditionName[Upper(cmd[4])] ELSE "none"
      <3>1. CASE Len(args) = 2 /\ ~a.present
        <4>1. ~(Len(args) = 3)
          BY <3>1
        <4>2. ~(Len(cmd) = 4)
          BY <4>1, ArgsPlaces, Zenon
        <4> QED BY <2>3, <3>1, <4>2, Zenon
      <3>2. CASE Len(args) = 3 /\ a.present /\ a.name = ConditionName[Upper(args[3])]
        <4>1. Len(cmd) = 4
          BY <3>2, ArgsPlaces
        <4> QED BY <2>3, <2>5, <3>2, <4>1
      <3> QED BY <2>1, <3>1, <3>2 DEF ExpireCondition
    <2>7. Exact(Now + Value(cmd[3]) * MsPerSec, op.expires_at)
      <3>1. op.expires_at = Wrap64(Now + Wrap64(m)) /\ Now + Value(cmd[3]) * MsPerSec = Now + m
        BY <1>4, <2>3, <2>5 DEF n
      <3> HIDE DEF m
      <3>2. Now + m \in MinInt .. MaxInt => Wrap64(Now + Wrap64(m)) = Now + m
        BY <1>5, WrapSum
      <3> QED BY <3>1, <3>2 DEF Exact
    <2>8. WellFormed(cmd) /\ ~IsSet(cmd) /\ ~IsDelta(cmd)
      <3>1. IsExpire(cmd)
        BY <1>2, <2>1 DEF ExpireCondition, Named
      <3> QED BY <1>1, <3>1, Forms
    <2>9. Understood(cmd, "run", op)
      BY <1>4, <2>3, <2>5, <2>6, <2>8 DEF Understood, Malformed
    <2>10. Precise(cmd, "run", op)
      BY <2>7, <2>8 DEF Precise
    <2> QED BY <2>2, <2>9, <2>10 DEF Right, p
  <1> QED BY <1>6, <1>7

LEMMA SetRight ==
  ASSUME NEW cmd, NEW args, ArgsOf(cmd, args), Upper(cmd[1]) = "SET"
  PROVE  Right(cmd, Dispatch("SET", parse_command_arguments(SetArgs, args)))
  <1> DEFINE p == parse_command_arguments(SetArgs, args)
             op == process_set(p.outs)
             Readable == \E f \in SetReadings(cmd) : Proper(cmd, f)
  <1>1. /\ Len(args) \in Nat /\ (WellFormed(cmd) <=> IsSet(cmd) /\ Readable)
        /\ IsSet(cmd) <=> Len(args) >= 2
    BY ArgsPlaces, Forms DEF IsSet
  <1>2. /\ Len(args) < 2 => Fails(p)
        /\ Len(args) >= 2 /\ Readable => ~Fails(p)
        /\ Fails(p) \/ \E f \in SetReadings(cmd) :
                          /\ SetMeans(cmd, f, op)
                          /\ op.expiration.type = "UNIX_TS" => Exact(SetTime(cmd, f), op.expiration.ts)
    BY SetUnderstood
  <1> HIDE DEF p, op, Readable
  <1>3. CASE Fails(p)
    <2>1. ~WellFormed(cmd)
      BY <1>1, <1>2, <1>3
    <2> QED BY <1>3, <2>1, RefusedRight DEF p
  <1>4. CASE ~Fails(p)
    <2>1. PICK f \in SetReadings(cmd) :
            /\ SetMeans(cmd, f, op)
            /\ op.expiration.type = "UNIX_TS" => Exact(SetTime(cmd, f), op.expiration.ts)
      BY <1>2, <1>4
    <2>2. Dispatch("SET", p).did = "run" /\ OperationOf(Dispatch("SET", p)) = op
      <3>1. Operation("SET", p.outs) = op
        BY Zenon DEF Operation, op
      <3> QED BY <1>4, <3>1, DispatchRuns
    <2>3. IsSet(cmd) /\ ~IsExpire(cmd) /\ ~IsDelta(cmd)
      <3>1. Len(args) >= 2
        BY <1>1, <1>2, <1>4
      <3> QED BY <1>1, <3>1, Forms
    <2>4. ~Malformed(cmd)
      BY <2>1, <2>3 DEF Malformed
    <2>5. op.key = cmd[2]
      BY <2>1 DEF SetMeans
    <2>6. Understood(cmd, "run", op)
      BY <2>1, <2>3, <2>4, <2>5 DEF Understood
    <2>7. Precise(cmd, "run", op)
      BY <2>1, <2>3 DEF Precise
    <2> QED BY <2>2, <2>6, <2>7 DEF Right, p
  <1> QED BY <1>3, <1>4

LEMMA CommandRight ==
  ASSUME NEW cmd, NEW args, ArgsOf(cmd, args)
  PROVE  Right(cmd, process_command_helper(cmd[1], args))
  <1> DEFINE word == cmd[1]
             name == Upper(word)
             does == process_command_helper(word, args)
  <1>1. \A i \in 1 .. 12 : name = COMMANDS[i].name =>
          does = Dispatch(COMMANDS[i].name, parse_command_arguments(COMMANDS[i].args, args))
    <2> HIDE DEF word
    <2> QED BY Dispatched, CommandTable
  <1>2. {1, 2, 3, 4, 5, 6, 7, 8, 9, 10, 11, 12} \subseteq 1 .. 12
    OBVIOUS
  <1> HIDE DEF word, does
  <1>3. /\ name = "PING"   => does = Dispatch("PING", parse_command_arguments(<<MessageDef>>, args))
        /\ name = "SET"    => does = Dispatch("SET", parse_command_arguments(SetArgs, args))
        /\ name = "GET"    => does = Dispatch("GET", parse_command_arguments(KeyArg, args))
        /\ name = "DEL"    => does = Dispatch("DEL", parse_command_arguments(KeyArg, args))
        /\ name = "INFO"   => does = Dispatch("INFO", parse_command_arguments(<<>>, args))
        /\ name = "TTL"    => does = Dispatch("TTL", parse_command_arguments(KeyArg, args))
        /\ name = "EXISTS" => does = Dispatch("EXISTS", parse_command_arguments(KeyArg, args))
        /\ name = "EXPIRE" => does = Dispatch("EXPIRE", parse_command_arguments(ExpireArgs, args))
        /\ name = "INCR"   => does = Dispatch("INCR", parse_command_arguments(KeyArg, args))
        /\ name = "DECR"   => does = Dispatch("DECR", parse_command_arguments(KeyArg, args))
        /\ name = "INCRBY" => does = Dispatch("INCRBY", parse_command_arguments(DeltaArg("increment"), args))
        /\ name = "DECRBY" => does = Dispatch("DECRBY", parse_command_arguments(DeltaArg("decrement"), args))
    <2> HIDE DEF name
    <2>1. \A i \in {1, 2, 3, 4, 5, 6, 7, 8, 9, 10, 11, 12} : name = COMMANDS[i].name =>
            does = Dispatch(COMMANDS[i].name, parse_command_arguments(COMMANDS[i].args, args))
      BY <1>1, <1>2
    <2>2. /\ name = "PING" => does = Dispatch("PING", parse_command_arguments(<<MessageDef>>, args))
          /\ name = "SET"  => does = Dispatch("SET", parse_command_arguments(SetArgs, args))
          /\ name = "GET"  => does = Dispatch("GET", parse_command_arguments(KeyArg, args))
          /\ name = "DEL"  => does = Dispatch("DEL", parse_command_arguments(KeyArg, args))
      BY <2>1, CommandTable
    <2>3. /\ name = "INFO"   => does = Dispatch("INFO", parse_command_arguments(<<>>, args))
          /\ name = "TTL"    => does = Dispatch("TTL", parse_command_arguments(KeyArg, args))
          /\ name = "EXISTS" => does = Dispatch("EXISTS", parse_command_arguments(KeyArg, args))
          /\ name = "EXPIRE" => does = Dispatch("EXPIRE", parse_command_arguments(ExpireArgs, args))
      BY <2>1, CommandTable
    <2>4. /\ name = "INCR" => does = Dispatch("INCR", parse_command_arguments(KeyArg, args))
          /\ name = "DECR" => does = Dispatch("DECR", parse_command_arguments(KeyArg, args))
          /\ name = "INCRBY" =>
               does = Dispatch("INCRBY", parse_command_arguments(DeltaArg("increment"), args))
          /\ name = "DECRBY" =>
               does = Dispatch("DECRBY", parse_command_arguments(DeltaArg("decrement"), args))
      BY <2>1, CommandTable
    <2> QED BY <2>2, <2>3, <2>4, Zenon
  <1>4. CASE name \notin CommandNames
    BY <1>4, UnknownRight DEF word, does
  <1>5. CASE name \in KeyNames
    <2>1. does = Dispatch(name, parse_command_arguments(KeyArg, args))
      BY <1>3, <1>5 DEF KeyNames
    <2> QED BY <1>5, <2>1, KeyRight DEF word, does
  <1>6. CASE name = "PING"
    BY <1>3, <1>6, PingRight DEF word, does
  <1>7. CASE name = "INFO"
    BY <1>3, <1>7, InfoRight DEF word, does
  <1>8. CASE name = "SET"
    BY <1>3, <1>8, SetRight DEF word, does
  <1>9. CASE name = "EXPIRE"
    BY <1>3, <1>9, ExpireRight DEF word, does
  <1>10. CASE name = "INCRBY"
    <2>1. does = Dispatch(name, parse_command_arguments(DeltaArg("increment"), args))
      BY <1>3, <1>10
    <2> QED BY <1>10, <2>1, DeltaRight DEF word, does
  <1>11. CASE name = "DECRBY"
    <2>1. does = Dispatch(name, parse_command_arguments(DeltaArg("decrement"), args))
      BY <1>3, <1>11
    <2> QED BY <1>11, <2>1, DeltaRight DEF word, does
  <1> QED BY <1>4, <1>5, <1>6, <1>7, <1>8, <1>9, <1>10, <1>11 DEF CommandNames, KeyNames

(***************************************************************************)
(* From a RESP value to its command.                                       *)
(***************************************************************************)
Words(array) == [i \in DOMAIN array |-> array[i].data]

LEMMA ValueRight ==
  ASSUME NEW value, value.kind = "*" => IsTuple(value.array),
         NEW does, does = process_command(value), does.did # "exit"
  PROVE  Right(Words(value.array), does)
  <1> DEFINE a == value.array
             n == Len(a)
             cmd == Words(a)
             args == [i \in 1 .. n - 1 |-> a[i + 1].data]
  <1>1. value.kind = "*" /\ a # <<>> /\ does = process_command_helper(a[1].data, args)
    <2>1. Exits.did = "exit"
      BY DEF Exits
    <2> QED BY <2>1, Zenon DEF process_command, is_valid_bulk_string_array_command
  <1>2. n \in Nat /\ a = [i \in 1 .. n |-> a[i]]
    BY <1>1 DEF IsTuple
  <1>3. n # 0
    <2> HIDE DEF a, n
    <2> QED BY <1>1, <1>2, EmptyTuple
  <1>4. n - 1 \in Nat
    <2> HIDE DEF n
    <2> QED BY <1>2, <1>3
  <1>5. DOMAIN a = 1 .. n
    <2> HIDE DEF a, n
    <2> QED BY <1>2
  <1>6. cmd = [i \in 1 .. n |-> a[i].data]
    <2> HIDE DEF a, n
    <2> QED BY <1>5 DEF Words
  <1>7. Len(cmd) = n /\ \A i \in 1 .. n : cmd[i] = a[i].data
    <2> HIDE DEF a, n, cmd
    <2> QED BY <1>2, <1>6
  <1>8. Len(args) = n - 1 /\ \A i \in 1 .. n - 1 : args[i] = a[i + 1].data
    <2> HIDE DEF a, n
    <2> QED BY <1>4
  <1> HIDE DEF a, n, cmd, args
  <1>9. ArgsOf(cmd, args)
    <2>1. \A i \in 1 .. n - 1 : i + 1 \in 1 .. n
      BY <1>2
    <2>2. \A i \in 1 .. Len(args) : args[i] = cmd[i + 1]
      BY <1>7, <1>8, <2>1
    <2>3. Len(cmd) \in Nat /\ Len(args) \in Nat /\ Len(cmd) = Len(args) + 1
      <3>1. n = (n - 1) + 1
        BY <1>2
      <3> QED BY <1>2, <1>4, <1>7, <1>8, <3>1
    <2> QED BY <2>2, <2>3 DEF ArgsOf
  <1>10. cmd[1] = a[1].data
    <2>1. 1 \in 1 .. n
      BY <1>2, <1>3
    <2> QED BY <1>7, <2>1
  <1> QED BY <1>1, <1>9, <1>10, CommandRight DEF cmd, a

(***************************************************************************)
(* The values of the parser: an array's elements are a tuple, whatever the *)
(* input.                                                                  *)
(***************************************************************************)
LEMMA ParsedFields ==
  ASSUME NEW v, NEW pos
  PROVE  /\ Parsed(v, pos).code = "SUCCESS" /\ Parsed(v, pos).value = v
         /\ Parsed(v, pos).pos = pos
  BY DEF Parsed

LEMMA FailedFields ==
  ASSUME NEW code
  PROVE  Failed(code).code = code /\ Failed(code).value = NoValue
  BY DEF Failed

LEMMA ArrayFields ==
  ASSUME NEW a
  PROVE  Array(a).kind = "*" /\ Array(a).array = a
  BY DEF Array

IsElements(f, n, pos, at) ==
  f = [k \in 0 .. n |-> IF k = 0 THEN Parsed(NoValue, pos + 1)
                        ELSE IF f[k - 1].code = "SUCCESS" THEN at[f[k - 1].pos] ELSE f[k - 1]]

Elements(n, pos, at) == CHOOSE f : IsElements(f, n, pos, at)

Elems(f, n) == [i \in 1 .. n |-> f[i].value]

Collects(f, n) ==
  IF f[n].code = "SUCCESS" THEN Parsed(Array(Elems(f, n)), f[n].pos) ELSE Failed(f[n].code)

LEMMA ArrayParts ==
  ASSUME NEW in, NEW pos, NEW at
  PROVE  parse_array(in, pos, at) = Collects(Elements(in[pos].n, pos, at), in[pos].n)
  BY Zenon DEF parse_array, Elements, IsElements, Elems, Collects

LEMMA ElemsTuple ==
  ASSUME NEW f, NEW n \in Nat
  PROVE  /\ IsTuple(Elems(f, n)) /\ Len(Elems(f, n)) = n /\ DOMAIN Elems(f, n) = 1 .. n
         /\ \A i \in 1 .. n : Elems(f, n)[i] = f[i].value
  <1> DEFINE F == [i \in 1 .. n |-> f[i].value]
             a == Elems(f, n)
  <1>1. a = [i \in 1 .. n |-> F[i]]
    BY DEF Elems
  <1> HIDE DEF a, F
  <1>2. /\ IsTuple(a) /\ Len(a) = n /\ DOMAIN a = 1 .. n
        /\ \A i \in 1 .. n : a[i] = F[i]
    BY <1>1, IsTupleOf, TupleParts
  <1>3. \A i \in 1 .. n : F[i] = f[i].value
    BY DEF F
  <1> QED BY <1>2, <1>3 DEF a

HasTuple(value) == value.kind = "*" => IsTuple(value.array)

LEMMA ScalarsHaveTuples ==
  /\ HasTuple(NoValue) /\ HasTuple(Null)
  /\ \A x : HasTuple(Integer(x)) /\ HasTuple(SimpleString(x)) /\ HasTuple(SimpleError(x))
            /\ HasTuple(BulkString(x))
  BY DEF HasTuple, NoValue, Null, Integer, SimpleString, SimpleError, BulkString

LEMMA ParsedHasTuple ==
  ASSUME NEW in, NEW pos, NEW at, in[pos].mark = "*" => in[pos].n \in Nat
  PROVE  HasTuple(resp_parse_value(in, pos, at).value)
  <1> DEFINE n == in[pos].n
             f == Elements(n, pos, at)
             b == parse_bulk_string(in, pos)
             a == parse_array(in, pos, at)
             r == resp_parse_value(in, pos, at)
             Has(x) == HasTuple(x.value)
  <1>1. /\ \A code : Has(Failed(code))
        /\ \A x, p : Has(Parsed(Integer(x), p)) /\ Has(Parsed(SimpleString(x), p))
                     /\ Has(Parsed(SimpleError(x), p)) /\ Has(Parsed(BulkString(x), p))
                     /\ Has(Parsed(Null, p))
    BY ParsedFields, FailedFields, ScalarsHaveTuples
  <1>2. Has(b)
    <2> HIDE DEF Has
    <2> QED BY <1>1, Zenon DEF parse_bulk_string
  <1>3. in[pos].mark = "*" => Has(a)
    <2> SUFFICES ASSUME in[pos].mark = "*" PROVE Has(a)
      OBVIOUS
    <2>1. n \in Nat
      OBVIOUS
    <2>2. a = Collects(f, n)
      BY ArrayParts
    <2> HIDE DEF f, n, a
    <2>3. \A p : Has(Parsed(Array(Elems(f, n)), p))
      BY <2>1, ElemsTuple, ParsedFields, ArrayFields DEF HasTuple
    <2> HIDE DEF Has
    <2> QED BY <1>1, <2>2, <2>3 DEF Collects
  <1> HIDE DEF Has
  <1>4. Has(r)
    BY <1>1, <1>2, <1>3, Zenon DEF resp_parse_value
  <1> QED BY <1>4 DEF Has

(***************************************************************************)
(* What the client sends are cells.                                        *)
(***************************************************************************)
LEMMA CellIs ==
  ASSUME NEW mark \in Marks, NEW n \in Int, NEW s \in Text, mark \in {"$", "*"} => n \in Nat
  PROVE  [mark |-> mark, n |-> n, s |-> s] \in Cell
  <1> DEFINE c == [mark |-> mark, n |-> n, s |-> s]
  <1>1. c \in [mark : Marks, n : Int, s : Text]
    OBVIOUS
  <1>2. c.mark = mark /\ c.n = n
    OBVIOUS
  <1> HIDE DEF c
  <1>3. c \in Cell
    BY <1>1, <1>2 DEF Cell
  <1> QED BY <1>3 DEF c

LEMMA CellsAre ==
  /\ \A n \in Nat : Header("*", n) \in Cell /\ Header("$", n) \in Cell
  /\ LineEnd \in Cell
  <1>1. "*" \in Marks /\ "$" \in Marks /\ "" \in Marks /\ "" \in Text /\ "\r\n" \in Text
    BY TextAssumption DEF Marks
  <1>2. \A mark \in Marks, n \in Nat : Header(mark, n) \in Cell
    <2> SUFFICES ASSUME NEW mark \in Marks, NEW n \in Nat PROVE Header(mark, n) \in Cell
      OBVIOUS
    <2>1. n \in Int
      OBVIOUS
    <2>2. \A s \in Text : [mark |-> mark, n |-> n, s |-> s] \in Cell
      BY <2>1, CellIs, Zenon
    <2> QED BY <1>1, <2>2, Zenon DEF Header
  <1>3. "" \notin {"$", "*"} /\ 0 \in Int
    OBVIOUS
  <1>4. \A mark, s : mark = "" /\ s \in Text => [mark |-> mark, n |-> 0, s |-> s] \in Cell
    BY <1>1, <1>3, CellIs
  <1>5. LineEnd \in Cell
    BY <1>1, <1>4, Zenon DEF LineEnd, Byte
  <1> QED BY <1>1, <1>2, <1>5

LEMMA BulkIsCells ==
  ASSUME NEW b \in Seq(Cell)
  PROVE  serialize_bulk_string(b) \in Seq(Cell)
  <1>1. Len(b) \in Nat
    OBVIOUS
  <1> DEFINE h == Header("$", Len(b))
             e == LineEnd
  <1>2. h \in Cell /\ e \in Cell
    BY <1>1, CellsAre
  <1> HIDE DEF h, e
  <1>3. <<h>> \in Seq(Cell) /\ <<e>> \in Seq(Cell)
    BY <1>2
  <1>4. (<<h>> \o b) \o <<e>> \in Seq(Cell)
    BY <1>3
  <1> QED BY <1>4 DEF serialize_bulk_string, h, e

Bulks(cmd) == [i \in 1 .. Len(cmd) |-> serialize_bulk_string(cmd[i])]

LEMMA RequestIs ==
  ASSUME NEW cmd \in Seq(Seq(Cell))
  PROVE  /\ Bulks(cmd) \in Seq(Seq(Cell)) /\ Len(Bulks(cmd)) = Len(cmd)
         /\ Request(cmd) = <<Header("*", Len(cmd))>> \o FlattenSeq(Bulks(cmd))
         /\ Request(cmd) \in Seq(Cell)
  <1> DEFINE n == Len(cmd)
             a == [i \in DOMAIN cmd |-> BulkString(cmd[i])]
  <1>1. n \in Nat /\ DOMAIN cmd = 1 .. n /\ \A i \in 1 .. n : cmd[i] \in Seq(Cell)
    OBVIOUS
  <1>2. Len(a) = n /\ \A i \in 1 .. n : a[i] = BulkString(cmd[i])
    BY <1>1
  <1> HIDE DEF n
  <1>3. \A x : serialize_scalar(BulkString(x)) = serialize_bulk_string(x)
    BY DEF serialize_scalar, BulkString
  <1>4. [i \in 1 .. n |-> serialize_scalar(a[i])] = [i \in 1 .. n |-> serialize_bulk_string(cmd[i])]
    <2> HIDE DEF a
    <2> QED BY <1>2, <1>3
  <1> HIDE DEF a
  <1>5. Request(cmd) = serialize_array(a)
    BY ArrayFields DEF Request, resp_serialize_value, a
  <1>6. Request(cmd) = <<Header("*", n)>> \o FlattenSeq(Bulks(cmd))
    BY <1>2, <1>4, <1>5 DEF serialize_array, Bulks, n
  <1>7. Bulks(cmd) \in Seq(Seq(Cell)) /\ Len(Bulks(cmd)) = n
    <2>1. \A i \in 1 .. n : serialize_bulk_string(cmd[i]) \in Seq(Cell)
      BY <1>1, BulkIsCells
    <2> QED BY <1>1, <2>1 DEF Bulks, n
  <1>8. Request(cmd) \in Seq(Cell)
    <2> DEFINE h == Header("*", n)
               w == FlattenSeq(Bulks(cmd))
    <2>1. h \in Cell /\ w \in Seq(Cell)
      BY <1>1, <1>7, CellsAre, FlattenType
    <2> HIDE DEF h, w
    <2>2. <<h>> \o w \in Seq(Cell)
      BY <2>1
    <2> QED BY <2>2, <1>6 DEF h, w
  <1> QED BY <1>6, <1>7, <1>8 DEF n

(***************************************************************************)
(* The state: what is read is a part of what was sent, and what was done   *)
(* with the last command was right.                                        *)
(***************************************************************************)
Command == Seq(Seq(Cell)) \ {<<>>}

Typed == script \in Seq(Command) /\ sent \in 0 .. Len(script) /\ taken \in Nat

LEMMA StreamIs ==
  ASSUME script \in Seq(Command), NEW k \in 0 .. Len(script)
  PROVE  /\ [i \in 1 .. k |-> Request(script[i])] \in Seq(Seq(Cell))
         /\ Stream(k) \in Seq(Cell)
  <1> DEFINE js == [i \in 1 .. k |-> Request(script[i])]
  <1>1. k \in Nat /\ \A i \in 1 .. k : script[i] \in Seq(Seq(Cell))
    BY DEF Command
  <1>2. \A i \in 1 .. k : Request(script[i]) \in Seq(Cell)
    BY <1>1, RequestIs
  <1>3. js \in Seq(Seq(Cell))
    BY <1>1, <1>2
  <1> HIDE DEF js
  <1>4. FlattenSeq(js) \in Seq(Cell)
    BY <1>3, FlattenType
  <1> QED BY <1>3, <1>4 DEF Stream, js

LEMMA InputHasTuple ==
  ASSUME script \in Seq(Command), sent \in 0 .. Len(script),
         NEW cells \in Seq(Cell), cells # <<>>, NEW value \in Input(cells)
  PROVE  HasTuple(value)
  <1> DEFINE Sent(k) == [i \in DOMAIN script[k] |-> BulkString(script[k][i])]
  <1>1. cells[1].mark = "*" => cells[1].n \in Nat
    <2>1. cells[1] \in Cell
      OBVIOUS
    <2> QED BY <2>1 DEF Cell
  <1>2. HasTuple(resp_parse_input(cells).value)
    BY <1>1, ParsedHasTuple DEF resp_parse_input
  <1>3. \A k \in 1 .. sent : HasTuple(Array(Sent(k)))
    <2> SUFFICES ASSUME NEW k \in 1 .. sent PROVE HasTuple(Array(Sent(k)))
      OBVIOUS
    <2> DEFINE n == Len(script[k])
               F == Sent(k)
    <2>1. script[k] \in Seq(Seq(Cell))
      BY DEF Command
    <2>2. n \in Nat /\ DOMAIN script[k] = 1 .. n
      BY <2>1
    <2>3. F = [i \in 1 .. n |-> F[i]]
      BY <2>2
    <2> HIDE DEF F, n
    <2>4. IsTuple(F)
      BY <2>2, <2>3, IsTupleOf
    <2> QED BY <2>4, ArrayFields DEF HasTuple, F
  <1> HIDE DEF Sent
  <1>4. \/ value = NoValue
        \/ \E k \in 1 .. sent : value = Array(Sent(k))
        \/ value = resp_parse_input(cells).value
    BY Zenon DEF Input, Sent
  <1> QED BY <1>2, <1>3, <1>4, ScalarsHaveTuples

Done(l) == l = NoCommand \/ (Understood(l.words, l.did, l.op) /\ Precise(l.words, l.did, l.op))

LEMMA ProcessRight ==
  ASSUME NEW value, HasTuple(value), Process(value, process_command(value)), Done(last)
  PROVE  Done(last')
  <1> DEFINE does == process_command(value)
  <1>1. CASE does.did = "exit" /\ ExitProcess
    BY <1>1 DEF ExitProcess
  <1>2. CASE does.did # "exit" /\ Reply(value, does.did, OperationOf(does),
                                        HandlerReplies(does, OperationOf(does)))
    <2>1. last' = [words |-> Words(value.array), did |-> does.did, op |-> OperationOf(does)]
      BY <1>2 DEF Reply, Words
    <2>2. Right(Words(value.array), does)
      BY <1>2, ValueRight DEF HasTuple
    <2> HIDE DEF does
    <2>3. /\ last'.words = Words(value.array) /\ last'.did = does.did
          /\ last'.op = OperationOf(does)
      BY <2>1
    <2> QED BY <2>2, <2>3 DEF Right, Done
  <1> QED BY <1>1, <1>2 DEF Process

(* What one round of the loop reads. *)
LEMMA ReadIs ==
  ASSUME Typed, taken < Len(Stream(sent)),
         NEW ready, ready = Min({BufferSize, Len(Stream(sent)) - taken}),
         NEW n \in IF script \in CutScripts THEN 1 .. ready ELSE {ready}
  PROVE  /\ Stream(sent) \in Seq(Cell)
         /\ n \in Nat \ {0} /\ taken + n <= Len(Stream(sent))
         /\ SubSeq(Stream(sent), taken + 1, taken + n) \in Seq(Cell)
         /\ SubSeq(Stream(sent), taken + 1, taken + n) # <<>>
  <1> DEFINE st == Stream(sent)
             m == Len(st)
             S == {BufferSize, m - taken}
  <1>1. st \in Seq(Cell) /\ taken \in Nat
    BY StreamIs DEF Typed
  <1> HIDE DEF st
  <1>2. m \in Nat /\ taken < m
    BY <1>1 DEF st
  <1>3. BufferSize \in Nat \ {0}
    BY ScriptsAssumption
  <1> HIDE DEF m
  <1>4. S \subseteq Nat /\ S # {} /\ 0 \notin S
    BY <1>1, <1>2, <1>3
  <1>5. ready \in S /\ \A j \in S : ready <= j
    <2>1. ready = Min(S)
      BY DEF st, m
    <2> HIDE DEF S
    <2> QED BY <1>4, <2>1, MinIsLeast
  <1>6. ready \in Nat \ {0} /\ ready <= m - taken
    BY <1>4, <1>5
  <1>7. n \in 1 .. ready
    BY <1>6
  <1>8. n \in Nat \ {0} /\ taken + n <= m
    BY <1>1, <1>2, <1>6, <1>7
  <1>9. /\ SubSeq(st, taken + 1, taken + n) \in Seq(Cell)
        /\ Len(SubSeq(st, taken + 1, taken + n)) = n
    <2>1. /\ taken + 1 \in 1 .. m + 1 /\ taken + n \in taken + 1 - 1 .. m
          /\ (taken + n) - (taken + 1) + 1 = n
      BY <1>1, <1>2, <1>8
    <2> QED BY <1>1, <1>8, <2>1, SubSeqProperties DEF m
  <1>10. SubSeq(st, taken + 1, taken + n) # <<>>
    <2> DEFINE u == SubSeq(st, taken + 1, taken + n)
    <2> HIDE DEF u
    <2>1. u # <<>>
      BY <1>8, <1>9 DEF u
    <2> QED BY <2>1 DEF u
  <1> QED BY <1>1, <1>8, <1>9, <1>10 DEF st, m

ReadInv == Typed /\ Done(last)

LEMMA ReadInvariant == Spec => []ReadInv
  <1>1. Init => ReadInv
    <2> SUFFICES ASSUME Init PROVE ReadInv
      OBVIOUS
    <2>1. script \in Seq(Command)
      <3>1. script = <<>> \/ script \in Scripts
        BY DEF Init
      <3>2. Scripts \subseteq Seq(Command)
        BY ScriptsAssumption DEF Command
      <3>3. \A S : <<>> \in Seq(S)
        OBVIOUS
      <3> QED BY <3>1, <3>2, <3>3, Zenon
    <2>2. sent = 0 /\ taken = 0 /\ last = NoCommand
      BY DEF Init
    <2> QED BY <2>1, <2>2 DEF ReadInv, Typed, Done
  <1>2. ReadInv /\ [Next]_vars => ReadInv'
    <2> SUFFICES ASSUME ReadInv, [Next]_vars PROVE ReadInv'
      OBVIOUS
    <2>1. CASE main
      BY <2>1 DEF main, ReadInv, Typed, Done
    <2>2. CASE ClientSends
      <3>1. script' = script /\ taken' = taken /\ last' = last /\ sent' = sent + 1 /\ sent < Len(script)
        BY <2>2 DEF ClientSends
      <3>2. sent' \in 0 .. Len(script)
        BY <3>1 DEF ReadInv, Typed
      <3> QED BY <3>1, <3>2 DEF ReadInv, Typed, Done
    <2>3. CASE HandleInput
      <3>1. PICK n \in IF script \in CutScripts THEN 1 .. Min({BufferSize, Len(Stream(sent)) - taken})
                       ELSE {Min({BufferSize, Len(Stream(sent)) - taken})} :
              /\ taken' = taken + n
              /\ \E value \in Input(SubSeq(Stream(sent), taken + 1, taken + n)) :
                   Process(value, process_command(value))
        BY <2>3 DEF HandleInput
      <3> DEFINE cells == SubSeq(Stream(sent), taken + 1, taken + n)
      <3>2. script' = script /\ sent' = sent /\ taken < Len(Stream(sent))
        BY <2>3 DEF HandleInput
      <3>3. n \in Nat /\ cells \in Seq(Cell) /\ cells # <<>>
        BY <3>1, <3>2, ReadIs DEF ReadInv
      <3>4. PICK value \in Input(cells) : Process(value, process_command(value))
        BY <3>1
      <3> HIDE DEF cells
      <3>5. HasTuple(value)
        BY <3>3, <3>4, InputHasTuple DEF ReadInv, Typed
      <3>6. Done(last')
        BY <3>4, <3>5, ProcessRight DEF ReadInv
      <3>7. taken' \in Nat
        BY <3>1, <3>3 DEF ReadInv, Typed
      <3> QED BY <3>2, <3>6, <3>7 DEF ReadInv, Typed, Done
    <2>4. CASE Hangup
      BY <2>4 DEF Hangup, ReadInv, Typed, Done
    <2>5. CASE UNCHANGED vars
      BY <2>5 DEF vars, ReadInv, Typed, Done
    <2> QED BY <2>1, <2>2, <2>3, <2>4, <2>5 DEF Next
  <1> QED BY <1>1, <1>2, PTL DEF Spec

(* command_arg.c and the definitions: whatever the client sends, a         *)
(* well-formed command is run, a malformed one refused, and the operation  *)
(* fed to the tank has the key, value, options and condition of a reading  *)
(* of the command in which every word plays one role.                      *)
THEOREM ArgumentParsing == Spec => []ArgumentsUnderstood
  <1>1. ReadInv => ArgumentsUnderstood
    <2> SUFFICES ASSUME Done(last) PROVE ArgumentsUnderstood
      BY DEF ReadInv
    <2>1. CASE last = NoCommand
      BY <2>1 DEF ArgumentsUnderstood
    <2>2. CASE Understood(last.words, last.did, last.op)
      BY <2>2 DEF ArgumentsUnderstood, Understood
    <2> QED BY <2>1, <2>2 DEF Done
  <1> QED BY <1>1, ReadInvariant, PTL

(* set.c, expire.c, decrby.c: for every width of the integers, the tank    *)
(* gets just the time and the delta that the command means, whenever that  *)
(* number can be represented, although the product may have wrapped.       *)
THEOREM ExactOperations == Spec => []OperationsExact
  <1>1. ReadInv => OperationsExact
    <2> SUFFICES ASSUME Done(last) PROVE OperationsExact
      BY DEF ReadInv
    <2>1. CASE last = NoCommand
      <3>1. last.did # "run"
        BY <2>1 DEF NoCommand
      <3> QED BY <3>1 DEF OperationsExact
    <2>2. CASE Precise(last.words, last.did, last.op)
      BY <2>2 DEF OperationsExact, Precise, Exact
    <2> QED BY <2>1, <2>2 DEF Done
  <1> QED BY <1>1, ReadInvariant, PTL

(***************************************************************************)
(* The recursive functions of the parser exist.                            *)
(***************************************************************************)
LEMMA ElementsExist ==
  ASSUME NEW pos, NEW at
  PROVE  \A n \in Nat : \E f : IsElements(f, n, pos, at)
  <1> DEFINE T == {n \in Nat : \E f : IsElements(f, n, pos, at)}
             First == Parsed(NoValue, pos + 1)
             Then(x) == IF x.code = "SUCCESS" THEN at[x.pos] ELSE x
  <1>1. 0 \in T
    <2> DEFINE f == [k \in 0 .. 0 |-> First]
    <2>1. \A k \in 0 .. 0 : k = 0
      OBVIOUS
    <2> HIDE DEF First, Then
    <2>2. f = [k \in 0 .. 0 |-> IF k = 0 THEN First ELSE Then(f[k - 1])]
      BY <2>1
    <2> HIDE DEF f
    <2>3. IsElements(f, 0, pos, at)
      BY <2>2 DEF IsElements, First, Then
    <2> QED BY <2>3
  <1>2. ASSUME NEW n \in Nat, n \in T
        PROVE  n + 1 \in T
    <2>1. PICK f : IsElements(f, n, pos, at)
      BY <1>2
    <2> DEFINE g == [k \in 0 .. n + 1 |-> IF k \in 0 .. n THEN f[k] ELSE Then(f[k - 1])]
    <2>2. \A k \in 0 .. n : f[k] = IF k = 0 THEN First ELSE Then(f[k - 1])
      BY <2>1 DEF IsElements
    <2> HIDE DEF First, Then
    <2>3. \A k \in 0 .. n + 1 : k = 0 \/ k - 1 \in 0 .. n
      OBVIOUS
    <2>4. \A k \in 0 .. n : k \in 0 .. n + 1 /\ g[k] = f[k]
      OBVIOUS
    <2>5. \A k \in 0 .. n + 1 : g[k] = IF k = 0 THEN First ELSE Then(g[k - 1])
      BY <2>2, <2>3, <2>4
    <2>6. g = [k \in 0 .. n + 1 |-> g[k]]
      OBVIOUS
    <2> HIDE DEF g
    <2>7. IsElements(g, n + 1, pos, at)
      BY <2>5, <2>6 DEF IsElements, First, Then
    <2> QED BY <2>7
  <1> HIDE DEF T
  <1>3. \A n \in Nat : n \in T
    BY <1>1, <1>2, NatSetInduction
  <1> QED BY <1>3 DEF T

LEMMA ElementsAre ==
  ASSUME NEW n \in Nat, NEW pos, NEW at, NEW f, f = Elements(n, pos, at)
  PROVE  /\ f[0] = Parsed(NoValue, pos + 1)
         /\ \A k \in 1 .. n : f[k - 1].code = "SUCCESS" => f[k] = at[f[k - 1].pos]
  <1>1. IsElements(f, n, pos, at)
    BY ElementsExist DEF Elements
  <1>2. \A k \in 1 .. n : k \in 0 .. n /\ k # 0
    OBVIOUS
  <1>3. 0 \in 0 .. n
    OBVIOUS
  <1> QED BY <1>1, <1>2, <1>3 DEF IsElements

IsLevels(f, in, n) ==
  f = [depth \in 0 .. n |-> [pos \in 1 .. Len(in) + 1 |->
         resp_parse_value(in, pos, IF depth = 0 THEN <<>> ELSE f[depth - 1])]]

LEMMA LevelsExist ==
  ASSUME NEW in
  PROVE  \A n \in Nat : \E f : IsLevels(f, in, n)
  <1> DEFINE T == {n \in Nat : \E f : IsLevels(f, in, n)}
             L(at) == [pos \in 1 .. Len(in) + 1 |-> resp_parse_value(in, pos, at)]
  <1>1. 0 \in T
    <2> DEFINE f == [k \in 0 .. 0 |-> L(<<>>)]
    <2>1. \A k \in 0 .. 0 : k = 0
      OBVIOUS
    <2> HIDE DEF L
    <2>2. f = [k \in 0 .. 0 |-> L(IF k = 0 THEN <<>> ELSE f[k - 1])]
      BY <2>1
    <2> HIDE DEF f
    <2>3. IsLevels(f, in, 0)
      BY <2>2, Zenon DEF IsLevels, L
    <2> QED BY <2>3
  <1>2. ASSUME NEW n \in Nat, n \in T
        PROVE  n + 1 \in T
    <2>1. PICK f : IsLevels(f, in, n)
      BY <1>2
    <2> DEFINE P(h, k) == IF k = 0 THEN <<>> ELSE h[k - 1]
               g == [k \in 0 .. n + 1 |-> IF k \in 0 .. n THEN f[k] ELSE L(f[k - 1])]
    <2>2. \A k \in 0 .. n : f[k] = L(P(f, k))
      <3>1. f = [k \in 0 .. n |-> L(P(f, k))]
        BY <2>1, Zenon DEF IsLevels
      <3> HIDE DEF L, P
      <3> QED BY <3>1
    <2> HIDE DEF L
    <2>3. \A k \in 0 .. n + 1 : k = 0 \/ k - 1 \in 0 .. n
      OBVIOUS
    <2>4. \A k \in 0 .. n : k \in 0 .. n + 1 /\ g[k] = f[k]
      OBVIOUS
    <2>5. \A k \in 0 .. n + 1 : P(g, k) = P(f, k)
      BY <2>3, <2>4
    <2>6. \A k \in 0 .. n + 1 : g[k] = L(P(g, k))
      <3> SUFFICES ASSUME NEW k \in 0 .. n + 1 PROVE g[k] = L(P(f, k))
        BY <2>5
      <3>1. CASE k \in 0 .. n
        BY <2>2, <2>4, <3>1
      <3>2. CASE k \notin 0 .. n
        <4>1. g[k] = L(f[k - 1]) /\ k # 0
          BY <3>2
        <4> QED BY <4>1
      <3> QED BY <3>1, <3>2
    <2>7. g = [k \in 0 .. n + 1 |-> g[k]]
      OBVIOUS
    <2> HIDE DEF g, P
    <2>8. g = [k \in 0 .. n + 1 |-> L(P(g, k))]
      BY <2>6, <2>7
    <2>9. IsLevels(g, in, n + 1)
      BY <2>8, Zenon DEF IsLevels, L, P
    <2> QED BY <2>9
  <1> HIDE DEF T
  <1>3. \A n \in Nat : n \in T
    BY <1>1, <1>2, NatSetInduction
  <1> QED BY <1>3 DEF T

LEMMA ValuesAre ==
  ASSUME NEW in, Len(in) \in Nat
  PROVE  \E at : \A p \in 1 .. Len(in) + 1 :
           Values(in)[Len(in)][p] = resp_parse_value(in, p, at)
  <1> DEFINE m == Len(in)
             f == CHOOSE g : IsLevels(g, in, m)
             P == IF m = 0 THEN <<>> ELSE f[m - 1]
             L(at) == [pos \in 1 .. m + 1 |-> resp_parse_value(in, pos, at)]
  <1>1. IsLevels(f, in, m)
    BY LevelsExist
  <1>2. Values(in) = f
    BY Zenon DEF Values, IsLevels
  <1>3. f = [k \in 0 .. m |-> L(IF k = 0 THEN <<>> ELSE f[k - 1])]
    <2> HIDE DEF f
    <2> QED BY <1>1, Zenon DEF IsLevels
  <1> HIDE DEF f
  <1>4. m \in 0 .. m
    OBVIOUS
  <1>5. f[m] = L(P)
    <2> HIDE DEF L
    <2> QED BY <1>3, <1>4
  <1> HIDE DEF P
  <1>6. \A p \in 1 .. m + 1 : f[m][p] = resp_parse_value(in, p, P)
    BY <1>5
  <1> QED BY <1>2, <1>6

(***************************************************************************)
(* What a sequence holds behind its first o elements.                      *)
(***************************************************************************)
Holds(in, o, w) == o + Len(w) <= Len(in) /\ \A i \in 1 .. Len(w) : in[o + i] = w[i]

LEMMA HoldsParts ==
  ASSUME NEW S, NEW in \in Seq(S), NEW u \in Seq(S), NEW w \in Seq(S), NEW o \in Nat,
         Holds(in, o, u \o w)
  PROVE  Holds(in, o, u) /\ Holds(in, o + Len(u), w)
  <1> DEFINE x == u \o w
             a == Len(u)
             b == Len(w)
             m == Len(in)
  <1>1. /\ a \in Nat /\ b \in Nat /\ m \in Nat /\ Len(x) = a + b
        /\ \A i \in 1 .. a : x[i] = u[i]
        /\ \A i \in 1 .. b : x[a + i] = w[i]
    OBVIOUS
  <1>2. o + Len(x) <= m /\ \A i \in 1 .. Len(x) : in[o + i] = x[i]
    BY DEF Holds
  <1> HIDE DEF x, a, b, m
  <1>3. o + a <= m /\ (o + a) + b <= m
    BY <1>1, <1>2
  <1>4. \A i \in 1 .. a : in[o + i] = u[i]
    <2>1. \A i \in 1 .. a : i \in 1 .. Len(x)
      BY <1>1
    <2> QED BY <1>1, <1>2, <2>1
  <1>5. \A i \in 1 .. b : in[(o + a) + i] = w[i]
    <2>1. \A i \in 1 .. b : a + i \in 1 .. Len(x) /\ (o + a) + i = o + (a + i)
      BY <1>1
    <2> QED BY <1>1, <1>2, <2>1
  <1> QED BY <1>3, <1>4, <1>5 DEF Holds, a, b, m

LEMMA HoldsItself ==
  ASSUME NEW S, NEW w \in Seq(S)
  PROVE  Holds(w, 0, w)
  <1> DEFINE n == Len(w)
  <1>1. n \in Nat
    OBVIOUS
  <1> HIDE DEF n
  <1>2. 0 + n <= n /\ \A i \in 1 .. n : 0 + i = i
    BY <1>1
  <1>3. \A i \in 1 .. n : w[0 + i] = w[i]
    BY <1>2
  <1> QED BY <1>2, <1>3 DEF Holds, n

LEMMA HeldSubSeq ==
  ASSUME NEW S, NEW in \in Seq(S), NEW b \in Seq(S), NEW o \in Nat, Holds(in, o, b)
  PROVE  SubSeq(in, o + 1, o + Len(b)) = b
  <1> DEFINE n == Len(b)
             m == Len(in)
             x == SubSeq(in, o + 1, o + n)
  <1>1. n \in Nat /\ m \in Nat /\ o + n <= m /\ \A i \in 1 .. n : in[o + i] = b[i]
    BY DEF Holds
  <1>2. \A i \in o + 1 .. o + n : in[i] \in S
    BY <1>1
  <1>3. x = [i \in 1 .. n |-> in[o + i]] /\ x \in Seq(S) /\ Len(x) = n
    <2> HIDE DEF n
    <2>1. /\ o + 1 \in 1 .. m + 1 /\ o + n \in (o + 1) - 1 .. m /\ (o + n) - (o + 1) + 1 = n
          /\ \A i \in 1 .. n : (o + 1) + i - 1 = o + i
      BY <1>1
    <2>2. /\ Len(x) = (o + n) - (o + 1) + 1 /\ x \in Seq(S)
          /\ \A i \in 1 .. (o + n) - (o + 1) + 1 : x[i] = in[(o + 1) + i - 1]
      BY <2>1, SubSeqProperties
    <2> HIDE DEF x
    <2>3. Len(x) = n /\ \A i \in 1 .. n : x[i] = in[o + i]
      BY <2>1, <2>2, ConcatProperties
    <2> QED BY <2>2, <2>3
  <1>4. \A i \in 1 .. n : x[i] = b[i]
    <2> HIDE DEF n, x
    <2> QED BY <1>1, <1>3
  <1> HIDE DEF x
  <1>5. x = b
    BY <1>3, <1>4, SeqEqual
  <1> QED BY <1>5 DEF x

LEMMA SubSeqHolds ==
  ASSUME NEW S, NEW in \in Seq(S), NEW w \in Seq(S), NEW o \in Nat, NEW n \in Nat,
         Holds(in, o, w), Len(w) <= n, o + n <= Len(in)
  PROVE  Holds(SubSeq(in, o + 1, o + n), 0, w)
  <1> DEFINE k == Len(w)
             m == Len(in)
             x == SubSeq(in, o + 1, o + n)
  <1>1. k \in Nat /\ m \in Nat /\ k <= n /\ o + n <= m /\ \A i \in 1 .. k : in[o + i] = w[i]
    BY DEF Holds
  <1>2. Len(x) = n /\ \A i \in 1 .. n : x[i] = in[o + i]
    <2> HIDE DEF k, m
    <2>1. /\ o + 1 \in 1 .. m + 1 /\ o + n \in (o + 1) - 1 .. m /\ (o + n) - (o + 1) + 1 = n
          /\ \A i \in 1 .. n : (o + 1) + i - 1 = o + i
      BY <1>1
    <2>2. /\ Len(x) = (o + n) - (o + 1) + 1
          /\ \A i \in 1 .. (o + n) - (o + 1) + 1 : x[i] = in[(o + 1) + i - 1]
      BY <2>1, SubSeqProperties DEF m
    <2> HIDE DEF x
    <2> QED BY <2>1, <2>2
  <1> HIDE DEF k, m, x
  <1>3. 0 + k <= Len(x) /\ \A i \in 1 .. k : i \in 1 .. n /\ 0 + i = i
    BY <1>1, <1>2
  <1>4. \A i \in 1 .. k : x[0 + i] = w[i]
    BY <1>1, <1>2, <1>3
  <1> QED BY <1>3, <1>4 DEF Holds, k, x

(***************************************************************************)
(* A bulk string is parsed by its length, whatever its bytes are.          *)
(***************************************************************************)
LEMMA HeaderFields ==
  ASSUME NEW mark, NEW n
  PROVE  Header(mark, n).mark = mark /\ Header(mark, n).n = n
  BY DEF Header

LEMMA BulkParsed ==
  ASSUME NEW S, NEW in \in Seq(S), NEW b \in Seq(S), NEW o \in Nat,
         Header("$", Len(b)) \in S, LineEnd \in S, Holds(in, o, serialize_bulk_string(b))
  PROVE  /\ o + 1 <= Len(in) /\ in[o + 1] = Header("$", Len(b))
         /\ parse_bulk_string(in, o + 1) = Parsed(BulkString(b), o + Len(b) + 3)
         /\ Len(serialize_bulk_string(b)) = Len(b) + 2
  <1> DEFINE h == Header("$", Len(b))
             e == LineEnd
             n == Len(b)
             m == Len(in)
  <1>1. h.n = n
    BY HeaderFields
  <1>2. serialize_bulk_string(b) = (<<h>> \o b) \o <<e>>
    BY DEF serialize_bulk_string
  <1> HIDE DEF h, e
  <1>3. /\ <<h>> \in Seq(S) /\ <<e>> \in Seq(S) /\ Len(<<h>>) = 1 /\ Len(<<e>>) = 1
        /\ <<h>>[1] = h /\ <<e>>[1] = e
    BY DEF h, e
  <1> DEFINE hs == <<h>>
             es == <<e>>
  <1> HIDE DEF hs, es
  <1>4. /\ hs \in Seq(S) /\ es \in Seq(S) /\ Len(hs) = 1 /\ Len(es) = 1 /\ hs[1] = h /\ es[1] = e
        /\ hs \o b \in Seq(S) /\ Len(hs \o b) = 1 + n /\ Len((hs \o b) \o es) = n + 2
    <2>1. /\ hs \in Seq(S) /\ es \in Seq(S) /\ Len(hs) = 1 /\ Len(es) = 1 /\ hs[1] = h /\ es[1] = e
      BY <1>3 DEF hs, es
    <2> DEFINE hb == hs \o b
    <2>a. n \in Nat /\ Len(b) = n
      OBVIOUS
    <2>2. hb \in Seq(S) /\ Len(hb) = Len(hs) + n /\ n \in Nat
      <3> HIDE DEF n
      <3> QED BY <2>1, <2>a, ConcatProperties
    <2> HIDE DEF hb, n
    <2>3. Len(hb \o es) = Len(hb) + Len(es)
      BY <2>1, <2>2, ConcatProperties
    <2>4. Len(hb) = 1 + n /\ Len(hb \o es) = n + 2
      BY <2>1, <2>2, <2>3
    <2> QED BY <2>1, <2>2, <2>4 DEF hb
  <1>5. Holds(in, o, (hs \o b) \o es)
    BY <1>2 DEF hs, es
  <1>6. Holds(in, o, hs \o b) /\ Holds(in, o + (1 + n), es)
    BY <1>4, <1>5, HoldsParts
  <1>7. Holds(in, o, hs) /\ Holds(in, o + 1, b)
    BY <1>4, <1>6, HoldsParts
  <1>8. n \in Nat /\ m \in Nat
    OBVIOUS
  <1> HIDE DEF n, m
  <1>9. in[o + 1] = h /\ o + 1 <= m
    <2>1. 1 \in 1 .. 1
      OBVIOUS
    <2> QED BY <1>4, <1>7, <2>1 DEF Holds, m
  <1>10. in[(o + 1) + n + 1] = e /\ (o + 1) + n + 1 <= m
    <2>1. 1 \in 1 .. 1 /\ (o + (1 + n)) + 1 = (o + 1) + n + 1
      BY <1>8
    <2> QED BY <1>4, <1>6, <2>1 DEF Holds, m
  <1> DEFINE end == (o + 1) + in[o + 1].n + 1
  <1>11. end = (o + 1) + n + 1
    BY <1>1, <1>9
  <1>12. SubSeq(in, (o + 1) + 1, end - 1) = b
    <2>1. end - 1 = (o + 1) + n /\ o + 1 \in Nat
      BY <1>8, <1>11
    <2> QED BY <1>7, <2>1, HeldSubSeq DEF n
  <1>13. end + 1 = o + n + 3 /\ ~(end > m) /\ end <= m
    BY <1>8, <1>10, <1>11
  <1>14. parse_bulk_string(in, o + 1) = Parsed(BulkString(b), o + n + 3)
    <2>1. in[end] = e
      BY <1>10, <1>11
    <2> DEFINE found == SubSeq(in, (o + 1) + 1, end - 1)
               next == end + 1
    <2>2. parse_bulk_string(in, o + 1) = Parsed(BulkString(found), next)
      BY <1>13, <2>1, Zenon DEF parse_bulk_string, e, m
    <2>3. found = b /\ next = o + n + 3
      BY <1>12, <1>13
    <2> HIDE DEF found, next
    <2> QED BY <2>2, <2>3
  <1> QED BY <1>2, <1>4, <1>9, <1>14 DEF h, n, m, hs, es

LEMMA BulkAt ==
  ASSUME NEW S, NEW in \in Seq(S), NEW b \in Seq(S), NEW o \in Nat, NEW at,
         Header("$", Len(b)) \in S, LineEnd \in S, Holds(in, o, serialize_bulk_string(b))
  PROVE  /\ o + 1 \in 1 .. Len(in) + 1
         /\ resp_parse_value(in, o + 1, at) =
              Parsed(BulkString(b), (o + 1) + Len(serialize_bulk_string(b)))
  <1> DEFINE p == o + 1
             h == Header("$", Len(b))
             n == Len(b)
  <1>1. /\ p <= Len(in) /\ in[p] = h
        /\ parse_bulk_string(in, p) = Parsed(BulkString(b), o + n + 3)
        /\ Len(serialize_bulk_string(b)) = n + 2
    BY BulkParsed
  <1>2. in[p].mark = "$"
    BY <1>1, HeaderFields
  <1>3. Len(in) \in Nat /\ n \in Nat
    OBVIOUS
  <1>4. p \in 1 .. Len(in) + 1 /\ ~(p > Len(in))
    BY <1>1, <1>3
  <1> HIDE DEF p, n, h
  <1>5. resp_parse_value(in, p, at) = parse_bulk_string(in, p)
    <2>1. "$" # ":" /\ "$" # "+" /\ "$" # "-" /\ "$" # "_" /\ "$" # "*"
      OBVIOUS
    <2> QED BY <1>2, <1>4, <2>1, Zenon DEF resp_parse_value
  <1>6. o + n + 3 = (o + 1) + (n + 2)
    BY <1>3
  <1> QED BY <1>1, <1>4, <1>5, <1>6 DEF p

(***************************************************************************)
(* An input that begins with a whole request is parsed as that request.    *)
(***************************************************************************)
LEMMA BulksHeld ==
  ASSUME NEW n \in Nat \ {0}, NEW in \in Seq(Cell), NEW f, NEW js, SeqsUpTo(f, n, Cell),
         SeqsUpTo(js, n, Cell), Accumulates(f, js, n), Holds(in, 1, f[n])
  PROVE  \A k \in 1 .. n : Holds(in, 1, f[k])
  <1> DEFINE T == {i \in 1 .. n : Holds(in, 1, f[n + 1 - i])}
  <1>1. 1 \in T
    <2>1. n + 1 - 1 = n /\ 1 \in 1 .. n
      OBVIOUS
    <2> QED BY <2>1
  <1>2. ASSUME NEW i \in 1 .. n - 1, i \in T
        PROVE  i + 1 \in T
    <2> DEFINE k == n - i
    <2>1. k \in 1 .. n - 1 /\ k + 1 \in 1 .. n /\ k \in 1 .. n /\ n + 1 - i = k + 1 /\ n + 1 - (i + 1) = k
          /\ i + 1 \in 1 .. n
      OBVIOUS
    <2>2. Holds(in, 1, f[k + 1])
      BY <1>2, <2>1
    <2>3. f[k + 1] = f[k] \o js[k + 1]
      BY <2>1 DEF Accumulates
    <2>4. f[k] \in Seq(Cell) /\ js[k + 1] \in Seq(Cell)
      BY <2>1 DEF SeqsUpTo
    <2> HIDE DEF k
    <2>5. Holds(in, 1, f[k])
      BY <2>2, <2>3, <2>4, HoldsParts
    <2> QED BY <2>1, <2>5
  <1> HIDE DEF T
  <1>3. \A i \in 1 .. n : i \in T
    BY <1>1, <1>2, UpTo
  <1> SUFFICES ASSUME NEW k \in 1 .. n PROVE Holds(in, 1, f[k])
    OBVIOUS
  <1>4. n + 1 - k \in 1 .. n /\ n + 1 - (n + 1 - k) = k
    OBVIOUS
  <1> QED BY <1>3, <1>4 DEF T

(* at has the value at every position of in. *)
HasValues(in, at) == \A p \in 1 .. Len(in) + 1 : \E a : at[p] = resp_parse_value(in, p, a)

AreBulks(js, cmd, n) == \A k \in 1 .. n : js[k] = serialize_bulk_string(cmd[k])

(* in holds the bulk strings js of cmd behind its first cell; e has what   *)
(* parse_array makes of them.                                              *)
ReadsBulks(n, in, cmd, f, js, at, e) ==
  /\ n \in Nat \ {0} /\ in \in Seq(Cell) /\ SeqsUpTo(f, n, Cell) /\ SeqsUpTo(cmd, n, Cell)
  /\ AreBulks(js, cmd, n) /\ f[1] = js[1] /\ Accumulates(f, js, n) /\ Holds(in, 1, f[n])
  /\ HasValues(in, at) /\ e = Elements(n, 1, at)

LEMMA ElementsParsed ==
  ASSUME NEW n, NEW in, NEW cmd, NEW f, NEW js, NEW at, NEW e,
         ReadsBulks(n, in, cmd, f, js, at, e)
  PROVE  \A k \in 1 .. n : e[k] = Parsed(BulkString(cmd[k]), 2 + Len(f[k]))
  <1>0. /\ n \in Nat \ {0} /\ in \in Seq(Cell) /\ SeqsUpTo(f, n, Cell) /\ SeqsUpTo(cmd, n, Cell)
        /\ AreBulks(js, cmd, n) /\ f[1] = js[1] /\ Accumulates(f, js, n) /\ Holds(in, 1, f[n])
        /\ HasValues(in, at) /\ e = Elements(n, 1, at)
    BY DEF ReadsBulks
  <1> DEFINE Is(k) == e[k] = Parsed(BulkString(cmd[k]), 2 + Len(f[k]))
             T == {k \in 1 .. n : Is(k)}
  <1>1. \A k \in 1 .. n : js[k] \in Seq(Cell) /\ cmd[k] \in Seq(Cell) /\ f[k] \in Seq(Cell)
    BY <1>0, BulkIsCells DEF SeqsUpTo, AreBulks
  <1>2. \A k \in 1 .. n : Holds(in, 1, f[k])
    <2>1. SeqsUpTo(js, n, Cell)
      BY <1>1 DEF SeqsUpTo
    <2> QED BY <1>0, <2>1, BulksHeld
  <1>3. ASSUME NEW k \in 1 .. n, NEW o \in Nat, Holds(in, o, js[k])
        PROVE  at[o + 1] = Parsed(BulkString(cmd[k]), (o + 1) + Len(js[k]))
    <2>1. cmd[k] \in Seq(Cell) /\ Len(cmd[k]) \in Nat /\ js[k] = serialize_bulk_string(cmd[k])
      BY <1>0, <1>1 DEF AreBulks
    <2>2. Header("$", Len(cmd[k])) \in Cell /\ LineEnd \in Cell
      BY <2>1, CellsAre
    <2> DEFINE b == cmd[k]
    <2>3. /\ b \in Seq(Cell) /\ Header("$", Len(b)) \in Cell /\ LineEnd \in Cell
          /\ Holds(in, o, serialize_bulk_string(b))
      BY <1>3, <2>1, <2>2
    <2> HIDE DEF b
    <2>4. /\ o + 1 \in 1 .. Len(in) + 1
          /\ \A a : resp_parse_value(in, o + 1, a) =
                      Parsed(BulkString(b), (o + 1) + Len(serialize_bulk_string(b)))
      BY <1>0, <2>3, BulkAt
    <2> QED BY <1>0, <2>1, <2>4 DEF b, HasValues
  <1>4. /\ e[0] = Parsed(NoValue, 1 + 1)
        /\ \A k \in 1 .. n : e[k - 1].code = "SUCCESS" => e[k] = at[e[k - 1].pos]
    <2> DEFINE p == 1
    <2>1. n \in Nat /\ e = Elements(n, p, at)
      BY <1>0
    <2> HIDE DEF p
    <2>2. /\ e[0] = Parsed(NoValue, p + 1)
          /\ \A k \in 1 .. n : e[k - 1].code = "SUCCESS" => e[k] = at[e[k - 1].pos]
      BY <2>1, ElementsAre
    <2> QED BY <2>2 DEF p
  <1>5. 1 \in T
    <2>1. 1 \in 1 .. n /\ 1 - 1 = 0 /\ 1 + 1 = 2
      BY <1>0
    <2>2. e[1] = at[1 + 1]
      BY <1>4, <2>1, ParsedFields
    <2>3. Holds(in, 1, js[1])
      BY <1>0, <1>2, <2>1
    <2>4. at[1 + 1] = Parsed(BulkString(cmd[1]), (1 + 1) + Len(js[1]))
      BY <1>3, <2>1, <2>3
    <2> QED BY <1>0, <2>1, <2>2, <2>4
  <1>6. ASSUME NEW k \in 1 .. n - 1, k \in T
        PROVE  k + 1 \in T
    <2> DEFINE l == Len(f[k])
               j == Len(js[k + 1])
    <2>1. k \in 1 .. n /\ k + 1 \in 1 .. n /\ (k + 1) - 1 = k
      BY <1>0
    <2>2. e[k] = Parsed(BulkString(cmd[k]), 2 + l)
      BY <1>6
    <2>3. f[k] \in Seq(Cell) /\ js[k + 1] \in Seq(Cell) /\ f[k + 1] = f[k] \o js[k + 1]
      BY <1>0, <1>1, <2>1 DEF Accumulates
    <2>4. l \in Nat /\ j \in Nat /\ Len(f[k + 1]) = l + j
      BY <2>3
    <2>5. Holds(in, 1 + l, js[k + 1])
      <3>1. Holds(in, 1, f[k] \o js[k + 1])
        BY <1>2, <2>1, <2>3
      <3> QED BY <1>0, <2>3, <3>1, HoldsParts
    <2> HIDE DEF l, j
    <2>6. e[k + 1] = at[2 + l]
      BY <1>4, <2>1, <2>2, ParsedFields
    <2>7. 1 + l \in Nat /\ (1 + l) + 1 = 2 + l /\ (2 + l) + j = 2 + (l + j)
      BY <2>4
    <2>8. at[(1 + l) + 1] = Parsed(BulkString(cmd[k + 1]), ((1 + l) + 1) + j)
      BY <1>3, <2>1, <2>5, <2>7 DEF j
    <2>9. Is(k + 1)
      BY <2>4, <2>6, <2>7, <2>8
    <2> QED BY <2>1, <2>9
  <1> HIDE DEF T
  <1>7. \A k \in 1 .. n : k \in T
    BY <1>0, <1>5, <1>6, UpTo
  <1> QED BY <1>7 DEF T

RequestValue(cmd) == Array([i \in DOMAIN cmd |-> BulkString(cmd[i])])

LEMMA RequestParsed ==
  ASSUME NEW cmd \in Command, NEW in \in Seq(Cell), Holds(in, 0, Request(cmd))
  PROVE  resp_parse_input(in).code = "SUCCESS" /\ resp_parse_input(in).value = RequestValue(cmd)
  <1> DEFINE n == Len(cmd)
             js == Bulks(cmd)
             h == Header("*", n)
             body == FlattenSeq(js)
             at == Values(in)[Len(in)]
             e == Elements(n, 1, at)
  <1>1. /\ cmd \in Seq(Seq(Cell)) /\ n \in Nat \ {0}
        /\ DOMAIN cmd = 1 .. n /\ \A k \in 1 .. n : cmd[k] \in Seq(Cell)
    BY DEF Command
  <1>2. /\ js \in Seq(Seq(Cell)) /\ Len(js) = n /\ Request(cmd) = <<h>> \o body
    BY <1>1, RequestIs
  <1>3. AreBulks(js, cmd, n)
    BY <1>1 DEF Bulks, AreBulks
  <1>4. h \in Cell /\ h.mark = "*" /\ h.n = n
    BY <1>1, CellsAre, HeaderFields
  <1> HIDE DEF n, js, h
  <1>5. js # <<>>
    BY <1>1, <1>2
  <1>6. PICK f : /\ body = f[n] /\ \A i \in 1 .. n : f[i] \in Seq(Cell)
                 /\ f[1] = js[1] /\ Accumulates(f, js, n)
    BY <1>2, <1>5, Flatten
  <1> HIDE DEF body
  <1>7. Holds(in, 1, body) /\ in[1] = h /\ 1 <= Len(in)
    <2> DEFINE hs == <<h>>
    <2>1. hs \in Seq(Cell) /\ Len(hs) = 1 /\ hs[1] = h
      BY <1>4
    <2>2. body \in Seq(Cell)
      BY <1>1, <1>6
    <2> HIDE DEF hs
    <2>3. Holds(in, 0, hs \o body)
      BY <1>2 DEF hs
    <2>4. Holds(in, 0, hs) /\ Holds(in, 0 + 1, body)
      BY <2>1, <2>2, <2>3, HoldsParts
    <2>5. 0 + 1 = 1 /\ 1 \in 1 .. 1
      OBVIOUS
    <2> QED BY <2>1, <2>4, <2>5 DEF Holds
  <1>8. HasValues(in, at)
    <2>1. Len(in) \in Nat
      OBVIOUS
    <2> QED BY <2>1, ValuesAre DEF HasValues
  <1>9. resp_parse_input(in) = resp_parse_value(in, 1, at)
    BY DEF resp_parse_input
  <1> HIDE DEF at
  <1>10. \A k \in 1 .. n : e[k] = Parsed(BulkString(cmd[k]), 2 + Len(f[k]))
    <2>1. SeqsUpTo(f, n, Cell) /\ SeqsUpTo(cmd, n, Cell)
      BY <1>1, <1>6 DEF SeqsUpTo
    <2>2. Holds(in, 1, f[n]) /\ e = Elements(n, 1, at)
      BY <1>6, <1>7
    <2> HIDE DEF e
    <2>3. ReadsBulks(n, in, cmd, f, js, at, e)
      BY <1>1, <1>3, <1>6, <1>8, <2>1, <2>2 DEF ReadsBulks
    <2> QED BY <2>3, ElementsParsed
  <1>11. resp_parse_input(in) = Collects(e, n)
    <2>1. "*" # ":" /\ "*" # "+" /\ "*" # "-" /\ "*" # "_" /\ "*" # "$"
      OBVIOUS
    <2>2. ~(1 > Len(in)) /\ in[1].mark = "*" /\ in[1].n = n
      BY <1>4, <1>7
    <2>3. resp_parse_value(in, 1, at) = parse_array(in, 1, at)
      BY <2>1, <2>2, Zenon DEF resp_parse_value
    <2>4. parse_array(in, 1, at) = Collects(e, n)
      BY <2>2, ArrayParts
    <2> QED BY <1>9, <2>3, <2>4
  <1> HIDE DEF e
  <1>12. e[n].code = "SUCCESS" /\ \A k \in 1 .. n : e[k].value = BulkString(cmd[k])
    <2>1. n \in 1 .. n
      BY <1>1
    <2> QED BY <1>10, <2>1, ParsedFields
  <1>13. Elems(e, n) = [i \in DOMAIN cmd |-> BulkString(cmd[i])]
    BY <1>1, <1>12 DEF Elems
  <1>14. Collects(e, n) = Parsed(Array(Elems(e, n)), e[n].pos)
    BY <1>12 DEF Collects
  <1> QED BY <1>11, <1>13, <1>14, ParsedFields DEF RequestValue

(***************************************************************************)
(* A read that begins where a command begins and ends where one ends.      *)
(***************************************************************************)
LEMMA HoldsLonger ==
  ASSUME NEW S, NEW x \in Seq(S), NEW y \in Seq(S), NEW w \in Seq(S), NEW o \in Nat, Holds(x, o, w)
  PROVE  Holds(x \o y, o, w)
  <1> DEFINE z == x \o y
             a == Len(x)
             b == Len(y)
             n == Len(w)
  <1>1. /\ a \in Nat /\ b \in Nat /\ n \in Nat /\ Len(z) = a + b
        /\ \A i \in 1 .. a : z[i] = x[i]
    BY ConcatProperties
  <1>2. o + n <= a /\ \A i \in 1 .. n : x[o + i] = w[i]
    BY DEF Holds
  <1> HIDE DEF z, a, b, n
  <1>3. o + n <= Len(z) /\ \A i \in 1 .. n : o + i \in 1 .. a
    BY <1>1, <1>2
  <1>4. \A i \in 1 .. n : z[o + i] = w[i]
    BY <1>1, <1>2, <1>3
  <1> QED BY <1>3, <1>4 DEF Holds, z, n

LEMMA HoldsEnd ==
  ASSUME NEW S, NEW x \in Seq(S), NEW y \in Seq(S)
  PROVE  Holds(x \o y, Len(x), y)
  <1>1. x \o y \in Seq(S) /\ Len(x) \in Nat /\ 0 + Len(x) = Len(x)
    OBVIOUS
  <1>2. Holds(x \o y, 0, x \o y)
    BY <1>1, HoldsItself
  <1>3. Holds(x \o y, 0 + Len(x), y)
    BY <1>1, <1>2, HoldsParts
  <1> QED BY <1>1, <1>3

LEMMA StreamStep ==
  ASSUME script \in Seq(Command), NEW k \in 1 .. Len(script)
  PROVE  /\ k - 1 \in 0 .. Len(script) /\ Stream(k - 1) \in Seq(Cell)
         /\ Request(script[k]) \in Seq(Cell)
         /\ Stream(k) = Stream(k - 1) \o Request(script[k])
  <1> DEFINE J(m) == [i \in 1 .. m |-> Request(script[i])]
             js == J(k - 1)
             ks == J(k)
             r == Request(script[k])
  <1>1. Len(script) \in Nat /\ k \in Nat /\ k - 1 \in Nat /\ (k - 1) + 1 = k
        /\ k - 1 \in 0 .. Len(script) /\ k \in 0 .. Len(script) /\ k \in 1 .. k
    OBVIOUS
  <1>2. js \in Seq(Seq(Cell)) /\ ks \in Seq(Seq(Cell)) /\ Stream(k - 1) \in Seq(Cell)
    BY <1>1, StreamIs
  <1>3. r \in Seq(Cell)
    <2>1. script[k] \in Seq(Seq(Cell))
      BY DEF Command
    <2> QED BY <2>1, RequestIs
  <1>4. Len(js) = k - 1 /\ Len(ks) = k
    BY <1>1
  <1>5. (\A i \in 1 .. k - 1 : ks[i] = js[i]) /\ ks[k] = r
    BY <1>1
  <1>6. Stream(k) = FlattenSeq(ks) /\ Stream(k - 1) = FlattenSeq(js)
    BY DEF Stream
  <1> HIDE DEF js, ks, r
  <1>7. Append(js, r) = ks
    <2> DEFINE S == Seq(Cell)
    <2>1. js \in Seq(S) /\ ks \in Seq(S) /\ r \in S
      BY <1>2, <1>3
    <2> HIDE DEF S
    <2>2. Len(ks) = Len(js) + 1 /\ (\A i \in 1 .. Len(js) : ks[i] = js[i]) /\ ks[Len(js) + 1] = r
      BY <1>1, <1>4, <1>5
    <2> QED BY <2>1, <2>2, AppendIs
  <1>8. FlattenSeq(Append(js, r)) = FlattenSeq(js) \o r
    BY <1>2, <1>3, FlattenAppend
  <1> QED BY <1>1, <1>2, <1>3, <1>6, <1>7, <1>8 DEF r

LEMMA StreamHolds ==
  ASSUME script \in Seq(Command)
  PROVE  \A j \in 0 .. Len(script) : \A k \in 1 .. j :
           /\ Holds(Stream(j), Len(Stream(k - 1)), Request(script[k]))
           /\ Len(Stream(k)) <= Len(Stream(j))
  <1> DEFINE H(j, k) == /\ Holds(Stream(j), Len(Stream(k - 1)), Request(script[k]))
                        /\ Len(Stream(k)) <= Len(Stream(j))
             m == Len(script)
             T == {j \in Nat : j <= m => \A k \in 1 .. j : H(j, k)}
  <1>1. m \in Nat
    OBVIOUS
  <1>2. 0 \in T
    OBVIOUS
  <1>3. ASSUME NEW j \in Nat, j \in T
        PROVE  j + 1 \in T
    <2> SUFFICES ASSUME j + 1 <= m, NEW k \in 1 .. j + 1
                 PROVE  H(j + 1, k)
      OBVIOUS
    <2> DEFINE x == Stream(j)
               y == Request(script[j + 1])
    <2>1. j + 1 \in 1 .. m /\ (j + 1) - 1 = j /\ j <= m
      BY <1>1
    <2>2. x \in Seq(Cell) /\ y \in Seq(Cell) /\ Stream(j + 1) = x \o y
      BY <2>1, StreamStep
    <2>3. Len(x) \in Nat /\ Len(y) \in Nat /\ Len(Stream(j + 1)) = Len(x) + Len(y)
      <3> HIDE DEF x, y
      <3> QED BY <2>2, ConcatProperties
    <2>4. CASE k \in 1 .. j
      <3> DEFINE o == Len(Stream(k - 1))
                 w == Request(script[k])
                 l == Len(Stream(k))
      <3>1. Holds(x, o, w) /\ l <= Len(x)
        BY <1>3, <2>1, <2>4
      <3>2. k \in 1 .. m /\ k \in 0 .. m
        BY <1>1, <2>1, <2>4
      <3>3. Stream(k - 1) \in Seq(Cell) /\ w \in Seq(Cell) /\ Stream(k) \in Seq(Cell)
        BY <3>2, StreamStep, StreamIs
      <3>4. o \in Nat /\ l \in Nat
        BY <3>3
      <3> HIDE DEF x, y, o, w, l
      <3>5. Holds(x \o y, o, w)
        BY <2>2, <3>1, <3>3, <3>4, HoldsLonger
      <3>6. l <= Len(Stream(j + 1))
        BY <2>3, <3>1, <3>4
      <3> QED BY <2>2, <3>5, <3>6 DEF o, w, l
    <2>5. CASE k = j + 1
      <3>1. k - 1 = j
        BY <2>5
      <3>2. Holds(x \o y, Len(x), y)
        <4> HIDE DEF x, y
        <4> QED BY <2>2, HoldsEnd
      <3>3. Len(Stream(j + 1)) <= Len(Stream(j + 1))
        <4> DEFINE l == Len(Stream(j + 1))
        <4>1. l \in Nat
          BY <2>3
        <4> HIDE DEF l
        <4>2. l <= l
          BY <4>1
        <4> QED BY <4>2 DEF l
      <3> QED BY <2>2, <2>5, <3>1, <3>2, <3>3
    <2>6. k \in 1 .. j \/ k = j + 1
      OBVIOUS
    <2> QED BY <2>4, <2>5, <2>6
  <1> HIDE DEF T
  <1>4. \A j \in Nat : j \in T
    BY <1>2, <1>3, NatSetInduction
  <1>5. \A j \in 0 .. m : j \in Nat /\ j <= m
    BY <1>1
  <1> QED BY <1>4, <1>5 DEF T

LEMMA WholeRead ==
  ASSUME Typed, NEW n \in Nat \ {0}, taken + n <= Len(Stream(sent)),
         NEW k, k = BeginsWith(taken, taken + n), k # 0
  PROVE  /\ k \in 1 .. Len(script)
         /\ Holds(SubSeq(Stream(sent), taken + 1, taken + n), 0, Request(script[k]))
  <1> DEFINE whole == {i \in 1 .. sent : Len(Stream(i - 1)) = taken}
             st == Stream(sent)
             w == Request(script[k])
  <1>1. script \in Seq(Command) /\ sent \in 0 .. Len(script) /\ taken \in Nat /\ Len(script) \in Nat
    BY DEF Typed
  <1>2. k = IF whole # {} /\ \E i \in 1 .. sent : Len(Stream(i)) = taken + n THEN Min(whole) ELSE 0
    BY DEF BeginsWith
  <1>3. whole # {} /\ k = Min(whole) /\ \E i \in 1 .. sent : Len(Stream(i)) = taken + n
    <2> HIDE DEF whole
    <2> QED BY <1>2
  <1>4. k \in whole
    <2>1. whole \subseteq Nat
      BY <1>1
    <2> HIDE DEF whole
    <2> QED BY <1>3, <2>1, MinIsLeast
  <1>5. k \in 1 .. sent /\ Len(Stream(k - 1)) = taken
    BY <1>4
  <1>6. PICK j \in 1 .. sent : Len(Stream(j)) = taken + n
    BY <1>3
  <1>7. k \in 1 .. Len(script) /\ j \in 1 .. Len(script) /\ k - 1 \in 0 .. Len(script)
        /\ j \in 0 .. Len(script) /\ k \in Nat /\ j \in Nat
    BY <1>1, <1>5
  <1>8. st \in Seq(Cell) /\ w \in Seq(Cell) /\ Stream(k - 1) \in Seq(Cell)
        /\ Stream(k) = Stream(k - 1) \o w
    BY <1>1, <1>7, StreamIs, StreamStep
  <1>9. Holds(st, taken, w)
    BY <1>1, <1>5, StreamHolds
  <1>10. k <= j
    <2> SUFFICES ASSUME j < k PROVE FALSE
      BY <1>7
    <2>1. j \in 1 .. k - 1
      BY <1>7
    <2>2. Len(Stream(j)) <= Len(Stream(k - 1))
      BY <1>1, <1>7, <2>1, StreamHolds
    <2>3. taken + n <= taken
      BY <1>5, <1>6, <2>2
    <2> QED BY <1>1, <2>3
  <1>11. Len(w) <= n
    <2>1. k \in 1 .. j
      BY <1>7, <1>10
    <2>2. Len(Stream(k)) <= Len(Stream(j))
      BY <1>1, <1>7, <2>1, StreamHolds
    <2>3. Len(Stream(k)) = Len(Stream(k - 1)) + Len(w) /\ Len(w) \in Nat
      <3> DEFINE x == Stream(k - 1)
      <3> HIDE DEF x, w
      <3>1. Len(x \o w) = Len(x) + Len(w) /\ Len(w) \in Nat
        BY <1>8, ConcatProperties DEF x
      <3> QED BY <1>8, <3>1 DEF x
    <2>4. taken + Len(w) <= taken + n
      BY <1>5, <1>6, <2>2, <2>3
    <2> HIDE DEF w
    <2> QED BY <1>1, <2>3, <2>4
  <1> HIDE DEF w, st
  <1>12. Holds(SubSeq(st, taken + 1, taken + n), 0, w)
    <2>1. taken + n <= Len(st) /\ n \in Nat
      BY DEF st
    <2> QED BY <1>1, <1>8, <1>9, <1>11, <2>1, SubSeqHolds
  <1> QED BY <1>7, <1>12 DEF st, w

(***************************************************************************)
(* What the server writes is read back by the client's parser.             *)
(***************************************************************************)
IsLine(v) == v = Null \/ \E x : v = Integer(x) \/ v = SimpleString(x) \/ v = SimpleError(x)

IsBulk(v) == \E S : \E b \in Seq(S) : v = BulkString(b)

LEMMA LineFields ==
  ASSUME NEW mark, NEW s
  PROVE  Line(mark, s).mark = mark /\ Line(mark, s).s = s
  BY DEF Line

LEMMA LineCell ==
  ASSUME NEW c, NEW in, in = <<c>>
  PROVE  Len(in) = 1 /\ in[1] = c /\ ~(1 > Len(in)) /\ 1 + 1 = 2
  OBVIOUS

LEMMA LineAnswer ==
  ASSUME NEW v, IsLine(v), NEW in, in = resp_serialize_value(v), NEW at
  PROVE  resp_parse_value(in, 1, at) = Parsed(v, 1 + 1) /\ Len(in) = 1
  <1>0. /\ ":" # "+" /\ ":" # "-" /\ ":" # "_" /\ "+" # "-" /\ "+" # "_" /\ "-" # "_"
        /\ ":" # "*" /\ "+" # "*" /\ "-" # "*" /\ "_" # "*"
        /\ ":" # "$" /\ "+" # "$" /\ "-" # "$" /\ "_" # "$"
    OBVIOUS
  <1>1. ASSUME NEW x, v = Integer(x)
        PROVE  resp_parse_value(in, 1, at) = Parsed(v, 1 + 1) /\ Len(in) = 1
    <2> DEFINE c == Header(":", x)
    <2>1. v.kind = ":" /\ v.value = x
      BY <1>1 DEF Integer
    <2>2. in = <<c>>
      BY <1>0, <2>1, Zenon DEF resp_serialize_value, serialize_scalar
    <2>3. c.mark = ":" /\ c.n = x
      BY HeaderFields
    <2> HIDE DEF c
    <2>4. Len(in) = 1 /\ in[1] = c /\ ~(1 > Len(in))
      BY <2>2, LineCell
    <2>5. in[1].mark = ":" /\ in[1].n = x
      BY <2>3, <2>4
    <2> QED BY <1>1, <2>4, <2>5, Zenon DEF resp_parse_value
  <1>2. ASSUME NEW x, v = SimpleString(x)
        PROVE  resp_parse_value(in, 1, at) = Parsed(v, 1 + 1) /\ Len(in) = 1
    <2> DEFINE c == Line("+", x)
    <2>1. v.kind = "+" /\ v.string = x
      BY <1>2 DEF SimpleString
    <2>2. in = <<c>>
      BY <1>0, <2>1, Zenon DEF resp_serialize_value, serialize_scalar
    <2>3. c.mark = "+" /\ c.s = x
      BY LineFields
    <2> HIDE DEF c
    <2>4. Len(in) = 1 /\ in[1] = c /\ ~(1 > Len(in))
      BY <2>2, LineCell
    <2>5. in[1].mark = "+" /\ in[1].s = x
      BY <2>3, <2>4
    <2> QED BY <1>0, <1>2, <2>4, <2>5, Zenon DEF resp_parse_value
  <1>3. ASSUME NEW x, v = SimpleError(x)
        PROVE  resp_parse_value(in, 1, at) = Parsed(v, 1 + 1) /\ Len(in) = 1
    <2> DEFINE c == Line("-", x)
    <2>1. v.kind = "-" /\ v.message = x
      BY <1>3 DEF SimpleError
    <2>2. in = <<c>>
      BY <1>0, <2>1, Zenon DEF resp_serialize_value, serialize_scalar
    <2>3. c.mark = "-" /\ c.s = x
      BY LineFields
    <2> HIDE DEF c
    <2>4. Len(in) = 1 /\ in[1] = c /\ ~(1 > Len(in))
      BY <2>2, LineCell
    <2>5. in[1].mark = "-" /\ in[1].s = x
      BY <2>3, <2>4
    <2> QED BY <1>0, <1>3, <2>4, <2>5, Zenon DEF resp_parse_value
  <1>4. ASSUME v = Null
        PROVE  resp_parse_value(in, 1, at) = Parsed(v, 1 + 1) /\ Len(in) = 1
    <2> DEFINE c == Line("_", "")
    <2>1. v.kind = "_"
      BY <1>4 DEF Null
    <2>2. in = <<c>>
      BY <1>0, <2>1, Zenon DEF resp_serialize_value, serialize_scalar
    <2>3. c.mark = "_"
      BY LineFields
    <2> HIDE DEF c
    <2>4. Len(in) = 1 /\ in[1] = c /\ ~(1 > Len(in))
      BY <2>2, LineCell
    <2>5. in[1].mark = "_"
      BY <2>3, <2>4
    <2> QED BY <1>0, <1>4, <2>4, <2>5, Zenon DEF resp_parse_value
  <1> QED BY <1>1, <1>2, <1>3, <1>4 DEF IsLine

ReadBack(v) ==
  LET in == resp_serialize_value(v)
      r  == resp_parse_input(in)
  IN  r.pos = Len(in) + 1 /\ r.value = v

LEMMA ReplyReadBack ==
  ASSUME NEW v, IsLine(v) \/ IsBulk(v)
  PROVE  ReadBack(v)
  <1> DEFINE in == resp_serialize_value(v)
             at == Values(in)[Len(in)]
  <1>1. resp_parse_input(in) = resp_parse_value(in, 1, at)
    BY DEF resp_parse_input
  <1>2. CASE IsLine(v)
    <2> HIDE DEF at
    <2>1. resp_parse_value(in, 1, at) = Parsed(v, 1 + 1) /\ Len(in) = 1
      BY <1>2, LineAnswer
    <2> HIDE DEF in
    <2>2. resp_parse_input(in).value = v /\ resp_parse_input(in).pos = 1 + 1
      BY <1>1, <2>1, ParsedFields
    <2>3. resp_parse_input(in).pos = Len(in) + 1
      BY <2>1, <2>2
    <2> QED BY <2>2, <2>3 DEF ReadBack, in
  <1>3. CASE IsBulk(v)
    <2>1. PICK S : \E b \in Seq(S) : v = BulkString(b)
      BY <1>3 DEF IsBulk
    <2>2. PICK b \in Seq(S) : v = BulkString(b)
      BY <2>1
    <2> DEFINE h == Header("$", Len(b))
               e == LineEnd
               C == S \cup {h, e}
    <2>3. in = serialize_bulk_string(b)
      <3>1. "$" # ":" /\ "$" # "+" /\ "$" # "-" /\ "$" # "_" /\ "$" # "*"
        OBVIOUS
      <3>2. v.kind = "$" /\ v.data = b
        BY <2>2 DEF BulkString
      <3> QED BY <3>1, <3>2, Zenon DEF resp_serialize_value, serialize_scalar
    <2> HIDE DEF at, in
    <2>4. b \in Seq(C) /\ h \in C /\ e \in C
      <3> HIDE DEF h, e
      <3> QED OBVIOUS
    <2>5. in \in Seq(C)
      <3> DEFINE hs == <<h>>
                 es == <<e>>
      <3> HIDE DEF h, e
      <3>1. hs \in Seq(C) /\ es \in Seq(C)
        BY <2>4
      <3>2. in = (hs \o b) \o es
        BY <2>3 DEF serialize_bulk_string, h, e
      <3> HIDE DEF hs, es, C
      <3>3. hs \o b \in Seq(C)
        BY <2>4, <3>1, ConcatProperties
      <3> QED BY <3>1, <3>2, <3>3, ConcatProperties
    <2>6. Holds(in, 0, in)
      <3> HIDE DEF C
      <3> QED BY <2>5, HoldsItself
    <2> HIDE DEF C
    <2>7. resp_parse_value(in, 0 + 1, at) = Parsed(v, (0 + 1) + Len(in))
      <3>1. Holds(in, 0, serialize_bulk_string(b))
        BY <2>3, <2>6
      <3>2. resp_parse_value(in, 0 + 1, at) =
              Parsed(BulkString(b), (0 + 1) + Len(serialize_bulk_string(b)))
        BY <2>4, <2>5, <3>1, BulkAt
      <3> QED BY <2>2, <2>3, <3>2
    <2>8. Len(in) \in Nat
      BY <2>5
    <2>9. 0 + 1 = 1 /\ (0 + 1) + Len(in) = Len(in) + 1
      BY <2>8
    <2>10. resp_parse_value(in, 1, at) = Parsed(v, Len(in) + 1)
      BY <2>7, <2>9
    <2>11. resp_parse_input(in).value = v /\ resp_parse_input(in).pos = Len(in) + 1
      BY <1>1, <2>10, ParsedFields
    <2> QED BY <2>11 DEF ReadBack, in
  <1> QED BY <1>2, <1>3

(***************************************************************************)
(* The reply to a command.                                                 *)
(***************************************************************************)
LEMMA NamesAreCommands ==
  ASSUME NEW name \in CommandNames
  PROVE  \E i \in DOMAIN COMMANDS : name = COMMANDS[i].name
  <1>1. {1, 2, 3, 4, 5, 6, 7, 8, 9, 10, 11, 12} \subseteq DOMAIN COMMANDS
    BY CommandTable
  <1> QED BY <1>1, CommandTable DEF CommandNames

LEMMA HelperOutcome ==
  ASSUME NEW word, NEW args, NEW does, does = process_command_helper(word, args)
  PROVE  \/ does.did = "refuse"
         \/ does.did = "run" /\ does.name = Upper(word) /\ does.name \in CommandNames
  <1>1. CASE Upper(word) \notin CommandNames
    BY <1>1, NotDispatched, Refused, Zenon
  <1>2. CASE Upper(word) \in CommandNames
    <2> DEFINE name == Upper(word)
    <2>1. PICK i \in DOMAIN COMMANDS : name = COMMANDS[i].name
      BY <1>2, NamesAreCommands
    <2> DEFINE p == parse_command_arguments(COMMANDS[i].args, args)
    <2>2. does = Dispatch(name, p)
      BY <2>1, Dispatched
    <2> HIDE DEF p, name
    <2>3. CASE Fails(p)
      BY <2>2, <2>3, DispatchRefuses
    <2>4. CASE ~Fails(p)
      <3>1. does = Runs(name, p.outs)
        BY <2>2, <2>4 DEF Dispatch, Fails
      <3>2. does.did = "run" /\ does.name = name
        BY <3>1 DEF Runs
      <3> QED BY <1>2, <3>2 DEF name
    <2> QED BY <2>3, <2>4
  <1> QED BY <1>1, <1>2

LEMMA OperationTypes ==
  ASSUME NEW name \in CommandNames \ {"PING", "INFO"}, NEW outs, NEW op, op = Operation(name, outs)
  PROVE  /\ name = "SET" => op.type = "SET"
         /\ name = "GET" => op.type = "GET"
         /\ name \notin {"SET", "GET"} => op.type \in {"DEL", "TTL", "EXISTS", "EXPIRE", "INCRBY"}
  <1>1. CASE name = "SET"
    <2>1. op = process_set(outs)
      BY <1>1, Zenon DEF Operation
    <2>2. op.type = "SET"
      BY <2>1 DEF process_set
    <2> QED BY <1>1, <2>2
  <1>2. CASE name = "GET"
    <2>1. op = process_get(outs)
      BY <1>2, Zenon DEF Operation
    <2> QED BY <1>2, <2>1 DEF process_get
  <1>3. CASE name = "DEL"
    <2>1. op = process_del(outs)
      BY <1>3, Zenon DEF Operation
    <2> QED BY <1>3, <2>1 DEF process_del
  <1>4. CASE name = "TTL"
    <2>1. op = process_ttl(outs)
      BY <1>4, Zenon DEF Operation
    <2> QED BY <1>4, <2>1 DEF process_ttl
  <1>5. CASE name = "EXISTS"
    <2>1. op = process_exists(outs)
      BY <1>5, Zenon DEF Operation
    <2> QED BY <1>5, <2>1 DEF process_exists
  <1>6. CASE name = "EXPIRE"
    <2>1. op = process_expire(outs)
      BY <1>6, Zenon DEF Operation
    <2>2. op.type = "EXPIRE"
      BY <2>1 DEF process_expire
    <2> QED BY <1>6, <2>2
  <1>7. CASE name = "INCR"
    <2>1. op = process_incr(outs)
      BY <1>7, Zenon DEF Operation
    <2> QED BY <1>7, <2>1 DEF process_incr
  <1>8. CASE name = "DECR"
    <2>1. op = process_decr(outs)
      BY <1>8, Zenon DEF Operation
    <2>2. op.type = "INCRBY"
      BY <2>1 DEF process_decr
    <2> QED BY <1>8, <2>2
  <1>9. CASE name = "INCRBY"
    <2>1. op = process_incrby(outs)
      BY <1>9, Zenon DEF Operation
    <2> QED BY <1>9, <2>1 DEF process_incrby
  <1>10. CASE name = "DECRBY"
    <2>1. op = process_decrby(outs)
      BY <1>10, Zenon DEF Operation
    <2>2. op.type = "INCRBY"
      BY <2>1 DEF process_decrby
    <2> QED BY <1>10, <2>2
  <1> QED BY <1>1, <1>2, <1>3, <1>4, <1>5, <1>6, <1>7, <1>8, <1>9, <1>10 DEF CommandNames

LEMMA RepliesOfTank ==
  ASSUME NEW op, NEW v \in TankReplies(op)
  PROVE  /\ op.type = "SET" => v = Null \/ v = BulkString(op.value) \/ v = SimpleString("OK")
         /\ op.type = "GET" => v = Null \/ v = BulkString(op.key)
         /\ op.type \in {"DEL", "TTL", "EXISTS", "EXPIRE", "INCRBY"} =>
              \E x : v = Integer(x) \/ v = SimpleError(x)
  <1>1. ASSUME op.type = "SET"
        PROVE  v = Null \/ v = BulkString(op.value) \/ v = SimpleString("OK")
    <2>1. TankReplies(op) = IF op.get THEN {Null, BulkString(op.value)} ELSE {Null, SimpleString("OK")}
      BY <1>1, Zenon DEF TankReplies
    <2>2. CASE op.get
      <3>1. v \in {Null, BulkString(op.value)}
        BY <2>1, <2>2, Zenon
      <3> QED BY <3>1, Zenon
    <2>3. CASE ~op.get
      <3>1. v \in {Null, SimpleString("OK")}
        BY <2>1, <2>3, Zenon
      <3> QED BY <3>1, Zenon
    <2> QED BY <2>2, <2>3, Zenon
  <1>2. ASSUME op.type = "GET"
        PROVE  v = Null \/ v = BulkString(op.key)
    <2>1. TankReplies(op) = {Null, BulkString(op.key)}
      BY <1>2, Zenon DEF TankReplies
    <2> QED BY <2>1, Zenon
  <1>3. ASSUME op.type \in {"DEL", "TTL", "EXISTS", "EXPIRE", "INCRBY"}
        PROVE  \E x : v = Integer(x) \/ v = SimpleError(x)
    <2>1. CASE op.type = "INCRBY"
      <3>1. TankReplies(op) = {Integer(1), SimpleError("not an integer")}
        BY <2>1, Zenon DEF TankReplies
      <3> QED BY <3>1, Zenon
    <2>2. CASE op.type = "TTL"
      <3>1. TankReplies(op) = {Integer(-2), Integer(-1), Integer(1)}
        BY <2>2, Zenon DEF TankReplies
      <3> QED BY <3>1, Zenon
    <2>3. CASE op.type \in {"DEL", "EXISTS", "EXPIRE"}
      <3>1. op.type # "SET" /\ op.type # "GET" /\ op.type # "INCRBY" /\ op.type # "TTL"
        BY <2>3
      <3>2. TankReplies(op) = {Integer(0), Integer(1)}
        BY <3>1, Zenon DEF TankReplies
      <3> QED BY <3>2, Zenon
    <2> QED BY <1>3, <2>1, <2>2, <2>3
  <1> QED BY <1>1, <1>2, <1>3

LEMMA Kinds ==
  /\ Null.kind = "_"
  /\ \A x : Integer(x).kind = ":" /\ SimpleString(x).kind = "+" /\ SimpleError(x).kind = "-"
            /\ BulkString(x).kind = "$"
  BY DEF Null, Integer, SimpleString, SimpleError, BulkString

(* The rules by which a reply answers a command. *)
LEMMA AnswersIf ==
  ASSUME NEW cmd, NEW v
  PROVE  /\ ~WellFormed(cmd) /\ v.kind = "-" => Answers(cmd, v)
         /\ ~WellFormed(cmd) /\ ~Malformed(cmd) => Answers(cmd, v)
         /\ WellFormed(cmd) /\ IsPing(cmd) /\ Len(cmd) = 1 /\ v = SimpleString("PONG") => Answers(cmd, v)
         /\ WellFormed(cmd) /\ IsPing(cmd) /\ Len(cmd) # 1 /\ v = BulkString(cmd[2]) => Answers(cmd, v)
         /\ WellFormed(cmd) /\ IsInfo(cmd) /\ v.kind = "$" => Answers(cmd, v)
         /\ WellFormed(cmd) /\ Upper(cmd[1]) \in {"SET", "GET"} /\ v.kind \in {"_", "+", "$"} =>
              Answers(cmd, v)
         /\ WellFormed(cmd) /\ Upper(cmd[1]) \notin {"PING", "INFO", "SET", "GET"}
              /\ v.kind \in {":", "-"} => Answers(cmd, v)
  <1> DEFINE u == Upper(cmd[1])
  <1>1. /\ IsPing(cmd) => u = "PING"
        /\ IsInfo(cmd) => u = "INFO"
    BY DEF IsPing, IsInfo
  <1>2. /\ u \in {"SET", "GET"} => u # "PING" /\ u # "INFO"
        /\ u \notin {"PING", "INFO", "SET", "GET"} => u # "PING" /\ u # "INFO" /\ u \notin {"SET", "GET"}
        /\ "PING" # "INFO"
    OBVIOUS
  <1>3. /\ ~WellFormed(cmd) /\ v.kind = "-" => Answers(cmd, v)
        /\ ~WellFormed(cmd) /\ ~Malformed(cmd) => Answers(cmd, v)
    BY Zenon DEF Answers
  <1>4. /\ WellFormed(cmd) /\ IsPing(cmd) /\ Len(cmd) = 1 /\ v = SimpleString("PONG") => Answers(cmd, v)
        /\ WellFormed(cmd) /\ IsPing(cmd) /\ Len(cmd) # 1 /\ v = BulkString(cmd[2]) => Answers(cmd, v)
    BY <1>1, <1>2, Zenon DEF Answers
  <1>5. WellFormed(cmd) /\ IsInfo(cmd) /\ v.kind = "$" => Answers(cmd, v)
    BY <1>1, <1>2, Zenon DEF Answers
  <1>6. WellFormed(cmd) /\ u \in {"SET", "GET"} /\ v.kind \in {"_", "+", "$"} => Answers(cmd, v)
    BY <1>1, <1>2, Zenon DEF Answers
  <1>7. WellFormed(cmd) /\ u \notin {"PING", "INFO", "SET", "GET"} /\ v.kind \in {":", "-"} =>
          Answers(cmd, v)
    BY <1>1, <1>2, Zenon DEF Answers
  <1> QED BY <1>3, <1>4, <1>5, <1>6, <1>7

(* The command of a run was PING. *)
LEMMA PingReplies ==
  ASSUME NEW cmd \in Command, NEW args, ArgsOf(cmd, args), Upper(cmd[1]) = "PING",
         NEW does, does = process_command_helper(cmd[1], args), does.did = "run",
         NEW v, v = process_ping(does.args)
  PROVE  Answers(cmd, v) /\ (IsLine(v) \/ IsBulk(v))
  <1> DEFINE p == parse_command_arguments(<<MessageDef>>, args)
             word == cmd[1]
  <1>1. does = Dispatch("PING", p)
    <2>1. 1 \in DOMAIN COMMANDS
      BY CommandTable
    <2>2. Upper(word) = COMMANDS[1].name /\ does = process_command_helper(word, args)
      BY CommandTable
    <2> HIDE DEF word
    <2>3. process_command_helper(word, args)
            = Dispatch(COMMANDS[1].name, parse_command_arguments(COMMANDS[1].args, args))
      BY <2>1, <2>2, Dispatched
    <2> QED BY <2>2, <2>3, CommandTable
  <1> HIDE DEF word
  <1>2. Len(args) \in Nat
    BY ArgsPlaces
  <1>3. /\ Len(args) = 0 => Succeeds(p, <<NotGiven(MessageDef)>>)
        /\ Len(args) = 1 => Succeeds(p, <<Given(MessageDef, args[1])>>)
        /\ Len(args) > 1 => Fails(p)
    BY <1>2, PingArguments
  <1> HIDE DEF p
  <1>4. ~Fails(p) /\ does.args = p.outs
    <2>1. ~Fails(p)
      BY <1>1, DispatchRefuses
    <2>2. does = Runs("PING", p.outs)
      BY <1>1, <2>1 DEF Dispatch, Fails
    <2> QED BY <2>1, <2>2 DEF Runs
  <1>5. Len(args) = 0 \/ Len(args) = 1
    BY <1>3, <1>4, ArgsPlaces, Zenon
  <1>6. IsPing(cmd) /\ WellFormed(cmd)
    <2>1. Len(cmd) <= 2
      <3>1. Len(args) <= 1
        BY <1>5, ArgsPlaces, Zenon
      <3> QED BY <3>1, ArgsPlaces, Zenon
    <2> QED BY <2>1, Forms DEF IsPing
  <1>7. CASE Len(args) = 0
    <2>1. p.outs = <<NotGiven(MessageDef)>>
      BY <1>3, <1>7 DEF Succeeds
    <2>2. ~NotGiven(MessageDef).present
      BY DEF NotGiven, CommandArg
    <2> DEFINE a == NotGiven(MessageDef)
    <2> HIDE DEF a
    <2>3. <<a>>[1] = a
      OBVIOUS
    <2>4. does.args[1] = a
      BY <1>4, <2>1, <2>3 DEF a
    <2>5. v = SimpleString("PONG")
      BY <2>2, <2>4, Zenon DEF process_ping, a
    <2>6. Len(cmd) = 1
      BY <1>7, ArgsPlaces, Zenon
    <2>7. IsLine(v)
      BY <2>5, Zenon DEF IsLine
    <2> QED BY <1>6, <2>5, <2>6, <2>7, AnswersIf, Zenon
  <1>8. CASE Len(args) = 1
    <2> DEFINE a == Given(MessageDef, args[1])
    <2>1. p.outs = <<a>>
      BY <1>3, <1>8 DEF Succeeds
    <2>2. a.present = TRUE /\ a.value = args[1]
      BY DEF Given, CommandArg
    <2> HIDE DEF a
    <2>3. <<a>>[1] = a
      OBVIOUS
    <2>4. does.args[1] = a
      BY <1>4, <2>1, <2>3
    <2>5. v = BulkString(args[1])
      BY <2>2, <2>4, Zenon DEF process_ping
    <2>6. Len(cmd) = 2 /\ args[1] = cmd[2]
      BY <1>8, ArgsPlaces, Zenon
    <2>7. Len(cmd) # 1
      BY <2>6
    <2>8. cmd[2] \in Seq(Cell)
      <3>1. cmd \in Seq(Seq(Cell)) /\ 2 \in 1 .. 2
        BY DEF Command
      <3>2. \A i \in 1 .. Len(cmd) : cmd[i] \in Seq(Cell)
        BY <3>1
      <3> QED BY <2>6, <3>1, <3>2, Zenon
    <2>9. IsBulk(v)
      BY <2>5, <2>6, <2>8 DEF IsBulk
    <2> QED BY <1>6, <2>5, <2>6, <2>7, <2>9, AnswersIf, Zenon
  <1> QED BY <1>5, <1>7, <1>8

LEMMA InfoReply == IsBulk(process_info(replica)) /\ process_info(replica).kind = "$"
  <1> DEFINE a == Byte(IF replica THEN "role:replica" ELSE "role:master")
             b == Byte("NUL")
             s == <<a, b>>
  <1>1. process_info(replica) = BulkString(s)
    BY Zenon DEF process_info
  <1> HIDE DEF a, b
  <1>2. s \in Seq({a, b})
    OBVIOUS
  <1> HIDE DEF s
  <1> QED BY <1>1, <1>2, Kinds DEF IsBulk

LEMMA ReplyAnswers ==
  ASSUME NEW cmd \in Command, NEW args, ArgsOf(cmd, args),
         NEW does, does = process_command_helper(cmd[1], args),
         NEW v \in HandlerReplies(does, OperationOf(does))
  PROVE  Answers(cmd, v) /\ (IsLine(v) \/ IsBulk(v))
  <1> DEFINE word == cmd[1]
             name == Upper(word)
             op == OperationOf(does)
  <1>1. Understood(cmd, does.did, op)
    BY CommandRight DEF Right
  <1>2. \/ does.did = "refuse"
        \/ does.did = "run" /\ does.name = name /\ does.name \in CommandNames
    <2> HIDE DEF word
    <2> QED BY HelperOutcome DEF word
  <1>3. "run" # "refuse"
    OBVIOUS
  <1> HIDE DEF word
  <1>4. CASE does.did = "refuse"
    <2>1. ~WellFormed(cmd)
      BY <1>1, <1>3, <1>4 DEF Understood
    <2>2. v = SimpleError(does.name)
      <3>1. HandlerReplies(does, op) = {SimpleError(does.name)}
        BY <1>3, <1>4, Zenon DEF HandlerReplies
      <3> QED BY <3>1, Zenon
    <2>3. v.kind = "-" /\ IsLine(v)
      BY <2>2, Kinds, Zenon DEF IsLine
    <2> QED BY <2>1, <2>3, AnswersIf, Zenon
  <1>5. CASE does.did = "run"
    <2>1. does.name = name /\ name \in CommandNames
      BY <1>2, <1>3, <1>5
    <2>2. ~Malformed(cmd)
      BY <1>1, <1>3, <1>5 DEF Understood
    <2>3. name # "SET" => WellFormed(cmd)
      BY <2>2, Forms DEF word
    <2>4. CASE name = "PING"
      <3>1. v = process_ping(does.args)
        <4>1. HandlerReplies(does, op) = {process_ping(does.args)}
          BY <1>3, <1>5, <2>1, <2>4, Zenon DEF HandlerReplies
        <4> QED BY <4>1, Zenon
      <3> QED BY <1>5, <2>4, <3>1, PingReplies DEF word
    <2>5. CASE name = "INFO"
      <3>1. v = process_info(replica)
        <4>1. HandlerReplies(does, op) = {process_info(replica)}
          <5>1. "INFO" # "PING"
            OBVIOUS
          <5> QED BY <1>3, <1>5, <2>1, <2>5, <5>1, Zenon DEF HandlerReplies
        <4> QED BY <4>1, Zenon
      <3>2. IsInfo(cmd)
        BY <2>3, <2>5, Forms DEF word, IsInfo
      <3> QED BY <2>3, <2>5, <3>1, <3>2, InfoReply, AnswersIf
    <2>6. CASE name \notin {"PING", "INFO"}
      <3>1. op = Operation(name, does.args)
        BY <1>5, <2>1, <2>6 DEF OperationOf
      <3>2. v \in TankReplies(op)
        <4>1. HandlerReplies(does, op) = TankReplies(op)
          <5>1. name # "PING" /\ name # "INFO"
            BY <2>6
          <5> QED BY <1>3, <1>5, <2>1, <5>1, Zenon DEF HandlerReplies
        <4> QED BY <4>1, Zenon
      <3> HIDE DEF op, name
      <3>3. /\ name = "SET" => op.type = "SET"
            /\ name = "GET" => op.type = "GET"
            /\ name \notin {"SET", "GET"} => op.type \in {"DEL", "TTL", "EXISTS", "EXPIRE", "INCRBY"}
        BY <2>1, <2>6, <3>1, OperationTypes
      <3>4. CASE name = "SET"
        <4>1. v = Null \/ v = BulkString(op.value) \/ v = SimpleString("OK")
          BY <3>2, <3>3, <3>4, RepliesOfTank
        <4>2. IsSet(cmd)
          BY <2>2, <3>4, Forms DEF name, word, Malformed
        <4>3. op.value = cmd[3]
          BY <1>1, <1>5, <4>2 DEF Understood, SetMeans
        <4>4. cmd[3] \in Seq(Cell)
          BY <4>2 DEF Command, IsSet
        <4>5. IsLine(v) \/ IsBulk(v)
          <5>1. CASE v = Null \/ v = SimpleString("OK")
            BY <5>1, Zenon DEF IsLine
          <5>2. CASE v = BulkString(op.value)
            BY <4>3, <4>4, <5>2 DEF IsBulk
          <5> QED BY <4>1, <5>1, <5>2
        <4>6. v.kind \in {"_", "+", "$"}
          BY <4>1, Kinds, Zenon
        <4> QED BY <2>2, <3>4, <4>5, <4>6, AnswersIf DEF name, word
      <3>5. CASE name = "GET"
        <4>1. v = Null \/ v = BulkString(op.key)
          BY <3>2, <3>3, <3>5, RepliesOfTank
        <4>2. WellFormed(cmd) /\ Len(cmd) = 2
          BY <2>3, <3>5, Forms DEF name, word
        <4>3. op.key = cmd[2]
          <5>1. op # NoOperation
            BY <3>3, <3>5 DEF NoOperation
          <5> QED BY <1>1, <5>1 DEF Understood
        <4>4. cmd[2] \in Seq(Cell)
          BY <4>2 DEF Command
        <4>5. IsLine(v) \/ IsBulk(v)
          <5>1. CASE v = Null
            BY <5>1, Zenon DEF IsLine
          <5>2. CASE v = BulkString(op.key)
            BY <4>3, <4>4, <5>2 DEF IsBulk
          <5> QED BY <4>1, <5>1, <5>2
        <4>6. v.kind \in {"_", "+", "$"}
          BY <4>1, Kinds, Zenon
        <4> QED BY <3>5, <4>2, <4>5, <4>6, AnswersIf DEF name, word
      <3>6. CASE name \notin {"SET", "GET"}
        <4>1. \E x : v = Integer(x) \/ v = SimpleError(x)
          BY <3>2, <3>3, <3>6, RepliesOfTank
        <4>2. IsLine(v)
          BY <4>1, Zenon DEF IsLine
        <4>3. v.kind \in {":", "-"}
          BY <4>1, Kinds, Zenon
        <4>4. name # "SET" /\ name \notin {"PING", "INFO", "SET", "GET"}
          BY <2>6, <3>6
        <4> QED BY <2>3, <4>2, <4>3, <4>4, AnswersIf DEF name, word
      <3> QED BY <3>4, <3>5, <3>6
    <2> QED BY <2>4, <2>5, <2>6
  <1> QED BY <1>2, <1>4, <1>5

(***************************************************************************)
(* The replies and the reads, one by one.                                  *)
(***************************************************************************)
LEMMA RequestProcessed ==
  ASSUME NEW cmd \in Command, NEW does, does = process_command(RequestValue(cmd))
  PROVE  \E args : ArgsOf(cmd, args) /\ does = process_command_helper(cmd[1], args)
  <1> DEFINE a == [i \in DOMAIN cmd |-> BulkString(cmd[i])]
             v == RequestValue(cmd)
             n == Len(cmd)
             args == [i \in 1 .. n - 1 |-> a[i + 1].data]
  <1>1. /\ n \in Nat \ {0} /\ DOMAIN cmd = 1 .. n
    BY DEF Command
  <1>2. v.kind = "*" /\ v.array = a
    BY ArrayFields DEF RequestValue
  <1>3. Len(a) = n /\ DOMAIN a = 1 .. n /\ \A i \in 1 .. n : a[i] = BulkString(cmd[i])
    <2> HIDE DEF n
    <2> QED BY <1>1
  <1> HIDE DEF a, n, v
  <1>4. \A i \in 1 .. n : a[i].kind = "$" /\ a[i].data = cmd[i]
    BY <1>3 DEF BulkString
  <1>5. a # <<>>
    <2>1. Len(<<>>) = 0
      OBVIOUS
    <2> QED BY <1>1, <1>3, <2>1
  <1>6. is_valid_bulk_string_array_command(a)
    BY <1>3, <1>4, <1>5 DEF is_valid_bulk_string_array_command
  <1>7. does = process_command_helper(a[1].data, args)
    BY <1>2, <1>3, <1>6, Zenon DEF process_command, v
  <1>8. a[1].data = cmd[1]
    <2>1. 1 \in 1 .. n
      BY <1>1
    <2> QED BY <1>4, <2>1
  <1>9. Len(args) = n - 1 /\ \A i \in 1 .. n - 1 : args[i] = a[i + 1].data
    <2>1. n - 1 \in Nat
      BY <1>1
    <2> QED BY <2>1
  <1> HIDE DEF args
  <1>10. ArgsOf(cmd, args)
    <2>1. \A i \in 1 .. n - 1 : i + 1 \in 1 .. n
      BY <1>1
    <2>2. \A i \in 1 .. Len(args) : args[i] = cmd[i + 1]
      BY <1>4, <1>9, <2>1
    <2>3. n \in Nat /\ n - 1 \in Nat /\ n = (n - 1) + 1
      BY <1>1
    <2>4. Len(cmd) \in Nat /\ Len(args) \in Nat /\ Len(cmd) = Len(args) + 1
      BY <1>9, <2>3 DEF n
    <2> QED BY <2>2, <2>4 DEF ArgsOf
  <1> QED BY <1>7, <1>8, <1>10

IsAnswer(cmd, reply) ==
  LET r == resp_parse_input(reply) IN r.pos = Len(reply) + 1 /\ Answers(cmd, r.value)

LEMMA WholeProcessed ==
  ASSUME NEW cmd \in Command, NEW value, value = RequestValue(cmd),
         Process(value, process_command(value))
  PROVE  /\ phase' = phase
         /\ \E reply : replies' = Append(replies, reply) /\ IsAnswer(cmd, reply)
  <1> DEFINE does == process_command(value)
             op == OperationOf(does)
  <1>1. PICK args : ArgsOf(cmd, args) /\ does = process_command_helper(cmd[1], args)
    BY RequestProcessed
  <1>2. does.did # "exit"
    <2> DEFINE word == cmd[1]
    <2> HIDE DEF word
    <2>1. does.did = "refuse" \/ does.did = "run"
      BY <1>1, HelperOutcome DEF word
    <2> QED BY <2>1
  <1>3. Reply(value, does.did, op, HandlerReplies(does, op))
    <2>1. \/ does.did = "exit" /\ ExitProcess
          \/ does.did # "exit" /\ Reply(value, does.did, op, HandlerReplies(does, op))
      BY Zenon DEF Process
    <2> QED BY <1>2, <2>1, Zenon
  <1>4. /\ phase' = phase
        /\ \E v \in HandlerReplies(does, op) : replies' = Append(replies, resp_serialize_value(v))
    BY <1>3, Zenon DEF Reply
  <1>5. PICK v \in HandlerReplies(does, op) : replies' = Append(replies, resp_serialize_value(v))
    BY <1>4
  <1> HIDE DEF does
  <1>6. Answers(cmd, v) /\ (IsLine(v) \/ IsBulk(v))
    BY <1>1, <1>5, ReplyAnswers
  <1>7. ReadBack(v)
    BY <1>6, ReplyReadBack
  <1>8. IsAnswer(cmd, resp_serialize_value(v))
    BY <1>6, <1>7 DEF IsAnswer, ReadBack
  <1> QED BY <1>4, <1>5, <1>8

Answered(sc, b, r) == Len(r) = Len(b) /\ \A i \in 1 .. Len(b) : IsAnswer(sc[b[i]], r[i])

LEMMA AppendParts ==
  ASSUME NEW S, NEW s \in Seq(S), NEW e
  PROVE  /\ Append(s, e) \in Seq(S \cup {e}) /\ Len(Append(s, e)) = Len(s) + 1
         /\ Append(s, e)[Len(s) + 1] = e /\ \A i \in 1 .. Len(s) : Append(s, e)[i] = s[i]
  <1> DEFINE T == S \cup {e}
  <1>1. s \in Seq(T) /\ e \in T
    OBVIOUS
  <1> HIDE DEF T
  <1>2. /\ Append(s, e) \in Seq(T) /\ Len(Append(s, e)) = Len(s) + 1
        /\ Append(s, e)[Len(s) + 1] = e /\ \A i \in 1 .. Len(s) : Append(s, e)[i] = s[i]
    BY <1>1, AppendProperties
  <1> QED BY <1>2 DEF T

LEMMA AnsweredMore ==
  ASSUME NEW sc, NEW b \in Seq(Nat), NEW S, NEW r \in Seq(S), Answered(sc, b, r),
         NEW k \in Nat, NEW reply, IsAnswer(sc[k], reply)
  PROVE  Answered(sc, Append(b, k), Append(r, reply))
  <1> DEFINE b2 == Append(b, k)
             r2 == Append(r, reply)
             n == Len(b)
  <1>1. n \in Nat /\ Len(r) = n /\ \A i \in 1 .. n : IsAnswer(sc[b[i]], r[i])
    BY DEF Answered
  <1>2. Len(b2) = n + 1 /\ b2[n + 1] = k /\ \A i \in 1 .. n : b2[i] = b[i]
    BY AppendParts
  <1>3. Len(r2) = n + 1 /\ r2[n + 1] = reply /\ \A i \in 1 .. n : r2[i] = r[i]
    <2> HIDE DEF n
    <2> QED BY <1>1, AppendParts
  <1> HIDE DEF b2, r2, n
  <1>4. \A i \in 1 .. n + 1 : i \in 1 .. n \/ i = n + 1
    BY <1>1
  <1>5. \A i \in 1 .. n + 1 : IsAnswer(sc[b2[i]], r2[i])
    BY <1>1, <1>2, <1>3, <1>4
  <1>6. Answered(sc, b2, r2)
    BY <1>2, <1>3, <1>5 DEF Answered
  <1> QED BY <1>6 DEF b2, r2

LEMMA RangeAppended ==
  ASSUME NEW s \in Seq(Nat), NEW k \in Nat
  PROVE  Range(Append(s, k)) = Range(s) \cup {k}
  <1> DEFINE t == Append(s, k)
             n == Len(s)
  <1>1. /\ n \in Nat /\ t \in Seq(Nat) /\ Len(t) = n + 1 /\ t[n + 1] = k
        /\ \A i \in 1 .. n : t[i] = s[i]
    BY AppendProperties
  <1>2. DOMAIN s = 1 .. n
    OBVIOUS
  <1> HIDE DEF t, n
  <1>3. DOMAIN t = 1 .. n + 1
    BY <1>1
  <1>4. 1 .. n + 1 = (1 .. n) \cup {n + 1}
    BY <1>1
  <1>5. Range(t) = Range(s) \cup {k}
    BY <1>1, <1>2, <1>3, <1>4 DEF Range
  <1> QED BY <1>5, Zenon DEF t

LEMMA BeginsWithNat ==
  ASSUME sent \in Nat, NEW from, NEW to
  PROVE  BeginsWith(from, to) \in Nat
  <1> DEFINE whole == {k \in 1 .. sent : Len(Stream(k - 1)) = from}
  <1>1. whole \subseteq Nat
    OBVIOUS
  <1>2. BeginsWith(from, to) =
          IF whole # {} /\ \E k \in 1 .. sent : Len(Stream(k)) = to THEN Min(whole) ELSE 0
    BY DEF BeginsWith
  <1> HIDE DEF whole
  <1>3. whole # {} => Min(whole) \in Nat
    BY <1>1, MinIsLeast
  <1> QED BY <1>2, <1>3

(***************************************************************************)
(* The invariant: as long as every read began and ended with a command,    *)
(* there is an answer for each of them.                                    *)
(***************************************************************************)
WholeSoFar == (phase = "up" \/ begins # <<>>) /\ 0 \notin Range(begins)

AnswerInv ==
  /\ begins \in Seq(Nat) /\ (\E S : replies \in Seq(S))
  /\ phase = "starting" => begins = <<>> /\ replies = <<>>
  /\ WholeSoFar => phase = "up" /\ Answered(script, begins, replies)

LEMMA AnswerRead ==
  ASSUME Typed, AnswerInv, HandleInput
  PROVE  AnswerInv'
  <1>1. PICK n \in IF script \in CutScripts THEN 1 .. Min({BufferSize, Len(Stream(sent)) - taken})
                   ELSE {Min({BufferSize, Len(Stream(sent)) - taken})} :
          /\ begins' = Append(begins, BeginsWith(taken, taken + n))
          /\ \E value \in Input(SubSeq(Stream(sent), taken + 1, taken + n)) :
               Process(value, process_command(value))
    BY DEF HandleInput
  <1> DEFINE cells == SubSeq(Stream(sent), taken + 1, taken + n)
             k == BeginsWith(taken, taken + n)
  <1>2. phase = "up" /\ script' = script /\ taken < Len(Stream(sent)) /\ sent \in Nat
    BY DEF HandleInput, Typed
  <1>3. n \in Nat \ {0} /\ taken + n <= Len(Stream(sent)) /\ cells \in Seq(Cell) /\ cells # <<>>
    BY <1>1, <1>2, ReadIs
  <1>4. k \in Nat
    BY <1>2, BeginsWithNat
  <1>5. PICK value \in Input(cells) : Process(value, process_command(value))
    BY <1>1
  <1>6. begins' = Append(begins, k)
    BY <1>1
  <1>7. k # 0 => k \in 1 .. Len(script) /\ Holds(cells, 0, Request(script[k]))
    BY <1>3, WholeRead
  <1> HIDE DEF cells, k
  <1>8. begins' \in Seq(Nat) /\ Range(begins') = Range(begins) \cup {k}
    <2>1. begins \in Seq(Nat)
      BY DEF AnswerInv
    <2>2. Append(begins, k) \in Seq(Nat)
      BY <1>4, <2>1, AppendProperties
    <2>3. Range(Append(begins, k)) = Range(begins) \cup {k}
      BY <1>4, <2>1, RangeAppended, Zenon
    <2> QED BY <1>6, <2>2, <2>3, Zenon
  <1>9. PICK S : replies \in Seq(S)
    BY DEF AnswerInv
  <1>10. /\ \E T : replies' \in Seq(T)
         /\ phase' # "starting"
    <2>1. \/ phase' = "exited" /\ replies' = replies
          \/ phase' = phase /\ \E x : replies' = Append(replies, x)
      BY <1>5 DEF Process, ExitProcess, Reply
    <2>2. \A x : Append(replies, x) \in Seq(S \cup {x})
      BY <1>9, AppendParts
    <2> QED BY <1>2, <1>9, <2>1, <2>2
  <1>11. ASSUME WholeSoFar'
         PROVE  phase' = "up" /\ Answered(script, begins', replies')
    <2>1. 0 \notin Range(begins) /\ k # 0
      BY <1>8, <1>11 DEF WholeSoFar
    <2>2. Answered(script, begins, replies)
      BY <1>2, <2>1 DEF AnswerInv, WholeSoFar
    <2> DEFINE cmd == script[k]
    <2>3. cmd \in Command /\ Holds(cells, 0, Request(cmd))
      BY <1>7, <2>1 DEF Typed
    <2> HIDE DEF cmd
    <2>4. resp_parse_input(cells).code = "SUCCESS" /\ resp_parse_input(cells).value = RequestValue(cmd)
      BY <1>3, <2>3, RequestParsed
    <2>5. value = RequestValue(cmd)
      <3>1. "SUCCESS" # "BEYOND"
        OBVIOUS
      <3> QED BY <1>5, <2>4, <3>1, Zenon DEF Input
    <2>6. PICK reply : replies' = Append(replies, reply) /\ IsAnswer(cmd, reply)
      BY <1>5, <2>3, <2>5, WholeProcessed
    <2>7. phase' = phase
      BY <1>5, <2>3, <2>5, WholeProcessed
    <2>8. begins \in Seq(Nat)
      BY DEF AnswerInv
    <2>9. Answered(script, Append(begins, k), Append(replies, reply))
      BY <1>4, <1>9, <2>2, <2>6, <2>8, AnsweredMore DEF cmd
    <2> QED BY <1>2, <1>6, <2>6, <2>7, <2>9
  <1> QED BY <1>2, <1>8, <1>10, <1>11 DEF AnswerInv

LEMMA AnswerInvariant == Spec => []AnswerInv
  <1>1. Init => AnswerInv
    <2> SUFFICES ASSUME Init PROVE AnswerInv
      OBVIOUS
    <2>1. phase = "starting" /\ begins = <<>> /\ replies = <<>>
      BY DEF Init
    <2>2. \A S : <<>> \in Seq(S)
      OBVIOUS
    <2>3. begins \in Seq(Nat) /\ \E S : replies \in Seq(S)
      BY <2>1, <2>2, Zenon
    <2>4. ~WholeSoFar
      BY <2>1 DEF WholeSoFar
    <2> QED BY <2>1, <2>3, <2>4 DEF AnswerInv
  <1>2. ReadInv /\ AnswerInv /\ [Next]_vars => AnswerInv'
    <2> SUFFICES ASSUME ReadInv, AnswerInv, [Next]_vars PROVE AnswerInv'
      OBVIOUS
    <2>1. CASE main
      <3>1. phase = "starting" /\ begins' = begins /\ replies' = replies /\ script' = script
            /\ phase' \in {"up", "exited"}
        BY <2>1, Zenon DEF main
      <3>2. begins' = <<>> /\ replies' = <<>>
        BY <3>1 DEF AnswerInv
      <3>3. Len(<<>>) = 0 /\ \A i \in 1 .. 0 : FALSE
        OBVIOUS
      <3>4. Answered(script', begins', replies')
        BY <3>2, <3>3 DEF Answered
      <3>5. WholeSoFar' => phase' = "up"
        BY <3>2 DEF WholeSoFar
      <3>6. begins' \in Seq(Nat) /\ \E S : replies' \in Seq(S)
        BY <3>1 DEF AnswerInv
      <3>7. phase' # "starting"
        BY <3>1
      <3> QED BY <3>4, <3>5, <3>6, <3>7 DEF AnswerInv
    <2>2. CASE ClientSends
      BY <2>2 DEF ClientSends, AnswerInv, WholeSoFar
    <2>3. CASE HandleInput
      BY <2>3, AnswerRead DEF ReadInv
    <2>4. CASE Hangup
      BY <2>4 DEF Hangup, AnswerInv, WholeSoFar
    <2>5. CASE UNCHANGED vars
      BY <2>5 DEF vars, AnswerInv, WholeSoFar
    <2> QED BY <2>1, <2>2, <2>3, <2>4, <2>5 DEF Next
  <1> QED BY <1>1, <1>2, ReadInvariant, PTL DEF Spec

(* server.c, parser.c and serializer.c: whatever the clients' commands and *)
(* the bytes in them, as long as every read holds whole commands the       *)
(* process lives, and every read is answered by one reply, which the       *)
(* client's parser reads back and which answers the first command of it.   *)
THEOREM CommandsAnswered == Spec => []WholeCommandsAnswered
  <1>1. AnswerInv => WholeCommandsAnswered
    <2> SUFFICES ASSUME AnswerInv, WholeSoFar PROVE
          /\ phase = "up" /\ Len(replies) = Len(begins)
          /\ \A i \in DOMAIN begins : IsAnswer(script[begins[i]], replies[i])
      BY Zenon DEF WholeCommandsAnswered, WholeSoFar, IsAnswer
    <2>1. begins \in Seq(Nat)
      BY DEF AnswerInv
    <2>2. DOMAIN begins = 1 .. Len(begins)
      BY <2>1
    <2> QED BY <2>2 DEF AnswerInv, Answered
  <1> QED BY <1>1, AnswerInvariant, PTL

=============================================================================
