---------------------------- MODULE RedicProofs ----------------------------
(***************************************************************************)
(* Proofs about Redic for any set of clients, any number of commands and   *)
(* any capacity of the two shared sewers.                                  *)
(***************************************************************************)
EXTENDS Redic, SequenceTheorems, TLAPS

(* The command the digest works on is one that a client sent. *)
TankInv == tank.at \in {"respond", "mark", "log"} => tank.cmd \in Commands

(* A request is in one place at a time: in the septic sewer, in the tank   *)
(* before it responds, or as a response; and its client waits for it.      *)
RequestInv ==
  /\ \A i \in 1 .. Len(septic_sewer) :
       LET c == septic_sewer[i][1]
       IN  client[c] = "await" /\ septic_sewer[i][2] = number[c] /\ response[c] = <<>>
  /\ \A i, j \in 1 .. Len(septic_sewer) :
       septic_sewer[i][1] = septic_sewer[j][1] => i = j
  /\ tank.at = "respond" =>
       LET c == tank.cmd[1]
       IN  /\ client[c] = "await" /\ tank.cmd[2] = number[c] /\ response[c] = <<>>
           /\ \A i \in 1 .. Len(septic_sewer) : septic_sewer[i][1] # c
  /\ \A c \in Clients :
       response[c] # <<>> => client[c] = "await" /\ response[c] = <<number[c]>>

(* A client is one reply behind while it sends and waits, and level with   *)
(* its commands otherwise; until then its arena holds the command.         *)
ClientInv ==
  \A c \in Clients :
    /\ replies[c] = [i \in 1 .. Len(replies[c]) |-> i]
    /\ IF client[c] \in {"send", "await"}
       THEN Len(replies[c]) + 1 = number[c] /\ arena[c] = number[c]
       ELSE Len(replies[c]) = number[c]

IsApplied(cmd) == \E j \in DOMAIN applied : applied[j] = cmd

(* From the response on, a mutation is in the store. *)
AppliedInv ==
  /\ tank.at = "respond" /\ IsMutation(tank.cmd) => IsApplied(tank.cmd)
  /\ \A c \in Clients : response[c] # <<>> /\ number[c] \in Mutating => IsApplied(<<c, number[c]>>)
  /\ AnsweredIsApplied

(* Until a client overtakes the digest, what the digest still uses in the  *)
(* client's arena is the command it works on, and no other is parsed.      *)
PromptInv ==
  ~overtaken =>
    /\ tank.at \in {"mark", "log"} =>
         client[tank.cmd[1]] \in {"await", "read"} /\ arena[tank.cmd[1]] = tank.cmd[2]
    /\ LogIsApplied
    /\ spoilt = {} /\ process = "sound"

(* The inductive invariant. *)
IInv == TypeOK /\ TankInv /\ RequestInv /\ ClientInv /\ AppliedInv /\ PromptInv

-----------------------------------------------------------------------------
(* A command names its client and its number. *)
LEMMA CommandParts ==
  /\ \A cmd \in Commands :
       cmd[1] \in Clients /\ cmd[2] \in 1 .. MaxCommands /\ cmd = <<cmd[1], cmd[2]>>
  /\ \A c \in Clients, n \in 1 .. MaxCommands : <<c, n>> \in Commands
  BY DEF Commands

(* Taking the first message from a queue. *)
LEMMA TakeFacts ==
  ASSUME NEW S, NEW s \in Seq(S), s # <<>>
  PROVE  /\ Len(s) \in Nat \ {0} /\ Head(s) = s[1] /\ Head(s) \in S
         /\ Tail(s) \in Seq(S) /\ Len(Tail(s)) = Len(s) - 1
         /\ \A i \in 1 .. Len(s) - 1 : Tail(s)[i] = s[i + 1]
  BY HeadTailProperties, EmptySeq

(* Appending to a sequence keeps what is in it. *)
LEMMA AppendKeeps ==
  ASSUME NEW S, NEW s \in Seq(S), NEW e \in S, NEW t, t = Append(s, e)
  PROVE  /\ t \in Seq(S)
         /\ \A j \in DOMAIN s : j \in DOMAIN t /\ t[j] = s[j]
         /\ \E j \in DOMAIN t : t[j] = e
  <1>1. /\ t \in Seq(S) /\ Len(t) = Len(s) + 1
        /\ \A i \in 1 .. Len(s) : t[i] = s[i]
        /\ t[Len(s) + 1] = e
    BY AppendProperties
  <1>2. DOMAIN s = 1 .. Len(s) /\ DOMAIN t = 1 .. Len(s) + 1 /\ Len(s) \in Nat
    BY <1>1, LenProperties
  <1>3. (\A i \in 1 .. Len(s) : i \in 1 .. Len(s) + 1) /\ Len(s) + 1 \in 1 .. Len(s) + 1
    BY <1>2
  <1> QED BY <1>1, <1>2, <1>3

(* The replies 1, 2, ... n followed by n + 1. *)
LEMMA CountUp ==
  ASSUME NEW S, NEW s \in Seq(S), s = [i \in 1 .. Len(s) |-> i], Len(s) + 1 \in S
  PROVE  LET t == Append(s, Len(s) + 1)
         IN  t \in Seq(S) /\ Len(t) = Len(s) + 1 /\ t = [i \in 1 .. Len(t) |-> i]
  <1> DEFINE t == Append(s, Len(s) + 1)
  <1>1. /\ t \in Seq(S) /\ Len(t) = Len(s) + 1 /\ Len(s) \in Nat
        /\ \A i \in 1 .. Len(s) : t[i] = s[i]
        /\ t[Len(s) + 1] = Len(s) + 1
    BY AppendProperties, LenProperties
  <1>2. t \in [1 .. Len(t) -> S]
    BY <1>1, LenProperties
  <1>3. \A i \in 1 .. Len(s) : s[i] = i
    OBVIOUS
  <1> HIDE DEF t
  <1>4. \A i \in 1 .. Len(t) : t[i] = i
    BY <1>1, <1>3
  <1>5. t = [i \in 1 .. Len(t) |-> i]
    BY <1>2, <1>4
  <1> QED BY <1>1, <1>5 DEF t

(* A client that does not wait, or whose response is there, has no request *)
(* in the septic sewer and none that the tank is about to answer.          *)
LEMMA NoRequest ==
  ASSUME TypeOK, TankInv, RequestInv, NEW c \in Clients,
         client[c] # "await" \/ response[c] # <<>>
  PROVE  /\ \A i \in 1 .. Len(septic_sewer) : septic_sewer[i][1] # c /\ septic_sewer[i][1] \in Clients
         /\ tank.at = "respond" => tank.cmd[1] # c /\ tank.cmd[1] \in Clients
         /\ client[c] # "await" => response[c] = <<>>
  <1>1. ASSUME NEW i \in 1 .. Len(septic_sewer)
        PROVE  septic_sewer[i][1] # c /\ septic_sewer[i][1] \in Clients
    <2>1. septic_sewer[i] \in Commands
      BY ElementOfSeq DEF TypeOK
    <2> QED BY <2>1, CommandParts DEF RequestInv
  <1>2. tank.at = "respond" => tank.cmd[1] # c /\ tank.cmd[1] \in Clients
    BY CommandParts DEF RequestInv, TankInv
  <1>3. client[c] # "await" => response[c] = <<>>
    BY DEF RequestInv
  <1> QED BY <1>1, <1>2, <1>3

-----------------------------------------------------------------------------
(* The server before its first client satisfies the invariant. *)
LEMMA InitIInv == Init => IInv
  <1> SUFFICES ASSUME Init PROVE IInv
    OBVIOUS
  <1>1. TypeOK
    <2>1. \A S : <<>> \in Seq(S)
      OBVIOUS
    <2>2. Len(<<>>) <= SepticCap /\ Len(<<>>) <= PottyCap /\ 0 \in 0 .. MaxCommands
      BY RedicAssumption
    <2> QED BY <2>1, <2>2 DEF Init, TypeOK, Idle, Places
  <1>2. TankInv /\ RequestInv
    BY DEF Init, TankInv, RequestInv, Idle
  <1>3. ClientInv
    BY DEF Init, ClientInv
  <1>4. AppliedInv
    BY DEF Init, AppliedInv, AnsweredIsApplied, Idle
  <1>5. PromptInv
    BY DEF Init, PromptInv, LogIsApplied, InDigest, Idle
  <1> QED BY <1>1, <1>2, <1>3, <1>4, <1>5 DEF IInv

-----------------------------------------------------------------------------
(* handle_client_socket reads the next command. *)
LEMMA ReadIInv ==
  ASSUME IInv, NEW c \in Clients, ReadCommand(c)
  PROVE  IInv'
  <1> USE DEF IInv, ReadCommand, memory
  <1>1. TypeOK'
    <2>1. number[c] + 1 \in 0 .. MaxCommands
      BY RedicAssumption DEF TypeOK
    <2> QED BY <2>1 DEF TypeOK
  <1>2. TankInv'
    BY DEF TankInv
  <1>3. RequestInv'
    <2>1. /\ \A i \in 1 .. Len(septic_sewer) : septic_sewer[i][1] # c /\ septic_sewer[i][1] \in Clients
          /\ tank.at = "respond" => tank.cmd[1] # c /\ tank.cmd[1] \in Clients
          /\ response[c] = <<>>
      BY NoRequest
    <2> QED BY <2>1 DEF RequestInv, TypeOK
  <1>4. ClientInv'
    BY DEF ClientInv, TypeOK
  <1>5. AppliedInv'
    <2>1. response[c] = <<>>
      BY DEF RequestInv, TypeOK
    <2> QED BY <2>1, SMTT(30) DEF AppliedInv, AnsweredIsApplied, IsApplied, IsMutation, TypeOK
  <1>6. PromptInv'
    BY CommandParts DEF PromptInv, Digesting, LogIsApplied, InDigest, IsMutation, TypeOK, TankInv
  <1> QED BY <1>1, <1>2, <1>3, <1>4, <1>5, <1>6

(* septic_tank_feed puts the command into the septic sewer. *)
LEMMA FeedIInv ==
  ASSUME IInv, NEW c \in Clients, FeedTank(c)
  PROVE  IInv'
  <1> USE DEF IInv, FeedTank, memory
  <1> DEFINE cmd == <<c, number[c]>>
             n == Len(septic_sewer)
             new == Append(septic_sewer, cmd)
  <1>0. cmd \in Commands /\ cmd[1] = c /\ cmd[2] = number[c]
    <2>1. Len(replies[c]) + 1 = number[c] /\ Len(replies[c]) \in Nat
      BY DEF ClientInv, TypeOK
    <2>2. number[c] \in 1 .. MaxCommands
      BY <2>1, RedicAssumption DEF TypeOK
    <2> QED BY <2>2, CommandParts
  <1>00. /\ new \in Seq(Commands) /\ Len(new) = n + 1 /\ n \in Nat
         /\ \A i \in 1 .. n : new[i] = septic_sewer[i]
         /\ new[n + 1] = cmd
         /\ septic_sewer' = new
    BY <1>0, AppendProperties, LenProperties DEF TypeOK
  <1> HIDE DEF new, cmd
  <1>1. TypeOK'
    <2>1. Len(new) <= SepticCap
      BY <1>00, RedicAssumption DEF TypeOK
    <2> QED BY <1>00, <2>1 DEF TypeOK
  <1>2. TankInv'
    BY DEF TankInv
  <1>3. RequestInv'
    <2>1. /\ \A i \in 1 .. n : septic_sewer[i][1] # c /\ septic_sewer[i][1] \in Clients
          /\ tank.at = "respond" => tank.cmd[1] # c /\ tank.cmd[1] \in Clients
          /\ response[c] = <<>>
      BY NoRequest
    <2>2. \A i \in 1 .. n + 1 : i \in 1 .. n \/ i = n + 1
      BY <1>00
    <2>3. \A i \in 1 .. n + 1 :
            client'[new[i][1]] = "await" /\ new[i][2] = number[new[i][1]] /\ response[new[i][1]] = <<>>
      <3>1. client' = [client EXCEPT ![c] = "await"] /\ client \in [Clients -> {"read", "send", "await", "closed"}]
        BY DEF TypeOK
      <3>2. \A i \in 1 .. n :
              client[new[i][1]] = "await" /\ new[i][2] = number[new[i][1]] /\ response[new[i][1]] = <<>>
        BY <1>00 DEF RequestInv
      <3>3. \A i \in 1 .. n : new[i][1] \in Clients \ {c}
        BY <1>00, <2>1
      <3> QED BY <1>0, <1>00, <2>1, <2>2, <3>1, <3>2, <3>3
    <2>4. \A i, j \in 1 .. n + 1 : new[i][1] = new[j][1] => i = j
      <3>1. \A i, j \in 1 .. n : new[i][1] = new[j][1] => i = j
        BY <1>00 DEF RequestInv
      <3>2. (\A i \in 1 .. n : new[i][1] # c) /\ new[n + 1][1] = c
        BY <1>0, <1>00, <2>1
      <3> QED BY <2>2, <3>1, <3>2
    <2>5. ASSUME tank.at = "respond"
          PROVE  /\ client'[tank.cmd[1]] = "await" /\ tank.cmd[2] = number[tank.cmd[1]]
                 /\ response[tank.cmd[1]] = <<>>
                 /\ \A i \in 1 .. n + 1 : new[i][1] # tank.cmd[1]
      <3>1. (\A i \in 1 .. n : new[i][1] = septic_sewer[i][1]) /\ new[n + 1][1] = c
        BY <1>0, <1>00
      <3>2. tank.cmd[1] # c /\ tank.cmd[1] \in Clients
        BY <2>1, <2>5
      <3>3. \A i \in 1 .. n : septic_sewer[i][1] # tank.cmd[1]
        BY <2>5 DEF RequestInv
      <3>4. \A i \in 1 .. n + 1 : new[i][1] # tank.cmd[1]
        BY <2>2, <3>1, <3>2, <3>3
      <3> QED BY <2>5, <3>2, <3>4 DEF RequestInv, TypeOK
    <2>6. \A d \in Clients : response[d] # <<>> => client'[d] = "await" /\ response[d] = <<number[d]>>
      BY <2>1 DEF RequestInv, TypeOK
    <2> QED BY <1>00, <2>3, <2>4, <2>5, <2>6 DEF RequestInv
  <1>4. ClientInv'
    BY DEF ClientInv, TypeOK
  <1>5. AppliedInv'
    BY DEF AppliedInv, AnsweredIsApplied, IsApplied, IsMutation, TypeOK
  <1>6. PromptInv'
    BY CommandParts DEF PromptInv, LogIsApplied, InDigest, IsMutation, TypeOK, TankInv
  <1> QED BY <1>1, <1>2, <1>3, <1>4, <1>5, <1>6

(* The response arrives: it is the one to the client's last command. *)
LEMMA AnswerIInv ==
  ASSUME IInv, NEW c \in Clients, Answer(c)
  PROVE  IInv'
  <1> USE DEF IInv, Answer, memory
  <1> DEFINE r == replies[c]
             t == Append(r, number[c])
  <1>0. response[c] = <<number[c]>> /\ Head(response[c]) = number[c] /\ Tail(response[c]) = <<>>
    <2>1. response[c] = <<number[c]>>
      BY DEF RequestInv
    <2> QED BY <2>1
  <1>00. /\ Len(r) + 1 = number[c] /\ number[c] \in 1 .. MaxCommands
         /\ r \in Seq(1 .. MaxCommands) /\ Len(r) \in Nat /\ r = [i \in 1 .. Len(r) |-> i]
    <2>1. r \in Seq(1 .. MaxCommands) /\ r = [i \in 1 .. Len(r) |-> i]
      BY DEF ClientInv, TypeOK
    <2>2. Len(r) + 1 = number[c] /\ Len(r) \in Nat
      BY <2>1, LenProperties DEF ClientInv
    <2> QED BY <2>1, <2>2, RedicAssumption DEF TypeOK
  <1>01. t \in Seq(1 .. MaxCommands) /\ Len(t) = number[c] /\ t = [i \in 1 .. Len(t) |-> i]
    <2> HIDE DEF r
    <2> QED BY <1>00, CountUp
  <1> HIDE DEF t
  <1>02. replies' = [replies EXCEPT ![c] = t] /\ response' = [response EXCEPT ![c] = <<>>]
    BY <1>0 DEF t
  <1>1. TypeOK'
    <2>1. <<>> \in Seq(1 .. MaxCommands)
      OBVIOUS
    <2> QED BY <1>01, <1>02, <2>1, SMTT(30) DEF TypeOK
  <1>2. TankInv'
    BY DEF TankInv
  <1>3. RequestInv'
    <2>1. /\ \A i \in 1 .. Len(septic_sewer) : septic_sewer[i][1] # c /\ septic_sewer[i][1] \in Clients
          /\ tank.at = "respond" => tank.cmd[1] # c /\ tank.cmd[1] \in Clients
      BY NoRequest
    <2> QED BY <1>02, <2>1, SMTT(30) DEF RequestInv, TypeOK
  <1>4. ClientInv'
    BY <1>01, <1>02 DEF ClientInv, TypeOK
  <1>5. AppliedInv'
    <2>1. number[c] \in Mutating => IsApplied(<<c, number[c]>>)
      BY DEF AppliedInv
    <2>2. \A i \in 1 .. number[c] : i \in Mutating => IsApplied(<<c, i>>)
      <3>1. \A i \in 1 .. number[c] : i \in 1 .. Len(r) \/ i = number[c]
        BY <1>00
      <3>2. \A i \in 1 .. Len(r) : i \in Mutating => IsApplied(<<c, i>>)
        BY DEF AppliedInv, AnsweredIsApplied, IsApplied
      <3> QED BY <2>1, <3>1, <3>2
    <2>3. AnsweredIsApplied'
      BY <1>01, <1>02, <2>2 DEF AppliedInv, AnsweredIsApplied, IsApplied, TypeOK
    <2> QED BY <1>02, <2>3 DEF AppliedInv, IsApplied, IsMutation, TypeOK
  <1>6. PromptInv'
    BY CommandParts DEF PromptInv, LogIsApplied, InDigest, IsMutation, TypeOK, TankInv
  <1> QED BY <1>1, <1>2, <1>3, <1>4, <1>5, <1>6

(* The client leaves and its arena is freed. *)
LEMMA DisconnectIInv ==
  ASSUME IInv, NEW c \in Clients, Disconnect(c)
  PROVE  IInv'
  <1> USE DEF IInv, Disconnect, memory
  <1>1. TypeOK'
    <2>1. 0 \in 0 .. MaxCommands
      BY RedicAssumption
    <2> QED BY <2>1 DEF TypeOK
  <1>2. TankInv'
    BY DEF TankInv
  <1>3. RequestInv'
    <2>1. /\ \A i \in 1 .. Len(septic_sewer) : septic_sewer[i][1] # c /\ septic_sewer[i][1] \in Clients
          /\ tank.at = "respond" => tank.cmd[1] # c /\ tank.cmd[1] \in Clients
          /\ response[c] = <<>>
      BY NoRequest
    <2> QED BY <2>1 DEF RequestInv, TypeOK
  <1>4. ClientInv'
    BY DEF ClientInv, TypeOK
  <1>5. AppliedInv'
    BY SMTT(30) DEF AppliedInv, AnsweredIsApplied, IsApplied, IsMutation, TypeOK
  <1>6. PromptInv'
    BY CommandParts DEF PromptInv, Digesting, LogIsApplied, InDigest, IsMutation, TypeOK, TankInv
  <1> QED BY <1>1, <1>2, <1>3, <1>4, <1>5, <1>6

-----------------------------------------------------------------------------
(* The tank takes a request and applies its mutation. *)
LEMMA ConsumeIInv ==
  ASSUME IInv, TankConsume
  PROVE  IInv'
  <1> USE DEF IInv, TankConsume, memory, clientVars
  <1> DEFINE cmd == Head(septic_sewer)
             n == Len(septic_sewer)
             rest == Tail(septic_sewer)
  <1>0. /\ n \in Nat \ {0} /\ cmd = septic_sewer[1] /\ cmd \in Commands
        /\ rest \in Seq(Commands) /\ Len(rest) = n - 1
        /\ \A i \in 1 .. n - 1 : rest[i] = septic_sewer[i + 1] /\ i + 1 \in 1 .. n
        /\ 1 \in 1 .. n
    BY TakeFacts DEF TypeOK
  <1>00. septic_sewer' = rest /\ tank' = [at |-> "respond", cmd |-> cmd]
    OBVIOUS
  <1>01. applied' = IF IsMutation(cmd) THEN Append(applied, cmd) ELSE applied
    OBVIOUS
  <1> HIDE DEF cmd, rest
  <1>02. /\ applied' \in Seq(Commands)
         /\ \A x : IsApplied(x) => IsApplied(x)'
         /\ IsMutation(cmd) => \E j \in DOMAIN applied' : applied'[j] = cmd
    <2>1. CASE IsMutation(cmd)
      <3>1. applied' = Append(applied, cmd) /\ applied \in Seq(Commands)
        BY <1>01, <2>1 DEF TypeOK
      <3> DEFINE new == applied'
      <3> HIDE DEF new
      <3>2. new = Append(applied, cmd)
        BY <3>1 DEF new
      <3>3. /\ new \in Seq(Commands)
            /\ \A j \in DOMAIN applied : j \in DOMAIN new /\ new[j] = applied[j]
            /\ \E j \in DOMAIN new : new[j] = cmd
        <4>1. applied \in Seq(Commands) /\ cmd \in Commands
          BY <1>0, <3>1
        <4> HIDE DEF IInv, TankConsume
        <4>2. new \in Seq(Commands)
          BY <4>1, <3>2, AppendKeeps
        <4>3. \A j \in DOMAIN applied : j \in DOMAIN new /\ new[j] = applied[j]
          BY <4>1, <3>2, AppendKeeps
        <4>4. \E j \in DOMAIN new : new[j] = cmd
          BY <4>1, <3>2, AppendKeeps
        <4> QED BY <4>2, <4>3, <4>4
      <3>4. applied' \in Seq(Commands) /\ \A x : IsApplied(x) => IsApplied(x)'
        BY <3>3 DEF IsApplied, new
      <3> QED BY <3>3, <3>4 DEF new
    <2>2. CASE ~IsMutation(cmd)
      BY <1>01, <2>2 DEF TypeOK, IsApplied
    <2> QED BY <2>1, <2>2
  <1>1. TypeOK'
    <2>1. Len(rest) <= SepticCap
      BY <1>0, RedicAssumption DEF TypeOK
    <2>2. tank' \in [at : Places, cmd : Commands \cup {Garbage}]
      BY <1>0, <1>00 DEF Places
    <2> QED BY <1>0, <1>00, <1>02, <2>1, <2>2 DEF TypeOK
  <1>2. TankInv'
    BY <1>0, <1>00 DEF TankInv
  <1>3. RequestInv'
    <2>1. \A i \in 1 .. n - 1 :
            LET c == rest[i][1]
            IN  client[c] = "await" /\ rest[i][2] = number[c] /\ response[c] = <<>>
      BY <1>0 DEF RequestInv
    <2>2. \A i, j \in 1 .. n - 1 : rest[i][1] = rest[j][1] => i = j
      <3> SUFFICES ASSUME NEW i \in 1 .. n - 1, NEW j \in 1 .. n - 1, rest[i][1] = rest[j][1]
                   PROVE  i = j
        OBVIOUS
      <3>1. i + 1 = j + 1
        BY <1>0, SMTT(30) DEF RequestInv
      <3> QED BY <3>1
    <2>3. client[cmd[1]] = "await" /\ cmd[2] = number[cmd[1]] /\ response[cmd[1]] = <<>>
      BY <1>0 DEF RequestInv
    <2>4. \A i \in 1 .. n - 1 : rest[i][1] # cmd[1]
      <3> SUFFICES ASSUME NEW i \in 1 .. n - 1, rest[i][1] = cmd[1]
                   PROVE  FALSE
        OBVIOUS
      <3>1. i + 1 = 1
        BY <1>0 DEF RequestInv
      <3> QED BY <3>1
    <2>5. Len(rest) = n - 1 /\ tank'.at = "respond" /\ tank'.cmd = cmd
      BY <1>0, <1>00
    <2>6. \A c \in Clients : response[c] # <<>> => client[c] = "await" /\ response[c] = <<number[c]>>
      BY DEF RequestInv
    <2> QED BY <1>00, <2>1, <2>2, <2>3, <2>4, <2>5, <2>6 DEF RequestInv
  <1>4. ClientInv'
    BY DEF ClientInv
  <1>5. AppliedInv'
    <2>1. (tank.at = "respond" /\ IsMutation(tank.cmd) => IsApplied(tank.cmd))'
      BY <1>00, <1>02 DEF IsMutation, IsApplied
    <2>2. AnsweredIsApplied'
      BY <1>02 DEF AppliedInv, AnsweredIsApplied, IsApplied
    <2>3. \A c \in Clients : response[c] # <<>> /\ number[c] \in Mutating => IsApplied(<<c, number[c]>>)'
      BY <1>02 DEF AppliedInv, IsApplied
    <2> QED BY <2>1, <2>2, <2>3 DEF AppliedInv
  <1>6. PromptInv'
    <2> SUFFICES ASSUME ~overtaken
                 PROVE  LogIsApplied' /\ spoilt' = {} /\ process' = "sound" /\ tank'.at = "respond"
      BY DEF PromptInv
    <2>1. applied = logged \o potty_sewer \o <<>> /\ spoilt = {} /\ process = "sound"
      BY DEF PromptInv, LogIsApplied, InDigest
    <2>2. logged \o potty_sewer \in Seq(Commands \cup {Garbage})
      BY ConcatProperties DEF TypeOK
    <2>3. applied = logged \o potty_sewer
      BY <2>1, <2>2, ConcatEmptySeq
    <2>4. applied' = (logged \o potty_sewer) \o (IF IsMutation(cmd) THEN <<cmd>> ELSE <<>>)
      <3>1. Append(applied, cmd) = applied \o <<cmd>>
        BY <1>0, AppendIsConcat DEF TypeOK
      <3> QED BY <1>01, <2>2, <2>3, <3>1, ConcatEmptySeq
    <2>5. InDigest' = IF IsMutation(cmd) THEN <<cmd>> ELSE <<>>
      BY <1>00 DEF InDigest, IsMutation
    <2>6. LogIsApplied'
      BY <2>4, <2>5 DEF LogIsApplied
    <2> QED BY <1>00, <2>1, <2>6
  <1> QED BY <1>1, <1>2, <1>3, <1>4, <1>5, <1>6

(* The tank answers; the digest goes on in the client's arena. *)
LEMMA RespondIInv ==
  ASSUME IInv, TankRespond
  PROVE  IInv'
  <1> USE DEF IInv, TankRespond, memory, clientVars
  <1> DEFINE c == tank.cmd[1]
  <1>0. /\ tank.cmd \in Commands /\ c \in Clients /\ tank.cmd[2] \in 1 .. MaxCommands
        /\ tank.cmd = <<c, tank.cmd[2]>>
    BY CommandParts DEF TankInv
  <1>00. /\ client[c] = "await" /\ tank.cmd[2] = number[c] /\ response[c] = <<>>
         /\ \A i \in 1 .. Len(septic_sewer) : septic_sewer[i][1] # c
    BY DEF RequestInv
  <1>01. response' = [response EXCEPT ![c] = <<number[c]>>]
    BY <1>00
  <1>02. tank'.at = "mark" /\ tank'.cmd = tank.cmd /\ tank' \in [at : Places, cmd : Commands \cup {Garbage}]
    BY DEF TypeOK, Places
  <1> HIDE DEF c
  <1>1. TypeOK'
    <2>1. <<number[c]>> \in Seq(1 .. MaxCommands)
      BY <1>0, <1>00
    <2> QED BY <1>0, <1>01, <1>02, <2>1 DEF TypeOK
  <1>2. TankInv'
    BY <1>0, <1>02 DEF TankInv
  <1>3. RequestInv'
    <2>1. \A i \in 1 .. Len(septic_sewer) : response'[septic_sewer[i][1]] = <<>>
      BY <1>00, <1>01 DEF RequestInv, TypeOK
    <2> QED BY <1>0, <1>00, <1>01, <1>02, <2>1, SMTT(30) DEF RequestInv, TypeOK
  <1>4. ClientInv'
    BY DEF ClientInv
  <1>5. AppliedInv'
    <2>1. number[c] \in Mutating => IsApplied(<<c, number[c]>>)
      BY <1>0, <1>00 DEF AppliedInv, IsMutation
    <2>2. \A d \in Clients : response'[d] # <<>> /\ number[d] \in Mutating => IsApplied(<<d, number[d]>>)
      BY <1>0, <1>01, <2>1 DEF AppliedInv, TypeOK
    <2> QED BY <1>02, <2>2 DEF AppliedInv, AnsweredIsApplied, IsApplied
  <1>6. PromptInv'
    <2>1. arena[c] = tank.cmd[2]
      BY <1>0, <1>00 DEF ClientInv
    <2>2. LogIsApplied => LogIsApplied'
      BY <1>02 DEF LogIsApplied, InDigest, IsMutation
    <2> QED BY <1>00, <1>02, <2>1, <2>2 DEF PromptInv, c
  <1> QED BY <1>1, <1>2, <1>3, <1>4, <1>5, <1>6

(* is_consumed is set in the client's arena. *)
LEMMA MarkIInv ==
  ASSUME IInv, TankMark
  PROVE  IInv'
  <1> USE DEF IInv, TankMark, memory, clientVars
  <1>0. tank.cmd \in Commands /\ tank.cmd[1] \in Clients
    BY CommandParts DEF TankInv
  <1>00. tank'.at = "log" /\ tank'.cmd = tank.cmd /\ tank' \in [at : Places, cmd : Commands \cup {Garbage}]
    BY DEF TypeOK, Places
  <1>01. \/ spoilt' = spoilt
         \/ /\ client[tank.cmd[1]] = "send"
            /\ spoilt' = spoilt \cup {<<tank.cmd[1], arena[tank.cmd[1]]>>}
    BY DEF Mark
  <1>02. process' = IF arena[tank.cmd[1]] = tank.cmd[2] THEN process ELSE "harmed"
    BY DEF Mark, Touch
  <1>1. TypeOK'
    <2>1. client[tank.cmd[1]] = "send" => <<tank.cmd[1], arena[tank.cmd[1]]>> \in Commands
      <3>1. client[tank.cmd[1]] = "send" => arena[tank.cmd[1]] \in 1 .. MaxCommands
        <4>1. replies[tank.cmd[1]] \in Seq(1 .. MaxCommands) /\ arena[tank.cmd[1]] \in 0 .. MaxCommands
          BY <1>0 DEF TypeOK
        <4>2. Len(replies[tank.cmd[1]]) \in Nat
          BY <4>1, LenProperties
        <4>3. client[tank.cmd[1]] = "send" => Len(replies[tank.cmd[1]]) + 1 = arena[tank.cmd[1]]
          BY <1>0 DEF ClientInv
        <4> QED BY <4>1, <4>2, <4>3, RedicAssumption
      <3> QED BY <1>0, <3>1, CommandParts
    <2>2. spoilt' \subseteq Commands
      BY <1>01, <2>1 DEF TypeOK
    <2> QED BY <1>00, <1>02, <2>2 DEF TypeOK
  <1>2. TankInv'
    BY <1>0, <1>00 DEF TankInv
  <1>3. RequestInv'
    BY <1>00 DEF RequestInv
  <1>4. ClientInv'
    BY DEF ClientInv
  <1>5. AppliedInv'
    BY <1>00 DEF AppliedInv, AnsweredIsApplied, IsApplied
  <1>6. PromptInv'
    <2>1. LogIsApplied => LogIsApplied'
      BY <1>00 DEF LogIsApplied, InDigest, IsMutation
    <2> QED BY <1>00, <1>01, <1>02, <2>1 DEF PromptInv
  <1> QED BY <1>1, <1>2, <1>3, <1>4, <1>5, <1>6

(* The tank looks at the result again and clones the mutation to log. *)
LEMMA CloneIInv ==
  ASSUME IInv, TankClone
  PROVE  IInv'
  <1> USE DEF IInv, TankClone, memory, clientVars
  <1>0. /\ tank' \in [at : Places, cmd : Commands \cup {Garbage}]
        /\ tank'.at \in {"consume", "feed"}
    <2>1. \A m \in Commands \cup {Garbage} :
            [at |-> "feed", cmd |-> m] \in [at : Places, cmd : Commands \cup {Garbage}]
      BY DEF Places
    <2>2. [tank EXCEPT !.at = "feed"] = [at |-> "feed", cmd |-> tank.cmd] /\ tank.cmd \in Commands \cup {Garbage}
      <3>1. tank \in [at : Places, cmd : Commands \cup {Garbage}]
        BY DEF TypeOK
      <3> HIDE DEF IInv, TankClone
      <3> QED BY <3>1
    <2>3. Idle \in [at : Places, cmd : Commands \cup {Garbage}] /\ Idle.at = "consume"
      BY DEF Idle, Places
    <2> QED BY <2>1, <2>2, <2>3
  <1>00. process' = IF arena[tank.cmd[1]] = tank.cmd[2] THEN process ELSE "harmed"
    BY DEF Touch
  <1>1. TypeOK'
    BY <1>0, <1>00 DEF TypeOK
  <1>2. TankInv'
    BY <1>0 DEF TankInv
  <1>3. RequestInv'
    BY <1>0 DEF RequestInv
  <1>4. ClientInv'
    BY DEF ClientInv
  <1>5. AppliedInv'
    BY <1>0 DEF AppliedInv, AnsweredIsApplied, IsApplied
  <1>6. PromptInv'
    <2> SUFFICES ASSUME ~overtaken
                 PROVE  LogIsApplied' /\ spoilt' = {} /\ process' = "sound"
      BY <1>0 DEF PromptInv
    <2>1. arena[tank.cmd[1]] = tank.cmd[2]
      BY DEF PromptInv
    <2>2. tank' = IF IsMutation(tank.cmd) THEN [tank EXCEPT !.at = "feed"] ELSE Idle
      BY <2>1
    <2>3. InDigest' = InDigest
      BY <2>2 DEF InDigest, Idle, TypeOK
    <2> QED BY <1>00, <2>1, <2>3 DEF PromptInv, LogIsApplied
  <1> QED BY <1>1, <1>2, <1>3, <1>4, <1>5, <1>6

(* potty_feed puts the mutation into the potty's sewer. *)
LEMMA TankFeedIInv ==
  ASSUME IInv, TankFeed
  PROVE  IInv'
  <1> USE DEF IInv, TankFeed, memory, clientVars
  <1>0. tank.cmd \in Commands \cup {Garbage} /\ potty_sewer \in Seq(Commands \cup {Garbage})
    BY DEF TypeOK
  <1>00. tank' = Idle /\ Idle.at = "consume" /\ Idle \in [at : Places, cmd : Commands \cup {Garbage}]
    BY DEF Idle, Places
  <1>1. TypeOK'
    <2>1. potty_sewer' \in Seq(Commands \cup {Garbage}) /\ Len(potty_sewer') = Len(potty_sewer) + 1
      BY <1>0, AppendProperties
    <2>2. Len(potty_sewer') <= PottyCap
      BY <1>0, <2>1, RedicAssumption, LenProperties
    <2> QED BY <1>00, <2>1, <2>2 DEF TypeOK
  <1>2. TankInv'
    BY <1>00 DEF TankInv
  <1>3. RequestInv'
    BY <1>00 DEF RequestInv
  <1>4. ClientInv'
    BY DEF ClientInv
  <1>5. AppliedInv'
    BY <1>00 DEF AppliedInv, AnsweredIsApplied, IsApplied
  <1>6. PromptInv'
    <2> SUFFICES ASSUME ~overtaken
                 PROVE  LogIsApplied' /\ spoilt' = {} /\ process' = "sound"
      BY <1>00 DEF PromptInv
    <2>1. applied = (logged \o potty_sewer) \o <<tank.cmd>>
      BY DEF PromptInv, LogIsApplied, InDigest
    <2>2. logged \in Seq(Commands \cup {Garbage}) /\ <<tank.cmd>> \in Seq(Commands \cup {Garbage})
      BY <1>0 DEF TypeOK
    <2>3. potty_sewer' = potty_sewer \o <<tank.cmd>> /\ potty_sewer' \in Seq(Commands \cup {Garbage})
      BY <1>0, AppendIsConcat, AppendProperties
    <2>4. applied = logged \o potty_sewer'
      BY <1>0, <2>1, <2>2, <2>3, ConcatAssociative, SMTT(30)
    <2>5. logged \o potty_sewer' \in Seq(Commands \cup {Garbage})
      BY <2>2, <2>3, ConcatProperties
    <2>6. (logged \o potty_sewer') \o <<>> = logged \o potty_sewer'
      BY <2>5, ConcatEmptySeq
    <2>7. InDigest' = <<>>
      BY <1>00 DEF InDigest
    <2>8. LogIsApplied'
      BY <2>4, <2>6, <2>7 DEF LogIsApplied
    <2> QED BY <2>8 DEF PromptInv
  <1> QED BY <1>1, <1>2, <1>3, <1>4, <1>5, <1>6

(* The potty takes a mutation from its sewer. *)
LEMMA PottyConsumeIInv ==
  ASSUME IInv, PottyConsume
  PROVE  IInv'
  <1> USE DEF IInv, PottyConsume, memory, clientVars
  <1> DEFINE M == Commands \cup {Garbage}
             first == Head(potty_sewer)
             rest == Tail(potty_sewer)
  <1>0. /\ potty_sewer \in Seq(M) /\ logged \in Seq(M) /\ first \in M
        /\ rest \in Seq(M) /\ Len(rest) = Len(potty_sewer) - 1 /\ Len(potty_sewer) \in Nat
        /\ <<first>> \in Seq(M)
    BY TakeFacts DEF TypeOK
  <1>00. logged' = Append(logged, first) /\ potty_sewer' = rest
    OBVIOUS
  <1>01. potty_sewer = <<first>> \o rest
    <2>1. potty_sewer \in Seq(M) /\ potty_sewer # <<>>
      BY <1>0
    <2> HIDE DEF M
    <2> QED BY <2>1
  <1> HIDE DEF first, rest, M
  <1>1. TypeOK'
    <2>1. Len(rest) <= PottyCap
      BY <1>0, RedicAssumption DEF TypeOK
    <2>2. logged' \in Seq(M)
      BY <1>0, <1>00, AppendProperties
    <2> QED BY <1>0, <1>00, <2>1, <2>2 DEF TypeOK, M
  <1>2. TankInv'
    BY DEF TankInv
  <1>3. RequestInv'
    BY DEF RequestInv
  <1>4. ClientInv'
    BY DEF ClientInv
  <1>5. AppliedInv'
    BY DEF AppliedInv, AnsweredIsApplied, IsApplied
  <1>6. PromptInv'
    <2>1. logged' \o potty_sewer' = logged \o potty_sewer
      <3>1. logged' = logged \o <<first>>
        BY <1>0, <1>00, AppendIsConcat
      <3>2. (logged \o <<first>>) \o rest = logged \o (<<first>> \o rest)
        BY <1>0, ConcatAssociative
      <3> QED BY <1>00, <1>01, <3>1, <3>2
    <2>2. LogIsApplied => LogIsApplied'
      BY <2>1 DEF LogIsApplied, InDigest, IsMutation
    <2> QED BY <2>2 DEF PromptInv
  <1> QED BY <1>1, <1>2, <1>3, <1>4, <1>5, <1>6

(* A harmed process dies: some client had overtaken the digest. *)
LEMMA DieIInv ==
  ASSUME IInv, Die
  PROVE  IInv'
  BY DEF Die, clientVars, IInv, TypeOK, TankInv, RequestInv, ClientInv, AppliedInv, IsApplied,
         AnsweredIsApplied, IsMutation, PromptInv, LogIsApplied, InDigest

(* Every step preserves the invariant. *)
LEMMA NextIInv == IInv /\ [Next]_vars => IInv'
  <1> SUFFICES ASSUME IInv, [Next]_vars PROVE IInv'
    OBVIOUS
  <1>1. CASE UNCHANGED vars
    <2> USE <1>1 DEF vars, clientVars, memory, IInv
    <2>1. TypeOK' /\ TankInv'
      BY DEF TypeOK, TankInv
    <2>2. RequestInv' /\ ClientInv'
      BY DEF RequestInv, ClientInv
    <2>3. AppliedInv'
      BY DEF AppliedInv, IsApplied, AnsweredIsApplied, IsMutation
    <2>4. PromptInv'
      BY DEF PromptInv, LogIsApplied, InDigest, IsMutation
    <2> QED BY <2>1, <2>2, <2>3, <2>4
  <1>2. CASE Next
    BY <1>1, <1>2, ReadIInv, FeedIInv, AnswerIInv, DisconnectIInv, ConsumeIInv, RespondIInv, MarkIInv,
       CloneIInv, TankFeedIInv, PottyConsumeIInv, DieIInv DEF Next, septic_tank_pump, Done
  <1> QED BY <1>1, <1>2

-----------------------------------------------------------------------------
(* The invariant holds in every state of every execution. *)
THEOREM RedicInvariant == Spec => []IInv
  BY InitIInv, NextIInv, PTL DEF Spec

(* Threads, arenas and queues stay in their types, and neither shared      *)
(* sewer ever holds more than its capacity.                                *)
THEOREM RedicTypeOK == Spec => []TypeOK
  <1>1. IInv => TypeOK
    BY DEF IInv
  <1> QED BY <1>1, RedicInvariant, PTL

(* Every client gets the answers to its own commands, each once, in the    *)
(* order it sent them, however many clients share the tank.                *)
THEOREM RedicRepliesInOrder == Spec => []RepliesInOrder
  <1>1. IInv => RepliesInOrder
    <2> SUFFICES ASSUME IInv, NEW c \in Clients
                 PROVE  replies[c] = [i \in 1 .. Len(replies[c]) |-> i] /\ Len(replies[c]) <= number[c]
      BY DEF RepliesInOrder
    <2>1. Len(replies[c]) \in Nat
      BY LenProperties DEF IInv, TypeOK
    <2> QED BY <2>1 DEF IInv, ClientInv
  <1> QED BY <1>1, RedicInvariant, PTL

(* A client that was answered finds its mutation in the store. *)
THEOREM RedicAnsweredIsApplied == Spec => []AnsweredIsApplied
  <1>1. IInv => AnsweredIsApplied
    BY DEF IInv, AppliedInv
  <1> QED BY <1>1, RedicInvariant, PTL

(* The tank never blocks on a response sewer. *)
THEOREM RedicResponseNeverBlocks == Spec => []ResponseNeverBlocks
  <1>1. IInv => ResponseNeverBlocks
    BY DEF IInv, RequestInv, ResponseNeverBlocks
  <1> QED BY <1>1, RedicInvariant, PTL

(* Until a client thread overtakes the digest of its last command, the log *)
(* is exactly what was applied, in order.                                  *)
THEOREM RedicPromptLogIsApplied == Spec => []PromptLogIsApplied
  <1>1. IInv => PromptLogIsApplied
    BY DEF IInv, PromptInv, PromptLogIsApplied
  <1> QED BY <1>1, RedicInvariant, PTL

(* And until then the tank writes into no command that a client has parsed *)
(* and not yet sent.                                                       *)
THEOREM RedicPromptCommandsIntact == Spec => []PromptCommandsIntact
  <1>1. IInv => PromptCommandsIntact
    BY DEF IInv, PromptInv, PromptCommandsIntact
  <1> QED BY <1>1, RedicInvariant, PTL

(* And until then the tank touches no memory that was reused or freed, and *)
(* the process does not die of it.                                         *)
THEOREM RedicPromptMemorySafe == Spec => []PromptMemorySafe
  <1>1. IInv => PromptMemorySafe
    BY DEF IInv, PromptInv, PromptMemorySafe
  <1> QED BY <1>1, RedicInvariant, PTL
=============================================================================
