------------------------- MODULE SecureChannel_proofs -------------------------
(***************************************************************************)
(* Type correctness of SecureChannel, and that both sides understand what  *)
(* the other sends, whatever the modulus, the windows and the limits are.  *)
(*                                                                         *)
(* The invariant says that the numbers on their way to a side are in       *)
(* order, above the last one it decrypted and below the next one the       *)
(* sender draws, that recv_sequence_ is that last one, cut to the modulus, *)
(* and that encryption is turned on in step: what is encrypted comes after *)
(* the answer to the connect request, unless that was lost.                *)
(***************************************************************************)
EXTENDS SecureChannel, SequenceTheorems, TLAPS

-------------------------------------------------------------------------------
(* Numbers modulo Modulus.                                                 *)

LEMMA Multiples == ASSUME NEW m \in Nat, NEW d \in Int, d >= 2 PROVE m * d >= m * 2
  BY Z3

LEMMA Division ==
  ASSUME NEW m \in Nat \ {0}, NEW n \in Nat
  PROVE  /\ n \div m \in Nat /\ n % m \in Nat /\ n % m < m
         /\ n = m * (n \div m) + (n % m)
  BY SMT

\* A number that follows another by at most Jump is accepted, also if the
\* modulus lies between them.
LEMMA NextIsValid ==
  ASSUME NEW o \in Nat, NEW n \in Nat, o < n, n - o <= Jump
  PROVE  ValidateSequence(o % Modulus, n % Modulus)
<1> DEFINE p == o \div Modulus
           q == n \div Modulus
<1>1. Modulus \in Nat \ {0} /\ Jump < Modulus
  BY NumberAssumption
<1>2. /\ p \in Nat /\ o % Modulus \in Nat /\ o % Modulus < Modulus
      /\ o = Modulus * p + (o % Modulus)
  BY <1>1, Division
<1>3. /\ q \in Nat /\ n % Modulus \in Nat /\ n % Modulus < Modulus
      /\ n = Modulus * q + (n % Modulus)
  BY <1>1, Division
<1>4. Modulus * q - Modulus * p = Modulus * (q - p)
  BY <1>1, <1>2, <1>3, Z3
<1>5. q - p < 2
  <2> SUFFICES ASSUME q - p >= 2 PROVE FALSE
    BY <1>2, <1>3
  <2>1. Modulus * (q - p) >= Modulus * 2
    BY <1>1, <1>2, <1>3, Multiples
  <2> QED
    BY <2>1, <1>1, <1>2, <1>3, <1>4, NumberAssumption
<1>6. q - p > -1
  <2> SUFFICES ASSUME q - p <= -1 PROVE FALSE
    BY <1>2, <1>3
  <2>1. Modulus * (p - q) >= Modulus
    BY <1>1, <1>2, <1>3, Z3
  <2>2. Modulus * p - Modulus * q = Modulus * (p - q)
    BY <1>1, <1>2, <1>3, Z3
  <2> QED
    BY <2>1, <2>2, <1>1, <1>2, <1>3
<1>7. CASE q = p
  BY <1>7, <1>1, <1>2, <1>3, NumberAssumption DEF ValidateSequence
<1>8. CASE q = p + 1
  <2>1. Modulus * q = Modulus * p + Modulus
    BY <1>8, <1>1, <1>2, <1>3, <1>4
  <2> QED
    BY <2>1, <1>1, <1>2, <1>3, NumberAssumption DEF ValidateSequence
<1> QED
  BY <1>2, <1>3, <1>5, <1>6, <1>7, <1>8

\* Before anything was decrypted, a number is accepted if it is at most Jump - 1.
LEMMA FirstIsValid ==
  ASSUME NEW n \in Nat, n + 1 <= Jump
  PROVE  ValidateSequence(0, n % Modulus)
<1>1. n % Modulus = n
  BY NumberAssumption
<1> QED
  BY <1>1, NumberAssumption DEF ValidateSequence

-------------------------------------------------------------------------------
(* Types.                                                                  *)

LEMMA SealedIsPacket ==
  ASSUME TypeOK, NEW s \in Sides, NEW kind \in Kinds
  PROVE  Sealed(s, kind) \in Packets
BY DEF TypeOK, Sealed, Packets

LEMMA DecryptKeepsTypes ==
  ASSUME TypeOK, NEW s \in Sides, NEW p \in Packets, Decrypt(s, p)
  PROVE  /\ overrun' \in [Sides -> BOOLEAN]
         /\ opened' \in [Sides -> Nat \cup {Nothing}]
         /\ recv_sequence' \in [Sides -> Nat] /\ \A r \in Sides : recv_sequence'[r] < Modulus
<1>1. Modulus \in Nat \ {0}
  BY NumberAssumption
<1>2. overrun' \in [Sides -> BOOLEAN]
  BY DEF TypeOK, Decrypt
<1>3. CASE Decrypts(s, p)
  <2>1. p.seal \in Nat
    BY <1>3 DEF Decrypts, Packets
  <2>2. p.seal % Modulus \in Nat /\ p.seal % Modulus < Modulus
    BY <2>1, <1>1, Division
  <2> HIDE DEF Packets
  <2>3. /\ recv_sequence' = [recv_sequence EXCEPT ![s] = p.seal % Modulus]
        /\ opened' = [opened EXCEPT ![s] = p.seal]
    BY <1>3 DEF Decrypt
  <2> QED
    BY <1>2, <2>1, <2>2, <2>3 DEF TypeOK
<1>4. CASE ~Decrypts(s, p)
  BY <1>2, <1>4 DEF Decrypt, TypeOK
<1> QED
  BY <1>3, <1>4

LEMMA HeadAndTail ==
  ASSUME NEW q \in Seq(Packets), q # <<>>
  PROVE  /\ Head(q) \in Packets /\ Head(q) = q[1] /\ Len(q) \in Nat \ {0}
         /\ Tail(q) \in Seq(Packets) /\ Len(Tail(q)) = Len(q) - 1
         /\ \A i \in 1..Len(Tail(q)) : Tail(q)[i] = q[i + 1]
BY HeadTailProperties, LenProperties

LEMMA TypeInductive == TypeOK /\ [Next]_vars => TypeOK'
<1> SUFFICES ASSUME TypeOK, [Next]_vars PROVE TypeOK'
  OBVIOUS
<1> USE DEF Kinds, Sides
<1>1. CASE ClientSends
  <2>1. PICK kind \in {"move", "attack"} :
          Draw("client", kind) /\ up' = Append(up, Sealed("client", kind))
    BY <1>1 DEF ClientSends
  <2>2. up' \in Seq(Packets)
    BY <2>1, SealedIsPacket, AppendProperties DEF TypeOK
  <2>3. drawn' \in [Sides -> Nat]
    BY <2>1 DEF Draw, TypeOK
  <2> QED
    BY <1>1, <2>2, <2>3 DEF ClientSends, TypeOK, rate, history
<1>2. CASE ClientReads
  <2>1. /\ Head(down) \in Packets /\ down' \in Seq(Packets) /\ Len(down') <= QueueMax + 1
    BY <1>2, HeadAndTail, LimitAssumption DEF ClientReads, TypeOK
  <2>2. /\ overrun' \in [Sides -> BOOLEAN]
        /\ opened' \in [Sides -> Nat \cup {Nothing}]
        /\ recv_sequence' \in [Sides -> Nat] /\ \A r \in Sides : recv_sequence'[r] < Modulus
    <3>1. CASE crypto_enabled["client"]
      BY <1>2, <2>1, <3>1, DecryptKeepsTypes DEF ClientReads
    <3>2. CASE ~crypto_enabled["client"]
      BY <1>2, <3>2 DEF ClientReads, NoDecrypt, TypeOK
    <3> QED
      BY <3>1, <3>2
  <2>3. misread' \in [Sides -> BOOLEAN] /\ crypto_enabled' \in [Sides -> BOOLEAN]
    BY <1>2 DEF ClientReads, TypeOK
  <2> QED
    BY <1>2, <2>1, <2>2, <2>3 DEF ClientReads, TypeOK, rate
<1>3. CASE GatewayReads
  <2>1. /\ Head(up) \in Packets /\ up' \in Seq(Packets)
    BY <1>3, HeadAndTail DEF GatewayReads, TakesOff, TypeOK
  <2>2. /\ overrun' \in [Sides -> BOOLEAN]
        /\ opened' \in [Sides -> Nat \cup {Nothing}]
        /\ recv_sequence' \in [Sides -> Nat] /\ \A r \in Sides : recv_sequence'[r] < Modulus
    <3>1. CASE Decrypt("gateway", Head(up))
      BY <2>1, <3>1, DecryptKeepsTypes
    <3>2. CASE NoDecrypt
      BY <3>2 DEF NoDecrypt, TypeOK
    <3> QED
      BY <1>3, <3>1, <3>2 DEF GatewayReads
  <2>3. /\ misread' \in [Sides -> BOOLEAN]
        /\ ended' \in {"no", "flooded", "undecryptable"}
        /\ handshake' \in {"none", "listed", "answered", "enabled"}
    BY <1>3 DEF GatewayReads, Dispatch, TypeOK
  <2>4. packet_count' \in Nat /\ rate_violation_count' \in Nat
    BY <1>3 DEF GatewayReads, TypeOK
  <2> QED
    BY <1>3, <2>1, <2>2, <2>3, <2>4 DEF GatewayReads, TypeOK
<1>4. CASE RateLimited
  <2>1. up' \in Seq(Packets)
    BY <1>4, HeadAndTail DEF RateLimited, TakesOff, TypeOK
  <2> QED
    BY <1>4, <2>1 DEF RateLimited, TypeOK, keys, history
<1>5. CASE WindowPasses
  BY <1>5 DEF WindowPasses, TypeOK, keys, history
<1> DEFINE Put(p) == down' = Queued(p)
<1>6. ASSUME NEW p \in Packets, Put(p) PROVE down' \in Seq(Packets) /\ Len(down') <= QueueMax + 1
  BY <1>6, AppendProperties, LimitAssumption DEF Queued, Full, TypeOK
<1>7. CASE AnswerConnect
  <2>1. down' \in Seq(Packets) /\ Len(down') <= QueueMax + 1
    BY <1>7, <1>6, SealedIsPacket DEF AnswerConnect
  <2>2. drawn' \in [Sides -> Nat] /\ overrun' \in [Sides -> BOOLEAN]
    BY <1>7 DEF AnswerConnect, Draw, TypeOK
  <2> QED
    BY <1>7, <2>1, <2>2 DEF AnswerConnect, TypeOK, rate
<1>8. CASE EnableEncryption
  BY <1>8 DEF EnableEncryption, TypeOK, rate, history
<1>9. CASE RelaySends
  <2>1. relayed' = <<Sealed("gateway", "game")>> /\ Sealed("gateway", "game") \in Packets
    BY <1>9, SealedIsPacket DEF RelaySends
  <2>2. relayed' \in Seq(Packets) /\ Len(relayed') <= 1
    BY <2>1
  <2>3. drawn' \in [Sides -> Nat]
    BY <1>9 DEF RelaySends, Draw, TypeOK
  <2> QED
    BY <1>9, <2>2, <2>3 DEF RelaySends, TypeOK, rate, history
<1>10. CASE RelayQueued
  <2>1. down' \in Seq(Packets) /\ Len(down') <= QueueMax + 1
    BY <1>10, <1>6, HeadAndTail DEF RelayQueued, TypeOK
  <2>2. relayed' \in Seq(Packets) /\ Len(relayed') <= 1
    BY <1>10 DEF RelayQueued
  <2> QED
    BY <1>10, <2>1, <2>2 DEF RelayQueued, TypeOK, keys, rate, history
<1>11. CASE UNCHANGED vars
  BY <1>11 DEF vars, TypeOK, keys, rate, history
<1> QED
  BY <1>1, <1>2, <1>3, <1>4, <1>5, <1>7, <1>8, <1>9, <1>10, <1>11 DEF Next

LEMMA InitType == Init => TypeOK
<1> SUFFICES ASSUME Init PROVE TypeOK
  OBVIOUS
<1>1. up \in Seq(Packets)
  <2>1. [kind |-> "connect", seal |-> Plain] \in Packets
    BY DEF Packets, Kinds
  <2> QED
    BY <2>1 DEF Init
<1>2. down \in Seq(Packets) /\ relayed \in Seq(Packets) /\ Len(down) = 0 /\ Len(relayed) = 0
  BY DEF Init
<1> QED
  BY <1>1, <1>2, NumberAssumption, LimitAssumption DEF Init, TypeOK, Plain, Nothing

\* Types, the length of the send queue and the range of the numbers received.
THEOREM TypeCorrect == Spec => []TypeOK
BY InitType, TypeInductive, PTL DEF Spec

-------------------------------------------------------------------------------
(* Packets in the order of their numbers.                                  *)

\* The numbers on a link increase, from above low to below high.
Ordered(q, low, high) ==
  /\ \A i \in 1..Len(q) : q[i].seal # Plain => low < q[i].seal /\ q[i].seal < high
  /\ \A i, j \in 1..Len(q) :
       i < j /\ q[i].seal # Plain /\ q[j].seal # Plain => q[i].seal < q[j].seal

LEMMA OrderedTail ==
  ASSUME NEW q \in Seq(Packets), q # <<>>, NEW low \in Int, NEW high \in Nat,
         Ordered(q, low, high)
  PROVE  /\ Ordered(Tail(q), low, high)
         /\ Head(q).seal # Plain =>
              /\ low < Head(q).seal /\ Head(q).seal < high /\ Head(q).seal \in Nat
              /\ Ordered(Tail(q), Head(q).seal, high)
<1> DEFINE t == Tail(q)
<1>1. /\ Head(q) \in Packets /\ Head(q) = q[1] /\ Len(q) \in Nat \ {0}
      /\ t \in Seq(Packets) /\ Len(t) = Len(q) - 1
      /\ \A i \in 1..Len(t) : t[i] = q[i + 1]
  BY HeadAndTail
<1>2. \A i \in 1..Len(t) : i + 1 \in 1..Len(q) /\ 1 < i + 1
  BY <1>1
<1>3. 1 \in 1..Len(q)
  BY <1>1
<1>4. ASSUME NEW i \in 1..Len(t), NEW j \in 1..Len(t), i < j
      PROVE  i + 1 < j + 1
  BY <1>4
<1> HIDE DEF t
<1>5. Ordered(t, low, high)
  BY <1>1, <1>2, <1>4 DEF Ordered
<1>6. ASSUME Head(q).seal # Plain
      PROVE  /\ low < Head(q).seal /\ Head(q).seal < high /\ Head(q).seal \in Nat
             /\ Ordered(t, Head(q).seal, high)
  <2>1. Head(q).seal \in Nat /\ low < Head(q).seal /\ Head(q).seal < high
    BY <1>6, <1>1, <1>3 DEF Ordered, Packets
  <2>2. \A i \in 1..Len(t) : t[i].seal # Plain => Head(q).seal < t[i].seal
    BY <1>6, <1>1, <1>2, <1>3 DEF Ordered
  <2> QED
    BY <2>1, <2>2, <1>5 DEF Ordered
<1> QED
  BY <1>5, <1>6 DEF t

LEMMA OrderedAppend ==
  ASSUME NEW q \in Seq(Packets), NEW p \in Packets, NEW low \in Int,
         NEW high \in Nat, NEW higher \in Nat, high <= higher, low < high,
         Ordered(q, low, high),
         p.seal # Plain => high <= p.seal /\ p.seal < higher
  PROVE  Ordered(Append(q, p), low, higher)
<1> DEFINE a == Append(q, p)
<1>1. /\ Len(a) = Len(q) + 1 /\ Len(q) \in Nat /\ a[Len(q) + 1] = p
      /\ \A i \in 1..Len(q) : a[i] = q[i] /\ q[i] \in Packets
  BY AppendProperties, LenProperties, ElementOfSeq
<1>2. \A i \in 1..Len(a) : i \in 1..Len(q) \/ i = Len(q) + 1
  BY <1>1
<1> HIDE DEF a
<1>3. \A i \in 1..Len(q) : q[i].seal # Plain => q[i].seal \in Nat
  BY <1>1 DEF Packets
<1>4. p.seal # Plain => p.seal \in Nat
  BY DEF Packets
<1>5. ASSUME NEW i \in 1..Len(a), a[i].seal # Plain
      PROVE  low < a[i].seal /\ a[i].seal < higher
  BY <1>1, <1>2, <1>3, <1>4, <1>5 DEF Ordered
<1>6. ASSUME NEW i \in 1..Len(a), NEW j \in 1..Len(a), i < j,
             a[i].seal # Plain, a[j].seal # Plain
      PROVE  a[i].seal < a[j].seal
  <2>1. i \in 1..Len(q)
    BY <1>1, <1>2, <1>6
  <2> QED
    BY <2>1, <1>1, <1>2, <1>3, <1>4, <1>6 DEF Ordered
<1>7. Ordered(a, low, higher)
  BY <1>5, <1>6 DEF Ordered
<1> QED
  BY <1>7 DEF a

LEMMA OrderedWider ==
  ASSUME NEW q \in Seq(Packets), NEW low \in Int, NEW high \in Nat, NEW higher \in Nat,
         high <= higher, Ordered(q, low, high)
  PROVE  Ordered(q, low, higher)
<1>1. \A i \in 1..Len(q) : q[i] \in Packets
  BY ElementOfSeq
<1>2. \A i \in 1..Len(q) : q[i].seal # Plain => q[i].seal \in Nat
  BY <1>1 DEF Packets
<1> QED
  BY <1>2 DEF Ordered

-------------------------------------------------------------------------------
(* The invariant.                                                          *)

\* recv_sequence_ is the last number decrypted.
NumbersAgree ==
  \A s \in Sides :
    recv_sequence[s] = IF opened[s] = Nothing THEN 0 ELSE opened[s] % Modulus

\* The number that follows the last one queued to the client.
NextQueued ==
  IF relayed # <<>> /\ relayed[1].seal # Plain THEN relayed[1].seal ELSE drawn["gateway"]

UpOrdered ==
  /\ Ordered(up, opened["gateway"], drawn["client"])
  /\ opened["gateway"] < drawn["client"]

DownOrdered ==
  /\ Ordered(down, opened["client"], NextQueued)
  /\ opened["client"] < NextQueued
  /\ relayed # <<>> /\ relayed[1].seal # Plain => relayed[1].seal < drawn["gateway"]

\* What the client sends.
UpKinds ==
  \A i \in 1..Len(up) :
    /\ up[i].kind = "connect" => handshake = "none" /\ up[i].seal = Plain
    /\ up[i].kind = "attack" => up[i].seal = Plain
    /\ up[i].seal = Plain => up[i].kind \in {"connect", "attack"}

\* Encryption is turned on in step.
InStep ==
  /\ crypto_enabled["gateway"] <=> handshake = "enabled"
  /\ \A s \in Sides : ~crypto_enabled[s] => drawn[s] = 0
  /\ crypto_enabled["client"] => handshake \in {"answered", "enabled"}
  /\ handshake = "none" => Len(up) <= 1 /\ down = <<>> /\ relayed = <<>>
  /\ \A i \in 1..Len(down) : down[i].kind = "answer" => handshake \in {"answered", "enabled"}
  /\ relayed # <<>> => relayed[1].kind = "game"

\* The answer is under way to a client that has not turned it on.
AnswerComes ==
  \E k \in 1..Len(down) : down[k].kind = "answer" /\ \A i \in 1..k : down[i].seal = Plain

AnswerInTime ==
  \/ overrun["client"] \/ crypto_enabled["client"] \/ handshake \in {"none", "listed"}
  \/ AnswerComes

IInv ==
  /\ TypeOK /\ NumbersAgree /\ UpOrdered /\ DownOrdered /\ UpKinds /\ InStep /\ AnswerInTime
  /\ GatewayUnderstands /\ ClientUnderstands

\* A ciphertext is decrypted, unless too many numbers were lost before it, and
\* the numbers agree again after it.
LEMMA DecryptWorks ==
  ASSUME TypeOK, NumbersAgree, NEW s \in Sides, NEW p \in Packets,
         p.seal # Plain, opened[s] < p.seal, Decrypt(s, p), ~overrun'[s]
  PROVE  Decrypts(s, p)
<1>1. p.seal \in Nat /\ opened[s] \in Nat \cup {Nothing}
  BY DEF Packets, TypeOK
<1>2. p.seal - opened[s] <= Jump
  <2>1. overrun'[s] = (overrun[s] \/ (p.seal # Plain /\ p.seal - opened[s] > Jump))
    BY DEF Decrypt, TypeOK
  <2>2. ~(p.seal - opened[s] > Jump)
    BY <2>1, Zenon
  <2> QED
    BY <2>2, <1>1, NumberAssumption DEF Nothing
<1>3. CASE opened[s] = Nothing
  <2>1. recv_sequence[s] = 0 /\ p.seal + 1 <= Jump
    BY <1>1, <1>2, <1>3 DEF NumbersAgree, Nothing
  <2> QED
    BY <2>1, <1>1, FirstIsValid DEF Decrypts
<1>4. CASE opened[s] # Nothing
  <2>1. recv_sequence[s] = opened[s] % Modulus
    BY <1>4 DEF NumbersAgree
  <2> QED
    BY <2>1, <1>1, <1>2, <1>4, NextIsValid DEF Decrypts
<1> QED
  BY <1>3, <1>4

LEMMA DecryptKeepsNumbers ==
  ASSUME TypeOK, NumbersAgree, NEW s \in Sides, NEW p \in Packets,
         Decrypt(s, p) \/ NoDecrypt
  PROVE  NumbersAgree'
<1>1. CASE Decrypt(s, p) /\ Decrypts(s, p)
  <2>1. p.seal \in Nat /\ p.seal # Nothing
    BY <1>1 DEF Decrypts, Packets, Plain, Nothing
  <2>2. /\ recv_sequence' = [recv_sequence EXCEPT ![s] = p.seal % Modulus]
        /\ opened' = [opened EXCEPT ![s] = p.seal]
    BY <1>1 DEF Decrypt
  <2> QED
    BY <2>1, <2>2 DEF NumbersAgree, TypeOK
<1>2. CASE UNCHANGED <<recv_sequence, opened>>
  BY <1>2 DEF NumbersAgree
<1> QED
  BY <1>1, <1>2 DEF Decrypt, NoDecrypt

-------------------------------------------------------------------------------
(* The invariant is inductive, action by action.                           *)

LEMMA InitIInv == Init => IInv
<1> SUFFICES ASSUME Init PROVE IInv
  OBVIOUS
<1>1. TypeOK
  BY InitType
<1>2. up = <<[kind |-> "connect", seal |-> Plain]>> /\ down = <<>> /\ relayed = <<>>
  BY DEF Init
<1>3. Len(up) = 1 /\ up[1].kind = "connect" /\ up[1].seal = Plain /\ Len(down) = 0
  BY <1>2
<1>4. /\ crypto_enabled = [s \in Sides |-> FALSE] /\ drawn = [s \in Sides |-> 0]
      /\ recv_sequence = [s \in Sides |-> 0] /\ opened = [s \in Sides |-> Nothing]
      /\ misread = [s \in Sides |-> FALSE] /\ handshake = "none" /\ ended = "no"
  BY DEF Init
<1>5. NumbersAgree
  BY <1>4 DEF NumbersAgree
<1>6. UpOrdered /\ DownOrdered
  BY <1>2, <1>3, <1>4 DEF UpOrdered, DownOrdered, Ordered, NextQueued, Sides, Nothing
<1>7. UpKinds
  BY <1>3, <1>4 DEF UpKinds
<1>8. InStep /\ AnswerInTime
  BY <1>2, <1>3, <1>4 DEF InStep, AnswerInTime, Sides
<1>9. GatewayUnderstands /\ ClientUnderstands
  BY <1>4 DEF GatewayUnderstands, ClientUnderstands, Sides
<1> QED
  BY <1>1, <1>5, <1>6, <1>7, <1>8, <1>9 DEF IInv

LEMMA ClientSendsKeeps == IInv /\ ClientSends => IInv'
<1> SUFFICES ASSUME IInv, ClientSends PROVE IInv'
  OBVIOUS
<1>1. TypeOK'
  BY TypeInductive DEF IInv, Next
<1>2. PICK kind \in {"move", "attack"} :
        Draw("client", kind) /\ up' = Append(up, Sealed("client", kind))
  BY DEF ClientSends
<1> DEFINE p == Sealed("client", kind)
<1>3. p \in Packets
  BY SealedIsPacket DEF IInv, Kinds, Sides
<1>4. /\ p.kind = kind
      /\ kind = "attack" => p.seal = Plain /\ drawn' = drawn
      /\ kind = "move" => /\ p.seal = drawn["client"]
                          /\ drawn' = [drawn EXCEPT !["client"] = @ + 1]
  <2>1. Encrypts("client", kind) <=> kind = "move"
    BY DEF ClientSends, Encrypts, Empty
  <2>2. drawn' = [drawn EXCEPT !["client"] = @ + (IF kind = "move" THEN 1 ELSE 0)]
    BY <1>2, <2>1 DEF Draw
  <2>3. kind = "attack" => drawn' = drawn
    BY <2>2 DEF IInv, TypeOK, Sides
  <2> QED
    BY <2>1, <2>2, <2>3 DEF Sealed
<1> HIDE DEF p
<1>5. drawn["client"] \in Nat /\ drawn'["client"] \in Nat /\ drawn["client"] <= drawn'["client"]
      /\ drawn'["gateway"] = drawn["gateway"] /\ opened["gateway"] \in Int
  <2>1. drawn' = drawn \/ drawn' = [drawn EXCEPT !["client"] = @ + 1]
    BY <1>4
  <2>2. drawn \in [Sides -> Nat] /\ opened["gateway"] \in Int
    BY DEF IInv, TypeOK, Sides, Nothing
  <2> QED
    BY <2>1, <2>2 DEF Sides
<1>6. UpOrdered'
  <2>1. p.seal # Plain => drawn["client"] <= p.seal /\ p.seal < drawn'["client"]
    BY <1>2, <1>4, <1>5 DEF IInv, TypeOK, Sides
  <2>2. Ordered(up', opened["gateway"], drawn'["client"])
    BY <1>2, <1>3, <1>5, <2>1, OrderedAppend DEF IInv, UpOrdered, TypeOK, p
  <2> QED
    BY <2>2, <1>5 DEF ClientSends, history, IInv, UpOrdered
<1>7. UpKinds'
  <2>1. /\ Len(up') = Len(up) + 1 /\ Len(up) \in Nat /\ up'[Len(up) + 1] = p
        /\ \A i \in 1..Len(up) : up'[i] = up[i]
    BY <1>2, <1>3, AppendProperties, LenProperties DEF IInv, TypeOK, p
  <2>2. \A i \in 1..Len(up') : i \in 1..Len(up) \/ i = Len(up) + 1
    BY <2>1
  <2>3. kind = "move" => p.seal # Plain
    BY <1>4, <1>5 DEF Plain
  <2> QED
    BY <2>1, <2>2, <2>3, <1>2, <1>4 DEF UpKinds, IInv, ClientSends
<1>8. InStep'
  BY <1>4, <1>5 DEF IInv, InStep, ClientSends, Sides, TypeOK
<1>9. NumbersAgree' /\ DownOrdered' /\ AnswerInTime' /\ GatewayUnderstands' /\ ClientUnderstands'
  BY <1>5 DEF IInv, NumbersAgree, DownOrdered, NextQueued, Ordered, AnswerInTime, AnswerComes,
     GatewayUnderstands, ClientUnderstands, ClientSends, history
<1> QED
  BY <1>1, <1>6, <1>7, <1>8, <1>9 DEF IInv

LEMMA ClientReadsKeeps == IInv /\ ClientReads => IInv'
<1> SUFFICES ASSUME IInv, ClientReads PROVE IInv'
  OBVIOUS
<1>1. TypeOK'
  BY TypeInductive DEF IInv, Next
<1> DEFINE p == Head(down)
<1>2. /\ p \in Packets /\ p = down[1] /\ Len(down) \in Nat \ {0}
      /\ down' = Tail(down) /\ down' \in Seq(Packets) /\ Len(down') = Len(down) - 1
      /\ \A i \in 1..Len(down') : down'[i] = down[i + 1]
  BY HeadAndTail DEF ClientReads, IInv, TypeOK
<1>3. /\ opened["client"] \in Int /\ NextQueued \in Nat /\ NextQueued' = NextQueued
  <2>1. relayed # <<>> => relayed[1] \in Packets
    BY ElementOfSeq, LenProperties DEF IInv, TypeOK
  <2>2. NextQueued \in Nat
    BY <2>1 DEF NextQueued, Packets, IInv, TypeOK, Sides
  <2> QED
    BY <2>2 DEF NextQueued, ClientReads, IInv, TypeOK, Sides, Nothing
<1>4. /\ Ordered(down', opened["client"], NextQueued)
      /\ p.seal # Plain => /\ opened["client"] < p.seal /\ p.seal < NextQueued
                           /\ Ordered(down', p.seal, NextQueued) /\ p.seal \in Nat
  <2>1. down \in Seq(Packets) /\ down # <<>> /\ Ordered(down, opened["client"], NextQueued)
    BY DEF IInv, DownOrdered, TypeOK, ClientReads
  <2> HIDE DEF NextQueued
  <2> QED
    BY <1>2, <1>3, <2>1, OrderedTail
<1>5. /\ IF crypto_enabled["client"] THEN Decrypt("client", p) ELSE NoDecrypt
      /\ misread' = [misread EXCEPT !["client"] =
            @ \/ (p.seal # Plain /\ ~(crypto_enabled["client"] /\ Decrypts("client", p)))]
      /\ crypto_enabled' = [crypto_enabled EXCEPT !["client"] =
            @ \/ (p.kind = "answer" /\ p.seal = Plain)]
      /\ UNCHANGED <<handshake, drawn, up, relayed, rate, ended>>
  BY DEF ClientReads
<1> HIDE DEF p
<1>6. NumbersAgree'
  BY <1>2, <1>5, DecryptKeepsNumbers DEF IInv, Sides
<1>7. /\ opened'["gateway"] = opened["gateway"] /\ overrun'["gateway"] = overrun["gateway"]
      /\ misread'["gateway"] = misread["gateway"]
      /\ opened'["client"] = opened["client"]
         \/ (p.seal # Plain /\ opened'["client"] = p.seal)
  BY <1>5 DEF Decrypt, NoDecrypt, Decrypts, IInv, TypeOK, Sides
<1>8. UpOrdered' /\ UpKinds'
  BY <1>5, <1>7 DEF UpOrdered, UpKinds, IInv, Ordered
<1>9. DownOrdered'
  BY <1>3, <1>4, <1>5, <1>7 DEF DownOrdered, IInv
<1>10. p.kind = "answer" => handshake \in {"answered", "enabled"}
  BY <1>2 DEF IInv, InStep
<1>11. /\ crypto_enabled'["gateway"] = crypto_enabled["gateway"]
       /\ crypto_enabled'["client"] =
             (crypto_enabled["client"] \/ (p.kind = "answer" /\ p.seal = Plain))
  BY <1>5 DEF IInv, TypeOK, Sides
<1>12. InStep'
  <2>1. handshake # "none"
    BY <1>2 DEF IInv, InStep, ClientReads
  <2>2. \A i \in 1..Len(down') : i + 1 \in 1..Len(down)
    BY <1>2
  <2> QED
    BY <1>2, <1>5, <1>10, <1>11, <2>1, <2>2 DEF IInv, InStep, Sides
<1>13. overrun'["client"] \/ ~overrun["client"]
  BY <1>5 DEF Decrypt, NoDecrypt, IInv, TypeOK, Sides
<1>14. AnswerInTime'
  <2> SUFFICES ASSUME ~overrun'["client"], ~crypto_enabled'["client"],
                      handshake \notin {"none", "listed"}
               PROVE  AnswerComes'
    BY <1>5 DEF AnswerInTime
  <2>1. AnswerComes /\ ~(p.kind = "answer" /\ p.seal = Plain)
    BY <1>11, <1>13 DEF IInv, AnswerInTime
  <2>2. PICK k \in 1..Len(down) :
          down[k].kind = "answer" /\ \A i \in 1..k : down[i].seal = Plain
    BY <2>1 DEF AnswerComes
  <2>3. k # 1
    BY <2>1, <2>2, <1>2
  <2>4. k - 1 \in 1..Len(down') /\ \A i \in 1..(k - 1) : i \in 1..Len(down') /\ i + 1 \in 1..k
    BY <2>2, <2>3, <1>2
  <2>5. down'[k - 1].kind = "answer" /\ \A i \in 1..(k - 1) : down'[i].seal = Plain
    BY <2>2, <2>4, <1>2
  <2> QED
    BY <2>4, <2>5 DEF AnswerComes
<1>15. ClientUnderstands'
  <2> SUFFICES ASSUME ~overrun'["client"] PROVE ~misread'["client"]
    BY DEF ClientUnderstands
  <2>1. ~misread["client"] /\ ~overrun["client"]
    BY <1>13 DEF IInv, ClientUnderstands
  <2>2. CASE p.seal = Plain
    BY <2>1, <2>2, <1>5 DEF IInv, TypeOK, Sides
  <2>3. CASE p.seal # Plain /\ crypto_enabled["client"]
    <3>1. Decrypts("client", p)
      BY <2>3, <1>2, <1>4, <1>5, DecryptWorks DEF IInv, Sides
    <3> QED
      BY <2>1, <2>3, <3>1, <1>5 DEF IInv, TypeOK, Sides
  <2>4. CASE p.seal # Plain /\ ~crypto_enabled["client"]
    <3>1. drawn["gateway"] # 0
      <4>1. relayed # <<>> /\ relayed[1].seal # Plain => relayed[1].seal < drawn["gateway"]
        BY DEF IInv, DownOrdered
      <4>2. drawn["gateway"] \in Nat
        BY DEF IInv, TypeOK, Sides
      <4> QED
        BY <4>1, <4>2, <2>4, <1>3, <1>4 DEF NextQueued
    <3>2. handshake = "enabled"
      BY <3>1 DEF IInv, InStep, Sides
    <3>3. AnswerComes
      BY <3>2, <2>1, <2>4 DEF IInv, AnswerInTime
    <3>4. down[1].seal = Plain
      BY <3>3 DEF AnswerComes
    <3> QED
      BY <3>4, <2>4, <1>2
  <2> QED
    BY <2>2, <2>3, <2>4
<1>16. GatewayUnderstands'
  BY <1>5, <1>7 DEF IInv, GatewayUnderstands
<1> QED
  BY <1>1, <1>6, <1>8, <1>9, <1>12, <1>14, <1>15, <1>16 DEF IInv

\* What the gateway finds at the head of its link.
LEMMA HeadOfUp ==
  ASSUME IInv, TakesOff
  PROVE  LET p == Head(up)
         IN  /\ p \in Packets /\ up' = Tail(up) /\ up' \in Seq(Packets)
             /\ Ordered(up', opened["gateway"], drawn["client"])
             /\ p.seal # Plain => /\ opened["gateway"] < p.seal /\ p.seal < drawn["client"]
                                  /\ Ordered(up', p.seal, drawn["client"])
             /\ p.kind = "connect" => handshake = "none"
             /\ handshake = "none" => p.seal = Plain
             /\ p.kind = "attack" => p.seal = Plain
             /\ p.seal = Plain => p.kind \in {"connect", "attack"}
             /\ handshake = "none" => Len(up') = 0
             /\ Len(up') <= Len(up)
             /\ \A i \in 1..Len(up') : i + 1 \in 1..Len(up) /\ up'[i] = up[i + 1]
<1> DEFINE p == Head(up)
<1>1. /\ p \in Packets /\ p = up[1] /\ Len(up) \in Nat \ {0}
      /\ up' = Tail(up) /\ up' \in Seq(Packets) /\ Len(up') = Len(up) - 1
      /\ \A i \in 1..Len(up') : up'[i] = up[i + 1]
  BY HeadAndTail DEF TakesOff, IInv, TypeOK
<1>2. 1 \in 1..Len(up) /\ \A i \in 1..Len(up') : i + 1 \in 1..Len(up)
  BY <1>1
<1>3. opened["gateway"] \in Int /\ drawn["client"] \in Nat
  BY DEF IInv, TypeOK, Sides, Nothing
<1>4. /\ Ordered(up', opened["gateway"], drawn["client"])
      /\ p.seal # Plain => /\ opened["gateway"] < p.seal /\ p.seal < drawn["client"]
                           /\ Ordered(up', p.seal, drawn["client"]) /\ p.seal \in Nat
  <2>1. up \in Seq(Packets) /\ up # <<>> /\ Ordered(up, opened["gateway"], drawn["client"])
    BY DEF IInv, UpOrdered, TypeOK, TakesOff
  <2> QED
    BY <1>1, <1>3, <2>1, OrderedTail
<1> HIDE DEF p
<1>5. /\ p.kind = "connect" => handshake = "none" /\ p.seal = Plain
      /\ p.kind = "attack" => p.seal = Plain
      /\ p.seal = Plain => p.kind \in {"connect", "attack"}
  BY <1>1, <1>2 DEF IInv, UpKinds
<1>6. handshake = "none" => p.seal = Plain
  <2> SUFFICES ASSUME handshake = "none", p.seal # Plain PROVE FALSE
    OBVIOUS
  <2>1. drawn["client"] = 0
    BY DEF IInv, InStep, Sides
  <2> QED
    BY <2>1, <1>4
<1>7. Len(up') <= Len(up) /\ (handshake = "none" => Len(up') = 0)
  BY <1>1 DEF IInv, InStep
<1> QED
  BY <1>1, <1>2, <1>4, <1>5, <1>6, <1>7 DEF p

LEMMA GatewayReadsKeeps == IInv /\ GatewayReads => IInv'
<1> SUFFICES ASSUME IInv, GatewayReads PROVE IInv'
  OBVIOUS
<1>1. TypeOK'
  BY TypeInductive DEF IInv, Next
<1> DEFINE p == Head(up)
           decrypting == crypto_enabled["gateway"] /\ ~Empty(p.kind)
<1>2. TakesOff /\ UNCHANGED <<crypto_enabled, drawn, down, relayed>>
  BY DEF GatewayReads
<1>3. /\ p \in Packets /\ up' = Tail(up) /\ up' \in Seq(Packets)
      /\ Ordered(up', opened["gateway"], drawn["client"])
      /\ p.seal # Plain => /\ opened["gateway"] < p.seal /\ p.seal < drawn["client"]
                           /\ Ordered(up', p.seal, drawn["client"])
      /\ p.kind = "connect" => handshake = "none"
      /\ handshake = "none" => p.seal = Plain
      /\ p.kind = "attack" => p.seal = Plain
      /\ p.seal = Plain => p.kind \in {"connect", "attack"}
      /\ handshake = "none" => Len(up') = 0
      /\ Len(up') <= Len(up)
      /\ \A i \in 1..Len(up') : i + 1 \in 1..Len(up) /\ up'[i] = up[i + 1]
  BY <1>2, HeadOfUp
<1> HIDE DEF p
<1>4. /\ \/ decrypting /\ Decrypt("gateway", p)
         \/ ~decrypting /\ NoDecrypt
      /\ misread' = misread
         \/ (~decrypting /\ misread' = [misread EXCEPT !["gateway"] = @ \/ p.seal # Plain])
      /\ ended' = ended
         \/ (decrypting /\ ~Decrypts("gateway", p) /\ ended' = "undecryptable")
      /\ handshake' = handshake \/ (p.kind = "connect" /\ handshake' = "listed")
  <2> DEFINE D == Decrypt("gateway", p)
             V == Decrypts("gateway", p)
  <2>1. \/ decrypting /\ D /\ V /\ Dispatch(p) /\ UNCHANGED misread
        \/ decrypting /\ D /\ ~V /\ ended' = "undecryptable" /\ UNCHANGED <<handshake, misread>>
        \/ /\ ~decrypting /\ NoDecrypt /\ Dispatch(p)
           /\ misread' = [misread EXCEPT !["gateway"] = @ \/ p.seal # Plain]
    BY Zenon DEF GatewayReads, p
  <2> HIDE DEF D, V
  <2>2. Dispatch(p) =>
          ended' = ended /\ (handshake' = handshake \/ (p.kind = "connect" /\ handshake' = "listed"))
    BY DEF Dispatch
  <2>3. /\ (decrypting /\ D) \/ (~decrypting /\ NoDecrypt)
        /\ misread' = misread
           \/ (~decrypting /\ misread' = [misread EXCEPT !["gateway"] = @ \/ p.seal # Plain])
        /\ ended' = ended \/ (decrypting /\ ~V /\ ended' = "undecryptable")
        /\ handshake' = handshake \/ (p.kind = "connect" /\ handshake' = "listed")
    BY <2>1, <2>2
  <2> QED
    BY <2>3 DEF D, V
<1>5. handshake = "none" \/ handshake = "enabled"
  BY <1>2 DEF TakesOff, HandlerDone
<1>6. NumbersAgree'
  BY <1>3, <1>4, DecryptKeepsNumbers DEF IInv, Sides
<1>7. /\ opened'["client"] = opened["client"] /\ overrun'["client"] = overrun["client"]
      /\ misread'["client"] = misread["client"]
      /\ opened'["gateway"] = opened["gateway"]
         \/ (p.seal # Plain /\ opened'["gateway"] = p.seal)
      /\ overrun["gateway"] => overrun'["gateway"]
  BY <1>4 DEF Decrypt, NoDecrypt, Decrypts, IInv, TypeOK, Sides
<1>8. UpOrdered'
  BY <1>2, <1>3, <1>7 DEF UpOrdered, IInv
<1>9. DownOrdered'
  BY <1>2, <1>7 DEF DownOrdered, NextQueued, IInv, Ordered
<1>10. UpKinds'
  BY <1>3, <1>4 DEF UpKinds, IInv
<1>11. InStep'
  <2>1. handshake' = handshake \/ (handshake = "none" /\ handshake' = "listed")
    BY <1>3, <1>4
  <2>2. Len(up) \in Nat /\ Len(up') \in Nat
    BY <1>3, LenProperties DEF IInv, TypeOK
  <2>3. handshake = "none" => Len(down) = 0
    BY DEF IInv, InStep
  <2> QED
    BY <1>2, <1>3, <2>1, <2>2, <2>3 DEF InStep, IInv, Sides
<1>12. AnswerInTime'
  BY <1>2, <1>3, <1>4, <1>7 DEF AnswerInTime, AnswerComes, IInv
<1>13. ClientUnderstands'
  BY <1>7 DEF ClientUnderstands, IInv
<1>14. GatewayUnderstands'
  <2> SUFFICES ASSUME ~overrun'["gateway"]
               PROVE  ~misread'["gateway"] /\ ended' # "undecryptable"
    BY DEF GatewayUnderstands
  <2>1. ~misread["gateway"] /\ ended # "undecryptable"
    BY <1>7 DEF IInv, GatewayUnderstands
  <2>2. crypto_enabled["gateway"] <=> handshake = "enabled"
    BY DEF IInv, InStep
  <2>3. CASE decrypting
    <3>1. p.seal # Plain
      BY <1>3, <1>5, <2>2, <2>3 DEF Empty
    <3>2. Decrypts("gateway", p)
      BY <3>1, <2>3, <1>3, <1>4, DecryptWorks DEF IInv, Sides
    <3> QED
      BY <3>2, <2>1, <2>3, <1>4
  <2>4. CASE ~decrypting
    <3>1. p.seal = Plain
      BY <1>3, <1>5, <2>2, <2>4 DEF Empty
    <3> QED
      BY <3>1, <2>1, <2>4, <1>4 DEF IInv, TypeOK, Sides
  <2> QED
    BY <2>3, <2>4
<1> QED
  BY <1>1, <1>6, <1>8, <1>9, <1>10, <1>11, <1>12, <1>13, <1>14 DEF IInv

LEMMA RateLimitedKeeps == IInv /\ RateLimited => IInv'
<1> SUFFICES ASSUME IInv, RateLimited PROVE IInv'
  OBVIOUS
<1>1. TypeOK'
  BY TypeInductive DEF IInv, Next
<1>2. TakesOff /\ UNCHANGED <<handshake, keys, down, relayed, history>>
      /\ ended' # "undecryptable"
  BY DEF RateLimited
<1>3. /\ Ordered(up', opened["gateway"], drawn["client"])
      /\ Len(up') <= Len(up) /\ up' \in Seq(Packets)
      /\ \A i \in 1..Len(up') : i + 1 \in 1..Len(up) /\ up'[i] = up[i + 1]
  BY <1>2, HeadOfUp
<1>4. UpOrdered' /\ UpKinds'
  BY <1>2, <1>3 DEF UpOrdered, UpKinds, IInv, keys, history
<1>5. InStep'
  <2>1. Len(up) \in Nat /\ Len(up') \in Nat
    BY <1>3, LenProperties DEF IInv, TypeOK
  <2> QED
    BY <2>1, <1>2, <1>3 DEF IInv, InStep, keys
<1>6. NumbersAgree' /\ DownOrdered' /\ AnswerInTime' /\ GatewayUnderstands' /\ ClientUnderstands'
  BY <1>2 DEF IInv, NumbersAgree, DownOrdered, NextQueued, Ordered, AnswerInTime, AnswerComes,
     GatewayUnderstands, ClientUnderstands, keys, history
<1> QED
  BY <1>1, <1>4, <1>5, <1>6 DEF IInv

\* A packet put into the queue, or dropped.
LEMMA QueuedOrdered ==
  ASSUME IInv, NEW p \in Packets, down' = Queued(p),
         NEW low \in Int, NEW high \in Nat, NEW higher \in Nat, high <= higher, low < high,
         Ordered(down, low, high), p.seal # Plain => high <= p.seal /\ p.seal < higher
  PROVE  Ordered(down', low, higher)
<1>1. down \in Seq(Packets)
  BY DEF IInv, TypeOK
<1>2. CASE down' = down
  BY <1>1, <1>2, OrderedWider
<1>3. CASE down' = Append(down, p)
  BY <1>1, <1>3, OrderedAppend
<1> QED
  BY <1>2, <1>3 DEF Queued

LEMMA QueuedElements ==
  ASSUME IInv, NEW p \in Packets, down' = Queued(p)
  PROVE  /\ Len(down) \in Nat /\ \A i \in 1..Len(down) : i \in 1..Len(down') /\ down'[i] = down[i]
         /\ \A i \in 1..Len(down') :
              \/ i \in 1..Len(down)
              \/ ~Full /\ i = Len(down) + 1 /\ down'[i] = p
         /\ ~Full => Len(down) + 1 \in 1..Len(down') /\ down'[Len(down) + 1] = p
<1>1. down \in Seq(Packets) /\ Len(down) \in Nat
  BY LenProperties DEF IInv, TypeOK
<1>2. CASE Full
  BY <1>1, <1>2 DEF Queued
<1>3. CASE ~Full
  <2>1. /\ down' = Append(down, p) /\ Len(down') = Len(down) + 1
        /\ down'[Len(down) + 1] = p /\ \A i \in 1..Len(down) : down'[i] = down[i]
    BY <1>1, <1>3, AppendProperties DEF Queued
  <2> QED
    BY <1>1, <1>3, <2>1
<1> QED
  BY <1>2, <1>3

LEMMA AnswerConnectKeeps == IInv /\ AnswerConnect => IInv'
<1> SUFFICES ASSUME IInv, AnswerConnect PROVE IInv'
  OBVIOUS
<1>1. TypeOK'
  BY TypeInductive DEF IInv, Next
<1> DEFINE p == Sealed("gateway", "answer")
<1>2. /\ handshake = "listed" /\ handshake' = "answered" /\ down' = Queued(p)
      /\ overrun' = [overrun EXCEPT !["client"] = @ \/ Full]
      /\ UNCHANGED <<crypto_enabled, recv_sequence, up, relayed, rate, ended, opened, misread>>
  BY DEF AnswerConnect
<1>3. ~crypto_enabled["gateway"] /\ drawn["gateway"] = 0
  BY <1>2 DEF IInv, InStep, Sides
<1>4. p.kind = "answer" /\ p.seal = Plain /\ p \in Packets
  BY <1>3, SealedIsPacket DEF Sealed, Encrypts, IInv, Kinds, Sides
<1>5. drawn' = drawn
  <2>1. drawn' = [drawn EXCEPT !["gateway"] = @ + 0]
    BY <1>3 DEF AnswerConnect, Draw, Encrypts
  <2> QED
    BY <2>1 DEF IInv, TypeOK, Sides
<1> HIDE DEF p
<1>6. /\ overrun'["gateway"] = overrun["gateway"]
      /\ overrun'["client"] = (overrun["client"] \/ Full)
  BY <1>2 DEF IInv, TypeOK, Sides
<1>7. NumbersAgree' /\ UpOrdered' /\ GatewayUnderstands' /\ ClientUnderstands'
  BY <1>2, <1>5, <1>6 DEF IInv, NumbersAgree, UpOrdered, Ordered, GatewayUnderstands, ClientUnderstands
<1>8. UpKinds'
  BY <1>2 DEF IInv, UpKinds
<1>9. NextQueued = 0 /\ NextQueued' = NextQueued /\ opened["client"] \in Int
  <2>1. relayed # <<>> /\ relayed[1].seal # Plain => relayed[1].seal \in Nat /\ relayed[1].seal < 0
    <3>1. relayed # <<>> => relayed[1] \in Packets
      BY ElementOfSeq, LenProperties DEF IInv, TypeOK
    <3> QED
      BY <3>1, <1>3 DEF IInv, DownOrdered, Packets
  <2> QED
    BY <2>1, <1>2, <1>3, <1>5 DEF NextQueued, IInv, TypeOK, Sides, Nothing
<1>10. DownOrdered'
  <2>1. Ordered(down', opened["client"], NextQueued)
    <3> HIDE DEF NextQueued
    <3> QED
      BY <1>2, <1>4, <1>9, QueuedOrdered DEF IInv, DownOrdered
  <2> QED
    BY <2>1, <1>2, <1>5, <1>9 DEF IInv, DownOrdered
<1>11. InStep'
  <2>1. \A s \in Sides : ~crypto_enabled'[s] => drawn'[s] = 0
    BY <1>2, <1>5 DEF IInv, InStep
  <2>2. handshake' = "answered" /\ (crypto_enabled'["gateway"] <=> handshake' = "enabled")
    BY <1>2, <1>3
  <2>3. relayed' # <<>> => relayed'[1].kind = "game"
    BY <1>2 DEF IInv, InStep
  <2> QED
    BY <2>1, <2>2, <2>3 DEF InStep
<1>12. AnswerInTime'
  <2> SUFFICES ASSUME ~Full PROVE AnswerComes'
    BY <1>6 DEF AnswerInTime
  <2> DEFINE n == Len(down) + 1
  <2>1. /\ n \in 1..Len(down') /\ down'[n] = p
        /\ Len(down) \in Nat /\ \A i \in 1..Len(down) : down'[i] = down[i]
    BY <1>2, <1>4, QueuedElements
  <2>2. \A i \in 1..Len(down) : down[i].seal = Plain
    <3>1. \A i \in 1..Len(down) : down[i] \in Packets
      BY ElementOfSeq DEF IInv, TypeOK
    <3> QED
      BY <3>1, <1>9 DEF IInv, DownOrdered, Ordered, Packets
  <2>3. \A i \in 1..n : i = n \/ i \in 1..Len(down)
    BY <2>1
  <2>4. down'[n].kind = "answer" /\ \A i \in 1..n : down'[i].seal = Plain
    BY <2>1, <2>2, <2>3, <1>4
  <2> QED
    BY <2>1, <2>4 DEF AnswerComes
<1> QED
  BY <1>1, <1>7, <1>8, <1>10, <1>11, <1>12 DEF IInv

LEMMA EnableEncryptionKeeps == IInv /\ EnableEncryption => IInv'
<1> SUFFICES ASSUME IInv, EnableEncryption PROVE IInv'
  OBVIOUS
<1>1. TypeOK'
  BY TypeInductive DEF IInv, Next
<1>2. /\ handshake = "answered" /\ handshake' = "enabled"
      /\ crypto_enabled' = [crypto_enabled EXCEPT !["gateway"] = TRUE]
      /\ UNCHANGED <<drawn, recv_sequence, up, down, relayed, rate, ended, history>>
  BY DEF EnableEncryption
<1>3. crypto_enabled'["gateway"] /\ crypto_enabled'["client"] = crypto_enabled["client"]
  BY <1>2 DEF IInv, TypeOK, Sides
<1>4. UpKinds' /\ InStep'
  BY <1>2, <1>3 DEF IInv, UpKinds, InStep, Sides
<1>5. NumbersAgree' /\ UpOrdered' /\ DownOrdered' /\ AnswerInTime' /\ GatewayUnderstands' /\ ClientUnderstands'
  BY <1>2, <1>3 DEF IInv, NumbersAgree, UpOrdered, DownOrdered, NextQueued, Ordered, AnswerInTime,
     AnswerComes, GatewayUnderstands, ClientUnderstands, history
<1> QED
  BY <1>1, <1>4, <1>5 DEF IInv

LEMMA RelaySendsKeeps == IInv /\ RelaySends => IInv'
<1> SUFFICES ASSUME IInv, RelaySends PROVE IInv'
  OBVIOUS
<1>1. TypeOK'
  BY TypeInductive DEF IInv, Next
<1> DEFINE p == Sealed("gateway", "game")
<1>2. /\ handshake # "none" /\ relayed = <<>> /\ relayed' = <<p>> /\ Draw("gateway", "game")
      /\ UNCHANGED <<handshake, crypto_enabled, recv_sequence, up, down, rate, ended, history>>
  BY DEF RelaySends
<1>3. p.kind = "game" /\ p \in Packets
  BY SealedIsPacket DEF Sealed, IInv, Kinds, Sides
<1>4. \/ p.seal = Plain /\ drawn' = drawn
      \/ /\ p.seal = drawn["gateway"] /\ crypto_enabled["gateway"]
         /\ drawn' = [drawn EXCEPT !["gateway"] = @ + 1]
  <2>1. CASE crypto_enabled["gateway"]
    BY <2>1, <1>2 DEF Draw, Sealed, Encrypts, Empty
  <2>2. CASE ~crypto_enabled["gateway"]
    <3>1. drawn' = [drawn EXCEPT !["gateway"] = @ + 0] /\ p.seal = Plain
      BY <2>2, <1>2 DEF Draw, Sealed, Encrypts
    <3> QED
      BY <3>1 DEF IInv, TypeOK, Sides
  <2> QED
    BY <2>1, <2>2
<1> HIDE DEF p
<1>5. drawn \in [Sides -> Nat] /\ relayed'[1] = p /\ relayed' # <<>>
  BY <1>2 DEF IInv, TypeOK
<1>6. /\ drawn'["client"] = drawn["client"] /\ drawn["gateway"] <= drawn'["gateway"]
      /\ p.seal # Plain => p.seal < drawn'["gateway"]
  BY <1>4, <1>5 DEF Sides
<1>7. NextQueued' = NextQueued
  <2>1. drawn["gateway"] # Plain
    BY <1>5 DEF Sides, Plain
  <2> QED
    BY <2>1, <1>2, <1>4, <1>5 DEF NextQueued
<1>8. DownOrdered'
  BY <1>2, <1>5, <1>6, <1>7 DEF IInv, DownOrdered, history
<1>9. NumbersAgree' /\ UpOrdered' /\ AnswerInTime' /\ GatewayUnderstands' /\ ClientUnderstands'
  BY <1>2, <1>6 DEF IInv, NumbersAgree, UpOrdered, AnswerInTime, AnswerComes,
     GatewayUnderstands, ClientUnderstands, history
<1>10. UpKinds'
  BY <1>2 DEF IInv, UpKinds
<1>11. InStep'
  <2>1. \A s \in Sides : ~crypto_enabled'[s] => drawn'[s] = 0
    BY <1>2, <1>4, <1>5 DEF IInv, InStep, Sides
  <2> QED
    BY <2>1, <1>2, <1>3, <1>5 DEF IInv, InStep
<1> QED
  BY <1>1, <1>8, <1>9, <1>10, <1>11 DEF IInv

LEMMA RelayQueuedKeeps == IInv /\ RelayQueued => IInv'
<1> SUFFICES ASSUME IInv, RelayQueued PROVE IInv'
  OBVIOUS
<1>1. TypeOK'
  BY TypeInductive DEF IInv, Next
<1> DEFINE p == Head(relayed)
<1>2. /\ relayed # <<>> /\ relayed' = <<>> /\ down' = Queued(p)
      /\ UNCHANGED <<handshake, keys, up, rate, ended, history>>
  BY DEF RelayQueued
<1>3. p \in Packets /\ p = relayed[1]
  BY <1>2, HeadAndTail DEF IInv, TypeOK
<1> HIDE DEF p
<1>4. /\ drawn["gateway"] \in Nat /\ NextQueued \in Nat /\ NextQueued' = drawn["gateway"]
      /\ NextQueued <= drawn["gateway"] /\ opened["client"] \in Int
      /\ p.seal # Plain => p.seal = NextQueued /\ p.seal < drawn["gateway"]
  <2>1. drawn["gateway"] \in Nat /\ opened["client"] \in Int
    BY DEF IInv, TypeOK, Sides, Nothing
  <2>2. p.seal # Plain => p.seal \in Nat /\ p.seal = NextQueued /\ p.seal < drawn["gateway"]
    BY <1>2, <1>3 DEF NextQueued, IInv, DownOrdered, Packets
  <2>3. p.seal = Plain => NextQueued = drawn["gateway"]
    BY <1>2, <1>3 DEF NextQueued
  <2>4. NextQueued' = drawn["gateway"]
    BY <1>2 DEF NextQueued, keys
  <2> QED
    BY <2>1, <2>2, <2>3, <2>4
<1>5. DownOrdered'
  <2>1. Ordered(down', opened["client"], drawn["gateway"])
    <3> HIDE DEF NextQueued
    <3> QED
      BY <1>2, <1>3, <1>4, QueuedOrdered DEF IInv, DownOrdered
  <2>2. opened["client"] < drawn["gateway"]
    BY <1>4 DEF IInv, DownOrdered
  <2> QED
    BY <2>1, <2>2, <1>2, <1>4 DEF DownOrdered, keys, history
<1>6. /\ Len(down) \in Nat
      /\ \A i \in 1..Len(down) : i \in 1..Len(down') /\ down'[i] = down[i]
      /\ \A i \in 1..Len(down') : i \in 1..Len(down) \/ down'[i] = p
  <2> HIDE DEF IInv
  <2> QED
    BY <1>2, <1>3, QueuedElements
<1>7. AnswerInTime'
  <2>1. AnswerComes => AnswerComes'
    <3> SUFFICES ASSUME AnswerComes PROVE AnswerComes'
      OBVIOUS
    <3>1. PICK k \in 1..Len(down) :
            down[k].kind = "answer" /\ \A i \in 1..k : down[i].seal = Plain
      BY DEF AnswerComes
    <3>2. \A i \in 1..k : i \in 1..Len(down)
      BY <3>1, <1>6
    <3> QED
      BY <3>1, <3>2, <1>6 DEF AnswerComes
  <2> QED
    BY <2>1, <1>2 DEF AnswerInTime, IInv, keys, history
<1>8. InStep'
  <2>1. handshake # "none" /\ p.kind = "game"
    BY <1>2, <1>3 DEF IInv, InStep
  <2> QED
    BY <2>1, <1>2, <1>6 DEF IInv, InStep, keys
<1>9. NumbersAgree' /\ UpOrdered' /\ UpKinds' /\ GatewayUnderstands' /\ ClientUnderstands'
  BY <1>2 DEF IInv, NumbersAgree, UpOrdered, Ordered, UpKinds, GatewayUnderstands,
     ClientUnderstands, keys, history
<1> QED
  BY <1>1, <1>5, <1>7, <1>8, <1>9 DEF IInv

LEMMA Inductive == IInv /\ [Next]_vars => IInv'
<1> SUFFICES ASSUME IInv, [Next]_vars PROVE IInv'
  OBVIOUS
<1>1. CASE WindowPasses \/ UNCHANGED vars
  <2>1. TypeOK'
    BY <1>1, TypeInductive DEF IInv, Next
  <2>2. UNCHANGED <<handshake, keys, up, down, relayed, ended, history>>
    BY <1>1 DEF WindowPasses, vars
  <2> QED
    BY <2>1, <2>2 DEF IInv, NumbersAgree, UpOrdered, DownOrdered, NextQueued, Ordered, UpKinds, InStep,
       AnswerInTime, AnswerComes, GatewayUnderstands, ClientUnderstands, keys, history
<1> QED
  BY <1>1, ClientSendsKeeps, ClientReadsKeeps, GatewayReadsKeeps, RateLimitedKeeps,
     AnswerConnectKeeps, EnableEncryptionKeeps, RelaySendsKeeps, RelayQueuedKeeps DEF Next

\* The gateway understands its clients, whatever the limits and the modulus.
THEOREM GatewaySafe == Spec => []GatewayUnderstands
<1>1. IInv => GatewayUnderstands
  BY DEF IInv
<1> QED
  BY <1>1, InitIInv, Inductive, PTL DEF Spec

\* A client understands the gateway, packets sent during the handshake included.
THEOREM ClientSafe == Spec => []ClientUnderstands
<1>1. IInv => ClientUnderstands
  BY DEF IInv
<1> QED
  BY <1>1, InitIInv, Inductive, PTL DEF Spec

===============================================================================
