---------------------------- MODULE StartupProofs ----------------------------
(***************************************************************************)
(* Theorems about Startup.                                                 *)
(***************************************************************************)
EXTENDS Startup, FiniteSetTheorems, WellFoundedInduction, TLAPS

-----------------------------------------------------------------------------
(* The inductive invariant.                                                 *)

\* The stages before the settings are complete.
Reading == {"signals", "setFlags"}

\* Word k takes the word behind it as its argument.
TakesNext(k) == k > 0 /\ IsOption[k] /\ argv[k] \in Options \ {"-v"}

\* setFlags()'s index is at a word that is no option's argument, and behind the
\* line when the settings are complete.
IndexInv ==
    /\ i \in 1..(Len(argv) + 1)
    /\ pc = "signals" => i = 1
    /\ pc \in Reading => ~TakesNext(i - 1)
    /\ pc \notin Reading \cup {"failed"} => i = Len(argv) + 1

\* The options in W that were read already, and the last one of them.
Seen(W) == {k \in Places(W) : k < i}
LastSeen(W, k) == k \in Seen(W) /\ \A j \in Seen(W) : j <= k

BindOption(f) == IF f = "v4" THEN "-bind4" ELSE "-bind6"

\* The settings are those that the options read so far ask for.
CgiRead ==
    /\ "C_FLAG" \in app_flags <=> Seen({"-c"}) # {}
    /\ \A k : LastSeen({"-c"}, k) => cgi_addr = argv[k + 1]
LogRead ==
    /\ Seen({"-v", "-l"}) = {} => log_ptr = NullLog
    /\ \A k : LastSeen({"-v", "-l"}, k) =>
          log_ptr = IF argv[k] = "-v" THEN Stdout ELSE <<argv[k + 1], k>>
AddressRead(f) ==
    /\ BindFlag(f) \in app_flags <=> Seen({BindOption(f)}) # {}
    /\ \A k : LastSeen({BindOption(f)}, k) =>
          bind_addr[f] = argv[k + 1] /\ ValidAddress(f, argv[k + 1])
BindRead == \A f \in Families : AddressRead(f)
PortRead ==
    /\ Seen({"-p"}) = {} => port_addr = DEFAULT_PORT
    /\ \A k : LastSeen({"-p"}, k) =>
          /\ argv[k + 1] \in DOMAIN Number
          /\ port_addr = StoredPort(Number[argv[k + 1]])
ReadInv == CgiRead /\ LogRead /\ BindRead /\ PortRead

\* The log that is open, whichever options were read.
LogInv ==
    /\ "V_FLAG" \in app_flags <=> log_ptr = Stdout
    /\ "L_FLAG" \in app_flags <=> log_ptr \notin {NullLog, Stdout}
    /\ logs = IF pc = "exited" THEN {} ELSE {log_ptr} \ {NullLog, Stdout}

\* A family's socket: not begun, created, bound, and what get_listener leaves.
Made(f, state) ==
    [state |-> state, nonblock |-> TRUE,
     addr |-> IF state = "created" \/ BindFlag(f) \notin app_flags
              THEN "ANY" ELSE bind_addr[f],
     port |-> IF state = "created" THEN 0 ELSE Port]
Unmade(f) == sock[f] = NoSocket /\ ~listener[f]
Ready(f) ==
    /\ listener[f] <=> Used(f)
    /\ sock[f] = IF Used(f) THEN Made(f, "listening") ELSE NoSocket

\* The stages of main() before its two listeners, between them and behind them.
Before == Reading \cup {"daemon", "magic", "malloc", "v4"}
Behind == {"slots", "loop", "serving", "shutdown"}

SocketInv ==
    /\ pc \in Before => Unmade("v4") /\ Unmade("v6")
    /\ pc \in {"bind_v4", "listen_v4"} =>
          /\ Used("v4") /\ ~listener["v4"] /\ Unmade("v6")
          /\ sock["v4"] =
                Made("v4", IF pc = "bind_v4" THEN "created" ELSE "bound")
    /\ pc = "v6" => Ready("v4") /\ Unmade("v6")
    /\ pc \in {"bind_v6", "listen_v6"} =>
          /\ Used("v6") /\ ~listener["v6"] /\ Ready("v4")
          /\ sock["v6"] =
                Made("v6", IF pc = "bind_v6" THEN "created" ELSE "bound")
    /\ pc \in Behind => Ready("v4") /\ Ready("v6")
    /\ pc \in {"loop", "serving"} => slots = Slot("v4") \o Slot("v6")
    /\ pc = "exited" => \A f \in Families : sock[f] = NoSocket

\* The standard streams are given up only when the command line was right.
SilentInv ==
    /\ detached => pc \notin Reading \cup {"daemon"}
    /\ pc = "failed" /\ detached => faults > 0 \/ ~PortAllowed
    /\ pc = "exited" => allocated = {}

SInv ==
    /\ TypeOK /\ IndexInv /\ ReadInv /\ LogInv /\ SocketInv /\ SilentInv

-----------------------------------------------------------------------------
(* Numbers.                                                                 *)

\* A set of natural numbers that is not empty has a least member.
LEMMA LeastMember ==
    ASSUME NEW S \in SUBSET Nat, S # {}
    PROVE  \E x \in S : \A y \in S : x <= y
<1> DEFINE R == OpToRel(<, Nat)
<1>1. IsWellFoundedOn(R, Nat) BY NatLessThanWellFounded
<1>2. \A x, y \in Nat : x < y => <<x, y>> \in R BY DEF OpToRel
<1> HIDE DEF R
<1>3. S \subseteq Nat OBVIOUS
<1>4. PICK x \in S : \A y \in S : ~(<<y, x>> \in R) BY <1>1, <1>3, WFMin
<1>5. \A y \in S : ~(y < x) BY <1>2, <1>3, <1>4
<1>6. \A y \in S : x <= y BY <1>3, <1>5
<1> QED BY <1>6

\* Induction on a set of natural numbers.
LEMMA SetInduction ==
    ASSUME NEW S \in SUBSET Nat, 0 \in S, \A n \in S : n + 1 \in S
    PROVE  S = Nat
<1> DEFINE U == Nat \ S
<1>1. SUFFICES ASSUME U # {} PROVE FALSE OBVIOUS
<1>2. U \in SUBSET Nat OBVIOUS
<1> HIDE DEF U
<1>3. PICK x \in U : \A y \in U : x <= y BY <1>1, <1>2, LeastMember
<1> USE DEF U
<1>4. x \in Nat /\ x # 0 /\ x \notin S BY <1>3
<1>5. x - 1 \in Nat /\ x - 1 \in S BY <1>3, <1>4
<1>6. (x - 1) + 1 \in S BY <1>5
<1> QED BY <1>4, <1>6

\* A bounded set of natural numbers that is not empty has a greatest member.
LEMMA GreatestMember ==
    ASSUME NEW n \in Nat, NEW S \in SUBSET (0..n), S # {}
    PROVE  Max(S) \in S /\ \A y \in S : y <= Max(S)
<1> DEFINE U == {n - k : k \in S}
<1>1. U \in SUBSET Nat /\ U # {} OBVIOUS
<1>2. \A k \in S : n - k \in U OBVIOUS
<1>3. \A u \in U : \E k \in S : u = n - k OBVIOUS
<1> HIDE DEF U
<1>4. PICK u \in U : \A y \in U : u <= y BY <1>1, LeastMember
<1>5. PICK k \in S : u = n - k BY <1>3, <1>4
<1>6. \A y \in S : k >= y BY <1>2, <1>4, <1>5
<1>7. Max(S) \in S /\ \A y \in S : Max(S) >= y
  BY <1>6, Zenon DEF Max
<1> QED BY <1>7

\* Division with remainder.
LEMMA Quotient ==
    ASSUME NEW a \in Int, NEW p \in Nat \ {0}
    PROVE  \E q \in Int, r \in 0..(p - 1) : r = a % p /\ a = p * q + r
<1>1. a % p \in 0..(p - 1) /\ a \div p \in Int OBVIOUS
<1>2. PICK q \in Int : q = a \div p BY <1>1
<1>3. PICK r \in 0..(p - 1) : r = a % p BY <1>1
<1>4. a = p * q + r BY <1>2, <1>3
<1> QED BY <1>3, <1>4

\* The only small multiple of p is 0.
LEMMA SmallMultiple ==
    ASSUME NEW p \in Nat \ {0}, NEW d \in Int, NEW e \in Int, e = p * d,
           e < p, -p < e
    PROVE  d = 0
<1>1. CASE d >= 1
  <2>1. p * d >= p BY <1>1
  <2> QED BY <2>1
<1>2. CASE d <= -1
  <2>1. p * d <= -p BY <1>2
  <2> QED BY <2>1
<1> QED BY <1>1, <1>2

\* The remainder does not see a multiple of the modulus.
LEMMA RemainderShift ==
    ASSUME NEW p \in Nat \ {0}, NEW a \in Int, NEW z \in Int
    PROVE  (a + p * z) % p = a % p
<1>0. p * z \in Int /\ a + p * z \in Int OBVIOUS
<1>1. PICK q \in Int, b \in 0..(p - 1) : b = a % p /\ a = p * q + b
  BY Quotient
<1>2. PICK t \in Int, d \in 0..(p - 1) :
         d = (a + p * z) % p /\ a + p * z = p * t + d
  BY <1>0, Quotient
<1>3. d - b = p * (q + z - t) BY <1>1, <1>2
<1>4. q + z - t = 0 BY <1>3, SmallMultiple
<1>5. d = b BY <1>3, <1>4
<1> QED BY <1>1, <1>2, <1>5

\* port_addr as an unsigned number of an int's width.
LEMMA StoredPortType ==
    ASSUME NEW n \in Nat
    PROVE  StoredPort(n) \in 0..(INT_MODULUS - 1)
<1>1. INT_MODULUS \in Nat \ {0} /\ LONG_MAX \in Nat BY WidthAssumption
<1>2. Atoi(n) \in Int BY <1>1 DEF Atoi
<1> QED BY <1>1, <1>2 DEF StoredPort

\* Neither the sign of the int nor its conversion to uint32_t touches the low
\* 16 bits.
LEMMA LowBits ==
    ASSUME NEW n \in Nat, n <= LONG_MAX
    PROVE  StoredPort(n) % PORT_MODULUS = n % PORT_MODULUS
<1> DEFINE M == INT_MODULUS
           P == PORT_MODULUS
           half == M \div 2
<1>1. M \in Nat \ {0} /\ P \in Nat \ {0} /\ M % P = 0 BY WidthAssumption
<1>2. half \in Int /\ n + half \in Int BY <1>1
<1>3. Atoi(n) = ((n + half) % M) - half /\ StoredPort(n) = Atoi(n) % M
  BY WidthAssumption DEF Atoi, StoredPort
<1> HIDE DEF M, P, half
<1>4. PICK m \in Int : M = P * m
  <2>0. M \in Int /\ P \in Nat \ {0} BY <1>1
  <2>1. PICK m \in Int, r \in 0..(P - 1) : r = M % P /\ M = P * m + r
    BY <2>0, Quotient, Zenon
  <2> QED BY <1>1, <2>1
<1>5. PICK q \in Int, r \in 0..(M - 1) :
         r = (n + half) % M /\ n + half = M * q + r
  BY <1>1, <1>2, Quotient
<1>6. Atoi(n) = r - half /\ n + half = M * q + r BY <1>3, <1>5
<1> HIDE <1>3, <1>5
<1>7. Atoi(n) \in Int /\ Atoi(n) = n - M * q BY <1>1, <1>2, <1>6
<1>8. PICK t \in Int, s \in 0..(M - 1) : s = Atoi(n) % M /\ Atoi(n) = M * t + s
  BY <1>1, <1>7, Quotient
<1>9. StoredPort(n) = s BY <1>3, <1>8
<1> DEFINE z == -(m * (q + t))
<1>10. s = n - M * q - M * t BY <1>1, <1>7, <1>8
<1>11. n - (P * m) * q - (P * m) * t = n + P * z BY <1>1
<1>12. s = n + P * z BY <1>4, <1>10, <1>11
<1>13. z \in Int /\ n \in Int /\ P \in Nat \ {0} BY <1>1
<1> HIDE DEF z
<1>14. (n + P * z) % P = n % P BY <1>13, RemainderShift, Zenon
<1>15. StoredPort(n) % P = n % P BY <1>9, <1>12, <1>14, Zenon
<1> QED BY <1>15 DEF P

-----------------------------------------------------------------------------
(* The words of the command line.                                           *)

\* IsOption is well defined: each word is an option or not by the word before.
LEMMA IsOptionDef ==
    ASSUME argv \in Seq(Words)
    PROVE  IsOption = [k \in 0..Len(argv) |->
                          /\ k > 0 /\ argv[k] \in Dashed
                          /\ ~(/\ IsOption[k - 1]
                               /\ argv[k - 1] \in Options \ {"-v"})]
<1> DEFINE Rule(g, k) == /\ k > 0 /\ argv[k] \in Dashed
                         /\ ~(g[k - 1] /\ argv[k - 1] \in Options \ {"-v"})
           Reads(g, n) == g = [k \in 0..n |-> Rule(g, k)]
           S == {n \in Nat : \E g : Reads(g, n)}
<1>1. 0 \in S
  <2> DEFINE g == [k \in 0..0 |-> FALSE]
  <2>1. \A k \in 0..0 : Rule(g, k) = FALSE OBVIOUS
  <2>2. g = [k \in 0..0 |-> Rule(g, k)] BY <2>1
  <2> QED BY <2>2
<1>2. ASSUME NEW n \in S PROVE n + 1 \in S
  <2>1. PICK g : Reads(g, n) BY <1>2
  <2>2. n \in Nat BY <1>2
  <2> DEFINE h == [k \in 0..(n + 1) |-> IF k = n + 1 THEN Rule(g, k) ELSE g[k]]
  <2>3. ASSUME NEW k \in 0..(n + 1) PROVE h[k] = Rule(h, k)
    <3>1. CASE k = n + 1 BY <2>2, <3>1
    <3>2. CASE k # n + 1
      <4>1. k \in 0..n /\ h[k] = g[k] BY <2>2, <3>2
      <4>2. g[k] = Rule(g, k) BY <2>1, <4>1
      <4>3. k > 0 => k - 1 \in 0..(n + 1) /\ k - 1 # n + 1 BY <2>2, <4>1
      <4>4. k > 0 => h[k - 1] = g[k - 1] BY <4>3
      <4> QED BY <4>1, <4>2, <4>4
    <3> QED BY <3>1, <3>2
  <2>4. h = [k \in 0..(n + 1) |-> Rule(h, k)] BY <2>3
  <2>5. Reads(h, n + 1) BY <2>4
  <2> HIDE DEF Reads, h
  <2> QED BY <2>2, <2>5
<1>3. S \in SUBSET Nat OBVIOUS
<1>4. Len(argv) \in Nat OBVIOUS
<1>5. Len(argv) \in S
  <2> HIDE DEF S
  <2> QED BY <1>1, <1>2, <1>3, <1>4, SetInduction
<1>6. \E g : Reads(g, Len(argv)) BY <1>5
<1>7. IsOption = CHOOSE g : Reads(g, Len(argv)) BY Zenon DEF IsOption
<1> HIDE DEF Reads
<1>8. Reads(IsOption, Len(argv)) BY <1>6, <1>7, Zenon
<1> QED BY <1>8 DEF Reads

\* A word is an option unless the word before takes it.
LEMMA WordRead ==
    ASSUME argv \in Seq(Words), NEW k \in 1..Len(argv)
    PROVE  IsOption[k] <=> argv[k] \in Dashed /\ ~TakesNext(k - 1)
<1>1. k \in 0..Len(argv) /\ k - 1 \in 0..Len(argv) /\ 0 \in 0..Len(argv)
  OBVIOUS
<1>2. IsOption[k] = (/\ k > 0 /\ argv[k] \in Dashed
                     /\ ~(IsOption[k - 1] /\ argv[k - 1] \in Options \ {"-v"}))
  BY <1>1, IsOptionDef, Zenon
<1>3. IsOption[0] = FALSE
  <2>1. IsOption[0] = (/\ 0 > 0 /\ argv[0] \in Dashed
                       /\ ~(/\ IsOption[0 - 1]
                            /\ argv[0 - 1] \in Options \ {"-v"}))
    BY <1>1, IsOptionDef, Zenon
  <2> QED BY <2>1
<1> QED BY <1>2, <1>3 DEF TakesNext

\* The meaning of the line does not change.
LEMMA LineKept ==
    ASSUME argv' = argv
    PROVE  /\ IsOption' = IsOption
           /\ \A W : Places(W)' = Places(W)
           /\ \A k : TakesNext(k)' = TakesNext(k)
<1>1. IsOption' = IsOption BY DEF IsOption
<1> QED BY <1>1 DEF Places, TakesNext

\* No option of W is read in this step; word i is, and is the last so far.
StillRead(W) ==
    /\ Seen(W)' = Seen(W)
    /\ \A k : LastSeen(W, k)' = LastSeen(W, k)
NewlyRead(W) ==
    /\ Seen(W)' # {}
    /\ \A k : LastSeen(W, k)' <=> k = i

\* Nothing is read.
LEMMA NothingRead ==
    ASSUME argv' = argv, i' = i
    PROVE  \A W : StillRead(W)
BY LineKept DEF Seen, LastSeen, StillRead

\* A word that is no option is passed over.
LEMMA WordSkipped ==
    ASSUME TypeOK, IndexInv, pc = "setFlags", pc' = pc, argv' = argv,
           i <= Len(argv), argv[i] \notin Dashed, i' = i + 1
    PROVE  IndexInv' /\ \A W : StillRead(W)
<1>0. argv \in Seq(Words) /\ i \in 1..Len(argv) BY DEF TypeOK, IndexInv
<1>1. ~IsOption[i] BY <1>0, WordRead
<1>2. ASSUME NEW W PROVE Seen(W)' = Seen(W)
  <2>1. i \notin Places(W) BY <1>1 DEF Places
  <2>2. \A k \in Places(W) : k < i + 1 <=> k < i \/ k = i
    BY <1>0 DEF Places
  <2> QED BY <2>1, <2>2, LineKept DEF Seen
<1>3. ~TakesNext(i) BY <1>1 DEF TakesNext
<1>4. IndexInv'
  BY <1>0, <1>3, LineKept DEF IndexInv, Reading
<1> QED BY <1>2, <1>4 DEF LastSeen, StillRead

\* An option is read, with its argument unless it is -v.
LEMMA OptionRead ==
    ASSUME TypeOK, IndexInv, pc = "setFlags", pc' = pc, argv' = argv,
           i <= Len(argv), argv[i] \in Options,
           \/ argv[i] = "-v" /\ i' = i + 1
           \/ argv[i] # "-v" /\ i < Len(argv) /\ i' = i + 2
    PROVE  /\ IndexInv'
           /\ \A W : IF argv[i] \in W THEN NewlyRead(W) ELSE StillRead(W)
<1>0. argv \in Seq(Words) /\ i \in 1..Len(argv) BY DEF TypeOK, IndexInv
<1>1. IsOption[i] /\ i > 0
  BY <1>0, WordRead, WordsAssumption DEF IndexInv, Reading
<1>2. i' = i + 2 => i + 1 \in 1..Len(argv) /\ ~IsOption[i + 1]
  <2>1. SUFFICES ASSUME i' = i + 2
                 PROVE  i + 1 \in 1..Len(argv) /\ ~IsOption[i + 1]
    OBVIOUS
  <2>2. argv[i] # "-v" /\ i + 1 \in 1..Len(argv) BY <1>0, <2>1
  <2>3. TakesNext(i) BY <1>1, <2>2 DEF TakesNext
  <2>4. (i + 1) - 1 = i BY <1>0
  <2> QED BY <1>0, <2>2, <2>3, <2>4, WordRead
<1>3. ASSUME NEW W
      PROVE  Seen(W)' = Seen(W) \cup (IF argv[i] \in W THEN {i} ELSE {})
  <2>1. i \in Places(W) <=> argv[i] \in W BY <1>0, <1>1 DEF Places
  <2>2. i' = i + 2 => i + 1 \notin Places(W) BY <1>2 DEF Places
  <2>3. \A k \in Places(W) : k < i' <=> k < i \/ k = i
    BY <1>0, <2>2 DEF Places
  <2> QED BY <2>1, <2>3, LineKept DEF Seen
<1>4. IndexInv'
  <2>1. ~TakesNext(i' - 1)
    <3>1. CASE argv[i] = "-v" BY <1>0, <3>1 DEF TakesNext
    <3>2. CASE argv[i] # "-v"
      <4>1. i' = i + 2 /\ i' - 1 = i + 1 BY <1>0, <3>2
      <4> QED BY <1>2, <4>1 DEF TakesNext
    <3> QED BY <3>1, <3>2
  <2>2. i' \in 1..(Len(argv) + 1) BY <1>0
  <2> QED BY <2>1, <2>2, LineKept DEF IndexInv, Reading
<1>5. ASSUME NEW W
      PROVE  IF argv[i] \in W THEN NewlyRead(W) ELSE StillRead(W)
  <2>1. CASE argv[i] \in W
    <3>1. Seen(W)' = Seen(W) \cup {i} BY <1>3, <2>1
    <3>2. \A j \in Seen(W) : j \in Nat /\ j < i BY DEF Seen, Places
    <3>3. Seen(W)' # {} BY <3>1
    <3>4. ASSUME NEW k, k = i PROVE LastSeen(W, k)'
      BY <1>0, <3>1, <3>2, <3>4 DEF LastSeen
    <3>5. ASSUME NEW k, LastSeen(W, k)' PROVE k = i
      <4>1. k \in Seen(W) \cup {i} /\ i <= k BY <3>1, <3>5 DEF LastSeen
      <4>2. ~(k \in Nat /\ k < i) BY <1>0, <4>1
      <4> QED BY <3>2, <4>1, <4>2
    <3>6. \A k : LastSeen(W, k)' <=> k = i BY <3>4, <3>5, Zenon
    <3> QED BY <2>1, <3>3, <3>6, Zenon DEF NewlyRead
  <2>2. CASE argv[i] \notin W
    <3>1. Seen(W)' = Seen(W) BY <1>3, <2>2
    <3> QED BY <2>2, <3>1 DEF LastSeen, StillRead
  <2> QED BY <2>1, <2>2
<1> QED BY <1>4, <1>5

-----------------------------------------------------------------------------
(* Types.                                                                   *)

LEMMA PortType == DEFAULT_PORT \in 0..(INT_MODULUS - 1)
<1> DEFINE M == INT_MODULUS
           P == PORT_MODULUS
<1>1. M \in Nat \ {0} /\ P \in Nat \ {0} /\ M % P = 0
  BY WidthAssumption
<1>2. DEFAULT_PORT \in Nat /\ DEFAULT_PORT < P BY WidthAssumption
<1> HIDE DEF M, P
<1>3. M \in Int BY <1>1
<1>4. PICK q \in Int, r \in 0..(P - 1) : r = M % P /\ M = P * q + r
  BY <1>1, <1>3, Quotient
<1>5. M = P * q BY <1>1, <1>4
<1>6. q >= 1
  <2>1. SUFFICES ASSUME q <= 0 PROVE FALSE BY <1>4
  <2>2. P * q <= 0 BY <1>1, <2>1
  <2> QED BY <1>1, <1>5, <2>2
<1>7. P * q >= P BY <1>1, <1>6
<1>8. DEFAULT_PORT <= M - 1 BY <1>1, <1>2, <1>5, <1>7
<1> QED BY <1>2, <1>8 DEF M

LEMMA InitTypeOK == Init => TypeOK
<1> SUFFICES ASSUME Init PROVE TypeOK OBVIOUS
<1> USE DEF Init
<1>1. argv \in Seq(Words)
  <2>1. CommandLines \subseteq Seq(Words) BY WordsAssumption
  <2> QED BY <2>1
<1>2. NoSocket \in Socket BY DEF NoSocket, Socket
<1>3. sock \in [Families -> Socket] BY <1>2
<1>4. /\ listener \in [Families -> BOOLEAN]
      /\ bind_addr \in [Families -> Words \cup {"NULL"}]
  OBVIOUS
<1>5. slots \in Seq(Families) OBVIOUS
<1> QED BY <1>1, <1>3, <1>4, <1>5, PortType DEF TypeOK, Stages, LogStream

\* What a turn of the loop over argv stores has its type.
LEMMA SetFlagsTypeOK == TypeOK /\ IndexInv /\ SetFlagsStep => TypeOK'
<1> SUFFICES ASSUME TypeOK, IndexInv, SetFlagsStep PROVE TypeOK'
  OBVIOUS
<1> USE DEF settings, log, network, sig, environment
<1>0. i \in Nat /\ i + 1 \in Nat /\ i + 2 \in Nat BY DEF TypeOK
<1>1. Reject => TypeOK' BY DEF Reject, TypeOK, Stages
<1>2. HasArgument => Argument \in Words
  <2>1. i < Len(argv) => i + 1 \in 1..Len(argv) BY DEF TypeOK, IndexInv
  <2> QED BY <2>1 DEF HasArgument, Argument, TypeOK
<1>3. CASE SkipWord BY <1>0, <1>3 DEF SkipWord, TypeOK
<1>4. CASE FlagC
  BY <1>0, <1>1, <1>2, <1>4 DEF FlagC, TypeOK, Flags
<1>5. CASE FlagV BY <1>0, <1>5 DEF FlagV, TypeOK, Flags, LogStream
<1>6. ASSUME NEW f \in Families, NEW o, NEW b \in Flags, FlagBind(f, o, b)
      PROVE  TypeOK'
  BY <1>0, <1>1, <1>2, <1>6 DEF FlagBind, TypeOK
<1>7. CASE FlagL
  <2>1. HasArgument => <<Argument, i>> \in LogStream
    BY <1>0, <1>2 DEF LogStream
  <2> QED BY <1>0, <1>1, <1>7, <2>1 DEF FlagL, LogsAfter, TypeOK, Flags
<1>8. CASE FlagP
  <2>1. checkPortNumber(Argument) =>
           StoredPort(Number[Argument]) \in 0..(INT_MODULUS - 1)
    BY StoredPortType, WordsAssumption DEF checkPortNumber
  <2> QED BY <1>0, <1>1, <1>8, <2>1 DEF FlagP, TypeOK
<1>9. CASE FlagUnknown BY <1>1, <1>9 DEF FlagUnknown
<1>10. CASE FlagsDone BY <1>10 DEF FlagsDone, TypeOK, Stages
<1> QED BY <1>3, <1>4, <1>5, <1>6, <1>7, <1>8, <1>9, <1>10
        DEF SetFlagsStep, Families, Flags

\* The options read so far have a last one.
LEMMA LastSeenExists ==
    ASSUME TypeOK, NEW W, Seen(W) # {}
    PROVE  \E k : LastSeen(W, k)
<1>1. Len(argv) \in Nat /\ Seen(W) \in SUBSET (0..Len(argv))
  BY DEF TypeOK, Seen, Places
<1>2. Max(Seen(W)) \in Seen(W) /\ \A y \in Seen(W) : y <= Max(Seen(W))
  BY <1>1, GreatestMember
<1> QED BY <1>2 DEF LastSeen

\* The address that get_listener parses again is one that setFlags() accepted.
LEMMA StoredAddress ==
    ASSUME TypeOK, BindRead, NEW f \in Families, BindFlag(f) \in app_flags
    PROVE  bind_addr[f] \in Words /\ ValidAddress(f, bind_addr[f])
<1>1. PICK k : LastSeen({BindOption(f)}, k)
  BY LastSeenExists DEF BindRead, AddressRead
<1>2. ValidAddress(f, bind_addr[f]) BY <1>1 DEF BindRead, AddressRead
<1> QED BY <1>2, WordsAssumption DEF ValidAddress

\* A socket keeps its type in get_listener.
LEMMA GetListenerTypeOK ==
    ASSUME TypeOK, BindRead, NEW f \in Families,
           \/ SkipFamily(f) \/ OpenSocket(f) \/ BindSocket(f)
           \/ BindRefused(f) \/ ListenSocket(f) \/ ListenerFails(f)
    PROVE  TypeOK'
<1> USE DEF process, settings, log, sig
<1>1. /\ After(f) \in Stages /\ Binding(f) \in Stages
      /\ Listening(f) \in Stages /\ "failed" \in Stages
  BY DEF After, Binding, Listening, Stages
<1>2. sock[f] \in Socket /\ sock \in [Families -> Socket] BY DEF TypeOK
<1>3. Port \in Nat BY WidthAssumption DEF Port, TypeOK
<1>4. CASE SkipFamily(f) BY <1>1, <1>4 DEF SkipFamily, TypeOK
<1>5. CASE OpenSocket(f)
  <2>1. sock' \in [Families -> Socket]
    BY <1>2, <1>5 DEF OpenSocket, Socket
  <2> QED BY <1>1, <1>5, <2>1 DEF OpenSocket, TypeOK
<1>6. CASE BindSocket(f)
  <2> DEFINE a == IF BindFlag(f) \in app_flags THEN bind_addr[f] ELSE "ANY"
  <2>1. a \in Words \cup {"ANY"} BY StoredAddress
  <2> HIDE DEF a
  <2>2. sock' = [sock EXCEPT ![f].state = "bound", ![f].addr = a,
                             ![f].port = Port]
    BY <1>6 DEF BindSocket, a
  <2>3. sock' \in [Families -> Socket]
    BY <1>2, <1>3, <2>1, <2>2 DEF Socket
  <2> QED BY <1>1, <1>6, <2>3 DEF BindSocket, TypeOK
<1>7. CASE BindRefused(f) BY <1>1, <1>7 DEF BindRefused, TypeOK
<1>8. CASE ListenSocket(f)
  <2>1. sock' \in [Families -> Socket]
    BY <1>2, <1>8 DEF ListenSocket, Socket
  <2>2. listener' \in [Families -> BOOLEAN] BY <1>8 DEF ListenSocket, TypeOK
  <2> QED BY <1>1, <1>8, <2>1, <2>2 DEF ListenSocket, TypeOK
<1>9. CASE ListenerFails(f)
  <2>1. faults' \in Nat BY <1>9 DEF ListenerFails, SocketFails,
        BindFails, ListenFails, Exits, Fault, TypeOK
  <2> QED BY <1>1, <1>9, <2>1 DEF ListenerFails, SocketFails,
        BindFails, ListenFails, Exits, TypeOK
<1> QED BY <1>4, <1>5, <1>6, <1>7, <1>8, <1>9

LEMMA NextTypeOK == TypeOK /\ IndexInv /\ BindRead /\ [Next]_vars => TypeOK'
<1> SUFFICES ASSUME TypeOK, IndexInv, BindRead, [Next]_vars PROVE TypeOK'
  OBVIOUS
<1> USE DEF input, settings, log, network, sig
<1>1. CASE InstallHandlers BY <1>1 DEF InstallHandlers, TypeOK, Stages
<1>2. CASE SetFlagsStep BY <1>2, SetFlagsTypeOK
<1>3. CASE Daemonize BY <1>3 DEF Daemonize, TypeOK, Stages
<1>4. CASE LoadMagic BY <1>4 DEF LoadMagic, TypeOK, Stages, Resources
<1>5. CASE AllocateArrays
  BY <1>5 DEF AllocateArrays, TypeOK, Stages, Resources
<1>6. CASE GetListenerStep BY <1>6, GetListenerTypeOK DEF GetListenerStep
<1>7. CASE FillSlots
  <2>0. <<>> \in Seq(Families) /\ \A f \in Families : <<f>> \in Seq(Families)
    OBVIOUS
  <2>1. Slot("v4") \in Seq(Families) /\ Slot("v6") \in Seq(Families)
    BY <2>0 DEF Slot, Families
  <2>2. slots' \in Seq(Families) BY <1>7, <2>1 DEF FillSlots
  <2> QED BY <1>7, <2>2 DEF FillSlots, TypeOK, Stages
<1>8. CASE EnterLoop BY <1>8 DEF EnterLoop, TypeOK, Stages
<1>9. CASE Shutdown
  <2>1. NoSocket \in Socket BY DEF NoSocket, Socket
  <2>2. sock' \in [Families -> Socket] BY <1>9, <2>1 DEF Shutdown, TypeOK
  <2> QED BY <1>9, <2>2 DEF Shutdown, TypeOK, Stages
<1>10. CASE LeaveLoop BY <1>10 DEF LeaveLoop, TypeOK, Stages
<1>11. CASE SetupFails BY <1>11 DEF SetupFails, Fault, TypeOK, Stages
<1>12. CASE DaemonFails BY <1>12 DEF DaemonFails, Fault, TypeOK, Stages
<1>13. ASSUME NEW f \in Families, ListenerFails(f) PROVE TypeOK'
  BY <1>13, GetListenerTypeOK
<1>14. CASE Signal
  <2>1. signals' \in Nat BY <1>14 DEF Signal, TypeOK
  <2>2. pc' \in Stages /\ running' \in BOOLEAN
    BY <1>14, Zenon DEF Signal, TypeOK, Stages
  <2> QED BY <1>14, <2>1, <2>2 DEF Signal, TypeOK
<1>15. CASE UNCHANGED vars BY <1>15 DEF vars, TypeOK
<1> QED
  BY <1>1, <1>2, <1>3, <1>4, <1>5, <1>6, <1>7, <1>8, <1>9, <1>10, <1>11,
     <1>12, <1>13, <1>14, <1>15
     DEF Next, StartStep, FaultStep, Serves, Gone

-----------------------------------------------------------------------------
(* setFlags() reads the line.                                               *)

\* A setting stays right when no option for it is read.
LEMMA CgiKept ==
    ASSUME CgiRead, StillRead({"-c"}), argv' = argv, cgi_addr' = cgi_addr,
           "C_FLAG" \in app_flags' <=> "C_FLAG" \in app_flags
    PROVE  CgiRead'
BY DEF CgiRead, StillRead

LEMMA LogKept ==
    ASSUME LogRead, StillRead({"-v", "-l"}), argv' = argv, log_ptr' = log_ptr
    PROVE  LogRead'
BY DEF LogRead, StillRead

LEMMA AddressKept ==
    ASSUME NEW f \in Families, AddressRead(f), StillRead({BindOption(f)}),
           argv' = argv, bind_addr'[f] = bind_addr[f],
           BindFlag(f) \in app_flags' <=> BindFlag(f) \in app_flags
    PROVE  AddressRead(f)'
BY DEF AddressRead, StillRead

LEMMA PortKept ==
    ASSUME PortRead, StillRead({"-p"}), argv' = argv, port_addr' = port_addr
    PROVE  PortRead'
BY DEF PortRead, StillRead

\* A step that leaves the settings and the index alone.
Quiet == UNCHANGED <<argv, root, i, settings, log_ptr>>

LEMMA QuietRead == ReadInv /\ Quiet => ReadInv'
<1> SUFFICES ASSUME ReadInv, Quiet PROVE ReadInv' OBVIOUS
<1> USE DEF Quiet, settings
<1>1. \A W : StillRead(W) BY NothingRead
<1>2. CgiRead' /\ LogRead' /\ PortRead'
  BY <1>1, CgiKept, LogKept, PortKept DEF ReadInv
<1>3. \A f \in Families : AddressRead(f)'
  BY <1>1, AddressKept DEF ReadInv, BindRead
<1> QED BY <1>2, <1>3 DEF ReadInv, BindRead

LEMMA SetFlagsRead ==
    TypeOK /\ IndexInv /\ ReadInv /\ SetFlagsStep => ReadInv' /\ IndexInv'
<1> SUFFICES ASSUME TypeOK, IndexInv, ReadInv, SetFlagsStep
             PROVE  ReadInv' /\ IndexInv'
  OBVIOUS
<1> USE DEF settings, log, environment
<1>1. Reject => ReadInv' /\ IndexInv'
  <2>1. SUFFICES ASSUME Reject PROVE ReadInv' /\ IndexInv' OBVIOUS
  <2>2. Quiet BY <2>1 DEF Reject, Quiet
  <2>3. IndexInv' BY <2>1 DEF Reject, IndexInv, Reading
  <2> QED BY <2>2, <2>3, QuietRead
<1>2. CASE SkipWord
  <2>1. IndexInv' /\ \A W : StillRead(W) BY <1>2, WordSkipped DEF SkipWord
  <2>2. CgiRead' /\ LogRead' /\ PortRead'
    BY <1>2, <2>1, CgiKept, LogKept, PortKept DEF SkipWord, ReadInv
  <2>3. \A f \in Families : AddressRead(f)'
    BY <1>2, <2>1, AddressKept DEF SkipWord, ReadInv, BindRead
  <2> QED BY <2>1, <2>2, <2>3 DEF ReadInv, BindRead
<1>3. CASE FlagC
  <2>1. SUFFICES ASSUME ~Reject PROVE ReadInv' /\ IndexInv' BY <1>1
  <2>2. /\ argv[i] = "-c" /\ i <= Len(argv) /\ i < Len(argv) /\ i' = i + 2
        /\ pc = "setFlags" /\ UNCHANGED <<pc, argv, port_addr, bind_addr, log>>
        /\ app_flags' = app_flags \cup {"C_FLAG"} /\ cgi_addr' = argv[i + 1]
    BY <1>3, <2>1 DEF FlagC, At, HasArgument, Argument
  <2>3. /\ IndexInv'
        /\ \A W : IF argv[i] \in W THEN NewlyRead(W) ELSE StillRead(W)
    BY <2>2, OptionRead DEF Options
  <2>4. CgiRead' BY <2>2, <2>3 DEF CgiRead, NewlyRead
  <2>5. LogRead' /\ PortRead'
    BY <2>2, <2>3, LogKept, PortKept DEF ReadInv
  <2>6. \A f \in Families : AddressRead(f)'
    BY <2>2, <2>3, AddressKept DEF ReadInv, BindRead, BindOption, BindFlag
  <2> QED BY <2>3, <2>4, <2>5, <2>6 DEF ReadInv, BindRead
<1>4. CASE FlagV
  <2>2. /\ argv[i] = "-v" /\ i <= Len(argv) /\ i' = i + 1
        /\ pc = "setFlags"
        /\ UNCHANGED <<pc, argv, port_addr, bind_addr, cgi_addr>>
        /\ app_flags' = (app_flags \ {"L_FLAG"}) \cup {"V_FLAG"}
        /\ log_ptr' = Stdout
    BY <1>4 DEF FlagV, At
  <2>3. /\ IndexInv'
        /\ \A W : IF argv[i] \in W THEN NewlyRead(W) ELSE StillRead(W)
    BY <2>2, OptionRead DEF Options
  <2>4. LogRead' BY <2>2, <2>3 DEF LogRead, NewlyRead
  <2>5. CgiRead' /\ PortRead'
    BY <2>2, <2>3, CgiKept, PortKept DEF ReadInv
  <2>6. \A f \in Families : AddressRead(f)'
    BY <2>2, <2>3, AddressKept DEF ReadInv, BindRead, BindOption, BindFlag
  <2> QED BY <2>3, <2>4, <2>5, <2>6 DEF ReadInv, BindRead
<1>5. ASSUME NEW f \in Families, FlagBind(f, BindOption(f), BindFlag(f))
      PROVE  ReadInv' /\ IndexInv'
  <2>1. SUFFICES ASSUME ~Reject PROVE ReadInv' /\ IndexInv' BY <1>1
  <2>2. /\ argv[i] = BindOption(f) /\ i <= Len(argv)
        /\ i < Len(argv) /\ i' = i + 2 /\ ValidAddress(f, argv[i + 1])
        /\ pc = "setFlags" /\ UNCHANGED <<pc, argv, port_addr, cgi_addr, log>>
        /\ app_flags' = app_flags \cup {BindFlag(f)}
        /\ bind_addr' = [bind_addr EXCEPT ![f] = argv[i + 1]]
    BY <1>5, <2>1 DEF FlagBind, At, HasArgument, Argument
  <2>3. /\ IndexInv'
        /\ \A W : IF argv[i] \in W THEN NewlyRead(W) ELSE StillRead(W)
    BY <2>2, OptionRead DEF Options, BindOption
  <2>4. AddressRead(f)'
    BY <2>2, <2>3 DEF AddressRead, NewlyRead, TypeOK
  <2>5. CgiRead' /\ LogRead' /\ PortRead'
    BY <2>2, <2>3, CgiKept, LogKept, PortKept
       DEF ReadInv, BindOption, BindFlag
  <2>6. ASSUME NEW g \in Families \ {f} PROVE AddressRead(g)'
    <3>1. BindOption(g) # BindOption(f) /\ BindFlag(g) # BindFlag(f)
      BY DEF BindOption, BindFlag, Families
    <3>2. bind_addr'[g] = bind_addr[g] BY <2>2 DEF TypeOK
    <3> QED BY <2>2, <2>3, <3>1, <3>2, AddressKept DEF ReadInv, BindRead
  <2> QED BY <2>3, <2>4, <2>5, <2>6 DEF ReadInv, BindRead
<1>6. CASE FlagL
  <2>1. SUFFICES ASSUME ~Reject PROVE ReadInv' /\ IndexInv' BY <1>1
  <2>2. /\ argv[i] = "-l" /\ i <= Len(argv) /\ i < Len(argv) /\ i' = i + 2
        /\ pc = "setFlags"
        /\ UNCHANGED <<pc, argv, port_addr, bind_addr, cgi_addr>>
        /\ app_flags' = (app_flags \ {"V_FLAG"}) \cup {"L_FLAG"}
        /\ log_ptr' = <<argv[i + 1], i>>
    BY <1>6, <2>1 DEF FlagL, At, HasArgument, Argument
  <2>3. /\ IndexInv'
        /\ \A W : IF argv[i] \in W THEN NewlyRead(W) ELSE StillRead(W)
    BY <2>2, OptionRead DEF Options
  <2>4. LogRead' BY <2>2, <2>3 DEF LogRead, NewlyRead
  <2>5. CgiRead' /\ PortRead'
    BY <2>2, <2>3, CgiKept, PortKept DEF ReadInv
  <2>6. \A f \in Families : AddressRead(f)'
    BY <2>2, <2>3, AddressKept DEF ReadInv, BindRead, BindOption, BindFlag
  <2> QED BY <2>3, <2>4, <2>5, <2>6 DEF ReadInv, BindRead
<1>7. CASE FlagP
  <2>1. SUFFICES ASSUME ~Reject PROVE ReadInv' /\ IndexInv' BY <1>1
  <2>2. /\ argv[i] = "-p" /\ i <= Len(argv) /\ i < Len(argv) /\ i' = i + 2
        /\ pc = "setFlags"
        /\ UNCHANGED <<pc, argv, app_flags, bind_addr, cgi_addr, log>>
        /\ argv[i + 1] \in DOMAIN Number
        /\ port_addr' = StoredPort(Number[argv[i + 1]])
    BY <1>7, <2>1 DEF FlagP, At, HasArgument, Argument, checkPortNumber
  <2>3. /\ IndexInv'
        /\ \A W : IF argv[i] \in W THEN NewlyRead(W) ELSE StillRead(W)
    BY <2>2, OptionRead DEF Options
  <2>4. PortRead' BY <2>2, <2>3 DEF PortRead, NewlyRead
  <2>5. CgiRead' /\ LogRead'
    BY <2>2, <2>3, CgiKept, LogKept DEF ReadInv
  <2>6. \A f \in Families : AddressRead(f)'
    BY <2>2, <2>3, AddressKept DEF ReadInv, BindRead, BindOption, BindFlag
  <2> QED BY <2>3, <2>4, <2>5, <2>6 DEF ReadInv, BindRead
<1>8. CASE FlagUnknown BY <1>1, <1>8 DEF FlagUnknown
<1>9. CASE FlagsDone
  <2>1. Quiet BY <1>9 DEF FlagsDone, Quiet
  <2>2. IndexInv' BY <1>9 DEF FlagsDone, IndexInv, Reading, TypeOK
  <2> QED BY <2>1, <2>2, QuietRead
<1> QED BY <1>2, <1>3, <1>4, <1>5, <1>6, <1>7, <1>8, <1>9
        DEF SetFlagsStep, Families, BindOption, BindFlag

-----------------------------------------------------------------------------
(* The stages behind setFlags().                                            *)

\* Only setFlags() changes the settings, and main() moves in one direction.
LEMMA StepKinds ==
    ASSUME [Next]_vars, ~SetFlagsStep
    PROVE  /\ Quiet
           /\ \/ pc' = pc
              \/ pc' = "failed"
              \/ pc = "signals" /\ pc' = "setFlags"
              \/ /\ pc \notin Reading \cup {"failed", "exited"}
                 /\ pc' \notin Reading
<1> USE DEF input, settings, log, network, sig, Quiet, Reading
<1>1. CASE InstallHandlers BY <1>1 DEF InstallHandlers
<1>2. CASE Daemonize \/ LoadMagic \/ AllocateArrays
  BY <1>2 DEF Daemonize, LoadMagic, AllocateArrays
<1>3. CASE GetListenerStep \/ \E f \in Families : ListenerFails(f)
  BY <1>3 DEF GetListenerStep, SkipFamily, OpenSocket, BindSocket, BindRefused,
              ListenSocket, ListenerFails, SocketFails, BindFails,
              ListenFails, Exits, process, Families, After, Binding, Listening
<1>4. CASE FillSlots \/ EnterLoop \/ Shutdown \/ LeaveLoop
  BY <1>4 DEF FillSlots, EnterLoop, Shutdown, LeaveLoop
<1>5. CASE SetupFails \/ DaemonFails BY <1>5 DEF SetupFails, DaemonFails
<1>6. CASE Signal BY <1>6 DEF Signal
<1>7. CASE UNCHANGED vars BY <1>7 DEF vars
<1> QED BY <1>1, <1>2, <1>3, <1>4, <1>5, <1>6, <1>7
        DEF Next, StartStep, FaultStep, Serves, Gone

LEMMA NextRead ==
    TypeOK /\ IndexInv /\ ReadInv /\ [Next]_vars => ReadInv' /\ IndexInv'
<1> SUFFICES ASSUME TypeOK, IndexInv, ReadInv, [Next]_vars, ~SetFlagsStep
             PROVE  ReadInv' /\ IndexInv'
  BY SetFlagsRead
<1>1. ReadInv' BY StepKinds, QuietRead
<1>2. UNCHANGED <<argv, i>> BY StepKinds DEF Quiet
<1>3. \A k : TakesNext(k)' = TakesNext(k) BY <1>2, LineKept
<1>4. IndexInv' BY <1>2, <1>3, StepKinds DEF IndexInv, Reading
<1> QED BY <1>1, <1>4

\* The log changes with -v, with -l and at the end.
LEMMA NextLogInv == TypeOK /\ IndexInv /\ LogInv /\ [Next]_vars => LogInv'
<1> SUFFICES ASSUME TypeOK, IndexInv, LogInv, [Next]_vars PROVE LogInv'
  OBVIOUS
<1> USE DEF input, settings, log, network, sig, environment
<1>1. Reject /\ pc = "setFlags" => LogInv' BY DEF Reject, LogInv
<1>2. CASE SkipWord \/ FlagUnknown \/ FlagsDone
  BY <1>1, <1>2 DEF SkipWord, FlagUnknown, FlagsDone, Reject, LogInv
<1>3. CASE FlagC \/ FlagP
  BY <1>1, <1>3 DEF FlagC, FlagP, At, LogInv
<1>4. CASE \/ FlagBind("v4", "-bind4", "B4_FLAG")
           \/ FlagBind("v6", "-bind6", "B6_FLAG")
  BY <1>1, <1>4 DEF FlagBind, At, LogInv
<1>5. CASE FlagV BY <1>5 DEF FlagV, At, LogInv, NullLog, Stdout
<1>6. CASE FlagL
  <2>1. <<Argument, i>> \notin {NullLog, Stdout}
    BY DEF IndexInv, NullLog, Stdout
  <2> QED BY <1>1, <1>6, <2>1 DEF FlagL, LogsAfter, At, LogInv
<1>7. CASE Shutdown BY <1>7 DEF Shutdown, LogInv
<1>8. CASE ~SetFlagsStep /\ ~Shutdown
  <2>1. Quiet BY <1>8, StepKinds
  <2>2. logs' = logs /\ (pc' = "exited" <=> pc = "exited")
    <3>1. CASE InstallHandlers \/ Daemonize \/ LoadMagic \/ AllocateArrays
      BY <3>1 DEF InstallHandlers, Daemonize, LoadMagic, AllocateArrays
    <3>2. CASE GetListenerStep \/ \E f \in Families : ListenerFails(f)
      BY <3>2 DEF GetListenerStep, SkipFamily, OpenSocket, BindSocket,
                  BindRefused, ListenSocket, ListenerFails, SocketFails,
                  BindFails, ListenFails, Exits, process, Families, After,
                  Binding, Listening
    <3>3. CASE FillSlots \/ EnterLoop \/ LeaveLoop
      BY <3>3 DEF FillSlots, EnterLoop, LeaveLoop
    <3>4. CASE SetupFails \/ DaemonFails \/ Signal
      BY <3>4 DEF SetupFails, DaemonFails, Signal, Stopped
    <3>5. CASE UNCHANGED vars BY <3>5 DEF vars
    <3> QED BY <1>8, <3>1, <3>2, <3>3, <3>4, <3>5
            DEF Next, StartStep, FaultStep, Serves, Gone
  <2> QED BY <2>1, <2>2 DEF Quiet, LogInv
<1> QED BY <1>2, <1>3, <1>4, <1>5, <1>6, <1>7, <1>8 DEF SetFlagsStep

-----------------------------------------------------------------------------
(* The listening sockets.                                                   *)

\* get_listener is called for one family at least.
LEMMA SomeFamily == Used("v4") \/ Used("v6")
BY DEF Used, BindFlag

\* What get_listener makes of a family depends on the settings alone.
LEMMA FamilyKept ==
    ASSUME Quiet
    PROVE  \A f \in Families :
              /\ Used(f)' = Used(f)
              /\ \A t : Made(f, t)' = Made(f, t)
              /\ sock'[f] = sock[f] /\ listener'[f] = listener[f] =>
                    Ready(f)' = Ready(f) /\ Unmade(f)' = Unmade(f)
<1>1. \A f \in Families :
         Used(f)' = Used(f) /\ \A t : Made(f, t)' = Made(f, t)
  BY DEF Quiet, settings, Used, Made, Port
<1> QED BY <1>1, Zenon DEF Ready, Unmade

\* main() moves before its listeners, or fails.
LEMMA SocketsUntouched ==
    ASSUME SocketInv, sock' = sock, listener' = listener,
           \/ pc \in Before /\ pc' \in Before
           \/ pc' = "failed"
           \/ pc' = pc /\ slots' = slots /\ Quiet
    PROVE  SocketInv'
<1>1. CASE pc \in Before /\ pc' \in Before
  BY <1>1 DEF SocketInv, Unmade, Before, Behind, Reading
<1>2. CASE pc' = "failed"
  BY <1>2 DEF SocketInv, Before, Behind, Reading
<1>3. CASE pc' = pc /\ slots' = slots /\ Quiet
  <2>1. \A f \in Families :
           /\ Used(f)' = Used(f)
           /\ \A t : Made(f, t)' = Made(f, t)
           /\ Ready(f)' = Ready(f) /\ Unmade(f)' = Unmade(f)
    BY <1>3, FamilyKept
  <2>2. Slot("v4")' = Slot("v4") /\ Slot("v6")' = Slot("v6") BY DEF Slot
  <2>3. "v4" \in Families /\ "v6" \in Families BY DEF Families
  <2> QED BY <1>3, <2>1, <2>2, <2>3 DEF SocketInv
<1> QED BY <1>1, <1>2, <1>3

\* One family's turn: its socket is made step by step, the other's not touched.
LEMMA GetListenerSocket ==
    ASSUME TypeOK, BindRead, NEW f \in Families,
           pc \in {f, Binding(f), Listening(f)},
           pc = f => Unmade(f),
           pc # f => Used(f) /\ ~listener[f],
           pc = Binding(f) => sock[f] = Made(f, "created"),
           pc = Listening(f) => sock[f] = Made(f, "bound"),
           SkipFamily(f) \/ OpenSocket(f) \/ BindSocket(f) \/ ListenSocket(f)
    PROVE  /\ pc' \in {Binding(f), Listening(f), After(f)}
           /\ pc' # After(f) => Used(f)' /\ ~listener'[f]
           /\ pc' = Binding(f) => sock'[f] = Made(f, "created")'
           /\ pc' = Listening(f) => sock'[f] = Made(f, "bound")'
           /\ pc' = After(f) => Ready(f)'
           /\ \A g \in Families \ {f} :
                 sock'[g] = sock[g] /\ listener'[g] = listener[g]
           /\ UNCHANGED slots
           /\ Quiet
<1> USE DEF process, settings, log, sig
<1>0. /\ f # Binding(f) /\ f # Listening(f) /\ Binding(f) # Listening(f)
      /\ After(f) \notin {f, Binding(f), Listening(f)}
  BY DEF Families, Binding, Listening, After
<1>1. Quiet /\ UNCHANGED slots
  BY DEF SkipFamily, OpenSocket, BindSocket, ListenSocket, Quiet
<1>2. Used(f)' = Used(f) /\ \A t : Made(f, t)' = Made(f, t) BY <1>1, FamilyKept
<1>3. sock \in [Families -> Socket] /\ listener \in [Families -> BOOLEAN]
  BY DEF TypeOK
<1>4. CASE SkipFamily(f)
  <2>1. pc = f /\ ~Used(f) /\ pc' = After(f) /\ UNCHANGED <<sock, listener>>
    BY <1>4 DEF SkipFamily
  <2> QED BY <1>0, <1>1, <1>2, <2>1 DEF Ready, Unmade
<1>5. CASE OpenSocket(f)
  <2>1. AddressParses(f) BY StoredAddress DEF AddressParses, ValidAddress
  <2>2. /\ pc = f /\ Used(f) /\ pc' = Binding(f) /\ UNCHANGED listener
        /\ sock' = [sock EXCEPT ![f].state = "created", ![f].nonblock = TRUE]
    BY <1>5, <2>1 DEF OpenSocket
  <2>3. sock[f] = NoSocket /\ ~listener[f] BY <2>2 DEF Unmade
  <2>4. sock'[f] = [NoSocket EXCEPT !.state = "created", !.nonblock = TRUE]
    BY <1>3, <2>2, <2>3
  <2>5. sock'[f] = [state |-> "created", nonblock |-> TRUE, addr |-> "ANY",
                    port |-> 0]
    BY <2>4 DEF NoSocket
  <2>6. sock'[f] = Made(f, "created") BY <2>5 DEF Made
  <2>7. \A g \in Families \ {f} : sock'[g] = sock[g] BY <1>3, <2>2
  <2> QED BY <1>0, <1>1, <1>2, <2>2, <2>3, <2>6, <2>7
<1>6. CASE BindSocket(f)
  <2> DEFINE a == IF BindFlag(f) \in app_flags THEN bind_addr[f] ELSE "ANY"
             s == Made(f, "created")
  <2>1. /\ pc = Binding(f) /\ pc' = Listening(f) /\ UNCHANGED listener
        /\ sock' = [sock EXCEPT ![f].state = "bound", ![f].addr = a,
                                ![f].port = Port]
    BY <1>6 DEF BindSocket
  <2>2. Made(f, "bound") = [state |-> "bound", nonblock |-> TRUE,
                            addr |-> a, port |-> Port]
    BY DEF Made
  <2>3. s.nonblock = TRUE BY DEF Made
  <2>4. s = [state |-> "created", nonblock |-> TRUE, addr |-> "ANY",
             port |-> 0]
    BY DEF Made
  <2>5. sock[f] = s /\ Used(f) /\ ~listener[f] BY <1>0, <2>1
  <2> HIDE DEF a, s
  <2>6. sock'[f] = [s EXCEPT !.state = "bound", !.addr = a, !.port = Port]
    BY <1>3, <2>1, <2>5
  <2>7. sock'[f] = Made(f, "bound") BY <2>2, <2>4, <2>6
  <2>8. \A g \in Families \ {f} : sock'[g] = sock[g] BY <1>3, <2>1
  <2> QED BY <1>0, <1>1, <1>2, <2>1, <2>5, <2>7, <2>8
<1>7. CASE ListenSocket(f)
  <2> DEFINE s == Made(f, "bound")
  <2>1. /\ pc = Listening(f) /\ pc' = After(f)
        /\ sock' = [sock EXCEPT ![f].state = "listening"]
        /\ listener' = [listener EXCEPT ![f] = TRUE]
    BY <1>7 DEF ListenSocket
  <2> DEFINE a == IF BindFlag(f) \in app_flags THEN bind_addr[f] ELSE "ANY"
  <2>2. Made(f, "listening") = [state |-> "listening", nonblock |-> TRUE,
                                addr |-> a, port |-> Port]
    BY DEF Made
  <2>3. s = [state |-> "bound", nonblock |-> TRUE, addr |-> a, port |-> Port]
    BY DEF Made
  <2>4. sock[f] = s /\ Used(f) BY <1>0, <2>1
  <2> HIDE DEF a, s
  <2>5. sock'[f] = [s EXCEPT !.state = "listening"] BY <1>3, <2>1, <2>4
  <2>6. sock'[f] = Made(f, "listening") BY <2>2, <2>3, <2>5
  <2>7. listener'[f] = TRUE BY <1>3, <2>1
  <2>8. \A g \in Families \ {f} :
           sock'[g] = sock[g] /\ listener'[g] = listener[g]
    BY <1>3, <2>1
  <2>9. Ready(f)' BY <1>2, <2>4, <2>6, <2>7 DEF Ready
  <2> QED BY <1>0, <1>1, <1>2, <2>1, <2>8, <2>9
<1> QED BY <1>4, <1>5, <1>6, <1>7

LEMMA NextSocketInv ==
    TypeOK /\ ReadInv /\ SocketInv /\ [Next]_vars => SocketInv'
<1> SUFFICES ASSUME TypeOK, ReadInv, SocketInv, [Next]_vars PROVE SocketInv'
  OBVIOUS
<1> USE DEF input, settings, log, network, sig, environment
<1>0. "v4" \in Families /\ "v6" \in Families BY DEF Families
<1>1. CASE SetFlagsStep
  <2>1. pc = "setFlags" /\ pc' \in {"setFlags", "daemon", "failed"}
    BY <1>1 DEF SetFlagsStep, SkipWord, FlagC, FlagV, FlagBind, FlagL, FlagP,
                FlagUnknown, FlagsDone, Reject, At
  <2>2. UNCHANGED <<sock, listener>>
    BY <1>1 DEF SetFlagsStep, SkipWord, FlagC, FlagV, FlagBind, FlagL, FlagP,
                FlagUnknown, FlagsDone, Reject
  <2> QED BY <2>1, <2>2, SocketsUntouched DEF Before, Reading
<1>2. CASE InstallHandlers \/ Daemonize \/ LoadMagic \/ AllocateArrays
           \/ DaemonFails
  BY <1>2, SocketsUntouched
     DEF InstallHandlers, Daemonize, LoadMagic, AllocateArrays, DaemonFails,
         Before, Reading
<1>3. CASE SetupFails BY <1>3, SocketsUntouched DEF SetupFails
<1>4. CASE \E f \in Families : BindRefused(f) \/ ListenerFails(f)
  BY <1>4, SocketsUntouched DEF BindRefused, ListenerFails, SocketFails,
        BindFails, ListenFails, Exits
<1>5. ASSUME SkipFamily("v4") \/ OpenSocket("v4") \/ BindSocket("v4")
             \/ ListenSocket("v4")
      PROVE  SocketInv'
  <2>1. /\ pc \in {"v4", "bind_v4", "listen_v4"} /\ Unmade("v6")
        /\ pc = "v4" => Unmade("v4")
        /\ pc # "v4" => Used("v4") /\ ~listener["v4"]
        /\ pc = "bind_v4" => sock["v4"] = Made("v4", "created")
        /\ pc = "listen_v4" => sock["v4"] = Made("v4", "bound")
    BY <1>5 DEF SkipFamily, OpenSocket, BindSocket, ListenSocket, Binding,
                Listening, SocketInv, Before
  <2>2. BindRead BY DEF ReadInv
  <2>3. /\ pc' \in {"bind_v4", "listen_v4", "v6"}
        /\ pc' # "v6" => Used("v4")' /\ ~listener'["v4"]
        /\ pc' = "bind_v4" => sock'["v4"] = Made("v4", "created")'
        /\ pc' = "listen_v4" => sock'["v4"] = Made("v4", "bound")'
        /\ pc' = "v6" => Ready("v4")'
        /\ \A g \in Families \ {"v4"} :
              sock'[g] = sock[g] /\ listener'[g] = listener[g]
        /\ Quiet
    BY <1>0, <1>5, <2>1, <2>2, GetListenerSocket DEF Binding, Listening, After
  <2>4. sock'["v6"] = sock["v6"] /\ listener'["v6"] = listener["v6"]
    BY <1>0, <2>3
  <2>5. Unmade("v6")' BY <2>1, <2>4 DEF Unmade
  <2> QED BY <2>3, <2>5 DEF SocketInv, Before, Reading, Behind
<1>6. ASSUME SkipFamily("v6") \/ OpenSocket("v6") \/ BindSocket("v6")
             \/ ListenSocket("v6")
      PROVE  SocketInv'
  <2>1. /\ pc \in {"v6", "bind_v6", "listen_v6"} /\ Ready("v4")
        /\ pc = "v6" => Unmade("v6")
        /\ pc # "v6" => Used("v6") /\ ~listener["v6"]
        /\ pc = "bind_v6" => sock["v6"] = Made("v6", "created")
        /\ pc = "listen_v6" => sock["v6"] = Made("v6", "bound")
    BY <1>6 DEF SkipFamily, OpenSocket, BindSocket, ListenSocket, Binding,
                Listening, SocketInv, Before
  <2>2. BindRead BY DEF ReadInv
  <2>3. /\ pc' \in {"bind_v6", "listen_v6", "slots"}
        /\ pc' # "slots" => Used("v6")' /\ ~listener'["v6"]
        /\ pc' = "bind_v6" => sock'["v6"] = Made("v6", "created")'
        /\ pc' = "listen_v6" => sock'["v6"] = Made("v6", "bound")'
        /\ pc' = "slots" => Ready("v6")'
        /\ \A g \in Families \ {"v6"} :
              sock'[g] = sock[g] /\ listener'[g] = listener[g]
        /\ Quiet
    BY <1>0, <1>6, <2>1, <2>2, GetListenerSocket DEF Binding, Listening, After
  <2>4. sock'["v4"] = sock["v4"] /\ listener'["v4"] = listener["v4"]
    BY <1>0, <2>3
  <2>5. Ready("v4")' BY <1>0, <2>1, <2>3, <2>4, FamilyKept
  <2> QED BY <2>3, <2>5 DEF SocketInv, Before, Reading, Behind
<1>7. CASE FillSlots \/ EnterLoop \/ LeaveLoop
  <2>1. /\ pc \in Behind /\ pc' \in Behind \cup {"failed"}
        /\ UNCHANGED <<sock, listener>> /\ Quiet
    BY <1>7 DEF FillSlots, EnterLoop, LeaveLoop, Behind, Quiet
  <2>2. Ready("v4") /\ Ready("v6") BY <2>1 DEF SocketInv
  <2>3. Ready("v4")' /\ Ready("v6")' BY <1>0, <2>1, <2>2, FamilyKept
  <2>4. Slot("v4")' = Slot("v4") /\ Slot("v6")' = Slot("v6")
    BY <2>1 DEF Slot
  <2>5. pc' \in {"loop", "serving"} => slots' = Slot("v4")' \o Slot("v6")'
    BY <1>7, <2>4 DEF FillSlots, EnterLoop, LeaveLoop, SocketInv
  <2> QED BY <2>1, <2>3, <2>5 DEF SocketInv, Before, Reading, Behind
<1>8. CASE Shutdown
  <2>1. Ready("v4") /\ Ready("v6") BY <1>8 DEF Shutdown, SocketInv, Behind
  <2>2. \A f \in Families : sock'[f] = NoSocket
    BY <1>8, <2>1 DEF Shutdown, ClosedBy, Ready, Families
  <2>3. pc' = "exited" BY <1>8 DEF Shutdown
  <2> QED BY <2>2, <2>3 DEF SocketInv, Before, Reading, Behind
<1>9. CASE Signal
  BY <1>9, SocketsUntouched DEF Signal, Quiet
<1>10. CASE UNCHANGED vars BY <1>10, SocketsUntouched DEF vars, Quiet
<1> QED BY <1>1, <1>2, <1>3, <1>4, <1>5, <1>6, <1>7, <1>8, <1>9, <1>10
        DEF Next, StartStep, FaultStep, Serves, Gone, GetListenerStep, Families

\* A detached process fails for a reason.
LEMMA NextSilentInv ==
    TypeOK /\ SocketInv /\ SilentInv /\ [Next]_vars => SilentInv'
<1> SUFFICES ASSUME TypeOK, SocketInv, SilentInv, [Next]_vars PROVE SilentInv'
  OBVIOUS
<1> USE DEF input, settings, log, network, sig, environment, process, Reading
<1>1. CASE SetFlagsStep
  <2>1. /\ pc = "setFlags" /\ pc' \in {"setFlags", "daemon", "failed"}
        /\ UNCHANGED detached
    BY <1>1 DEF SetFlagsStep, SkipWord, FlagC, FlagV, FlagBind, FlagL, FlagP,
                FlagUnknown, FlagsDone, Reject, At
  <2> QED BY <2>1 DEF SilentInv
<1>2. CASE InstallHandlers \/ Daemonize \/ LoadMagic \/ AllocateArrays
  BY <1>2 DEF InstallHandlers, Daemonize, LoadMagic, AllocateArrays, SilentInv
<1>3. CASE \/ SetupFails \/ DaemonFails
           \/ \E f \in Families : ListenerFails(f)
  <2>1. faults' > 0
    BY <1>3 DEF SetupFails, DaemonFails, ListenerFails, SocketFails,
          BindFails, ListenFails, Exits, Fault, TypeOK
  <2>2. pc' \in {"failed", "magic"} /\ UNCHANGED detached
    BY <1>3 DEF SetupFails, DaemonFails, ListenerFails, SocketFails,
          BindFails, ListenFails, Exits
  <2> QED BY <2>1, <2>2 DEF SilentInv
<1>4. ASSUME NEW f \in Families, BindRefused(f) PROVE SilentInv'
  <2>1. pc' = "failed" /\ ~PortAllowed BY <1>4 DEF BindRefused
  <2>2. ~PortAllowed' BY <1>4, <2>1 DEF BindRefused, PortAllowed, Port
  <2> QED BY <2>1, <2>2 DEF SilentInv
<1>5. ASSUME NEW f \in Families,
             \/ SkipFamily(f) \/ OpenSocket(f) \/ BindSocket(f)
             \/ ListenSocket(f)
      PROVE  SilentInv'
  BY <1>5 DEF SkipFamily, OpenSocket, BindSocket, ListenSocket, Families,
              After, Binding, Listening, SilentInv
<1>6. CASE FillSlots
  <2>1. Ready("v4") /\ Ready("v6") BY <1>6 DEF FillSlots, SocketInv, Behind
  <2>2. listener["v4"] \/ listener["v6"] BY <2>1, SomeFamily DEF Ready
  <2>3. Slot("v4") \o Slot("v6") # <<>>
    <3>1. CASE listener["v4"] /\ listener["v6"] BY <3>1 DEF Slot
    <3>2. CASE listener["v4"] /\ ~listener["v6"] BY <3>2 DEF Slot
    <3>3. CASE ~listener["v4"] /\ listener["v6"] BY <3>3 DEF Slot
    <3> QED BY <2>2, <3>1, <3>2, <3>3
  <2>4. pc' = "loop" BY <1>6, <2>3 DEF FillSlots
  <2> QED BY <2>4 DEF SilentInv
<1>7. CASE EnterLoop \/ LeaveLoop \/ Shutdown
  BY <1>7 DEF EnterLoop, LeaveLoop, Shutdown, SilentInv
<1>8. CASE Signal BY <1>8 DEF Signal, Stopped, SilentInv
<1>9. CASE UNCHANGED vars BY <1>9 DEF vars, SilentInv, PortAllowed, Port
<1> QED BY <1>1, <1>2, <1>3, <1>4, <1>5, <1>6, <1>7, <1>8, <1>9
        DEF Next, StartStep, FaultStep, Serves, Gone, GetListenerStep

-----------------------------------------------------------------------------
(* The invariant.                                                           *)

LEMMA InitSInv == Init => SInv
<1> SUFFICES ASSUME Init PROVE SInv OBVIOUS
<1>1. TypeOK BY InitTypeOK
<1>2. i = 1 /\ Len(argv) \in Nat BY <1>1 DEF Init, TypeOK
<1>3. \A W : Seen(W) = {} /\ \A k : ~LastSeen(W, k)
  BY <1>2 DEF Seen, LastSeen, Places
<1>4. IndexInv
  <2>1. ~TakesNext(i - 1) BY <1>2 DEF TakesNext
  <2> QED BY <1>2, <2>1 DEF IndexInv, Init, Reading
<1>5. ReadInv
  BY <1>3 DEF Init, ReadInv, CgiRead, LogRead, BindRead, AddressRead, PortRead
<1>6. LogInv BY DEF Init, LogInv, NullLog, Stdout
<1>7. SocketInv
  BY DEF Init, SocketInv, Before, Reading, Behind, Unmade, Families
<1>8. SilentInv BY DEF Init, SilentInv, Reading
<1> QED BY <1>1, <1>4, <1>5, <1>6, <1>7, <1>8 DEF SInv

LEMMA NextSInv == SInv /\ [Next]_vars => SInv'
<1> SUFFICES ASSUME SInv, [Next]_vars PROVE SInv' OBVIOUS
<1>1. TypeOK /\ IndexInv /\ ReadInv /\ LogInv /\ SocketInv /\ SilentInv
  BY DEF SInv
<1>2. TypeOK' BY <1>1, NextTypeOK DEF ReadInv
<1>3. IndexInv' /\ ReadInv' BY <1>1, NextRead
<1>4. LogInv' BY <1>1, NextLogInv
<1>5. SocketInv' BY <1>1, NextSocketInv
<1>6. SilentInv' BY <1>1, NextSilentInv
<1> QED BY <1>2, <1>3, <1>4, <1>5, <1>6 DEF SInv

LEMMA SInvariant == Spec => []SInv
BY InitSInv, NextSInv, PTL DEF Spec

\* Every global, stream, socket and array keeps its type through setFlags(),
\* get_listener and the shutdown.
THEOREM StartupTypeCorrect == Spec => []TypeOK
<1>1. SInv => TypeOK BY DEF SInv
<1> QED BY <1>1, SInvariant, PTL

\* Behind setFlags() nothing of the line is left to read.
LEMMA AllRead ==
    ASSUME SInv, pc \notin Reading \cup {"failed"}
    PROVE  \A W : /\ Seen(W) = Places(W)
                  /\ Places(W) # {} => LastSeen(W, Last(W))
<1>1. Len(argv) \in Nat /\ i = Len(argv) + 1
  BY DEF SInv, TypeOK, IndexInv
<1> SUFFICES ASSUME NEW W
             PROVE  /\ Seen(W) = Places(W)
                    /\ Places(W) # {} => LastSeen(W, Last(W))
  OBVIOUS
<1>2. Seen(W) = Places(W) BY <1>1 DEF Seen, Places
<1>3. Places(W) \in SUBSET (0..Len(argv)) BY <1>1 DEF Places
<1>4. Places(W) # {} =>
         Last(W) \in Places(W) /\ \A y \in Places(W) : y <= Last(W)
  BY <1>1, <1>3, GreatestMember DEF Last
<1> QED BY <1>2, <1>4 DEF LastSeen

\* The two listeners' settings as the line means them.
LEMMA AddressAsAsked ==
    ASSUME SInv, pc \notin Reading \cup {"failed"}, NEW f \in Families
    PROVE  /\ BindFlag(f) \in app_flags <=> Asked(f)
           /\ Asked(f) => bind_addr[f] = AskedAddress(f)
           /\ Used(f) <=> f \in AskedFamilies
<1>1. \A g \in Families : /\ BindFlag(g) \in app_flags <=> Asked(g)
                          /\ Asked(g) => bind_addr[g] = AskedAddress(g)
  <2> SUFFICES ASSUME NEW g \in Families
               PROVE  /\ BindFlag(g) \in app_flags <=> Asked(g)
                      /\ Asked(g) => bind_addr[g] = AskedAddress(g)
    OBVIOUS
  <2>1. AddressRead(g) BY DEF SInv, ReadInv, BindRead
  <2>2. Asked(g) <=> Places({BindOption(g)}) # {}
    BY DEF Asked, Given, BindOption
  <2>3. Asked(g) =>
           AskedAddress(g) = argv[Last({BindOption(g)}) + 1]
    BY DEF AskedAddress, BindOption
  <2>4. /\ Seen({BindOption(g)}) = Places({BindOption(g)})
        /\ Places({BindOption(g)}) # {} =>
              LastSeen({BindOption(g)}, Last({BindOption(g)}))
    BY AllRead
  <2> QED BY <2>1, <2>2, <2>3, <2>4 DEF AddressRead
<1>2. Used(f) <=> f \in AskedFamilies
  BY <1>1 DEF Used, AskedFamilies, BindFlag, Families
<1> QED BY <1>1, <1>2

\* setFlags() reads every command line as a whole: an option's argument is
\* never taken for an option and the last option of a kind counts, however long
\* the line and whichever words it has.
THEOREM SettingsMeanTheLine == Spec => []SettingsAsAsked
<1>1. SInv => SettingsAsAsked
  <2> SUFFICES ASSUME SInv, pc \notin {"signals", "setFlags", "failed"}
               PROVE  /\ "C_FLAG" \in app_flags <=> Given("-c")
                      /\ Given("-c") => cgi_addr = argv[Last({"-c"}) + 1]
                      /\ log_ptr = AskedLog
                      /\ \A f \in Families :
                            BindFlag(f) \in app_flags <=> Asked(f)
                      /\ AskedPort <= LONG_MAX =>
                            Port = AskedPort % PORT_MODULUS
    BY DEF SettingsAsAsked
  <2>1. pc \notin Reading \cup {"failed"} BY DEF Reading
  <2>2. ReadInv BY DEF SInv
  <2>3. /\ "C_FLAG" \in app_flags <=> Given("-c")
        /\ Given("-c") => cgi_addr = argv[Last({"-c"}) + 1]
    <3>1. /\ Seen({"-c"}) = Places({"-c"})
          /\ Places({"-c"}) # {} => LastSeen({"-c"}, Last({"-c"}))
      BY <2>1, AllRead
    <3> QED BY <2>2, <3>1 DEF ReadInv, CgiRead, Given
  <2>4. log_ptr = AskedLog
    <3> DEFINE W == {"-v", "-l"}
    <3>1. /\ Seen(W) = Places(W)
          /\ Places(W) # {} => LastSeen(W, Last(W))
      BY <2>1, AllRead
    <3>2. /\ Seen(W) = {} => log_ptr = NullLog
          /\ \A k : LastSeen(W, k) =>
                log_ptr = IF argv[k] = "-v" THEN Stdout ELSE <<argv[k + 1], k>>
      BY <2>2 DEF ReadInv, LogRead
    <3> QED BY <3>1, <3>2 DEF AskedLog
  <2>5. \A f \in Families : BindFlag(f) \in app_flags <=> Asked(f)
    BY <2>1, AddressAsAsked
  <2>6. AskedPort <= LONG_MAX => Port = AskedPort % PORT_MODULUS
    <3>1. /\ Seen({"-p"}) = Places({"-p"})
          /\ Places({"-p"}) # {} => LastSeen({"-p"}, Last({"-p"}))
      BY <2>1, AllRead
    <3>2. CASE Given("-p")
      <4> DEFINE w == argv[Last({"-p"}) + 1]
      <4>1. w \in DOMAIN Number /\ port_addr = StoredPort(Number[w])
        BY <2>2, <3>1, <3>2 DEF ReadInv, PortRead, Given
      <4>2. AskedPort = Number[w] BY <3>2 DEF AskedPort
      <4>3. Number[w] \in Nat BY <4>1, WordsAssumption
      <4> HIDE DEF w
      <4> QED BY <4>1, <4>2, <4>3, LowBits DEF Port
    <3>3. CASE ~Given("-p")
      BY <2>2, <3>1, <3>3 DEF ReadInv, PortRead, Given, AskedPort, Port
    <3> QED BY <3>2, <3>3
  <2> QED BY <2>3, <2>4, <2>5, <2>6
<1> QED BY <1>1, SInvariant, PTL

\* After any sequence of -v and -l the flags agree with log_ptr, and no log
\* file is open but the one log_ptr names.
THEOREM OneLogAlways == Spec => []OneLog
<1>1. SInv => OneLog BY DEF SInv, LogInv, OneLog, Stopped
<1> QED BY <1>1, SInvariant, PTL

\* When main() reaches its loop, get_listener_v4() and get_listener_v6() have
\* made the listeners the line asks for and no other.
THEOREM LoopFindsItsListeners == Spec => []ListenersAsAsked
<1>1. SInv => ListenersAsAsked
  <2> SUFFICES ASSUME SInv, pc \in {"loop", "serving"}
               PROVE  /\ {slots[k] : k \in DOMAIN slots} = AskedFamilies
                      /\ Len(slots) = Cardinality(AskedFamilies)
                      /\ \A f \in Families :
                            sock[f] = IF f \in AskedFamilies
                                      THEN [state |-> "listening",
                                            nonblock |-> TRUE,
                                            addr |-> AskedAddress(f),
                                            port |-> Port]
                                      ELSE NoSocket
    BY DEF ListenersAsAsked
  <2>1. pc \notin Reading \cup {"failed"} BY DEF Reading
  <2>2. \A f \in Families : /\ BindFlag(f) \in app_flags <=> Asked(f)
                            /\ Asked(f) => bind_addr[f] = AskedAddress(f)
                            /\ Used(f) <=> f \in AskedFamilies
    BY <2>1, AddressAsAsked
  <2>3. /\ \A f \in Families : Ready(f)
        /\ slots = Slot("v4") \o Slot("v6")
    BY DEF SInv, SocketInv, Behind, Families
  <2>4. \A f \in Families :
           sock[f] = IF f \in AskedFamilies
                     THEN [state |-> "listening", nonblock |-> TRUE,
                           addr |-> AskedAddress(f), port |-> Port]
                     ELSE NoSocket
    <3> SUFFICES ASSUME NEW f \in Families
                 PROVE  sock[f] = IF f \in AskedFamilies
                                  THEN [state |-> "listening",
                                        nonblock |-> TRUE,
                                        addr |-> AskedAddress(f),
                                        port |-> Port]
                                  ELSE NoSocket
      OBVIOUS
    <3> DEFINE a == IF BindFlag(f) \notin app_flags THEN "ANY" ELSE bind_addr[f]
    <3>1. Made(f, "listening") = [state |-> "listening", nonblock |-> TRUE,
                                  addr |-> a, port |-> Port]
      BY DEF Made
    <3>2. a = AskedAddress(f) BY <2>2 DEF AskedAddress
    <3> HIDE DEF a
    <3> QED BY <2>2, <2>3, <3>1, <3>2 DEF Ready
  <2>5. \A f \in Families : listener[f] <=> f \in AskedFamilies
    BY <2>2, <2>3 DEF Ready
  <2>6. AskedFamilies \subseteq {"v4", "v6"} /\ AskedFamilies # {}
    BY DEF AskedFamilies, Families
  <2>7. /\ Cardinality({"v4"}) = 1 /\ Cardinality({"v6"}) = 1
        /\ Cardinality({"v4", "v6"}) = 2
    <3>1. /\ IsFiniteSet({"v4"}) /\ Cardinality({"v4"}) = 1
          /\ Cardinality({"v6"}) = 1
      BY FS_Singleton
    <3>2. Cardinality({"v4"} \cup {"v6"}) = Cardinality({"v4"}) + 1
      BY <3>1, FS_AddElement
    <3>3. {"v4"} \cup {"v6"} = {"v4", "v6"} OBVIOUS
    <3> QED BY <3>1, <3>2, <3>3
  <2>8. CASE AskedFamilies = {"v4"}
    <3>0. Slot("v4") = <<"v4">> /\ Slot("v6") = <<>>
      BY <2>5, <2>8 DEF Slot, Families
    <3>1. Len(slots) = 1 /\ DOMAIN slots = 1..1 /\ slots[1] = "v4"
      BY <2>3, <3>0
    <3>2. {slots[k] : k \in DOMAIN slots} = {"v4"} BY <3>1
    <3> QED BY <2>4, <2>7, <2>8, <3>1, <3>2
  <2>9. CASE AskedFamilies = {"v6"}
    <3>0. Slot("v4") = <<>> /\ Slot("v6") = <<"v6">>
      BY <2>5, <2>9 DEF Slot, Families
    <3>1. Len(slots) = 1 /\ DOMAIN slots = 1..1 /\ slots[1] = "v6"
      BY <2>3, <3>0
    <3>2. {slots[k] : k \in DOMAIN slots} = {"v6"} BY <3>1
    <3> QED BY <2>4, <2>7, <2>9, <3>1, <3>2
  <2>10. CASE AskedFamilies = {"v4", "v6"}
    <3>0. Slot("v4") = <<"v4">> /\ Slot("v6") = <<"v6">>
      BY <2>5, <2>10 DEF Slot, Families
    <3>1. /\ Len(slots) = 2 /\ DOMAIN slots = 1..2
          /\ slots[1] = "v4" /\ slots[2] = "v6"
      BY <2>3, <3>0
    <3>2. {slots[k] : k \in DOMAIN slots} = {"v4", "v6"} BY <3>1
    <3> QED BY <2>4, <2>7, <2>10, <3>1, <3>2
  <2> QED BY <2>6, <2>8, <2>9, <2>10
<1> QED BY <1>1, SInvariant, PTL

\* Once daemon() has given up the terminal, no error in the command line is
\* left to be reported to it.
THEOREM NoSilentFailure == Spec => []SilentFailureHasCause
<1>1. SInv => SilentFailureHasCause
  BY DEF SInv, SilentInv, SilentFailureHasCause
<1> QED BY <1>1, SInvariant, PTL

\* Whenever main() returns, whatever signals came and whichever listeners were
\* asked for, its sockets, its log file and its arrays are gone.
THEOREM StopsClean == Spec => []CleanStop
<1>1. SInv => CleanStop
  BY DEF SInv, SocketInv, LogInv, SilentInv, CleanStop
<1> QED BY <1>1, SInvariant, PTL

=============================================================================
