-------------------------- MODULE MessageIdProofs --------------------------
(***************************************************************************)
(* What module MessageId promises for all widths, clocks and processes.    *)
(***************************************************************************)
EXTENDS MessageId, SequenceTheorems, TLAPS

\* A quotient and a remainder are determined by the number they make up.
LEMMA QuotientRemainder ==
    ASSUME NEW S \in Nat \ {0}, NEW a \in Nat, NEW c \in Nat,
           NEW b \in 0..(S - 1), NEW d \in 0..(S - 1),
           a * S + b = c * S + d
    PROVE  a = c /\ b = d
<1>1. ASSUME NEW x \in Nat, NEW y \in Nat, x < y PROVE x * S + S <= y * S
  <2>1. PICK k \in Nat : y = x + 1 + k
    <3>1. y - x - 1 \in Nat /\ y = x + 1 + (y - x - 1)
      BY <1>1
    <3>. QED
      BY <3>1
  <2>2. y * S = x * S + S + k * S
    BY <2>1
  <2>3. k * S \in Nat /\ x * S \in Nat
    OBVIOUS
  <2>. QED
    BY <2>2, <2>3
<1>2. a * S \in Nat /\ c * S \in Nat
  OBVIOUS
<1>3. ~(a < c)
  BY <1>1, <1>2
<1>4. ~(c < a)
  BY <1>1, <1>2
<1>. QED
  BY <1>2, <1>3, <1>4

LEMMA EncodeType ==
    ASSUME NEW r \in Nat, NEW p \in Nat, NEW s \in Nat
    PROVE  Encode(r, p, s) \in Nat
<1>1. p % PidSize \in Nat /\ s % SeqSize \in Nat
  BY MessageIdAssumption
<1>2. r * PidSize \in Nat
  BY MessageIdAssumption
<1>3. (r * PidSize) * SeqSize \in Nat /\ (p % PidSize) * SeqSize \in Nat
  BY <1>1, <1>2, MessageIdAssumption
<1>. QED
  BY <1>1, <1>3 DEF Encode

\* The three parts of an id do not overlap: they can be read off it.
LEMMA EncodeInjective ==
    ASSUME NEW r1 \in Nat, NEW p1 \in Nat, NEW s1 \in Nat,
           NEW r2 \in Nat, NEW p2 \in Nat, NEW s2 \in Nat,
           Encode(r1, p1, s1) = Encode(r2, p2, s2)
    PROVE  /\ r1 = r2
           /\ p1 % PidSize = p2 % PidSize
           /\ s1 % SeqSize = s2 % SeqSize
<1>. DEFINE a1 == r1 * PidSize + (p1 % PidSize)
            a2 == r2 * PidSize + (p2 % PidSize)
<1>1. /\ p1 % PidSize \in 0..(PidSize - 1) /\ p2 % PidSize \in 0..(PidSize - 1)
      /\ s1 % SeqSize \in 0..(SeqSize - 1) /\ s2 % SeqSize \in 0..(SeqSize - 1)
  BY MessageIdAssumption
<1>2. r1 * PidSize \in Nat /\ r2 * PidSize \in Nat
  BY MessageIdAssumption
<1>3. a1 \in Nat /\ a2 \in Nat
  BY <1>1, <1>2, MessageIdAssumption
<1>4. ASSUME NEW x \in Nat, NEW y \in Nat
      PROVE  x * SeqSize + y * SeqSize = (x + y) * SeqSize
  BY MessageIdAssumption
<1>5. /\ Encode(r1, p1, s1) = a1 * SeqSize + (s1 % SeqSize)
      /\ Encode(r2, p2, s2) = a2 * SeqSize + (s2 % SeqSize)
  <2>. DEFINE x1 == r1 * PidSize
              x2 == r2 * PidSize
              y1 == p1 % PidSize
              y2 == p2 % PidSize
  <2>1. x1 \in Nat /\ x2 \in Nat /\ y1 \in Nat /\ y2 \in Nat
    BY <1>1, <1>2, MessageIdAssumption
  <2>. HIDE DEF x1, x2, y1, y2
  <2>2. /\ x1 * SeqSize + y1 * SeqSize = (x1 + y1) * SeqSize
        /\ x2 * SeqSize + y2 * SeqSize = (x2 + y2) * SeqSize
    BY <1>4, <2>1
  <2>. QED
    BY <2>2 DEF Encode, x1, x2, y1, y2
<1>6. a1 = a2 /\ s1 % SeqSize = s2 % SeqSize
  <2>. DEFINE b1 == s1 % SeqSize
              b2 == s2 % SeqSize
  <2>1. a1 * SeqSize + b1 = a2 * SeqSize + b2
    BY <1>5
  <2>2. b1 \in 0..(SeqSize - 1) /\ b2 \in 0..(SeqSize - 1)
    BY <1>1
  <2>. HIDE DEF a1, a2, b1, b2
  <2>3. a1 = a2 /\ b1 = b2
    BY <1>3, <2>1, <2>2, QuotientRemainder, MessageIdAssumption
  <2>. QED
    BY <2>3 DEF b1, b2
<1>7. r1 = r2 /\ p1 % PidSize = p2 % PidSize
  BY <1>1, <1>6, QuotientRemainder, MessageIdAssumption
<1>. QED
  BY <1>6, <1>7

\* A later reading makes a greater id, whatever the process and its counter:
\* queryUnacked, which orders by id, orders by the senders' clocks.
THEOREM LaterIsGreater ==
    ASSUME NEW r1 \in Nat, NEW p1 \in Nat, NEW s1 \in Nat,
           NEW r2 \in Nat, NEW p2 \in Nat, NEW s2 \in Nat, r1 < r2
    PROVE  Encode(r1, p1, s1) < Encode(r2, p2, s2)
<1>. DEFINE P == PidSize
            S == SeqSize
            p == p1 % P
            s == s1 % S
<1>1. P \in Nat /\ S \in Nat /\ p \in 0..(P - 1) /\ s \in 0..(S - 1)
  BY MessageIdAssumption
<1>2. p2 % P \in Nat /\ s2 % S \in Nat
  BY MessageIdAssumption
<1>. HIDE DEF P, S, p, s
<1>3. PICK k \in Nat : r2 = r1 + 1 + k
  <2>1. r2 - r1 - 1 \in Nat /\ r2 = r1 + 1 + (r2 - r1 - 1)
    OBVIOUS
  <2>. QED
    BY <2>1
<1>4. PICK j \in Nat : P = p + 1 + j
  <2>1. P - p - 1 \in Nat /\ P = p + 1 + (P - p - 1)
    BY <1>1
  <2>. QED
    BY <2>1
<1>5. k * P \in Nat /\ r1 * P \in Nat /\ r2 * P \in Nat
  BY <1>1
<1>6. r2 * P = r1 * P + P + k * P
  BY <1>1, <1>3
<1>. DEFINE m == j + k * P
            R1 == r1 * P
            R2 == r2 * P
<1>7. m \in Nat /\ R1 \in Nat /\ R2 = R1 + p + 1 + m
  BY <1>1, <1>4, <1>5, <1>6
<1>. HIDE DEF m, R1, R2
<1>8. R2 * S = R1 * S + p * S + S + m * S
  BY <1>1, <1>7
<1>9. R1 * S \in Nat /\ p * S \in Nat /\ m * S \in Nat /\ (p2 % P) * S \in Nat
  BY <1>1, <1>2, <1>7
<1>10. R1 * S + p * S + s < R2 * S + (p2 % P) * S + (s2 % S)
  BY <1>1, <1>2, <1>8, <1>9
<1>. QED
  BY <1>10 DEF Encode, P, S, p, s, R1, R2

LEMMA CallType ==
    ASSUME IdTypeOK, NEW i \in DOMAIN calls
    PROVE  /\ calls[i].node \in Nodes /\ calls[i].num \in Nat
           /\ calls[i].now \in Nat /\ Pid[calls[i].node] \in Nat
           /\ calls[i].id \in Nat
<1>. DEFINE Call == [node : Nodes, num : Nat, now : Clock, id : Nat]
<1>1. calls \in Seq(Call) /\ i \in 1..Len(calls)
  BY DEF IdTypeOK
<1>2. calls[i] \in Call
  BY <1>1, ElementOfSeq
<1>. QED
  BY <1>2, MessageIdAssumption

\* The counter of a process never counts two calls alike.
LEMMA IdStep ==
    ASSUME IdInv, [IdNext]_idVars
    PROVE  IdInv'
<1>. USE DEF IdInv, IdTypeOK
<1>1. ASSUME NEW t \in Threads, ReadClock(t) PROVE IdInv'
  BY <1>1 DEF ReadClock
<1>2. ASSUME NEW t \in Threads, TakeSeq(t) PROVE IdInv'
  <2>. DEFINE n == NodeOf[t]
              call == [node |-> n, num |-> seq[n], now |-> now[t],
                       id |-> Encode(now[t], Pid[n], seq[n])]
  <2>1. n \in Nodes /\ now[t] \in Clock /\ now[t] \in Nat /\ Pid[n] \in Nat
    BY <1>2, EventLoopsAssumption, MessageIdAssumption DEF TakeSeq
  <2>2. seq[n] \in Nat /\ seq' = [seq EXCEPT ![n] = @ + 1]
    BY <1>2, <2>1 DEF TakeSeq
  <2>3. call \in [node : Nodes, num : Nat, now : Clock, id : Nat]
    BY <2>1, <2>2, EncodeType
  <2>4. calls' = Append(calls, call)
    BY <1>2 DEF TakeSeq
  <2>5. IdTypeOK'
    BY <1>2, <2>2, <2>3, <2>4 DEF TakeSeq
  <2>6. /\ DOMAIN calls' = DOMAIN calls \cup {Len(calls) + 1}
        /\ calls'[Len(calls) + 1] = call
        /\ \A i \in DOMAIN calls : calls'[i] = calls[i] /\ i # Len(calls) + 1
    BY SMTT(60), <2>3, <2>4
  <2>7. \A i \in DOMAIN calls :
           calls[i].node \in Nodes /\ calls[i].num \in Nat
    BY CallType
  <2>8. \A k \in Nodes : seq[k] \in Nat /\ seq'[k] \in Nat /\ seq[k] <= seq'[k]
    BY <2>1, <2>2
  <2>. HIDE DEF call
  <2>9. call.node = n /\ call.num = seq[n] /\ call.now = now[t]
          /\ call.id = Encode(now[t], Pid[n], seq[n])
    BY DEF call
  <2>10. \A i \in DOMAIN calls' :
            /\ calls'[i].id = Encode(calls'[i].now, Pid[calls'[i].node], calls'[i].num)
            /\ calls'[i].num < seq'[calls'[i].node]
    <3>1. ASSUME NEW i \in DOMAIN calls
          PROVE  /\ calls'[i].id = Encode(calls'[i].now, Pid[calls'[i].node], calls'[i].num)
                 /\ calls'[i].num < seq'[calls'[i].node]
      <4>1. /\ calls[i].id = Encode(calls[i].now, Pid[calls[i].node], calls[i].num)
            /\ calls[i].num < seq[calls[i].node]
        OBVIOUS
      <4>2. calls'[i] = calls[i]
        BY <2>6
      <4>3. seq[calls[i].node] \in Nat /\ seq'[calls[i].node] \in Nat
              /\ seq[calls[i].node] <= seq'[calls[i].node] /\ calls[i].num \in Nat
        BY <2>7, <2>8
      <4>. HIDE DEF IdInv
      <4>. QED
        BY <4>1, <4>2, <4>3
    <3>2. seq[n] < seq'[n]
      BY <2>1, <2>2
    <3>. QED
      BY <2>6, <2>9, <3>1, <3>2
  <2>11. \A i, j \in DOMAIN calls' :
            i # j /\ calls'[i].node = calls'[j].node => calls'[i].num # calls'[j].num
    <3>1. \A i \in DOMAIN calls : calls[i].node = n => calls[i].num # seq[n]
      BY <2>2, <2>7
    <3>2. \A i, j \in DOMAIN calls :
             i # j /\ calls[i].node = calls[j].node => calls[i].num # calls[j].num
      OBVIOUS
    <3>. HIDE DEF n
    <3>. QED
      BY ONLY <2>6, <2>9, <3>1, <3>2
  <2>. QED
    BY <2>5, <2>10, <2>11
<1>3. CASE UNCHANGED idVars
  BY <1>3 DEF idVars
<1>. QED
  BY <1>1, <1>2, <1>3 DEF IdNext

LEMMA IdStart == IdInit => IdInv
BY DEF IdInit, IdInv, IdTypeOK

\* Two numbers with the same remainder are at least the divisor apart.
LEMMA SameRemainder ==
    ASSUME NEW S \in Nat \ {0}, NEW x \in Nat, NEW y \in Nat,
           x % S = y % S, x < y
    PROVE  y >= x + S
<1>1. PICK q \in Nat : x = q * S + (x % S)
  <2>1. x \div S \in Nat /\ x = (x \div S) * S + (x % S)
    OBVIOUS
  <2>. QED
    BY <2>1
<1>2. PICK r \in Nat : y = r * S + (y % S)
  <2>1. y \div S \in Nat /\ y = (y \div S) * S + (y % S)
    OBVIOUS
  <2>. QED
    BY <2>1
<1>3. x % S \in Nat /\ q * S \in Nat /\ r * S \in Nat
  OBVIOUS
<1>4. q * S < r * S
  BY <1>1, <1>2, <1>3
<1>5. ~(r <= q)
  <2>1. ASSUME r <= q PROVE FALSE
    <3>1. PICK k \in Nat : q = r + k
      <4>1. q - r \in Nat /\ q = r + (q - r)
        BY <2>1
      <4>. QED
        BY <4>1
    <3>2. q * S = r * S + k * S /\ k * S \in Nat
      BY <3>1
    <3>. QED
      BY <1>3, <1>4, <3>2
  <2>. QED
    BY <2>1
<1>6. PICK k \in Nat : r = q + 1 + k
  <2>1. r - q - 1 \in Nat /\ r = q + 1 + (r - q - 1)
    BY <1>5
  <2>. QED
    BY <2>1
<1>7. r * S = q * S + S + k * S /\ k * S \in Nat
  BY <1>6
<1>. QED
  BY <1>1, <1>2, <1>3, <1>7

LEMMA IdInvExplainsCollisions == IdInv => CollisionNeedsWrap
<1>. SUFFICES ASSUME IdInv, NEW i \in DOMAIN calls, NEW j \in DOMAIN calls,
                     i # j, calls[i].id = calls[j].id
              PROVE  /\ calls[i].now = calls[j].now
                     /\ calls[i].num % SeqSize = calls[j].num % SeqSize
                     /\ IF calls[i].node = calls[j].node
                        THEN \/ calls[i].num >= calls[j].num + SeqSize
                             \/ calls[j].num >= calls[i].num + SeqSize
                        ELSE Pid[calls[i].node] % PidSize = Pid[calls[j].node] % PidSize
  BY DEF CollisionNeedsWrap
<1>1. \A k \in DOMAIN calls :
         /\ calls[k].node \in Nodes /\ calls[k].num \in Nat
         /\ calls[k].now \in Nat /\ Pid[calls[k].node] \in Nat
         /\ calls[k].id = Encode(calls[k].now, Pid[calls[k].node], calls[k].num)
  BY CallType DEF IdInv
<1>2. /\ calls[i].now = calls[j].now
      /\ Pid[calls[i].node] % PidSize = Pid[calls[j].node] % PidSize
      /\ calls[i].num % SeqSize = calls[j].num % SeqSize
  <2>1. Encode(calls[i].now, Pid[calls[i].node], calls[i].num)
          = Encode(calls[j].now, Pid[calls[j].node], calls[j].num)
    BY <1>1
  <2>. DEFINE r(k) == calls[k].now
              p(k) == Pid[calls[k].node]
              s(k) == calls[k].num
  <2>2. \A k \in {i, j} : r(k) \in Nat /\ p(k) \in Nat /\ s(k) \in Nat
    BY <1>1
  <2>. HIDE DEF r, p, s
  <2>3. Encode(r(i), p(i), s(i)) = Encode(r(j), p(j), s(j))
    BY <2>1 DEF r, p, s
  <2>4. /\ r(i) = r(j)
        /\ p(i) % PidSize = p(j) % PidSize
        /\ s(i) % SeqSize = s(j) % SeqSize
    BY SMTT(60), <2>2, <2>3, EncodeInjective
  <2>. QED
    BY <2>4 DEF r, p, s
<1>3. CASE calls[i].node = calls[j].node
  <2>1. calls[i].num # calls[j].num
    BY <1>3 DEF IdInv
  <2>2. calls[i].num < calls[j].num \/ calls[j].num < calls[i].num
    BY <1>1, <2>1
  <2>. QED
    BY <1>1, <1>2, <1>3, <2>2, SameRemainder, MessageIdAssumption
<1>. QED
  BY <1>2, <1>3

\* Of any SeqSize consecutive calls of a process, and of the calls of processes
\* whose ids differ in their low bits, no two get the same id.
THEOREM Collisions == IdSpec => []CollisionNeedsWrap
<1>1. IdInv /\ [IdNext]_idVars => IdInv'
  BY IdStep
<1>. QED
  BY <1>1, IdStart, IdInvExplainsCollisions, PTL DEF IdSpec
=============================================================================
