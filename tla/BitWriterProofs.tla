-------------------------- MODULE BitWriterProofs --------------------------
(***************************************************************************)
(* The writer never leaves an array that was sized for what is written.    *)
(***************************************************************************)
EXTENDS BitWriter, TLAPS

\* The writer works on an array of n bytes, and what it still has to write of the
\* current integer fits in them.
RoomInv(n) ==
    /\ WriterTypeOK
    /\ DOMAIN data = 0..(n - 1)
    /\ Written + bits <= 8 * n

\* The array has room for the bits asked for, and for less than eight more.
LEMMA ByteCountRounds ==
    ASSUME NEW n \in Nat
    PROVE  ByteCount(n) \in Nat /\ n <= 8 * ByteCount(n) /\ 8 * ByteCount(n) < n + 8
<1>1. n \div 8 \in Nat /\ 8 * (n \div 8) <= n /\ n < 8 * (n \div 8) + 8
  OBVIOUS
<1> QED
  BY <1>1 DEF ByteCount

\* A bit of an integer of w bits is one of the w lowest.
LEMMA LowBitsRange ==
    ASSUME NEW i, NEW w
    PROVE  LowBits(i, w) \subseteq 0..(w - 1)
BY DEF LowBits

\* A new writer (BitWriter.java:48-55) has room for any integer of as many bits as it
\* was asked for.
THEOREM NewWriterHasRoom ==
    ASSUME NEW n \in Nat, NewWriter(n)
    PROVE  RoomInv(ByteCount(n))' /\ Written' = 0
<1>1. ByteCount(n) \in Nat /\ 8 * ByteCount(n) >= 0
  BY ByteCountRounds
<1>2. DOMAIN data' = 0..(ByteCount(n) - 1) /\ \A p \in DOMAIN data' : data'[p] = {}
  BY DEF NewWriter, NewData
<1>3. pos' = 0 /\ sub' = 8 /\ value' = 0 /\ bits' = 0
  BY DEF NewWriter
<1>4. WriterTypeOK'
  BY <1>2, <1>3 DEF WriterTypeOK
<1> QED
  BY <1>1, <1>2, <1>3, <1>4 DEF RoomInv, Written

\* An integer is taken on (BitWriter.java:64) if its bits fit in what is left.
THEOREM WriteIntKeepsRoom ==
    ASSUME NEW n \in Nat, NEW i \in Nat, NEW w \in Nat,
           RoomInv(n), WriteInt(i, w), Written + w <= 8 * n
    PROVE  RoomInv(n)' /\ Written' = Written
<1>1. WriterTypeOK'
  BY DEF RoomInv, WriterTypeOK, WriteInt
<1> QED
  BY <1>1 DEF RoomInv, WriteInt, Written

\* A turn of the loop (BitWriter.java:65-84) writes to a byte of the array, moves the
\* cursor over as many bits as it takes off what is left, and keeps the room; so the
\* writer, which starts with room for all its integers, never leaves its array.
THEOREM WriteStepStaysInside ==
    ASSUME NEW n \in Nat, RoomInv(n), WriteStep
    PROVE  /\ pos \in DOMAIN data
           /\ Written' + bits' = Written + bits
           /\ bits' < bits
           /\ RoomInv(n)'
<1> USE DEF RoomInv, Written
<1>1. pos \in Nat /\ sub \in 1..8 /\ bits \in Nat /\ value \in Nat
  BY DEF WriterTypeOK
<1>2. bits > 0
  BY <1>1 DEF WriteStep, FullyFits, NeedsSplit
<1>3. pos \in DOMAIN data
  BY <1>1, <1>2
<1>4. \A p \in DOMAIN data : data[p] \subseteq 0..7
  BY DEF WriterTypeOK
<1>5. CASE FullyFits
  <2>1. bits' = 0 /\ value' = value /\ sub >= bits
    BY <1>5 DEF FullyFits
  <2>2. pos' \in Nat /\ sub' \in 1..8 /\ Written' = Written + bits
    <3>1. CASE sub = bits
      BY <1>1, <1>5, <3>1 DEF FullyFits
    <3>2. CASE sub # bits
      BY <1>1, <1>5, <2>1, <3>2 DEF FullyFits
    <3> QED
      BY <3>1, <3>2
  <2>3. {k + sub - bits : k \in LowBits(value, bits)} \subseteq 0..7
    BY <1>1, <2>1, LowBitsRange, SMTT(30)
  <2>4. DOMAIN data' = DOMAIN data /\ \A p \in DOMAIN data : data'[p] \subseteq 0..7
    <3> DEFINE ones == {k + sub - bits : k \in LowBits(value, bits)}
    <3>1. data' = [data EXCEPT ![pos] = @ \cup ones]
      BY <1>5 DEF FullyFits
    <3>2. ones \subseteq 0..7
      BY <2>3
    <3> HIDE DEF ones
    <3> QED
      BY <1>3, <1>4, <3>1, <3>2
  <2>5. WriterTypeOK'
    BY <1>1, <2>1, <2>2, <2>4 DEF WriterTypeOK
  <2>6. Written' + bits' = Written + bits /\ bits' < bits
    <3>1. Written + bits \in Int
      BY <1>1
    <3>2. Written' = Written + bits
      BY <2>2
    <3> HIDE DEF Written
    <3> QED
      BY <1>1, <1>2, <2>1, <3>1, <3>2
  <2>7. DOMAIN data' = 0..(n - 1)
    BY <2>4
  <2> QED
    BY <1>1, <1>2, <1>3, <2>5, <2>6, <2>7
<1>6. CASE NeedsSplit
  <2>1. bits' = bits - sub /\ pos' = pos + 1 /\ sub' = 8 /\ value' = value /\ sub < bits
    BY <1>6 DEF NeedsSplit
  <2>2. DOMAIN data' = DOMAIN data /\ \A p \in DOMAIN data : data'[p] \subseteq 0..7
    <3> DEFINE ones == LowBits(value \div 2^(bits - sub), sub)
    <3>1. data' = [data EXCEPT ![pos] = @ \cup ones]
      BY <1>6 DEF NeedsSplit
    <3>2. ones \subseteq 0..(sub - 1)
      BY LowBitsRange
    <3>3. ones \subseteq 0..7
      BY <1>1, <3>2
    <3> HIDE DEF ones
    <3> QED
      BY <1>3, <1>4, <3>1, <3>3
  <2>3. WriterTypeOK'
    BY <1>1, <2>1, <2>2 DEF WriterTypeOK
  <2> QED
    BY <1>1, <1>3, <2>1, <2>2, <2>3
<1> QED
  BY <1>5, <1>6 DEF WriteStep
=============================================================================
