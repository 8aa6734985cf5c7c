---------------------------- MODULE ShmRing_proofs ----------------------------
(***************************************************************************)
(* Proofs about the SHM ring with one producer and one consumer, for every *)
(* number of slots, every index width that is a multiple of it, every set  *)
(* of payload sizes and any number of payloads.                            *)
(***************************************************************************)
EXTENDS ShmRingSPSC, SumTheorems, TLAPS

-----------------------------------------------------------------------------
(* Arithmetic modulo the number of slots.                                  *)

\* What \div and % are.
LEMMA DivMod ==
  ASSUME NEW n \in Nat \ {0}, NEW a \in Int
  PROVE  /\ a \div n \in Int
         /\ a % n \in 0 .. n - 1
         /\ a = n * (a \div n) + (a % n)
  OBVIOUS

\* Multiplication distributes.
LEMMA Distributes ==
  ASSUME NEW n \in Int, NEW p \in Int, NEW q \in Int
  PROVE  n * (p - q) = n * p - n * q /\ n * (p + q) = n * p + n * q
  OBVIOUS

\* The only multiple of n strictly between -n and n is 0.
LEMMA MultipleInside ==
  ASSUME NEW n \in Nat \ {0}, NEW d \in Int, n * d < n, n * d > -n
  PROVE  d = 0
<1>1. d >= 1 => n * d >= n OBVIOUS
<1>2. d <= -1 => n * d <= -n OBVIOUS
<1>. QED BY <1>1, <1>2

\* Quotient and remainder are unique...
LEMMA DivModUnique ==
  ASSUME NEW n \in Nat \ {0}, NEW q \in Int, NEW p \in Int,
         NEW r \in 0 .. n - 1, NEW s \in 0 .. n - 1,
         n * q + r = n * p + s
  PROVE  q = p /\ r = s
<1>1. n * (q - p) = s - r BY Distributes
<1>2. q - p = 0 
  <2>1. n * (q - p) < n /\ n * (q - p) > -n BY <1>1
  <2>. QED BY <2>1, MultipleInside
<1>. QED BY <1>1, <1>2

\* ... so that a remainder is known from any decomposition.
LEMMA ModIs ==
  ASSUME NEW n \in Nat \ {0}, NEW q \in Int, NEW r \in 0 .. n - 1, NEW a \in Int, a = n * q + r
  PROVE  a % n = r
<1>. DEFINE p == a \div n
            s == a % n
<1>1. p \in Int /\ s \in 0 .. n - 1 /\ n * q + r = n * p + s BY DivMod
<1>. HIDE DEF p, s
<1>2. r = s BY <1>1, DivModUnique
<1>. QED BY <1>2 DEF s

\* Two numbers less than n apart have different remainders: no two of the
\* payloads that own a slot share it.
LEMMA Apart ==
  ASSUME NEW n \in Nat \ {0}, NEW a \in Int, NEW b \in Int,
         a < b + n, b < a + n, a % n = b % n
  PROVE  a = b
<1>. DEFINE p == a \div n
            q == b \div n
<1>1. /\ p \in Int /\ q \in Int /\ a % n \in Int
      /\ a = n * p + (a % n) /\ b = n * q + (b % n) BY DivMod
<1>. HIDE DEF p, q
<1>2. n * (p - q) = a - b BY <1>1, Distributes
<1>3. p - q = 0
  <2>1. n * (p - q) < n /\ n * (p - q) > -n BY <1>2
  <2>2. p - q \in Int BY <1>1
  <2>. QED BY <2>1, <2>2, MultipleInside
<1>. QED BY <1>1, <1>3

\* A uint32_t index that wraps after a whole number of turns names the same
\* slot as the counter that does not wrap.
LEMMA ModMod ==
  ASSUME NEW n \in Nat \ {0}, NEW m \in Nat \ {0}, NEW a \in Int
  PROVE  (a % (n * m)) % n = a % n
<1>. DEFINE w == n * m
            u == a \div w
            r == a % w
            q == r \div n
            s == r % n
<1>1. w \in Nat \ {0} OBVIOUS
<1>. HIDE DEF w
<1>2. u \in Int /\ r \in Int /\ a = w * u + r BY <1>1, DivMod
<1>. HIDE DEF u, r
<1>3. q \in Int /\ s \in 0 .. n - 1 /\ r = n * q + s BY <1>2, DivMod
<1>. HIDE DEF q, s
<1>4. w * u = n * (m * u) BY <1>2 DEF w
<1>5. m * u + q \in Int /\ a = n * (m * u + q) + s
  <2>1. m * u \in Int BY <1>2
  <2>2. n * (m * u + q) = n * (m * u) + n * q BY <2>1, <1>3, Distributes
  <2>. QED BY <2>1, <2>2, <1>2, <1>3, <1>4
<1>. DEFINE k == m * u + q
<1>. HIDE DEF k
<1>6. a % n = s
  <2>1. k \in Int /\ a = n * k + s BY <1>5 DEF k
  <2>. QED BY <2>1, <1>3, ModIs
<1>. QED BY <1>6 DEF s, r, w

\* Incrementing modulo n.
LEMMA ModSucc ==
  ASSUME NEW n \in Nat \ {0}, NEW a \in Int
  PROVE  ((a % n) + 1) % n = (a + 1) % n
<1>. DEFINE q == a \div n
            r == a % n
<1>1. q \in Int /\ r \in 0 .. n - 1 /\ a = n * q + r BY DivMod
<1>. HIDE DEF q, r
<1>2. CASE r + 1 < n
  <2>1. r + 1 \in 0 .. n - 1 /\ r + 1 = n * 0 + (r + 1) BY <1>1, <1>2
  <2>2. (r + 1) % n = r + 1 BY <2>1, ModIs
  <2>3. a + 1 = n * q + (r + 1) BY <1>1
  <2>4. (a + 1) % n = r + 1 BY <2>1, <2>3, <1>1, ModIs
  <2>. QED BY <2>2, <2>4 DEF r
<1>3. CASE r + 1 = n
  <2>1. r + 1 = n * 1 + 0 /\ 0 \in 0 .. n - 1 BY <1>3
  <2>2. (r + 1) % n = 0 BY <2>1, <1>1, ModIs
  <2>3. a + 1 = n * (q + 1) + 0 
    <3>1. n * (q + 1) = n * q + n * 1 BY <1>1, Distributes
    <3>. QED BY <3>1, <1>1, <1>3
  <2>4. (a + 1) % n = 0 BY <2>1, <2>3, <1>1, ModIs
  <2>. QED BY <2>2, <2>4 DEF r
<1>. QED BY <1>1, <1>2, <1>3

\* Any n consecutive numbers have every remainder: each slot has an owner.
LEMMA Covers ==
  ASSUME NEW n \in Nat \ {0}, NEW a \in Nat, NEW s \in 0 .. n - 1
  PROVE  \E k \in a .. a + n - 1 : k % n = s
<1>. DEFINE q == a \div n
            r == a % n
<1>1. q \in Int /\ r \in 0 .. n - 1 /\ a = n * q + r BY DivMod
<1>. HIDE DEF q, r
<1>a. n * q \in Int BY <1>1
<1>2. CASE r <= s
  <2>1. n * q + s \in a .. a + n - 1 BY <1>1, <1>2, <1>a
  <2>2. (n * q + s) % n = s BY <1>1, <2>1, ModIs
  <2>. QED BY <2>1, <2>2
<1>3. CASE s < r
  <2>0. n * (q + 1) = n * q + n * 1 BY <1>1, Distributes
  <2>1. n * (q + 1) + s \in a .. a + n - 1 BY <1>1, <1>3, <2>0, <1>a
  <2>2. (n * (q + 1) + s) % n = s BY <1>1, <2>1, ModIs
  <2>. QED BY <2>1, <2>2
<1>. QED BY <1>1, <1>2, <1>3

\* A slot is reused every n payloads.
LEMMA ModShift ==
  ASSUME NEW n \in Nat \ {0}, NEW a \in Int
  PROVE  (a + n) % n = a % n
<1>. DEFINE q == a \div n
            r == a % n
<1>1. q \in Int /\ r \in 0 .. n - 1 /\ a = n * q + r BY DivMod
<1>. HIDE DEF q, r
<1>2. n * (q + 1) = n * q + n * 1 BY <1>1, Distributes
<1>3. a + n = n * (q + 1) + r BY <1>1, <1>2
<1>4. (a + n) % n = r BY <1>1, <1>3, ModIs
<1>. QED BY <1>4 DEF r

-----------------------------------------------------------------------------
(* The inductive invariant.                                                *)

\* Slots and Width are positive, so that indices can be taken modulo them.
LEMMA Moduli == Slots \in Nat \ {0} /\ Laps \in Nat \ {0} /\ Width \in Nat \ {0}
  BY SlotsAssumption, LapsAssumption DEF Width

\* An index between calls names the slot of the next payload.
LEMMA IndexNames ==
  ASSUME NEW a \in Int
  PROVE  (a % Width) % Slots = a % Slots
  BY ModMod, Moduli DEF Width

\* Remainders are slot numbers.
LEMMA SlotOf ==
  ASSUME NEW a \in Int
  PROVE  a % Slots \in SlotIds
<1>1. a % Slots \in 0 .. Slots - 1 BY DivMod, Moduli
<1>. QED BY <1>1 DEF SlotIds

\* No two payloads that own a slot own the same one.
LEMMA OwnersApart ==
  ASSUME Freed \in Nat, NEW j \in Owners, NEW k \in Owners, j # k
  PROVE  j % Slots # k % Slots
<1>1. j \in Int /\ k \in Int /\ j < k + Slots /\ k < j + Slots
  BY Moduli DEF Owners
<1>. QED BY <1>1, Apart, Moduli

\* Incrementing a wrapped index wraps the incremented index.
LEMMA IndexAdvances ==
  ASSUME NEW a \in Int
  PROVE  (((a - 1) % Width) + 1) % Width = a % Width
<1>1. a - 1 \in Int /\ (a - 1) + 1 = a OBVIOUS
<1>2. (((a - 1) % Width) + 1) % Width = ((a - 1) + 1) % Width
  BY <1>1, ModSucc, Moduli
<1>. QED BY <1>1, <1>2

\* A slot is reused every Slots payloads.
LEMMA SlotAgain ==
  ASSUME NEW a \in Int
  PROVE  (a + Slots) % Slots = a % Slots
  BY ModShift, Moduli

\* Indices stay in the range of a uint32_t.
LEMMA IndexRange ==
  ASSUME NEW a \in Int
  PROVE  a % Width \in 0 .. Width - 1
  BY DivMod, Moduli

\* Slots consecutive payloads own all the slots.
LEMMA EverySlotOwned ==
  ASSUME NEW a \in Nat, NEW s \in SlotIds
  PROVE  \E k \in a .. a + Slots - 1 : k % Slots = s
  BY Covers, Moduli DEF SlotIds

\* What the invariant says of slot numbers.
LEMMA Basics ==
  ASSUME IInv
  PROVE  /\ Freed \in Nat /\ Committed \in Nat
         /\ WriteIdx \in Int /\ ReadIdx \in Int
         /\ WriteIdx % Slots \in SlotIds /\ ReadIdx % Slots \in SlotIds
         /\ Committed % Slots \in SlotIds /\ Freed % Slots \in SlotIds
         /\ (Freed + Slots) % Slots = Freed % Slots
         /\ (Committed % Width) % Slots = Committed % Slots
         /\ (Freed % Width) % Slots = Freed % Slots
         /\ (((Committed - 1) % Width) + 1) % Width = Committed % Width
         /\ (((Freed - 1) % Width) + 1) % Width = Freed % Width
         /\ Freed \in Owners
         /\ Committed < Freed + Slots => Committed \in Owners
         /\ \A k \in Owners : k \in Int /\ k % Slots \in SlotIds
         /\ \A j, k \in Owners : j # k => j % Slots # k % Slots
<1>. USE Moduli
<1>1. Freed \in Nat /\ Committed \in Nat BY DEF IInv, Counted
<1>2. WriteIdx \in Int /\ ReadIdx \in Int BY DEF IInv, TypeOK
<1>3. WriteIdx % Slots \in SlotIds /\ ReadIdx % Slots \in SlotIds BY <1>2, SlotOf
<1>4. Committed % Slots \in SlotIds /\ Freed % Slots \in SlotIds BY <1>1, SlotOf
<1>0. Committed \in Int /\ Freed \in Int BY <1>1
<1>5. (Freed + Slots) % Slots = Freed % Slots BY <1>0, SlotAgain, Zenon
<1>6. /\ Freed \in Owners
      /\ Committed < Freed + Slots => Committed \in Owners
  BY <1>1 DEF Owners, IInv, Counted
<1>7. \A k \in Owners : k \in Int /\ k % Slots \in SlotIds
  <2>1. \A k \in Owners : k \in Int BY <1>1 DEF Owners
  <2>. QED BY <2>1, SlotOf
<1>8. \A j, k \in Owners : j # k => j % Slots # k % Slots BY <1>1, OwnersApart
<1>9. /\ (Committed % Width) % Slots = Committed % Slots
      /\ (Freed % Width) % Slots = Freed % Slots
      /\ (((Committed - 1) % Width) + 1) % Width = Committed % Width
      /\ (((Freed - 1) % Width) + 1) % Width = Freed % Width
  BY <1>0, IndexNames, IndexAdvances, Zenon
<1>. QED BY <1>1, <1>2, <1>3, <1>4, <1>5, <1>6, <1>7, <1>8, <1>9

\* The ring as shm_ring_init leaves it satisfies the invariant.
LEMMA InitInvariant == Init => IInv
<1>. SUFFICES ASSUME Init PROVE IInv OBVIOUS
<1>. USE SPSCAssumption, Moduli
<1>1. TypeOK
  BY DEF Init, TypeOK, Meta, WriterPC, ReaderPC, SlotStates, FREE
<1>2. Committed = 0 /\ Freed = 0 /\ ~ProducerHolds /\ ~ConsumerHolds
  BY DEF Init, Committed, Freed, ProducerHolds, ConsumerHolds
<1>3. Counted BY <1>2 DEF Counted
<1>4. Indexed
  <2>1. 0 = Width * 0 + 0 /\ 0 \in 0 .. Width - 1 OBVIOUS
  <2>2. 0 % Width = 0 BY <2>1, ModIs
  <2>. QED BY <1>2, <2>2 DEF Init, Indexed
<1>5. Owned
  <2>. SUFFICES ASSUME NEW k \in Owners
                PROVE  SlotState[k % Slots] = StateOf(k) /\ ~(k < 0) /\ k \in Int
    BY <1>2 DEF Owned, Init
  <2>1. k \in Nat BY <1>2 DEF Owners
  <2>2. SlotState[k % Slots] = FREE BY <2>1, SlotOf DEF Init
  <2>3. StateOf(k) = FREE BY <1>2, <2>1 DEF StateOf, Init
  <2>. QED BY <2>1, <2>2, <2>3
<1>. QED BY <1>1, <1>3, <1>4, <1>5 DEF IInv

-----------------------------------------------------------------------------
(* Every step of the producer and of the consumer preserves it.            *)

\* shm_ring_acquire_write finds the slot under WriteIdx free.
LEMMA FindFreeKeeps ==
  ASSUME IInv, FindFree(Producer)
  PROVE  IInv'
<1>. USE SPSCAssumption, Moduli, Basics
<1>1. TypeOK'
  <2>1. WriteIdx % Slots \in SlotIds BY Basics
  <2>. QED
    BY <2>1 DEF IInv, TypeOK, FindFree, header, slots, reader, WGoto, WriterPC
<1>2. Committed' = Committed /\ Freed' = Freed /\ Owners' = Owners
  BY DEF IInv, TypeOK, FindFree, Committed, Freed, Owners, header, slots, reader, WGoto
<1>3. WriteIdx % Slots = Committed % Slots
  BY Basics DEF IInv, Counted, Indexed, FindFree
<1>4. Committed < Freed + Slots
  <2>. SUFFICES ASSUME Committed = Freed + Slots PROVE FALSE
    BY DEF IInv, Counted
  <2>1. Committed % Slots = Freed % Slots BY Basics
  <2>2. Freed \in Owners /\ Freed < Committed BY DEF Owners, IInv, Counted
  <2>3. SlotState[Freed % Slots] \in {READY, READING}
    BY <2>2 DEF IInv, Owned, StateOf
  <2>. QED BY <1>3, <2>1, <2>3 DEF FindFree, READY, READING, FREE
<1>5. Counted'
  BY <1>2, <1>4 DEF IInv, TypeOK, Counted, FindFree, ProducerHolds, ConsumerHolds, WGoto, reader
<1>6. Indexed'
  BY <1>2, <1>3 DEF IInv, TypeOK, Indexed, FindFree, ProducerHolds, ConsumerHolds, WGoto,
    header, reader
<1>7. Owned'
  BY <1>2 DEF IInv, TypeOK, Owned, StateOf, FindFree, WGoto, slots, reader
<1>. QED BY <1>1, <1>5, <1>6, <1>7 DEF IInv

\* A refused payload changes the overflow counter alone.
LEMMA OverflowKeeps ==
  ASSUME IInv, Overflow(Producer)
  PROVE  IInv'
<1>. USE SPSCAssumption, Moduli, Basics
<1>1. TypeOK'
  <2>1. OverflowCount + 1 \in Int BY DEF IInv, TypeOK
  <2>2. (OverflowCount + 1) % Width \in 0 .. Width - 1 BY <2>1, IndexRange
  <2>. QED BY <2>2 DEF IInv, TypeOK, Overflow, slots, writer, reader
<1>2. Committed' = Committed /\ Freed' = Freed /\ Owners' = Owners
  BY DEF Overflow, Committed, Freed, Owners, writer, reader
<1>3. Counted' BY <1>2 DEF IInv, Counted, Overflow, ProducerHolds, ConsumerHolds, writer, reader
<1>4. Indexed'
  BY <1>2 DEF IInv, Indexed, Overflow, ProducerHolds, ConsumerHolds, writer, reader
<1>5. Owned' BY <1>2 DEF IInv, Owned, StateOf, Overflow, writer, reader, slots
<1>. QED BY <1>1, <1>3, <1>4, <1>5 DEF IInv

\* The producer marks the slot of the next payload.
LEMMA ClaimWriteKeeps ==
  ASSUME IInv, ClaimWrite(Producer)
  PROVE  IInv'
<1>. USE SPSCAssumption, Moduli, Basics
<1>1. TypeOK'
  BY SizesAssumption DEF IInv, TypeOK, ClaimWrite, header, slots, writer, reader, WGoto, RGoto,
    Meta, WriterPC, ReaderPC, SlotStates, FREE, WRITING, READY, READING
<1>2. Committed' = Committed /\ Freed' = Freed /\ Owners' = Owners
  BY DEF IInv, TypeOK, ClaimWrite, Committed, Freed, Owners, WGoto, reader
<1>3. /\ Committed \in Owners /\ wslot[Producer] = Committed % Slots
      /\ SlotState' = [SlotState EXCEPT ![Committed % Slots] = WRITING]
  BY DEF IInv, Counted, Indexed, ClaimWrite, ProducerHolds
<1>4. Counted'
  BY <1>2 DEF IInv, TypeOK, Counted, ClaimWrite, ProducerHolds, ConsumerHolds, WGoto, reader
<1>5. Indexed'
  BY <1>2 DEF IInv, TypeOK, Indexed, ClaimWrite, ProducerHolds, ConsumerHolds, WGoto,
    header, reader
<1>6. Owned'
  <2>. SUFFICES ASSUME NEW k \in Owners
                PROVE  /\ SlotState'[k % Slots] = StateOf(k)'
                       /\ k < Committed => SlotData[k % Slots] = k + 1
                       /\ k < Committed => SlotMeta[k % Slots].PayloadId = k + 1
    BY <1>2 DEF IInv, TypeOK, Owned, ClaimWrite, WGoto
  <2>1. k \in Int /\ k % Slots \in SlotIds BY Basics
  <2>2. CASE k = Committed
    BY <1>2, <1>3, <2>1, <2>2 DEF IInv, TypeOK, Counted, StateOf, ClaimWrite, WGoto
  <2>3. CASE k # Committed
    <3>1. k % Slots # Committed % Slots
      BY <1>3, <2>3
    <3>2. SlotState'[k % Slots] = SlotState[k % Slots]
      BY <1>3, <2>1, <3>1 DEF IInv, TypeOK
    <3>3. StateOf(k)' = StateOf(k)
      BY <1>2, <2>3 DEF IInv, TypeOK, StateOf, ClaimWrite, WGoto, reader
    <3>. QED BY <3>2, <3>3 DEF IInv, Owned
  <2>. QED BY <2>2, <2>3
<1>. QED BY <1>1, <1>4, <1>5, <1>6 DEF IInv

\* The payload is copied into the slot it owns.
LEMMA FillSlotKeeps ==
  ASSUME IInv, FillSlot(Producer)
  PROVE  IInv'
<1>. USE SPSCAssumption, Moduli, Basics
<1>1. TypeOK'
  <2>1. seqCounter[Producer] \in Nat /\ seqCounter[Producer] + 1 \in Nat
    BY DEF IInv, TypeOK
  <2>. QED
    BY <2>1, SizesAssumption DEF IInv, TypeOK, FillSlot, header, slots, writer, reader,
      WGoto, Meta, WriterPC
<1>2. /\ Committed' = Committed /\ Freed' = Freed /\ Owners' = Owners
      /\ Committed = seqCounter[Producer]
  BY DEF IInv, TypeOK, FillSlot, Committed, Freed, Owners, WGoto, reader
<1>3. /\ Committed \in Owners
      /\ SlotData' = [SlotData EXCEPT ![Committed % Slots] = Committed + 1]
  BY <1>2 DEF IInv, Counted, Indexed, FillSlot, ProducerHolds
<1>4. Counted'
  BY <1>2 DEF IInv, TypeOK, Counted, FillSlot, ProducerHolds, ConsumerHolds, WGoto, reader
<1>5. Indexed'
  BY <1>2 DEF IInv, TypeOK, Indexed, FillSlot, ProducerHolds, ConsumerHolds, WGoto,
    header, reader
<1>6. Owned'
  <2>. SUFFICES ASSUME NEW k \in Owners
                PROVE  /\ SlotState[k % Slots] = StateOf(k)'
                       /\ k <= Committed => SlotData'[k % Slots] = k + 1
                       /\ k < Committed => SlotMeta[k % Slots].PayloadId = k + 1
    BY <1>2 DEF IInv, TypeOK, Owned, FillSlot, WGoto
  <2>1. k \in Int /\ k % Slots \in SlotIds BY Basics
  <2>2. StateOf(k)' = StateOf(k)
    BY <1>2 DEF IInv, TypeOK, StateOf, FillSlot, WGoto, reader
  <2>3. k < Committed => SlotData'[k % Slots] = k + 1
    BY <1>3, <2>1  DEF IInv, TypeOK, Counted, Owned
  <2>4. k = Committed => SlotData'[k % Slots] = k + 1
    BY <1>3, <2>1 DEF IInv, TypeOK
  <2>. QED BY <2>1, <2>2, <2>3, <2>4 DEF IInv, Counted, Owned
<1>. QED BY <1>1, <1>4, <1>5, <1>6 DEF IInv

\* The slot gets the number and the size of its payload.
LEMMA SetMetaKeeps ==
  ASSUME IInv, SetMeta(Producer)
  PROVE  IInv'
<1>. USE SPSCAssumption, Moduli, Basics
<1>1. TypeOK'
  <2>1. PICK size \in Sizes :
          SlotMeta' = [SlotMeta EXCEPT ![wslot[Producer]] =
            [PayloadId |-> seqCounter[Producer], PayloadSize |-> size]]
    BY DEF SetMeta
  <2>2. [PayloadId |-> seqCounter[Producer], PayloadSize |-> size] \in Meta
    BY SizesAssumption DEF IInv, TypeOK, Meta
  <2>3. SlotMeta' \in [SlotIds -> Meta] BY <2>1, <2>2 DEF IInv, TypeOK
  <2>. QED
    BY <2>3 DEF IInv, TypeOK, SetMeta, header, reader, WGoto, WriterPC
<1>2. /\ Committed' = Committed /\ Freed' = Freed /\ Owners' = Owners
      /\ Committed + 1 = seqCounter[Producer]
  BY DEF IInv, TypeOK, SetMeta, Committed, Freed, Owners, WGoto, reader
<1>3. PICK size \in Sizes :
        SlotMeta' = [SlotMeta EXCEPT ![Committed % Slots] =
                       [PayloadId |-> Committed + 1, PayloadSize |-> size]]
  BY <1>2 DEF IInv, Indexed, SetMeta, ProducerHolds
<1>4. Committed \in Owners BY DEF IInv, Counted, SetMeta, ProducerHolds
<1>5. Counted'
  BY <1>2 DEF IInv, TypeOK, Counted, SetMeta, ProducerHolds, ConsumerHolds, WGoto, reader
<1>6. Indexed'
  BY <1>2 DEF IInv, TypeOK, Indexed, SetMeta, ProducerHolds, ConsumerHolds, WGoto,
    header, reader
<1>7. Owned'
  <2>. SUFFICES ASSUME NEW k \in Owners
                PROVE  /\ SlotState[k % Slots] = StateOf(k)'
                       /\ k <= Committed => SlotData[k % Slots] = k + 1
                       /\ k <= Committed => SlotMeta'[k % Slots].PayloadId = k + 1
    BY <1>2 DEF IInv, TypeOK, Owned, SetMeta, WGoto
  <2>1. k \in Int /\ k % Slots \in SlotIds BY Basics
  <2>2. StateOf(k)' = StateOf(k)
    BY <1>2 DEF IInv, TypeOK, StateOf, SetMeta, WGoto, reader
  <2>3. k < Committed => SlotMeta'[k % Slots].PayloadId = k + 1
    BY <1>3, <1>4, <2>1  DEF IInv, TypeOK, Counted, Owned
  <2>4. k = Committed => SlotMeta'[k % Slots].PayloadId = k + 1
    BY <1>3, <2>1 DEF IInv, TypeOK
  <2>5. k <= Committed => SlotData[k % Slots] = k + 1
    BY <2>1 DEF IInv, Counted, Owned, SetMeta
  <2>. QED BY <2>1, <2>2, <2>3, <2>4, <2>5 DEF IInv, Counted, Owned
<1>. QED BY <1>1, <1>5, <1>6, <1>7 DEF IInv

\* The payload becomes visible to the consumer.
LEMMA CommitReadyKeeps ==
  ASSUME IInv, CommitReady(Producer)
  PROVE  IInv'
<1>. USE SPSCAssumption, Moduli, Basics
<1>1. TypeOK'
  BY SizesAssumption DEF IInv, TypeOK, CommitReady, header, slots, writer, reader, WGoto, RGoto,
    Meta, WriterPC, ReaderPC, SlotStates, FREE, WRITING, READY, READING
<1>2. Committed' = Committed + 1 /\ Freed' = Freed /\ Owners' = Owners
  BY DEF IInv, TypeOK, CommitReady, Committed, Freed, Owners, WGoto, reader
<1>3. /\ Committed \in Owners
      /\ SlotState' = [SlotState EXCEPT ![Committed % Slots] = READY]
  BY DEF IInv, Counted, Indexed, CommitReady, ProducerHolds
<1>4. Counted'
  BY <1>2 DEF IInv, TypeOK, Counted, CommitReady, ProducerHolds, ConsumerHolds, WGoto, reader
<1>5. Indexed'
  <2>1. Committed + 1 > 0 /\ (Committed + 1) - 1 = Committed BY DEF IInv, Counted
  <2>. QED
    BY <1>2, <2>1 DEF IInv, TypeOK, Indexed, CommitReady, ProducerHolds, ConsumerHolds, WGoto,
      header, reader
<1>6. Owned'
  <2>. SUFFICES ASSUME NEW k \in Owners
                PROVE  /\ SlotState'[k % Slots] = StateOf(k)'
                       /\ k <= Committed => SlotData[k % Slots] = k + 1
                       /\ k <= Committed => SlotMeta[k % Slots].PayloadId = k + 1
    BY <1>2 DEF IInv, TypeOK, Owned, CommitReady, WGoto
  <2>1. k \in Int /\ k % Slots \in SlotIds BY Basics
  <2>2. CASE k = Committed
    <3>1. SlotState'[k % Slots] = READY BY <1>3, <2>1, <2>2 DEF IInv, TypeOK
    <3>2. StateOf(k)' = READY
      BY <1>2, <2>2 DEF IInv, Counted, StateOf, CommitReady, ConsumerHolds, reader
    <3>3. SlotData[k % Slots] = k + 1 /\ SlotMeta[k % Slots].PayloadId = k + 1
      BY <2>2 DEF IInv, Owned, CommitReady
    <3>. QED BY <3>1, <3>2, <3>3
  <2>3. CASE k # Committed
    <3>1. k % Slots # Committed % Slots
      BY <1>3, <2>3
    <3>2. SlotState'[k % Slots] = SlotState[k % Slots]
      BY <1>3, <2>1, <3>1 DEF IInv, TypeOK
    <3>3. StateOf(k)' = StateOf(k)
      BY <1>2, <2>1, <2>3 DEF IInv, TypeOK, Counted, StateOf, CommitReady, WGoto, reader
    <3>. QED BY <2>1, <2>3, <3>2, <3>3 DEF IInv, Counted, Owned
  <2>. QED BY <2>2, <2>3
<1>. QED BY <1>1, <1>4, <1>5, <1>6 DEF IInv

\* WriteIdx moves on to the next slot.
LEMMA AdvanceWriteKeeps ==
  ASSUME IInv, AdvanceWrite(Producer)
  PROVE  IInv'
<1>. USE SPSCAssumption, Moduli, Basics
<1>1. TypeOK'
  <2>1. (WriteIdx + 1) % Width \in 0 .. Width - 1 BY Basics, IndexRange
  <2>. QED
    BY <2>1 DEF IInv, TypeOK, AdvanceWrite, slots, reader, WGoto, WriterPC
<1>2. Committed' = Committed /\ Freed' = Freed /\ Owners' = Owners
  BY DEF IInv, TypeOK, AdvanceWrite, Committed, Freed, Owners, WGoto, reader
<1>3. WriteIdx' = Committed % Width
  BY Basics DEF IInv, Indexed, AdvanceWrite
<1>4. Counted'
  BY <1>2 DEF IInv, TypeOK, Counted, AdvanceWrite, ProducerHolds, ConsumerHolds, WGoto, reader
<1>5. Indexed'
  BY <1>2, <1>3 DEF IInv, TypeOK, Indexed, AdvanceWrite, ProducerHolds, ConsumerHolds, WGoto,
    reader
<1>6. Owned'
  BY <1>2 DEF IInv, TypeOK, Owned, StateOf, AdvanceWrite, WGoto, slots, reader
<1>. QED BY <1>1, <1>4, <1>5, <1>6 DEF IInv

\* The producer counts the bytes it has committed.
LEMMA AccountWriteKeeps ==
  ASSUME IInv, AccountWrite(Producer)
  PROVE  IInv'
<1>. USE SPSCAssumption, Moduli, Basics
<1>1. TypeOK'
  <2>1. wslot[Producer] \in SlotIds => SlotMeta[wslot[Producer]].PayloadSize \in Nat
    BY DEF IInv, TypeOK, Meta
  <2>. QED
    BY <2>1 DEF IInv, TypeOK, AccountWrite, slots, reader, WGoto, WriterPC, Indexed
<1>2. Committed' = Committed /\ Freed' = Freed /\ Owners' = Owners
  BY DEF IInv, TypeOK, AccountWrite, Committed, Freed, Owners, WGoto, reader
<1>4. Counted'
  BY <1>2 DEF IInv, TypeOK, Counted, AccountWrite, ProducerHolds, ConsumerHolds, WGoto, reader
<1>5. Indexed'
  BY <1>2 DEF IInv, TypeOK, Indexed, AccountWrite, ProducerHolds, ConsumerHolds, WGoto, reader
<1>6. Owned'
  BY <1>2 DEF IInv, TypeOK, Owned, StateOf, AccountWrite, WGoto, slots, reader
<1>. QED BY <1>1, <1>4, <1>5, <1>6 DEF IInv

\* shm_ring_acquire_read finds the slot under ReadIdx ready.
LEMMA FindReadyKeeps ==
  ASSUME IInv, FindReady(Consumer)
  PROVE  IInv'
<1>. USE SPSCAssumption, Moduli, Basics
<1>1. TypeOK'
  <2>1. ReadIdx % Slots \in SlotIds BY Basics
  <2>. QED
    BY <2>1 DEF IInv, TypeOK, FindReady, header, slots, writer, RGoto, ReaderPC
<1>2. Committed' = Committed /\ Freed' = Freed /\ Owners' = Owners
  BY DEF IInv, TypeOK, FindReady, Committed, Freed, Owners, RGoto, writer
<1>3. ReadIdx % Slots = Freed % Slots
  BY Basics DEF IInv, Counted, Indexed, FindReady
<1>4. Freed < Committed
  <2>. SUFFICES ASSUME Freed = Committed PROVE FALSE BY DEF IInv, Counted
  <2>1. Freed \in Owners BY DEF Owners, IInv, Counted
  <2>2. SlotState[Freed % Slots] \in {WRITING, FREE}
    BY <2>1 DEF IInv, Counted, Owned, StateOf
  <2>. QED BY <1>3, <2>2 DEF FindReady, READY, WRITING, FREE
<1>5. Counted'
  BY <1>2, <1>4 DEF IInv, TypeOK, Counted, FindReady, ProducerHolds, ConsumerHolds, RGoto, writer
<1>6. Indexed'
  BY <1>2, <1>3 DEF IInv, TypeOK, Indexed, FindReady, ProducerHolds, ConsumerHolds, RGoto,
    header, writer
<1>7. Owned'
  BY <1>2 DEF IInv, TypeOK, Owned, StateOf, FindReady, RGoto, slots, writer
<1>. QED BY <1>1, <1>5, <1>6, <1>7 DEF IInv

\* The consumer marks the slot of the oldest payload.
LEMMA ClaimReadKeeps ==
  ASSUME IInv, ClaimRead(Consumer)
  PROVE  IInv'
<1>. USE SPSCAssumption, Moduli, Basics
<1>1. TypeOK'
  BY SizesAssumption DEF IInv, TypeOK, ClaimRead, header, slots, writer, reader, WGoto, RGoto,
    Meta, WriterPC, ReaderPC, SlotStates, FREE, WRITING, READY, READING
<1>2. Committed' = Committed /\ Freed' = Freed /\ Owners' = Owners
  BY DEF IInv, TypeOK, ClaimRead, Committed, Freed, Owners, RGoto, writer
<1>3. /\ Freed \in Owners /\ Freed < Committed
      /\ SlotState' = [SlotState EXCEPT ![Freed % Slots] = READING]
  BY DEF IInv, Counted, Indexed, Owners, ClaimRead, ConsumerHolds
<1>4. Counted'
  BY <1>2 DEF IInv, TypeOK, Counted, ClaimRead, ProducerHolds, ConsumerHolds, RGoto, writer
<1>5. Indexed'
  BY <1>2 DEF IInv, TypeOK, Indexed, ClaimRead, ProducerHolds, ConsumerHolds, RGoto,
    header, writer
<1>6. Owned'
  <2>. SUFFICES ASSUME NEW k \in Owners
                PROVE  SlotState'[k % Slots] = StateOf(k)'
    BY <1>2 DEF IInv, TypeOK, Owned, ClaimRead, RGoto, writer
  <2>1. k \in Int /\ k % Slots \in SlotIds BY Basics
  <2>2. CASE k = Freed
    BY <1>2, <1>3, <2>1, <2>2 DEF IInv, TypeOK, Counted, StateOf, ClaimRead, RGoto
  <2>3. CASE k # Freed
    <3>1. k % Slots # Freed % Slots
      BY <1>3, <2>3
    <3>2. SlotState'[k % Slots] = SlotState[k % Slots]
      BY <1>3, <2>1, <3>1 DEF IInv, TypeOK
    <3>3. StateOf(k)' = StateOf(k)
      BY <1>2, <2>3 DEF IInv, TypeOK, StateOf, ClaimRead, RGoto, writer
    <3>. QED BY <3>2, <3>3 DEF IInv, Owned
  <2>. QED BY <2>2, <2>3
<1>. QED BY <1>1, <1>4, <1>5, <1>6 DEF IInv

\* The consumer takes the payload: it is the one after the last it took.
LEMMA ReadSlotKeeps ==
  ASSUME IInv, ReadSlot(Consumer)
  PROVE  IInv'
<1>. USE SPSCAssumption, Moduli, Basics
<1>1. TypeOK'
  <2>1. rslot[Consumer] \in SlotIds
    BY Basics DEF IInv, Indexed, ReadSlot, ConsumerHolds
  <2>. QED
    BY <2>1 DEF IInv, TypeOK, ReadSlot, header, slots, writer, RGoto, ReaderPC
<1>2. Freed = got[Consumer] /\ Freed \in Owners /\ Freed < Committed
  BY DEF IInv, TypeOK, Counted, ReadSlot, Freed, Owners, ConsumerHolds
<1>3. got' = [got EXCEPT ![Consumer] = Freed + 1]
  BY <1>2 DEF IInv, Indexed, Owned, ReadSlot, ConsumerHolds
<1>4. Committed' = Committed /\ Freed' = Freed /\ Owners' = Owners
  <2>1. Committed' = Committed BY DEF ReadSlot, Committed, writer
  <2>2. got'[Consumer] = Freed + 1 /\ rpc'[Consumer] = "account"
    BY <1>3 DEF IInv, TypeOK, ReadSlot, RGoto
  <2>3. Freed' = Freed
    <3>1. Freed' = got'[Consumer] - 1 BY <2>2 DEF Freed
    <3>. QED BY <2>2, <3>1, Basics
  <2>. QED BY <2>1, <2>3 DEF Owners
<1>5. Counted'
  BY <1>4 DEF IInv, TypeOK, Counted, ReadSlot, ProducerHolds, ConsumerHolds, RGoto, writer
<1>6. Indexed'
  BY <1>4 DEF IInv, TypeOK, Indexed, ReadSlot, ProducerHolds, ConsumerHolds, RGoto,
    header, writer
<1>7. Owned'
  BY <1>4 DEF IInv, TypeOK, Owned, StateOf, ReadSlot, RGoto, slots, writer
<1>. QED BY <1>1, <1>5, <1>6, <1>7 DEF IInv

\* The consumer counts the bytes it has read.
LEMMA AccountReadKeeps ==
  ASSUME IInv, AccountRead(Consumer)
  PROVE  IInv'
<1>. USE SPSCAssumption, Moduli, Basics
<1>1. TypeOK'
  <2>1. rslot[Consumer] \in SlotIds
    BY Basics DEF IInv, Indexed, AccountRead, ConsumerHolds
  <2>2. SlotMeta[rslot[Consumer]].PayloadSize \in Nat BY <2>1 DEF IInv, TypeOK, Meta
  <2>. QED
    BY <2>2 DEF IInv, TypeOK, AccountRead, slots, writer, RGoto, ReaderPC
<1>2. Committed' = Committed /\ Freed' = Freed /\ Owners' = Owners
  BY DEF IInv, TypeOK, AccountRead, Committed, Freed, Owners, RGoto, writer
<1>3. Counted'
  BY <1>2 DEF IInv, TypeOK, Counted, AccountRead, ProducerHolds, ConsumerHolds, RGoto, writer
<1>4. Indexed'
  BY <1>2 DEF IInv, TypeOK, Indexed, AccountRead, ProducerHolds, ConsumerHolds, RGoto, writer
<1>5. Owned'
  BY <1>2 DEF IInv, TypeOK, Owned, StateOf, AccountRead, RGoto, slots, writer
<1>. QED BY <1>1, <1>3, <1>4, <1>5 DEF IInv

\* The slot of the oldest payload becomes that of the next payload but Slots.
LEMMA FreeSlotKeeps ==
  ASSUME IInv, FreeSlot(Consumer)
  PROVE  IInv'
<1>. USE SPSCAssumption, Moduli, Basics
<1>1. TypeOK'
  BY SizesAssumption DEF IInv, TypeOK, FreeSlot, header, slots, writer, reader, WGoto, RGoto,
    Meta, WriterPC, ReaderPC, SlotStates, FREE, WRITING, READY, READING
<1>2. Committed' = Committed /\ Freed' = Freed + 1
  BY DEF IInv, TypeOK, FreeSlot, Committed, Freed, RGoto, writer
<1>3. /\ Freed \in Owners /\ Freed < Committed
      /\ SlotState' = [SlotState EXCEPT ![Freed % Slots] = FREE]
  BY DEF IInv, Counted, Indexed, Owners, FreeSlot, ConsumerHolds
<1>4. Counted'
  BY <1>2, <1>3 DEF IInv, TypeOK, Counted, FreeSlot, ProducerHolds, ConsumerHolds, RGoto, writer
<1>5. Indexed'
  <2>1. Freed + 1 > 0 /\ (Freed + 1) - 1 = Freed BY DEF IInv, Counted
  <2>. QED
    BY <1>2, <2>1 DEF IInv, TypeOK, Indexed, FreeSlot, ProducerHolds, ConsumerHolds, RGoto,
      header, writer
<1>6. Owned'
  <2>. SUFFICES ASSUME NEW k \in Owners'
                PROVE  /\ SlotState'[k % Slots] = StateOf(k)'
                       /\ k < Committed \/ (k = Committed /\ wpc[Producer] \in {"meta", "commit"})
                            => SlotData[k % Slots] = k + 1
                       /\ k < Committed \/ (k = Committed /\ wpc[Producer] = "commit")
                            => SlotMeta[k % Slots].PayloadId = k + 1
    BY <1>2 DEF Owned, FreeSlot, writer
  <2>1. k \in Int /\ k % Slots \in SlotIds 
    <3>1. k \in Int BY <1>2 DEF Owners
    <3>. QED BY <3>1, SlotOf
  <2>2. CASE k = Freed + Slots
    <3>1. k % Slots = Freed % Slots BY <2>2
    <3>2. SlotState'[k % Slots] = FREE BY <1>3, <2>1, <3>1 DEF IInv, TypeOK
    <3>3. StateOf(k)' = FREE
      BY <1>2, <2>2 DEF IInv, TypeOK, Counted, StateOf, ProducerHolds, FreeSlot, writer
    <3>. QED
      BY <2>2, <3>2, <3>3 DEF IInv, Counted, ProducerHolds
  <2>3. CASE k # Freed + Slots
    <3>1. k \in Owners /\ k # Freed BY <1>2, <2>3 DEF Owners, IInv, Counted
    <3>2. k % Slots # Freed % Slots
      BY <1>3, <3>1
    <3>3. SlotState'[k % Slots] = SlotState[k % Slots]
      BY <1>3, <2>1, <3>2 DEF IInv, TypeOK
    <3>4. StateOf(k)' = StateOf(k)
      BY <1>2, <3>1 DEF IInv, TypeOK, StateOf, FreeSlot, RGoto, writer
    <3>. QED BY <3>1, <3>3, <3>4 DEF IInv, Owned
  <2>. QED BY <2>2, <2>3
<1>. QED BY <1>1, <1>4, <1>5, <1>6 DEF IInv

\* ReadIdx moves on to the next slot.
LEMMA AdvanceReadKeeps ==
  ASSUME IInv, AdvanceRead(Consumer)
  PROVE  IInv'
<1>. USE SPSCAssumption, Moduli, Basics
<1>1. TypeOK'
  <2>1. (ReadIdx + 1) % Width \in 0 .. Width - 1 BY Basics, IndexRange
  <2>. QED
    BY <2>1 DEF IInv, TypeOK, AdvanceRead, slots, writer, RGoto, ReaderPC
<1>2. Committed' = Committed /\ Freed' = Freed /\ Owners' = Owners
  BY DEF IInv, TypeOK, AdvanceRead, Committed, Freed, Owners, RGoto, writer
<1>3. ReadIdx' = Freed % Width
  BY Basics DEF IInv, Indexed, AdvanceRead
<1>4. Counted'
  BY <1>2 DEF IInv, TypeOK, Counted, AdvanceRead, ProducerHolds, ConsumerHolds, RGoto, writer
<1>5. Indexed'
  BY <1>2, <1>3 DEF IInv, TypeOK, Indexed, AdvanceRead, ProducerHolds, ConsumerHolds, RGoto,
    writer
<1>6. Owned'
  BY <1>2 DEF IInv, TypeOK, Owned, StateOf, AdvanceRead, RGoto, slots, writer
<1>. QED BY <1>1, <1>4, <1>5, <1>6 DEF IInv

\* Stuttering preserves it.
LEMMA StutterKeeps ==
  ASSUME IInv, UNCHANGED vars
  PROVE  IInv'
<1>. USE DEF vars, header, slots, writer, reader
<1>1. TypeOK' BY DEF IInv, TypeOK
<1>2. Committed' = Committed /\ Freed' = Freed /\ Owners' = Owners
  BY DEF Committed, Freed, Owners
<1>3. Counted' BY <1>2 DEF IInv, Counted, ProducerHolds, ConsumerHolds
<1>4. Indexed' BY <1>2 DEF IInv, Indexed, ProducerHolds, ConsumerHolds
<1>5. Owned' BY <1>2 DEF IInv, Owned, StateOf
<1>. QED BY <1>1, <1>3, <1>4, <1>5 DEF IInv

\* Every step keeps the invariant.
LEMMA NextKeeps == IInv /\ [Next]_vars => IInv'
<1>. SUFFICES ASSUME IInv, [Next]_vars PROVE IInv' OBVIOUS
<1>1. CASE Write(Producer)
  BY <1>1, FindFreeKeeps, OverflowKeeps, ClaimWriteKeeps, FillSlotKeeps, SetMetaKeeps,
     CommitReadyKeeps, AdvanceWriteKeeps, AccountWriteKeeps DEF Write
<1>2. CASE Read(Consumer)
  BY <1>2, FindReadyKeeps, ClaimReadKeeps, ReadSlotKeeps, AccountReadKeeps, FreeSlotKeeps,
     AdvanceReadKeeps DEF Read
<1>3. CASE UNCHANGED vars BY <1>3, StutterKeeps
<1>. QED BY <1>1, <1>2, <1>3, SPSCAssumption DEF Next

-----------------------------------------------------------------------------
(* The byte counters.                                                      *)

\* Sizes are numbers, and so are sums of them.
LEMMA SumsOfBytes ==
  ASSUME TypeOK, NEW S \in SUBSET SlotIds
  PROVE  /\ IsFiniteSet(S)
         /\ PayloadBytes \in [SlotIds -> Nat]
         /\ SumFunctionOnSet(PayloadBytes, S) \in Nat
<1>1. IsFiniteSet(S)
  <2>1. IsFiniteSet(SlotIds) BY Moduli, FS_Interval DEF SlotIds
  <2>. QED BY <2>1, FS_Subset
<1>2. PayloadBytes \in [SlotIds -> Nat] BY DEF PayloadBytes, TypeOK, Meta
<1>3. \A s \in S : PayloadBytes[s] \in Nat BY <1>2
<1>. QED BY <1>1, <1>2, <1>3, SumType

\* What the slots in their hands are for the two sides.
LEMMA HeldSlots ==
  ASSUME IInv
  PROVE  /\ wpc[Producer] = "claim" =>
              wslot[Producer] \in SlotIds /\ SlotState[wslot[Producer]] = FREE
         /\ wpc[Producer] \in {"fill", "meta", "commit"} =>
              wslot[Producer] \in SlotIds /\ SlotState[wslot[Producer]] = WRITING
         /\ wpc[Producer] \in {"advance", "account"} => wslot[Producer] \in SlotIds
         /\ rpc[Consumer] = "claim" =>
              rslot[Consumer] \in SlotIds /\ SlotState[rslot[Consumer]] = READY
         /\ rpc[Consumer] \in {"read", "account", "free"} =>
              rslot[Consumer] \in SlotIds /\ SlotState[rslot[Consumer]] = READING
<1>. USE Basics
<1>1. ASSUME ProducerHolds
      PROVE  /\ wslot[Producer] = Committed % Slots /\ wslot[Producer] \in SlotIds
             /\ SlotState[wslot[Producer]] = StateOf(Committed)
  BY <1>1 DEF IInv, Counted, Indexed, Owned
<1>2. ASSUME ConsumerHolds
      PROVE  /\ rslot[Consumer] = Freed % Slots /\ rslot[Consumer] \in SlotIds
             /\ SlotState[rslot[Consumer]] = StateOf(Freed) /\ Freed < Committed
  BY <1>2 DEF IInv, Counted, Indexed, Owned
<1>3. StateOf(Committed) = IF wpc[Producer] \in {"fill", "meta", "commit"} THEN WRITING ELSE FREE
  BY DEF StateOf
<1>4. Freed < Committed => StateOf(Freed) = IF rpc[Consumer] \in {"read", "account", "free"}
                                            THEN READING ELSE READY
  BY DEF StateOf
<1>. QED BY <1>1, <1>2, <1>3, <1>4 DEF ProducerHolds, ConsumerHolds, IInv, Indexed

\* A step that moves no bytes keeps the balance.
LEMMA NothingMoved ==
  ASSUME Balanced, UNCHANGED <<TotalBytesWritten, TotalBytesRead>>,
         UNCHANGED <<PayloadBytes, Full, NotYetCounted, NotYetFreed>>
  PROVE  Balanced'
BY Zenon DEF Balanced

\* The slot that is claimed was free, and is not full yet.
LEMMA ClaimWriteBalances ==
  ASSUME IInv, Balanced, ClaimWrite(Producer)
  PROVE  Balanced'
<1>. USE SPSCAssumption, HeldSlots DEF ClaimWrite, WGoto, header, reader
<1>1. Full' = Full
  BY DEF Full, IInv, TypeOK, FREE, WRITING, READY, READING
<1>2. UNCHANGED <<PayloadBytes, NotYetCounted, NotYetFreed>>
  BY DEF PayloadBytes, NotYetCounted, NotYetFreed, IInv, TypeOK
<1>. QED BY <1>1, <1>2, NothingMoved

\* The size is written in a slot that is not full.
LEMMA SetMetaBalances ==
  ASSUME IInv, Balanced, SetMeta(Producer)
  PROVE  Balanced'
<1>. USE SPSCAssumption, HeldSlots DEF SetMeta, WGoto, header, reader
<1>0. TypeOK BY DEF IInv
<1>1. Full' = Full /\ Full \in SUBSET SlotIds /\ wslot[Producer] \notin Full
  BY DEF Full, WRITING, READY, READING
<1>2. \A s \in SlotIds \ {wslot[Producer]} : PayloadBytes[s] = PayloadBytes'[s]
  BY <1>0 DEF PayloadBytes, TypeOK
<1>3. SumFunctionOnSet(PayloadBytes, Full) = SumFunctionOnSet(PayloadBytes', Full')
  <2>1. IsFiniteSet(Full) BY <1>0, <1>1, SumsOfBytes
  <2>2. \A s \in Full : PayloadBytes[s] = PayloadBytes'[s] BY <1>1, <1>2
  <2>. QED BY ONLY <1>1, <2>1, <2>2, SumCongruence
<1>4. NotYetFreed' = NotYetFreed
  <2>1. rpc[Consumer] = "free" => rslot[Consumer] \in SlotIds \ {wslot[Producer]}
    BY DEF WRITING, READING
  <2>. QED BY <1>2, <2>1 DEF NotYetFreed
<1>5. NotYetCounted = 0 /\ NotYetCounted' = 0
  BY <1>0 DEF NotYetCounted, TypeOK
<1>. QED BY <1>3, <1>4, <1>5, Zenon DEF Balanced

\* The slot is full from now on, and its bytes are counted later.
LEMMA CommitReadyBalances ==
  ASSUME IInv, Balanced, CommitReady(Producer)
  PROVE  Balanced'
<1>. USE SPSCAssumption, HeldSlots DEF CommitReady, WGoto, header, reader
<1>. DEFINE s == wslot[Producer]
<1>0. TypeOK /\ s \in SlotIds BY DEF IInv
<1>1. /\ Full' = Full \cup {s} /\ s \notin Full
      /\ Full \in SUBSET SlotIds /\ Full \cup {s} \in SUBSET SlotIds
  BY <1>0 DEF Full, TypeOK, WRITING, READY, READING
<1>2. PayloadBytes' = PayloadBytes /\ NotYetFreed' = NotYetFreed
  BY DEF PayloadBytes, NotYetFreed
<1>3. NotYetCounted = 0 /\ NotYetCounted' = PayloadBytes[s]
  BY <1>0, <1>2 DEF NotYetCounted, TypeOK
<1>4. SumFunctionOnSet(PayloadBytes, Full \cup {s})
        = PayloadBytes[s] + SumFunctionOnSet(PayloadBytes, Full)
  <2>1. IsFiniteSet(Full) /\ PayloadBytes \in [SlotIds -> Nat] BY <1>0, <1>1, SumsOfBytes
  <2>2. \A x \in Full \cup {s} : PayloadBytes[x] \in Int BY <1>1, <2>1
  <2>. HIDE DEF s
  <2>. QED BY ONLY <1>1, <2>1, <2>2, SumAdd
<1>5. /\ PayloadBytes[s] \in Nat /\ SumFunctionOnSet(PayloadBytes, Full) \in Nat
      /\ TotalBytesWritten \in Nat /\ TotalBytesRead \in Nat /\ NotYetFreed \in Nat
  <2>1. PayloadBytes \in [SlotIds -> Nat] /\ SumFunctionOnSet(PayloadBytes, Full) \in Nat
    BY <1>0, <1>1, SumsOfBytes
  <2>. QED BY <1>0, <2>1 DEF TypeOK, NotYetFreed
<1>6. UNCHANGED <<TotalBytesWritten, TotalBytesRead>> OBVIOUS
<1>7. TotalBytesWritten + 0 + NotYetFreed
        = TotalBytesRead + SumFunctionOnSet(PayloadBytes, Full)
  BY <1>3, Zenon DEF Balanced
<1>. HIDE DEF s
<1>8. TotalBytesWritten + PayloadBytes[s] + NotYetFreed
        = TotalBytesRead + SumFunctionOnSet(PayloadBytes, Full \cup {s})
  BY ONLY <1>4, <1>5, <1>7
<1>. QED BY ONLY <1>1, <1>2, <1>3, <1>6, <1>8, Zenon DEF Balanced

\* The bytes of the last payload are counted.
LEMMA AccountWriteBalances ==
  ASSUME IInv, Balanced, AccountWrite(Producer)
  PROVE  Balanced'
<1>. USE SPSCAssumption, HeldSlots DEF AccountWrite, WGoto, reader, slots
<1>. DEFINE b == PayloadBytes[wslot[Producer]]
<1>0. TypeOK BY DEF IInv
<1>1. /\ UNCHANGED <<PayloadBytes, Full, NotYetFreed, TotalBytesRead>>
      /\ Full \in SUBSET SlotIds
  BY DEF PayloadBytes, Full, NotYetFreed
<1>2. NotYetCounted = b /\ NotYetCounted' = 0
  BY <1>0 DEF NotYetCounted, TypeOK
<1>3. TotalBytesWritten' = TotalBytesWritten + b BY DEF PayloadBytes
<1>4. /\ b \in Nat /\ NotYetFreed \in Nat
      /\ TotalBytesWritten \in Nat /\ TotalBytesRead \in Nat
  <2>1. PayloadBytes \in [SlotIds -> Nat] BY <1>0, <1>1, SumsOfBytes
  <2>. QED BY <1>0, <2>1 DEF TypeOK, NotYetFreed
<1>. HIDE DEF b
<1>5. TotalBytesWritten + b + NotYetFreed
        = TotalBytesRead + SumFunctionOnSet(PayloadBytes, Full)
  BY ONLY Balanced, <1>2, Zenon DEF Balanced
<1>6. (TotalBytesWritten + b) + 0 + NotYetFreed = TotalBytesWritten + b + NotYetFreed
  BY ONLY <1>4
<1>. QED BY ONLY <1>1, <1>2, <1>3, <1>5, <1>6, Zenon DEF Balanced

\* A slot that is claimed to be read stays full.
LEMMA ClaimReadBalances ==
  ASSUME IInv, Balanced, ClaimRead(Consumer)
  PROVE  Balanced'
<1>. USE SPSCAssumption, HeldSlots DEF ClaimRead, RGoto, header, writer
<1>1. Full' = Full
  BY DEF Full, IInv, TypeOK, READY, READING
<1>2. UNCHANGED <<PayloadBytes, NotYetCounted, NotYetFreed>>
  BY DEF PayloadBytes, NotYetCounted, NotYetFreed, IInv, TypeOK
<1>. QED BY <1>1, <1>2, NothingMoved

\* The bytes are counted as read while their slot is still full.
LEMMA AccountReadBalances ==
  ASSUME IInv, Balanced, AccountRead(Consumer)
  PROVE  Balanced'
<1>. USE SPSCAssumption, HeldSlots DEF AccountRead, RGoto, writer, slots
<1>. DEFINE b == PayloadBytes[rslot[Consumer]]
<1>0. TypeOK BY DEF IInv
<1>1. /\ UNCHANGED <<PayloadBytes, Full, NotYetCounted, TotalBytesWritten>>
      /\ Full \in SUBSET SlotIds
  BY DEF PayloadBytes, Full, NotYetCounted
<1>2. NotYetFreed = 0 /\ NotYetFreed' = b
  BY <1>0, <1>1 DEF NotYetFreed, TypeOK
<1>3. TotalBytesRead' = TotalBytesRead + b BY DEF PayloadBytes
<1>4. /\ b \in Nat /\ NotYetCounted \in Nat
      /\ TotalBytesWritten \in Nat /\ TotalBytesRead \in Nat
      /\ SumFunctionOnSet(PayloadBytes, Full) \in Nat
  <2>1. PayloadBytes \in [SlotIds -> Nat] /\ SumFunctionOnSet(PayloadBytes, Full) \in Nat
    BY <1>0, <1>1, SumsOfBytes
  <2>. QED BY <1>0, <2>1 DEF TypeOK, NotYetCounted
<1>. HIDE DEF b
<1>5. TotalBytesWritten + NotYetCounted + 0
        = TotalBytesRead + SumFunctionOnSet(PayloadBytes, Full)
  BY ONLY Balanced, <1>2, Zenon DEF Balanced
<1>6. TotalBytesWritten + NotYetCounted + b
        = (TotalBytesRead + b) + SumFunctionOnSet(PayloadBytes, Full)
  BY ONLY <1>4, <1>5
<1>. QED BY ONLY <1>1, <1>2, <1>3, <1>6, Zenon DEF Balanced

\* The slot of the payload that was counted as read is full no longer.
LEMMA FreeSlotBalances ==
  ASSUME IInv, Balanced, FreeSlot(Consumer)
  PROVE  Balanced'
<1>. USE SPSCAssumption, HeldSlots DEF FreeSlot, RGoto, header, writer
<1>. DEFINE s == rslot[Consumer]
<1>0. TypeOK /\ s \in SlotIds BY DEF IInv
<1>1. /\ Full' = Full \ {s} /\ s \in Full
      /\ Full \in SUBSET SlotIds /\ Full \ {s} \in SUBSET SlotIds
  BY <1>0 DEF Full, TypeOK, FREE, READY, READING
<1>2. PayloadBytes' = PayloadBytes /\ NotYetCounted' = NotYetCounted
  BY DEF PayloadBytes, NotYetCounted
<1>3. NotYetFreed = PayloadBytes[s] /\ NotYetFreed' = 0
  BY <1>0 DEF NotYetFreed, TypeOK
<1>4. SumFunctionOnSet(PayloadBytes, Full)
        = PayloadBytes[s] + SumFunctionOnSet(PayloadBytes, Full \ {s})
  <2>1. IsFiniteSet(Full) /\ PayloadBytes \in [SlotIds -> Nat] BY <1>0, <1>1, SumsOfBytes
  <2>2. \A x \in Full : PayloadBytes[x] \in Int BY <1>1, <2>1
  <2>. HIDE DEF s
  <2>. QED BY ONLY <1>1, <2>1, <2>2, SumRemove
<1>5. /\ PayloadBytes[s] \in Nat /\ SumFunctionOnSet(PayloadBytes, Full \ {s}) \in Nat
      /\ TotalBytesWritten \in Nat /\ TotalBytesRead \in Nat /\ NotYetCounted \in Nat
  <2>1. /\ PayloadBytes \in [SlotIds -> Nat]
        /\ SumFunctionOnSet(PayloadBytes, Full \ {s}) \in Nat
    BY <1>0, <1>1, SumsOfBytes
  <2>. QED BY <1>0, <2>1 DEF TypeOK, NotYetCounted
<1>6. UNCHANGED <<TotalBytesWritten, TotalBytesRead>> OBVIOUS
<1>7. TotalBytesWritten + NotYetCounted + PayloadBytes[s]
        = TotalBytesRead + SumFunctionOnSet(PayloadBytes, Full)
  BY <1>3, Zenon DEF Balanced
<1>. HIDE DEF s
<1>8. TotalBytesWritten + NotYetCounted + 0
        = TotalBytesRead + SumFunctionOnSet(PayloadBytes, Full \ {s})
  BY ONLY <1>4, <1>5, <1>7
<1>. QED BY ONLY <1>1, <1>2, <1>3, <1>6, <1>8, Zenon DEF Balanced

\* Every step keeps the balance.
LEMMA NextBalances ==
  ASSUME IInv, Balanced, [Next]_vars
  PROVE  Balanced'
<1>. USE SPSCAssumption
<1>a. /\ wpc \in [Writers -> WriterPC] /\ rpc \in [Readers -> ReaderPC]
      /\ seqCounter \in [Writers -> Nat]
  BY DEF IInv, TypeOK
<1>1. CASE FindFree(Producer) \/ Overflow(Producer) \/ FillSlot(Producer)
             \/ AdvanceWrite(Producer)
  <2>. USE <1>a DEF FindFree, Overflow, FillSlot, AdvanceWrite, header, slots, writer, reader,
                    WGoto
  <2>1. UNCHANGED <<TotalBytesWritten, TotalBytesRead, PayloadBytes, Full, NotYetFreed>>
    BY <1>1 DEF PayloadBytes, Full, NotYetFreed
  <2>2. NotYetCounted' = NotYetCounted
    BY <1>1, <2>1 DEF NotYetCounted
  <2>. QED BY ONLY <2>1, <2>2, Balanced, NothingMoved
<1>2. CASE FindReady(Consumer) \/ ReadSlot(Consumer) \/ AdvanceRead(Consumer)
  <2>. USE <1>a DEF FindReady, ReadSlot, AdvanceRead, header, slots, writer, reader, RGoto
  <2>1. UNCHANGED <<TotalBytesWritten, TotalBytesRead, PayloadBytes, Full, NotYetCounted>>
    BY <1>2 DEF PayloadBytes, Full, NotYetCounted
  <2>2. NotYetFreed' = NotYetFreed
    BY <1>2, <2>1 DEF NotYetFreed
  <2>. QED BY ONLY <2>1, <2>2, Balanced, NothingMoved
<1>3. CASE UNCHANGED vars
  BY <1>3, NothingMoved
     DEF vars, header, slots, writer, reader, PayloadBytes, Full, NotYetCounted, NotYetFreed
<1>4. CASE Write(Producer)
  BY <1>1, <1>4, ClaimWriteBalances, SetMetaBalances, CommitReadyBalances,
     AccountWriteBalances DEF Write
<1>5. CASE Read(Consumer)
  BY <1>2, <1>5, ClaimReadBalances, AccountReadBalances, FreeSlotBalances DEF Read
<1>. QED BY <1>3, <1>4, <1>5 DEF Next

\* The balance says between calls what BytesBalance does: no slot is being read then.
LEMMA BalancedBetweenCalls == IInv /\ Balanced => BytesBalance
<1>. SUFFICES ASSUME IInv, Balanced, wpc[Producer] = "idle", rpc[Consumer] = "idle"
              PROVE  TotalBytesWritten - TotalBytesRead =
                       SumFunctionOnSet(PayloadBytes, {s \in SlotIds : SlotState[s] = READY})
  BY DEF BytesBalance
<1>1. TypeOK BY DEF IInv
<1>2. ASSUME NEW s \in SlotIds PROVE SlotState[s] # READING
  <2>1. PICK k \in Owners : k % Slots = s BY Basics, EverySlotOwned DEF Owners
  <2>2. StateOf(k) # READING BY DEF StateOf, FREE, WRITING, READY, READING
  <2>. QED BY <2>1, <2>2 DEF IInv, Owned
<1>3. Full = {s \in SlotIds : SlotState[s] = READY}
  BY <1>2 DEF Full
<1>4. NotYetCounted = 0 /\ NotYetFreed = 0 BY DEF NotYetCounted, NotYetFreed
<1>5. /\ TotalBytesWritten \in Nat /\ TotalBytesRead \in Nat
      /\ SumFunctionOnSet(PayloadBytes, Full) \in Nat
  <2>1. Full \in SUBSET SlotIds BY DEF Full
  <2>2. SumFunctionOnSet(PayloadBytes, Full) \in Nat BY <1>1, <2>1, SumsOfBytes
  <2>. QED BY <1>1, <2>2 DEF TypeOK
<1>6. TotalBytesWritten + 0 + 0 = TotalBytesRead + SumFunctionOnSet(PayloadBytes, Full)
  BY <1>4, Zenon DEF Balanced
<1>7. TotalBytesWritten - TotalBytesRead = SumFunctionOnSet(PayloadBytes, Full)
  BY ONLY <1>5, <1>6
<1>. QED BY <1>3, <1>7, Zenon

-----------------------------------------------------------------------------
(* The theorems.                                                           *)

\* With one producer and one consumer, the slots hold the payloads from Freed
\* to Committed in order, whichever statements of the two are interleaved.
THEOREM Inductive == Spec => []IInv
<1>. QED BY InitInvariant, NextKeeps, PTL DEF Spec

\* Indices, slot states and counters of shm_ring.c stay in their ranges.
THEOREM TypeCorrect == Spec => []TypeOK
<1>1. IInv => TypeOK BY DEF IInv
<1>. QED BY <1>1, Inductive, PTL

\* The consumer never reads a slot while the producer writes it, and never
\* finds metadata of another payload in it.
THEOREM ReadsAreWhole == Spec => []NoTornRead
<1>1. IInv => NoTornRead
  <2>. SUFFICES ASSUME IInv, ConsumerHolds PROVE NoTornRead BY DEF NoTornRead
  <2>. USE Basics
  <2>1. rslot[Consumer] = Freed % Slots /\ Freed < Committed
    BY DEF IInv, Indexed, Counted
  <2>2. SlotMeta[Freed % Slots].PayloadId = SlotData[Freed % Slots]
    BY <2>1 DEF IInv, Owned
  <2>3. ASSUME ProducerHolds PROVE wslot[Producer] # rslot[Consumer]
    <3>1. wslot[Producer] = Committed % Slots /\ Committed < Freed + Slots
      BY <2>3 DEF IInv, Indexed, Counted
    <3>2. Committed \in Owners /\ Freed \in Owners /\ Committed # Freed BY <2>1, <3>1
    <3>. QED BY <2>1, <3>1, <3>2
  <2>. QED BY <2>1, <2>2, <2>3 DEF NoTornRead
<1>. QED BY <1>1, Inductive, PTL

\* Whenever neither side is in a call, the lifetime counters differ by the
\* bytes of the payloads in the ring, whatever their sizes.
THEOREM BytesAreAccounted == Spec => []BytesBalance
<1>1. Init => Balanced
  <2>. SUFFICES ASSUME Init PROVE Balanced OBVIOUS
  <2>1. Full = {} BY DEF Init, Full, FREE, READY, READING
  <2>2. SumFunctionOnSet(PayloadBytes, Full) = 0 BY ONLY <2>1, SumEmpty
  <2>3. NotYetCounted = 0 /\ NotYetFreed = 0
    BY SPSCAssumption DEF Init, NotYetCounted, NotYetFreed
  <2>. QED BY <2>2, <2>3 DEF Init, Balanced
<1>2. IInv /\ Balanced /\ [Next]_vars => Balanced' BY NextBalances
<1>. QED BY <1>1, <1>2, Inductive, BalancedBetweenCalls, PTL DEF Spec

\* The producer is refused only when all the slots are in use.
THEOREM BackpressureIsHonest == Spec => RefusesOnlyWhenFull
<1>1. ASSUME IInv, [Next]_vars, OverflowCount' # OverflowCount
      PROVE  \A s \in SlotIds : SlotState[s] # FREE
  <2>. USE Basics, Moduli
  <2>1. Overflow(Producer)
    BY <1>1, SPSCAssumption DEF Next, vars, header, Write, Read, FindFree, ClaimWrite,
      FillSlot, SetMeta, CommitReady, AdvanceWrite, AccountWrite, FindReady, ClaimRead,
      ReadSlot, AccountRead, FreeSlot, AdvanceRead
  <2>2. WriteIdx % Slots = Committed % Slots
    BY <1>1, <2>1 DEF IInv, Indexed, Overflow
  <2>3. Committed = Freed + Slots
    <3>. SUFFICES ASSUME Committed # Freed + Slots PROVE FALSE OBVIOUS
    <3>1. Committed \in Owners BY <1>1 DEF IInv, Counted
    <3>2. StateOf(Committed) = FREE BY <1>1, <2>1 DEF StateOf, Overflow
    <3>. QED BY <1>1, <2>1, <2>2, <3>1, <3>2 DEF IInv, Owned, Overflow
  <2>. SUFFICES ASSUME NEW s \in SlotIds PROVE SlotState[s] # FREE OBVIOUS
  <2>4. PICK k \in Owners : k % Slots = s
    <3>1. Freed \in Nat BY <1>1
    <3>. QED BY <3>1, EverySlotOwned DEF Owners
  <2>5. k < Committed BY <1>1, <2>3 DEF Owners
  <2>6. StateOf(k) \in {READY, READING} BY <2>5 DEF StateOf
  <2>. QED BY <1>1, <2>4, <2>6 DEF IInv, Owned, READY, READING, FREE
<1>. QED BY <1>1, Inductive, PTL DEF Spec, RefusesOnlyWhenFull

\* What a call finds is what there is to do, however often the indices have
\* wrapped and wherever the other side stands in its own call: the consumer
\* finds a payload exactly when one is committed that it has not read, and the
\* producer finds a slot exactly when fewer than Slots payloads are in the
\* ring.  A side that polls cannot look at the wrong slot for ever, which is
\* the part of Delivered that does not need fairness.
CallsFindTheirSlot ==
  /\ rpc[Consumer] = "idle" =>
       (SlotState[ReadIdx % Slots] = READY <=> got[Consumer] < Committed)
  /\ wpc[Producer] = "idle" =>
       (SlotState[WriteIdx % Slots] = FREE <=> Committed < Freed + Slots)

THEOREM CallsAreAnswered == Spec => []CallsFindTheirSlot
<1>1. IInv => CallsFindTheirSlot
  <2>. SUFFICES ASSUME IInv PROVE CallsFindTheirSlot OBVIOUS
  <2>. USE Basics DEF READY, READING, FREE, WRITING
  <2>1. Freed <= Committed /\ Committed <= Freed + Slots
    BY DEF IInv, Counted
  <2>2. ASSUME rpc[Consumer] = "idle"
        PROVE  SlotState[ReadIdx % Slots] = READY <=> got[Consumer] < Committed
    <3>1. ReadIdx % Slots = Freed % Slots BY <2>2 DEF IInv, Indexed
    <3>2. Freed = got[Consumer]
      BY <2>2, SPSCAssumption DEF IInv, TypeOK, Freed
    <3>3. StateOf(Freed) = READY <=> Freed < Committed
      BY <2>2 DEF StateOf
    <3>. QED BY <3>1, <3>2, <3>3 DEF IInv, Owned
  <2>3. ASSUME wpc[Producer] = "idle"
        PROVE  SlotState[WriteIdx % Slots] = FREE <=> Committed < Freed + Slots
    <3>1. WriteIdx % Slots = Committed % Slots BY <2>3 DEF IInv, Indexed
    <3>2. CASE Committed < Freed + Slots
      <4>1. StateOf(Committed) = FREE BY <2>3 DEF StateOf
      <4>. QED BY <3>1, <3>2, <4>1 DEF IInv, Owned
    <3>3. CASE Committed = Freed + Slots
      <4>1. Freed < Committed BY <3>3, Moduli
      <4>2. StateOf(Freed) # FREE BY <4>1 DEF StateOf
      <4>. QED BY <3>1, <3>3, <4>2 DEF IInv, Owned
    <3>4. Committed < Freed + Slots \/ Committed = Freed + Slots
      <4>1. Committed \in Nat /\ Freed \in Nat /\ Slots \in Nat BY Moduli
      <4>. QED BY ONLY <2>1, <4>1
    <3>. QED BY <3>2, <3>3, <3>4
  <2>. QED BY <2>2, <2>3 DEF CallsFindTheirSlot
<1>. QED BY <1>1, Inductive, PTL

\* The ring implements the bounded FIFO: CommitReady is its Send, ReadSlot is
\* its Receive, and every other statement stutters.
THEOREM Refinement == Spec => ImplementsFifo
<1>. USE DEF Fifo!fifoVars
<1>1. Init => Fifo!FifoInit
  BY SPSCAssumption DEF Init, Fifo!FifoInit, Committed
<1>2. IInv /\ [Next]_vars => [Fifo!FifoNext]_(Fifo!fifoVars)
  <2>. SUFFICES ASSUME IInv, [Next]_vars PROVE [Fifo!FifoNext]_(Fifo!fifoVars) OBVIOUS
  <2>. USE Basics, SPSCAssumption
  <2>0. IInv' BY NextKeeps
  <2>1. CASE CommitReady(Producer)
    <3>1. Committed' = Committed + 1
      BY <2>1 DEF IInv, TypeOK, CommitReady, Committed, WGoto
    <3>2. Committed < got[Consumer] + Slots
      <4>1. got[Consumer] \in Nat BY DEF IInv, TypeOK
      <4>2. Freed <= got[Consumer] BY <4>1 DEF Freed
      <4>3. Committed < Freed + Slots
        BY <2>1 DEF IInv, Counted, CommitReady, ProducerHolds
      <4>. QED BY <4>1, <4>2, <4>3, Moduli
    <3>3. Fifo!Send BY <2>1, <3>1, <3>2 DEF Fifo!Send, CommitReady, reader
    <3>. QED BY <3>3 DEF Fifo!FifoNext
  <2>2. CASE ReadSlot(Consumer)
    <3>1. Freed = got[Consumer] /\ Freed < Committed /\ rslot[Consumer] = Freed % Slots
      <4>1. got[Consumer] \in Nat BY DEF IInv, TypeOK
      <4>2. Freed = got[Consumer] BY <2>2, <4>1 DEF ReadSlot, Freed
      <4>. QED BY <2>2, <4>2 DEF IInv, Counted, Indexed, ReadSlot, ConsumerHolds
    <3>2. SlotData[Freed % Slots] = Freed + 1 BY <3>1 DEF IInv, Owned
    <3>3. got'[Consumer] = got[Consumer] + 1
      BY <2>2, <3>1, <3>2 DEF IInv, TypeOK, ReadSlot
    <3>4. Fifo!Receive
      BY <2>2, <3>1, <3>3 DEF Fifo!Receive, ReadSlot, writer, Committed
    <3>. QED BY <3>4 DEF Fifo!FifoNext
  <2>3. CASE Write(Producer) /\ ~CommitReady(Producer)
    <3>1. Committed' = Committed
      BY <2>3 DEF IInv, TypeOK, Write, FindFree, Overflow, ClaimWrite, FillSlot, SetMeta,
        AdvanceWrite, AccountWrite, Committed, WGoto, writer
    <3>2. got' = got
      BY <2>3 DEF Write, FindFree, Overflow, ClaimWrite, FillSlot, SetMeta,
        AdvanceWrite, AccountWrite, reader
    <3>. QED BY <3>1, <3>2
  <2>4. CASE Read(Consumer) /\ ~ReadSlot(Consumer)
    <3>1. got' = got /\ Committed' = Committed
      BY <2>4 DEF Read, FindReady, ClaimRead, AccountRead, FreeSlot, AdvanceRead,
        Committed, writer
    <3>. QED BY <3>1
  <2>5. CASE UNCHANGED vars
    BY <2>5 DEF vars, writer, reader, Committed
  <2>. QED BY <2>1, <2>2, <2>3, <2>4, <2>5 DEF Next
<1>. QED BY <1>1, <1>2, Inductive, PTL DEF Spec, ImplementsFifo, Fifo!FifoSpec
=============================================================================
