----------------------------- MODULE RingProofs -----------------------------
(***************************************************************************)
(* Lemmas about the counters and slots of Rings.                           *)
(***************************************************************************)
EXTENDS Rings, CounterArith

---------------------------------------------------------------------------
\* Arithmetic of the counters, so that later steps need not unfold %.

\* Every modulus is positive and each ring divides its counters.
LEMMA Moduli ==
  /\ CounterMod \in Nat \ {0} /\ WqeIdxMod \in Nat \ {0} /\ CqDbMod \in Nat \ {0}
  /\ WqeCnt \in Nat \ {0} /\ CqeCnt \in Nat \ {0}
  /\ WqeCnt < CounterMod /\ CqeCnt < CounterMod /\ WqeCnt <= CqeCnt
  /\ CounterMod % WqeCnt = 0 /\ WqeIdxMod % WqeCnt = 0 /\ CounterMod % CqeCnt = 0
  /\ CounterMod % (2 * CqeCnt) = 0 /\ CounterMod % CqDbMod = 0
<1>1. /\ CounterMod \in Nat \ {0} /\ WqeIdxMod \in Nat \ {0} /\ CqDbMod \in Nat \ {0}
      /\ WqeCnt \in Nat \ {0} /\ CqeCnt \in Nat \ {0} /\ WqeCnt <= CqeCnt
      /\ WqeCnt < WqeIdxMod
  BY RingAssumption, WidthAssumption
<1>2. /\ WqeIdxMod % WqeCnt = 0 /\ CounterMod % WqeIdxMod = 0
      /\ CounterMod % (2 * CqeCnt) = 0 /\ CounterMod % CqDbMod = 0
  BY WidthAssumption, Zenon
<1>3. CounterMod % WqeCnt = 0
  BY <1>1, <1>2, DivTrans
<1>4. WqeIdxMod <= CounterMod
  BY <1>1, <1>2, DivLeq
<1>5. CounterMod % CqeCnt = 0 /\ 2 * CqeCnt <= CounterMod
  BY <1>1, <1>2, EvenLaps
<1>6. WqeCnt < CounterMod /\ CqeCnt < CounterMod
  BY <1>1, <1>4, <1>5
<1> QED
  BY <1>1, <1>2, <1>3, <1>5, <1>6, Zenon

\* Adding to a counter and taking the difference of two.
LEMMA AddDef ==
  ASSUME NEW x \in Counter, NEW n \in 0 .. CounterMod
  PROVE  Add(x, n) = (IF x + n < CounterMod THEN x + n ELSE x + n - CounterMod)
  BY Moduli, AddNear DEF Add, Counter

\* The distance between two counters, across a wrap or not.
LEMMA SubDef ==
  ASSUME NEW x \in Counter, NEW y \in Counter
  PROVE  Sub(x, y) = (IF x >= y THEN x - y ELSE x - y + CounterMod)
  BY Moduli, SubNear DEF Sub, Counter

\* Counters stay in range, and the distance moves with either end.
LEMMA CounterFacts ==
  ASSUME NEW x \in Counter, NEW y \in Counter
  PROVE  /\ Sub(x, y) \in 0 .. CounterMod - 1
         /\ Sub(x, x) = 0
         /\ Add(x, 0) = x
         /\ Add(y, Sub(x, y)) = x
<1>1. CounterMod \in Nat \ {0}
  BY Moduli
<1>2. Sub(x, y) = (IF x >= y THEN x - y ELSE x - y + CounterMod) /\ Sub(x, x) = 0
  BY <1>1, SubDef DEF Counter
<1>3. Sub(x, y) \in 0 .. CounterMod - 1
  BY <1>1, <1>2 DEF Counter
<1>4. Add(y, Sub(x, y)) = x
  <2>1. Add(y, Sub(x, y)) = (IF y + Sub(x, y) < CounterMod THEN y + Sub(x, y)
                             ELSE y + Sub(x, y) - CounterMod)
    BY <1>1, <1>3, AddDef
  <2> QED
    BY <1>1, <1>2, <2>1 DEF Counter
<1>5. Add(x, 0) = x
  BY <1>1, AddDef DEF Counter
<1> QED
  BY <1>2, <1>3, <1>4, <1>5

\* Adding stays in range and accumulates.
LEMMA AddFacts ==
  ASSUME NEW x \in Counter, NEW a \in 0 .. CounterMod, NEW b \in 0 .. CounterMod,
         a + b <= CounterMod
  PROVE  /\ Add(x, a) \in Counter
         /\ Add(Add(x, a), b) = Add(x, a + b)
<1>1. CounterMod \in Nat \ {0} /\ a + b \in 0 .. CounterMod
  BY Moduli
<1>2. Add(x, a) = (IF x + a < CounterMod THEN x + a ELSE x + a - CounterMod)
  BY AddDef
<1>3. Add(x, a) \in Counter
  BY <1>1, <1>2 DEF Counter
<1>4. Add(Add(x, a), b) = (IF Add(x, a) + b < CounterMod THEN Add(x, a) + b
                           ELSE Add(x, a) + b - CounterMod)
  BY <1>3, AddDef
<1>5. Add(x, a + b) = (IF x + (a + b) < CounterMod THEN x + (a + b)
                       ELSE x + (a + b) - CounterMod)
  BY <1>1, AddDef
<1> QED
  BY <1>1, <1>2, <1>3, <1>4, <1>5 DEF Counter

\* Moving the leading end of an interval.
LEMMA SubExtend ==
  ASSUME NEW x \in Counter, NEW y \in Counter, NEW a \in Nat,
         Sub(x, y) + a < CounterMod
  PROVE  Sub(Add(x, a), y) = Sub(x, y) + a
<1>1. CounterMod \in Nat \ {0} /\ a \in 0 .. CounterMod
  BY Moduli, CounterFacts
<1>2. Add(x, a) = (IF x + a < CounterMod THEN x + a ELSE x + a - CounterMod)
  BY <1>1, AddDef
<1>3. Add(x, a) \in Counter
  BY <1>1, <1>2 DEF Counter
<1>4. Sub(Add(x, a), y) = (IF Add(x, a) >= y THEN Add(x, a) - y
                           ELSE Add(x, a) - y + CounterMod)
  BY <1>3, SubDef
<1>5. Sub(x, y) = (IF x >= y THEN x - y ELSE x - y + CounterMod)
  BY SubDef
<1> QED
  BY <1>1, <1>2, <1>4, <1>5 DEF Counter

\* Moving the trailing end of an interval.
LEMMA SubShrink ==
  ASSUME NEW x \in Counter, NEW y \in Counter, NEW a \in Nat, a <= Sub(x, y)
  PROVE  Sub(x, Add(y, a)) = Sub(x, y) - a
<1>1. CounterMod \in Nat \ {0} /\ a \in 0 .. CounterMod
  BY Moduli, CounterFacts
<1>2. Add(y, a) = (IF y + a < CounterMod THEN y + a ELSE y + a - CounterMod)
  BY <1>1, AddDef
<1>3. Add(y, a) \in Counter
  BY <1>1, <1>2 DEF Counter
<1>4. Sub(x, Add(y, a)) = (IF x >= Add(y, a) THEN x - Add(y, a)
                           ELSE x - Add(y, a) + CounterMod)
  BY <1>3, SubDef
<1>5. Sub(x, y) = (IF x >= y THEN x - y ELSE x - y + CounterMod)
  BY SubDef
<1> QED
  BY <1>1, <1>2, <1>4, <1>5 DEF Counter

---------------------------------------------------------------------------
\* Slots of the two rings.

\* The slot of a counter does not depend on when it wraps.
LEMMA SlotShift ==
  ASSUME NEW x \in Counter, NEW base \in Counter, NEW k \in Nat
  PROVE  SlotOf(x + k) = (base + Sub(x, base) + k) % WqeCnt
<1>1. CounterMod \in Nat \ {0} /\ WqeCnt \in Nat \ {0} /\ CounterMod % WqeCnt = 0
  BY Moduli, Zenon
<1>2. PICK q \in Int : CounterMod = WqeCnt * q
  BY <1>1, DivMod
<1>3. PICK d \in Int : d = Sub(x, base)
  BY <1>1, CounterFacts
<1>4. d = (IF x >= base THEN x - base ELSE x - base + CounterMod)
  BY <1>3, SubDef
<1>5. PICK a \in Int, b \in Int : a = x + k /\ b = base + d + k
  BY DEF Counter
<1>6. b = a + WqeCnt * 0 \/ b = a + WqeCnt * q
  BY <1>1, <1>2, <1>4, <1>5 DEF Counter
<1>7. b % WqeCnt = a % WqeCnt
  <2>1. PICK z \in Int : b = a + WqeCnt * z
    BY <1>6
  <2>2. WqeCnt \in Nat \ {0}
    BY <1>1
  <2> QED
    BY <2>1, <2>2, ModLaps
<1> QED
  BY <1>3, <1>5, <1>7 DEF SlotOf

\* Sends that do not overlap share no block of the ring.
LEMMA BlocksDisjoint ==
  ASSUME NEW base \in Counter, NEW x \in Counter, NEW n \in Nat,
         NEW y \in Counter, NEW p \in Nat,
         Sub(x, base) + n <= Sub(y, base), Sub(y, base) + p <= WqeCnt,
         NEW i \in 0 .. n - 1, NEW j \in 0 .. p - 1
  PROVE  SlotOf(x + i) # SlotOf(y + j)
<1>1. PICK a \in Int, b \in Int : /\ a = base + Sub(x, base) + i
                                  /\ b = base + Sub(y, base) + j
  <2>1. Sub(x, base) \in Int /\ Sub(y, base) \in Int
    BY CounterFacts, Moduli
  <2>2. base \in Int
    BY Moduli DEF Counter
  <2> QED
    BY <2>1, <2>2
<1>2. WqeCnt \in Nat \ {0}
  BY Moduli
<1>3. a < b /\ b < a + WqeCnt
  <2>1. Sub(x, base) \in Nat /\ Sub(y, base) \in Nat /\ base \in Nat
    BY CounterFacts, Moduli DEF Counter
  <2> QED
    BY <1>1, <1>2, <2>1
<1>4. a % WqeCnt # b % WqeCnt
  BY <1>2, <1>3, ModDistinct
<1>5. SlotOf(x + i) = a % WqeCnt /\ SlotOf(y + j) = b % WqeCnt
  <2>1. i \in Nat /\ j \in Nat
    OBVIOUS
  <2> QED
    BY <1>1, <2>1, SlotShift
<1> QED
  BY <1>4, <1>5

\* The 16 bits a CQE carries address the same slot.
LEMMA SlotOfIdx ==
  ASSUME NEW x \in Counter
  PROVE  SlotOf(x % WqeIdxMod) = SlotOf(x) /\ SlotOf(x) \in Slot
<1>1. /\ WqeIdxMod \in Nat \ {0} /\ WqeCnt \in Nat \ {0} /\ WqeIdxMod % WqeCnt = 0
      /\ x \in Int
  BY Moduli DEF Counter
<1>2. (x % WqeIdxMod) % WqeCnt = x % WqeCnt
  BY <1>1, ModOfMod
<1>3. x % WqeCnt \in 0 .. WqeCnt - 1
  BY <1>1, DivMod
<1> QED
  BY <1>2, <1>3 DEF SlotOf, Slot

\* Less than a lap apart, completion ring entries differ.
LEMMA CqSlotsDiffer ==
  ASSUME NEW x \in Counter, NEW a \in 0 .. CqeCnt - 1, NEW b \in 0 .. CqeCnt - 1, a # b
  PROVE  CqSlotOf(Add(x, a)) # CqSlotOf(Add(x, b))
<1>1. /\ CounterMod \in Nat \ {0} /\ CqeCnt \in Nat \ {0} /\ CounterMod % CqeCnt = 0
      /\ x \in Int
  BY Moduli DEF Counter
<1>2. PICK u \in Int, v \in Int : u = x + a /\ v = x + b
  BY <1>1
<1>3. (u % CounterMod) % CqeCnt = u % CqeCnt /\ (v % CounterMod) % CqeCnt = v % CqeCnt
  BY <1>1, ModOfMod
<1>4. (u < v /\ v < u + CqeCnt) \/ (v < u /\ u < v + CqeCnt)
  BY <1>1, <1>2
<1>5. u % CqeCnt # v % CqeCnt
  BY <1>1, <1>4, ModDistinct
<1> QED
  BY <1>2, <1>3, <1>5 DEF CqSlotOf, Add

\* One lap later: the same entry, the other parity.
LEMMA CqLap ==
  ASSUME NEW x \in Counter
  PROVE  /\ CqSlotOf(Add(x, CqeCnt)) = CqSlotOf(x)
         /\ CqSlotOf(x) \in CqSlot
         /\ Parity(x) \in {0, 1}
         /\ Parity(Add(x, CqeCnt)) = 1 - Parity(x)
<1>1. /\ CounterMod \in Nat \ {0} /\ CqeCnt \in Nat \ {0} /\ x \in Int
  BY Moduli DEF Counter
<1>2. CounterMod % CqeCnt = 0 /\ CounterMod % (2 * CqeCnt) = 0
  BY Moduli, Zenon
<1>3. PICK u \in Int : u = x + CqeCnt
  BY <1>1
<1>4. PICK d \in Int, r \in 0 .. CqeCnt - 1 : d = x \div CqeCnt /\ r = x % CqeCnt
  BY <1>1, DivMod
<1>5. u \div CqeCnt = d + 1 /\ u % CqeCnt = r
  BY <1>1, <1>3, <1>4, DivLap
<1>6. (u % CounterMod) % CqeCnt = u % CqeCnt
  BY <1>1, <1>2, ModOfMod
<1>7. ((u % CounterMod) \div CqeCnt) % 2 = (u \div CqeCnt) % 2
  BY <1>1, <1>2, ParityOfMod
<1>8. d % 2 \in {0, 1} /\ (d + 1) % 2 = 1 - (d % 2)
  OBVIOUS
<1>9. Parity(x) = d % 2
  BY <1>4 DEF Parity
<1>10. Parity(Add(x, CqeCnt)) = (d + 1) % 2
  BY <1>3, <1>5, <1>7 DEF Parity, Add
<1>11. CqSlotOf(Add(x, CqeCnt)) = r
  BY <1>3, <1>5, <1>6 DEF CqSlotOf, Add
<1>12. CqSlotOf(x) = r /\ r \in CqSlot
  BY <1>4 DEF CqSlotOf, CqSlot
<1> QED
  BY <1>8, <1>9, <1>10, <1>11, <1>12
=============================================================================
