------------------------ MODULE RegisterAllocProofs ------------------------
(****************************************************************************)
(* Proofs about RegisterAlloc, for every set of values and every list of    *)
(* registers: the register maps agree, operands are found where they are    *)
(* looked for, and no value loses its register before the class is used up. *)
(*                                                                          *)
(* Lemmas about the lists, then one about each helper of the generators     *)
(* (getPosition, getEmptyRegister, a write, stash, the look-ups of a call), *)
(* then one for each generator.                                             *)
(****************************************************************************)
EXTENDS RegisterAlloc, Integers, WellFoundedInduction, SequenceTheorems, TLAPS

(* Values and scratch values have their register in their own class.        *)
OwnClass(s) == \A r \in Regs : s.held[r] # NoValue =>
                   r \in RegsOf(ClassRegs(Class(s.held[r])))

Agree(s) ==
    /\ \A v \in Values, r \in Regs : s.in[v] = r <=> s.held[r] = v
    /\ \A t \in Temps : s.in[t] # NoReg => s.held[s.in[t]] = t

Listed(s) == \A c \in Classes : ListsRegisters(s.lru[c], c)

MapsOK(s) == s \in Allocs /\ Listed(s) /\ Agree(s) /\ OwnClass(s)

(* The registers not handed out since the last stash come first, empty.     *)
EmptyFirst(s, f) ==
    \A c \in Classes : \A i \in 1 .. Len(s.lru[c]) :
        i <= Len(s.lru[c]) - f[c] => s.held[s.lru[c][i]] = NoValue

-----------------------------------------------------------------------------
(* A set of natural numbers that holds 0 and the successors of its elements *)
(* holds them all: a least number that is missing has no predecessor.       *)
LEMMA AllNaturals ==
    ASSUME NEW T, 0 \in T, \A n \in Nat : n \in T => n + 1 \in T
    PROVE  Nat \subseteq T
<1> SUFFICES ASSUME Nat \ T # {} PROVE FALSE
    OBVIOUS
<1>1. PICK x \in Nat \ T : \A y \in Nat \ T : <<y, x>> \notin OpToRel(<, Nat)
    BY NatLessThanWellFounded, WFMin
<1>2. x - 1 \in Nat /\ x - 1 \in T
  <2>1. x # 0
    BY <1>1
  <2>2. x - 1 \in Nat /\ x - 1 < x
    BY <2>1
  <2>3. <<x - 1, x>> \in OpToRel(<, Nat)
    BY <2>2 DEF OpToRel
  <2> QED
    BY <1>1, <2>2, <2>3
<1>3. (x - 1) + 1 \in T
    BY <1>2
<1>4. x \in Nat /\ x \notin T
    OBVIOUS
<1> QED
    BY <1>3, <1>4

-----------------------------------------------------------------------------
(* Every value has one of the two register classes.                         *)
LEMMA ClassTyped ==
    ASSUME NEW v \in AllValues
    PROVE  Class(v) \in Classes /\ TypeOf(v) \in Kinds
  BY KindAssumption DEF Class, Classes, TypeOf, Kinds, AllValues, Temps

(* The list of a class is a nonempty sequence of its registers.             *)
LEMMA ListTyped ==
    ASSUME NEW c \in Classes
    PROVE  /\ ClassRegs(c) \in Seq(Regs) /\ Len(ClassRegs(c)) \in Nat \ {0}
           /\ RegsOf(ClassRegs(c)) \subseteq Regs
           /\ ListsRegisters(ClassRegs(c), c)
<1>1. /\ IntRegs \in Seq(Regs) /\ IntRegs # <<>>
      /\ FloatRegs \in Seq(Regs) /\ FloatRegs # <<>>
      /\ \A q \in {IntRegs, FloatRegs} :
           \A i, j \in 1 .. Len(q) : q[i] = q[j] => i = j
    BY RegsAssumption
<1>2. ClassRegs(c) \in {IntRegs, FloatRegs}
    BY DEF ClassRegs
<1>3. RegsOf(ClassRegs(c)) \subseteq Regs
    BY DEF Regs, ClassRegs
<1> QED
    BY <1>1, <1>2, <1>3 DEF ListsRegisters

(* What MoveToBack does to a list: the elements behind the moved one step   *)
(* forward.                                                                 *)
LEMMA MovedToBack ==
    ASSUME NEW q \in Seq(Regs), NEW k \in 1 .. Len(q),
           \A i, j \in 1 .. Len(q) : q[i] = q[j] => i = j
    PROVE  LET p == MoveToBack(q, q[k]) IN
           /\ p \in Seq(Regs) /\ Len(p) = Len(q)
           /\ \A i \in 1 .. Len(q) : p[i] = IF i < k THEN q[i] ELSE IF i < Len(q) THEN q[i + 1] ELSE q[k]
<1>1. Place(q, q[k]) = k
    BY DEF Place
<1>2. /\ SubSeq(q, 1, k - 1) \in Seq(Regs) /\ Len(SubSeq(q, 1, k - 1)) = k - 1
      /\ \A i \in 1 .. k - 1 : SubSeq(q, 1, k - 1)[i] = q[i]
    OBVIOUS
<1>3. /\ SubSeq(q, k + 1, Len(q)) \in Seq(Regs) /\ Len(SubSeq(q, k + 1, Len(q))) = Len(q) - k
      /\ \A i \in 1 .. Len(q) - k : SubSeq(q, k + 1, Len(q))[i] = q[k + i]
    OBVIOUS
<1> DEFINE a == SubSeq(q, 1, k - 1)
           b == SubSeq(q, k + 1, Len(q))
<1>4. MoveToBack(q, q[k]) = Append(a \o b, q[k])
    BY <1>1 DEF MoveToBack, RemoveAt
<1> HIDE DEF a, b
<1>5. a \in Seq(Regs) /\ Len(a) = k - 1 /\ \A i \in 1 .. k - 1 : a[i] = q[i]
    BY <1>2 DEF a
<1>6. b \in Seq(Regs) /\ Len(b) = Len(q) - k /\ \A i \in 1 .. Len(q) - k : b[i] = q[k + i]
    BY <1>3 DEF b
<1>7. /\ a \o b \in Seq(Regs) /\ Len(a \o b) = Len(q) - 1
      /\ \A i \in 1 .. Len(q) - 1 : (a \o b)[i] = IF i < k THEN q[i] ELSE q[i + 1]
  <2>0. a \in Seq(Regs) /\ b \in Seq(Regs)
    BY <1>5, <1>6
  <2>1. /\ a \o b \in Seq(Regs) /\ Len(a \o b) = Len(a) + Len(b)
        /\ \A i \in 1 .. Len(a) + Len(b) :
              (a \o b)[i] = IF i <= Len(a) THEN a[i] ELSE b[i - Len(a)]
    BY ONLY <2>0, ConcatProperties
  <2> QED
    BY <1>5, <1>6, <2>1
<1> DEFINE d == a \o b
<1> HIDE DEF d
<1>8. d \in Seq(Regs) /\ Len(d) = Len(q) - 1 /\ q[k] \in Regs
    BY <1>7 DEF d
<1> DEFINE p == Append(d, q[k])
<1>9. /\ p \in Seq(Regs) /\ Len(p) = Len(q)
      /\ \A i \in 1 .. Len(q) - 1 : p[i] = d[i]
      /\ p[Len(q)] = q[k]
    BY <1>8
<1> HIDE DEF p
<1>10. ASSUME NEW i \in 1 .. Len(q)
       PROVE  p[i] = IF i < k THEN q[i] ELSE IF i < Len(q) THEN q[i + 1] ELSE q[k]
  <2>1. CASE i < Len(q)
    <3>1. i \in 1 .. Len(q) - 1 /\ p[i] = d[i]
      BY <1>9, <2>1
    <3> QED
      BY <1>7, <2>1, <3>1 DEF d
  <2>2. CASE i = Len(q)
    BY <1>9, <2>2
  <2> QED
    BY <2>1, <2>2
<1> QED
    BY <1>4, <1>9, <1>10 DEF p, d

(* A list with one register moved back still has each register of its class *)
(* once.                                                                    *)
LEMMA MovingLists ==
    ASSUME NEW c \in Classes, NEW q \in Seq(Regs), ListsRegisters(q, c),
           NEW r \in RegsOf(ClassRegs(c))
    PROVE  /\ MoveToBack(q, r) \in Seq(Regs)
           /\ ListsRegisters(MoveToBack(q, r), c)
<1>1. PICK k \in 1 .. Len(q) : q[k] = r
    BY DEF ListsRegisters, RegsOf
<1> DEFINE p == MoveToBack(q, r)
<1>2. /\ p \in Seq(Regs) /\ Len(p) = Len(q)
      /\ \A i \in 1 .. Len(q) : p[i] = IF i < k THEN q[i] ELSE IF i < Len(q) THEN q[i + 1] ELSE q[k]
    BY <1>1, MovedToBack DEF ListsRegisters
<1> HIDE DEF p
<1>3. \A i, j \in 1 .. Len(q) : q[i] = q[j] => i = j
    BY DEF ListsRegisters
<1>4. \A i, j \in 1 .. Len(p) : p[i] = p[j] => i = j
    BY <1>2, <1>3
<1>5. RegsOf(p) \subseteq RegsOf(q)
    BY <1>2 DEF RegsOf
<1>6. RegsOf(q) \subseteq RegsOf(p)
  <2> SUFFICES ASSUME NEW i \in 1 .. Len(q) PROVE \E j \in 1 .. Len(p) : p[j] = q[i]
    BY DEF RegsOf
  <2>1. CASE i < k
    BY <1>2, <2>1
  <2>2. CASE i = k
    BY <1>2, <2>2
  <2>3. CASE i > k
    <3>1. i - 1 \in 1 .. Len(p) /\ p[i - 1] = q[i]
      BY <1>2, <2>3
    <3> QED BY <3>1
  <2> QED BY <2>1, <2>2, <2>3
<1> QED
    BY <1>2, <1>4, <1>5, <1>6 DEF p, ListsRegisters

-----------------------------------------------------------------------------
(* getPosition moves a mapped register back and changes nothing else.       *)
SameBut(s, t) == t.held = s.held /\ t.in = s.in /\ t.reg = s.reg /\ t.slot = s.slot

(* The lists after one register of one class was moved back.                *)
LEMMA ListsMoved ==
    ASSUME NEW s \in Allocs, Listed(s), NEW c \in Classes, NEW r \in RegsOf(ClassRegs(c))
    PROVE  LET l == [s.lru EXCEPT ![c] = MoveToBack(@, r)] IN
           /\ l \in [Classes -> Seq(Regs)]
           /\ \A k \in Classes : ListsRegisters(l[k], k)
           /\ \A k \in Classes \ {c} : l[k] = s.lru[k]
           /\ l[c] = MoveToBack(s.lru[c], r)
<1>1. s.lru \in [Classes -> Seq(Regs)]
    BY DEF Allocs
<1>2. /\ MoveToBack(s.lru[c], r) \in Seq(Regs)
      /\ ListsRegisters(MoveToBack(s.lru[c], r), c)
    BY <1>1, MovingLists DEF Listed
<1> QED
    BY <1>1, <1>2 DEF Listed

(* getPosition (updateRegister) keeps the maps in order and the empty       *)
(* registers in front, and changes nothing but the order of a list.         *)
LEMMA GetPositionKeeps ==
    ASSUME NEW s, MapsOK(s), NEW v \in AllValues
    PROVE  /\ MapsOK(getPosition(s, v))
           /\ SameBut(s, getPosition(s, v))
           /\ \A f : f \in [Classes -> Nat] /\ EmptyFirst(s, f) => EmptyFirst(getPosition(s, v), f)
<1>1. CASE s.in[v] = NoReg
    BY <1>1 DEF getPosition, SameBut
<1>2. CASE s.in[v] # NoReg
  <2> DEFINE r == s.in[v]
             c == Class(v)
             t == getPosition(s, v)
             l == [s.lru EXCEPT ![c] = MoveToBack(@, r)]
  <2>1. s \in Allocs /\ Listed(s) /\ Agree(s) /\ OwnClass(s)
    BY DEF MapsOK
  <2>2. r \in Regs /\ s.held[r] = v
    BY <1>2, <2>1 DEF Allocs, Agree, AllValues
  <2>3. c \in Classes /\ r \in RegsOf(ClassRegs(c))
    BY <2>1, <2>2, ClassTyped, KindAssumption DEF OwnClass
  <2>4. t = [s EXCEPT !.lru = l]
    BY <1>2 DEF getPosition, updateRegister
  <2>5. /\ l \in [Classes -> Seq(Regs)]
        /\ \A k \in Classes : ListsRegisters(l[k], k)
        /\ \A k \in Classes \ {c} : l[k] = s.lru[k]
        /\ l[c] = MoveToBack(s.lru[c], r)
    BY <2>1, <2>3, ListsMoved
  <2> HIDE DEF l, t
  <2>6. t \in Allocs /\ t.lru = l /\ SameBut(s, t)
    BY <2>1, <2>4, <2>5 DEF Allocs, SameBut
  <2>7. MapsOK(t)
    BY <2>1, <2>5, <2>6 DEF MapsOK, Listed, Agree, OwnClass, SameBut
  <2>8. ASSUME NEW f \in [Classes -> Nat], EmptyFirst(s, f)
        PROVE  EmptyFirst(t, f)
    <3> SUFFICES ASSUME NEW k \in Classes, NEW i \in 1 .. Len(l[k]), i <= Len(l[k]) - f[k]
                 PROVE  s.held[l[k][i]] = NoValue
      BY <2>6 DEF EmptyFirst, SameBut
    <3>1. CASE k # c
      BY <2>5, <2>8, <3>1 DEF EmptyFirst
    <3>2. CASE k = c
      <4> DEFINE q == s.lru[c]
      <4>1. q \in Seq(Regs) /\ ListsRegisters(q, c)
        BY <2>1, <2>3 DEF Allocs, Listed
      <4>2. PICK j \in 1 .. Len(q) : q[j] = r
        BY <2>3, <4>1 DEF ListsRegisters, RegsOf
      <4>3. /\ Len(l[c]) = Len(q)
            /\ \A n \in 1 .. Len(q) :
                  l[c][n] = IF n < j THEN q[n] ELSE IF n < Len(q) THEN q[n + 1] ELSE q[j]
        <5>1. \A m, n \in 1 .. Len(q) : q[m] = q[n] => m = n
          BY <4>1 DEF ListsRegisters
        <5>2. l[c] = MoveToBack(q, q[j])
          BY <2>5, <4>2
        <5> HIDE DEF q
        <5> QED
          BY <4>1, <5>1, <5>2, MovedToBack
      <4>4. j > Len(q) - f[c]
        <5>1. f[c] \in Nat /\ Len(q) \in Nat /\ j \in Nat
          BY <2>3, <2>8, <4>1, LenProperties
        <5>2. s.held[q[j]] # NoValue
          BY <2>2, <4>2, KindAssumption
        <5>3. ~ (j <= Len(q) - f[c])
          BY <2>3, <2>8, <4>2, <5>2 DEF EmptyFirst
        <5> QED
          BY <5>1, <5>3
      <4>5. i < j /\ i \in 1 .. Len(q)
        BY <3>2, <4>1, <4>3, <4>4
      <4> QED
        BY <2>3, <2>8, <3>2, <4>3, <4>5 DEF EmptyFirst
    <3> QED
      BY <3>1, <3>2
  <2> QED
    BY <2>6, <2>7, <2>8 DEF t
<1> QED
    BY <1>1, <1>2

(* A move keeps contents contents.                                          *)
LEMMA MovedTyped ==
    ASSUME NEW v \in AllValues, NEW c \in Content
    PROVE  Moved(v, c) \in Content
  BY DEF Moved, Content

(* The count of registers in use after one more was handed out.             *)
LEMMA CountedTyped ==
    ASSUME NEW f \in [Classes -> Nat], NEW c \in Classes
    PROVE  /\ Counted(f, c) \in [Classes -> Nat]
           /\ \A k \in Classes : k # c => Counted(f, c)[k] = f[k]
           /\ Counted(f, c)[c] = IF f[c] > Len(ClassRegs(c)) THEN f[c] ELSE f[c] + 1
<1>1. Len(ClassRegs(c)) \in Nat
    BY ListTyped
<1> QED
    BY <1>1 DEF Counted

(* getEmptyRegister hands v the first register of its class and unmaps at   *)
(* most the value it held.                                                  *)
LEMMA TakingRegister ==
    ASSUME NEW s, MapsOK(s), NEW v \in AllValues, v \in Values => s.in[v] = NoReg
    PROVE  LET t == getEmptyRegister(s, v) IN
           /\ MapsOK(t)
           /\ t.in[v] \in Regs
           /\ \A u \in Values \ {v} : u \notin Displaced(s, v) =>
                  Found(t, u) = Found(s, u) /\ t.in[u] = s.in[u]
           /\ \A u \in Values \ {v} : t.in[u] # s.in[u] => t.in[u] = NoReg
           /\ \A f \in [Classes -> Nat] : EmptyFirst(s, f) =>
                  /\ EmptyFirst(t, Counted(f, Class(v)))
                  /\ \A u \in Displaced(s, v) : /\ Class(u) = Class(v)
                                                /\ f[Class(u)] >= Len(ClassRegs(Class(u)))
<1> DEFINE c == Class(v)
           q == s.lru[c]
           r == Victim(s, v)
           old == s.held[r]
           t == getEmptyRegister(s, v)
           l == [s.lru EXCEPT ![c] = MoveToBack(@, r)]
           stored == IF old = NoValue THEN s.slot[v] ELSE Moved(v, s.reg[r])
<1>1. s \in Allocs /\ Listed(s) /\ Agree(s) /\ OwnClass(s)
    BY DEF MapsOK
<1>2. c \in Classes /\ q \in Seq(Regs) /\ ListsRegisters(q, c)
    BY <1>1, ClassTyped DEF Allocs, Listed
<1>3. Len(q) \in Nat \ {0} /\ Len(q) = Len(ClassRegs(c)) /\ RegsOf(ClassRegs(c)) \subseteq Regs
    BY <1>2, ListTyped DEF ListsRegisters
<1>4. r = q[1] /\ r \in RegsOf(ClassRegs(c)) /\ r \in Regs
  <2>1. r = q[1]
    BY <1>2, <1>3 DEF Victim
  <2>2. q[1] \in RegsOf(q)
    BY <1>3 DEF RegsOf
  <2> QED
    BY <1>2, <1>3, <2>1, <2>2 DEF ListsRegisters
<1>5. old \in AllValues \cup {NoValue}
    BY <1>1, <1>4 DEF Allocs
<1>6. stored \in Content /\ Moved(v, stored) \in Content
  <2>1. stored \in Content
    BY <1>1, <1>4, MovedTyped DEF Allocs
  <2> QED
    BY <2>1, MovedTyped
<1>7. /\ l \in [Classes -> Seq(Regs)]
      /\ \A k \in Classes : ListsRegisters(l[k], k)
      /\ \A k \in Classes \ {c} : l[k] = s.lru[k]
      /\ l[c] = MoveToBack(s.lru[c], r)
    BY <1>1, <1>2, <1>4, ListsMoved
<1>8. Remapped(s, v, r, old) \in [AllValues -> Regs \cup {NoReg}]
    BY <1>1, <1>4 DEF Remapped, Allocs
<1>9. t = [s EXCEPT !.slot[v] = stored, !.reg[r] = Moved(v, stored),
                    !.in = Remapped(s, v, r, old), !.held[r] = v, !.lru = l]
    BY DEF getEmptyRegister
<1> HIDE DEF t, l, stored
<1>10. /\ t \in Allocs
       /\ t.slot = [s.slot EXCEPT ![v] = stored]
       /\ t.reg = [s.reg EXCEPT ![r] = Moved(v, stored)]
       /\ t.in = Remapped(s, v, r, old)
       /\ t.held = [s.held EXCEPT ![r] = v]
       /\ t.lru = l
    BY <1>1, <1>4, <1>6, <1>7, <1>8, <1>9 DEF Allocs
<1> HIDE DEF q, r, old, c
<1>11. \A x \in AllValues : t.in[x] = IF x = v THEN r ELSE IF x = old THEN NoReg ELSE s.in[x]
    BY <1>10 DEF Remapped
<1>12. \A p \in Regs : t.held[p] = IF p = r THEN v ELSE s.held[p]
    BY <1>1, <1>10 DEF Allocs
<1>13. /\ \A x \in Values, p \in Regs : s.in[x] = p <=> s.held[p] = x
       /\ \A x \in Temps : s.in[x] # NoReg => s.held[s.in[x]] = x
       /\ s.in \in [AllValues -> Regs \cup {NoReg}]
       /\ NoReg \notin Regs /\ Values \subseteq AllValues /\ Temps \subseteq AllValues
       /\ AllValues = Values \cup Temps /\ Values \cap Temps = {} /\ NoValue \notin AllValues
       /\ s.held[r] = old
    BY <1>1, RegsAssumption, KindAssumption DEF Agree, Allocs, AllValues, old
<1>14. Agree(t)
    BY <1>4, <1>11, <1>12, <1>13 DEF Agree
<1>15. OwnClass(t)
    BY <1>1, <1>4, <1>12 DEF OwnClass, c
<1>16. Listed(t)
    BY <1>7, <1>10 DEF Listed
<1>17. ASSUME NEW u \in Values \ {v}, u \notin Displaced(s, v)
       PROVE  Found(t, u) = Found(s, u) /\ t.in[u] = s.in[u]
  <2>1. u # old
    BY <1>17 DEF Displaced, r, old
  <2>2. t.in[u] = s.in[u] /\ s.in[u] # r
    BY <1>4, <1>11, <1>13, <2>1
  <2>3. t.slot[u] = s.slot[u]
    BY <1>1, <1>10, <1>13 DEF Allocs
  <2>4. s.in[u] # NoReg => t.reg[s.in[u]] = s.reg[s.in[u]]
    BY <1>1, <1>4, <1>10, <1>13, <2>2 DEF Allocs
  <2> QED
    BY <2>2, <2>3, <2>4 DEF Found
<1>18. ASSUME NEW u \in Values \ {v}, t.in[u] # s.in[u] PROVE t.in[u] = NoReg
    BY <1>11, <1>13, <1>18
<1>19. ASSUME NEW f \in [Classes -> Nat], EmptyFirst(s, f)
       PROVE  EmptyFirst(t, Counted(f, c))
  <2> DEFINE g == Counted(f, c)
  <2>1. /\ \A k \in Classes : k # c => g[k] = f[k]
        /\ g[c] = IF f[c] > Len(q) THEN f[c] ELSE f[c] + 1
        /\ g[c] \in Nat
    BY <1>2, <1>3, CountedTyped
  <2> HIDE DEF g
  <2> SUFFICES ASSUME NEW k \in Classes, NEW i \in 1 .. Len(l[k]), i <= Len(l[k]) - g[k]
               PROVE  t.held[l[k][i]] = NoValue
    BY <1>10 DEF EmptyFirst, g
  <2>2. CASE k # c
    <3>1. s.held[l[k][i]] = NoValue
      BY <1>7, <1>19, <2>1, <2>2 DEF EmptyFirst
    <3>2. RegsOf(ClassRegs(k)) \cap RegsOf(ClassRegs(c)) = {}
      BY <1>2, <2>2, RegsAssumption DEF ClassRegs, Classes
    <3>3. l[k][i] \in RegsOf(ClassRegs(k))
      BY <1>7 DEF ListsRegisters, RegsOf
    <3>4. l[k][i] # r /\ l[k][i] \in Regs
      BY <1>4, <3>2, <3>3, ListTyped
    <3> QED
      BY <1>12, <3>1, <3>4
  <2>3. CASE k = c
    <3>1. /\ Len(l[c]) = Len(q)
          /\ \A n \in 1 .. Len(q) :
                l[c][n] = IF n < 1 THEN q[n] ELSE IF n < Len(q) THEN q[n + 1] ELSE q[1]
      <4>1. \A m, n \in 1 .. Len(q) : q[m] = q[n] => m = n
        BY <1>2 DEF ListsRegisters
      <4>2. l[c] = MoveToBack(q, q[1])
        BY <1>4, <1>7 DEF q
      <4>3. 1 \in 1 .. Len(q)
        BY <1>3
      <4> QED
        BY <1>2, <4>1, <4>2, <4>3, MovedToBack
    <3>2. i < Len(q) /\ i + 1 \in 1 .. Len(q) /\ i + 1 <= Len(q) - f[c] /\ i \in 1 .. Len(q)
      BY <1>2, <1>3, <2>1, <2>3, <3>1
    <3>3. l[k][i] = q[i + 1]
      BY <2>3, <3>1, <3>2
    <3>4. s.held[q[i + 1]] = NoValue
      BY <1>2, <1>19, <3>2 DEF EmptyFirst, q
    <3>5. q[i + 1] # r /\ q[i + 1] \in Regs
      BY <1>2, <1>4, <3>2 DEF ListsRegisters
    <3> QED
      BY <1>12, <3>3, <3>4, <3>5
  <2> QED
    BY <2>2, <2>3
<1>20. ASSUME NEW f \in [Classes -> Nat], EmptyFirst(s, f), NEW u \in Displaced(s, v)
       PROVE  Class(u) = c /\ f[Class(u)] >= Len(ClassRegs(Class(u)))
  <2>1. u = old /\ u \in Values
    BY DEF Displaced, r, old
  <2>2. r \in RegsOf(ClassRegs(Class(u)))
    BY <1>1, <1>4, <1>13, <2>1 DEF OwnClass
  <2>3. Class(u) = c
    BY <1>2, <1>4, <1>13, <2>1, <2>2, ClassTyped, RegsAssumption DEF ClassRegs, Classes
  <2>4. ~ (1 <= Len(q) - f[c])
    <3> SUFFICES ASSUME 1 <= Len(q) - f[c] PROVE FALSE
      OBVIOUS
    <3>1. s.held[q[1]] = NoValue
      BY <1>2, <1>3, <1>20 DEF EmptyFirst, q
    <3> QED
      BY <1>4, <1>13, <2>1, <3>1
  <2> QED
    BY <1>2, <1>3, <2>3, <2>4
<1>21. t.in[v] \in Regs
    BY <1>4, <1>11
<1> QED
    BY <1>10, <1>14, <1>15, <1>16, <1>17, <1>18, <1>19, <1>20, <1>21 DEF MapsOK, t, c

(* Instructions write into the register of one value, calls into all.       *)
LEMMA WritingRegister ==
    ASSUME NEW s, MapsOK(s), NEW v \in AllValues, s.in[v] \in Regs, NEW c \in Content
    PROVE  LET t == [s EXCEPT !.reg[s.in[v]] = c] IN
           /\ MapsOK(t)
           /\ t.in = s.in /\ t.held = s.held /\ t.slot = s.slot
           /\ \A u \in Values \ {v} : Found(t, u) = Found(s, u)
           /\ Found(t, v) = c
           /\ \A f : EmptyFirst(s, f) => EmptyFirst(t, f)
<1> DEFINE t == [s EXCEPT !.reg[s.in[v]] = c]
<1>1. s \in Allocs /\ Listed(s) /\ Agree(s) /\ OwnClass(s)
    BY DEF MapsOK
<1>2. /\ t \in Allocs /\ t.in = s.in /\ t.held = s.held /\ t.slot = s.slot /\ t.lru = s.lru
      /\ t.reg = [s.reg EXCEPT ![s.in[v]] = c]
    BY <1>1 DEF Allocs
<1> HIDE DEF t
<1>3. MapsOK(t)
    BY <1>1, <1>2 DEF MapsOK, Listed, Agree, OwnClass
<1>4. \A f : EmptyFirst(s, f) => EmptyFirst(t, f)
    BY <1>2 DEF EmptyFirst
<1>5. s.in \in [AllValues -> Regs \cup {NoReg}] /\ s.reg \in [Regs -> Content]
    BY <1>1 DEF Allocs
<1>6. NoReg \notin Regs
    BY RegsAssumption
<1>7. ASSUME NEW u \in Values \ {v} PROVE Found(t, u) = Found(s, u)
  <2>1. u \in AllValues
    BY DEF AllValues
  <2>2. s.in[u] # s.in[v]
    <3>1. s.in[u] = s.in[v] => s.held[s.in[v]] = u
      BY <1>1 DEF Agree
    <3>2. s.held[s.in[v]] = v
      BY <1>1, <1>6 DEF Agree, AllValues
    <3> QED
      BY <3>1, <3>2
  <2> QED
    BY <1>2, <1>5, <1>6, <2>1, <2>2 DEF Found
<1>8. Found(t, v) = c
    BY <1>2, <1>5, <1>6 DEF Found
<1> QED
    BY <1>2, <1>3, <1>4, <1>7, <1>8 DEF t

(* After a stash no register is mapped, and a value is in its slot unless   *)
(* it is a pointer that was in a register.                                  *)
LEMMA Stashing ==
    ASSUME NEW s, MapsOK(s)
    PROVE  LET t == stash(s) IN
           /\ MapsOK(t) /\ t.reg = s.reg
           /\ \A r \in Regs : t.held[r] = NoValue
           /\ \A v \in AllValues : t.in[v] = NoReg
           /\ \A v \in Values \ Halved(s) : Found(s, v) = v => t.slot[v] = v
<1> DEFINE cut(r) == IF r \in RegsOf(IntRegs) THEN Moved(TempInt, s.reg[r]) ELSE s.reg[r]
           holders(v) == {r \in Mapped(s) : s.held[r] = v}
           slots == [v \in AllValues |-> IF holders(v) = {} THEN s.slot[v]
                                         ELSE cut(CHOOSE r \in holders(v) : TRUE)]
           helds == [r \in Regs |-> IF r \in Mapped(s) THEN NoValue ELSE s.held[r]]
           t == stash(s)
<1>1. s \in Allocs /\ Listed(s) /\ Agree(s) /\ OwnClass(s)
    BY DEF MapsOK
<1>2. t = [s EXCEPT !.slot = slots, !.held = helds, !.in = Unmapped(s)]
    BY <1>1 DEF stash, Allocs
<1>3. \A r \in Regs : cut(r) \in Content
    BY <1>1, MovedTyped DEF Allocs, AllValues, Temps
<1>4. slots \in [AllValues -> Content]
  <2> SUFFICES ASSUME NEW v \in AllValues PROVE slots[v] \in Content
    OBVIOUS
  <2>1. CASE holders(v) = {}
    BY <1>1, <2>1 DEF Allocs
  <2>2. CASE holders(v) # {}
    <3>1. (CHOOSE r \in holders(v) : TRUE) \in Regs
      BY <2>2 DEF Mapped
    <3> HIDE DEF cut, holders
    <3> QED
      BY <1>3, <2>2, <3>1
  <2> QED
    BY <2>1, <2>2
<1>5. helds \in [Regs -> {NoValue}]
    BY <1>1 DEF Mapped, Allocs
<1>6. /\ Unmapped(s) \in [AllValues -> Regs \cup {NoReg}]
      /\ \A v \in AllValues : Unmapped(s)[v] = NoReg
  <2> SUFFICES ASSUME NEW v \in AllValues PROVE Unmapped(s)[v] = NoReg
    BY DEF Unmapped
  <2>1. s.in[v] # NoReg => s.in[v] \in Mapped(s) /\ s.held[s.in[v]] = v
    BY <1>1, KindAssumption DEF Allocs, Agree, Mapped, AllValues
  <2> QED
    BY <2>1 DEF Unmapped
<1> HIDE DEF slots, helds, t
<1>7. /\ t \in Allocs /\ t.slot = slots /\ t.held = helds /\ t.in = Unmapped(s)
      /\ t.reg = s.reg /\ t.lru = s.lru
    BY <1>1, <1>2, <1>4, <1>5, <1>6 DEF Allocs
<1>8. \A r \in Regs : t.held[r] = NoValue
    BY <1>5, <1>7
<1>9. \A v \in AllValues : t.in[v] = NoReg
    BY <1>6, <1>7
<1>10. MapsOK(t)
    BY <1>1, <1>7, <1>8, <1>9, RegsAssumption, KindAssumption
       DEF MapsOK, Listed, Agree, OwnClass, AllValues
<1>11. ASSUME NEW v \in Values \ Halved(s), Found(s, v) = v PROVE t.slot[v] = v
  <2>1. v \in AllValues /\ v # NoValue
    BY KindAssumption DEF AllValues
  <2>2. t.slot[v] = IF holders(v) = {} THEN s.slot[v] ELSE cut(CHOOSE r \in holders(v) : TRUE)
    BY <1>7, <2>1 DEF slots
  <2>3. CASE s.in[v] = NoReg
    <3>1. holders(v) = {}
      BY <1>1, <2>3, RegsAssumption DEF Agree, Mapped
    <3> QED
      BY <1>11, <2>2, <2>3, <3>1 DEF Found
  <2>4. CASE s.in[v] # NoReg
    <3> DEFINE r == s.in[v]
    <3>1. r \in Regs /\ s.held[r] = v
      BY <1>1, <2>1, <2>4 DEF Allocs, Agree
    <3>2. holders(v) = {r}
      BY <1>1, <2>1, <3>1 DEF Agree, Mapped
    <3>3. t.slot[v] = cut(r)
      BY <2>2, <3>2
    <3>4. s.reg[r] = v
      BY <1>11, <2>4 DEF Found
    <3>5. TypeOf(v) # "ptr"
      BY <3>1 DEF Halved
    <3> QED
      BY <3>3, <3>4, <3>5 DEF Moved
  <2> QED
    BY <2>3, <2>4
<1> QED
    BY <1>7, <1>8, <1>9, <1>10, <1>11 DEF t

(* With no register mapped, their contents are free to change.              *)
LEMMA Clobbering ==
    ASSUME NEW s, MapsOK(s), \A r \in Regs : s.held[r] = NoValue
    PROVE  LET t == Clobbered(s) IN
           /\ MapsOK(t) /\ t.in = s.in /\ t.held = s.held /\ t.slot = s.slot
           /\ \A f : EmptyFirst(t, f)
<1> DEFINE t == Clobbered(s)
<1>1. s \in Allocs /\ Listed(s) /\ Agree(s) /\ OwnClass(s)
    BY DEF MapsOK
<1>2. [r \in Regs |-> Junk] \in [Regs -> Content]
    BY DEF Content
<1>3. /\ t \in Allocs /\ t.in = s.in /\ t.held = s.held /\ t.slot = s.slot /\ t.lru = s.lru
    BY <1>1, <1>2 DEF Allocs, Clobbered
<1> HIDE DEF t
<1>4. MapsOK(t)
    BY <1>1, <1>3 DEF MapsOK, Listed, Agree, OwnClass
<1>5. ASSUME NEW f, NEW c \in Classes, NEW i \in 1 .. Len(t.lru[c])
      PROVE  t.held[t.lru[c][i]] = NoValue
  <2>1. t.lru[c] \in Seq(Regs)
    BY <1>3 DEF Allocs
  <2> QED
    BY <1>3, <2>1
<1> QED
    BY <1>3, <1>4, <1>5 DEF t, EmptyFirst

(* The look-ups of a call's arguments leave everything but the order of the *)
(* registers as it is.                                                      *)
Like(s, t) ==
    /\ MapsOK(t) /\ SameBut(s, t)
    /\ \A f \in [Classes -> Nat] : EmptyFirst(s, f) => EmptyFirst(t, f)

(* By induction over the arguments: each look-up is one getPosition.        *)
LEMMA LookingUp ==
    ASSUME MapsOK(alloc), NEW args \in Seq(AllValues)
    PROVE  Like(alloc, LookUp(args))
<1> DEFINE N == Len(args)
           after[n \in 0 .. N] == IF n = 0 THEN alloc ELSE getPosition(after[n - 1], args[n])
           States == {t \in Allocs : Like(alloc, t)}
           Steps(h, m) == \A n \in 0 .. m : h[n] = IF n = 0 THEN alloc ELSE getPosition(h[n - 1], args[n])
           T == {m \in Nat : m <= N => \E h \in [0 .. m -> States] : Steps(h, m)}
<1>1. N \in Nat /\ \A n \in 1 .. N : args[n] \in AllValues
    OBVIOUS
<1>2. ASSUME NEW t \in States, NEW v \in AllValues PROVE getPosition(t, v) \in States
    BY <1>2, GetPositionKeeps DEF Like, SameBut, MapsOK
<1>3. alloc \in States
    BY DEF MapsOK, Like, SameBut
<1> HIDE DEF States, N
<1>4. Nat \subseteq T
  <2>1. 0 \in T
    <3>1. [n \in 0 .. 0 |-> alloc] \in [0 .. 0 -> States] /\ Steps([n \in 0 .. 0 |-> alloc], 0)
      BY <1>3
    <3> QED
      BY <3>1
  <2>2. ASSUME NEW m \in Nat, m \in T PROVE m + 1 \in T
    <3> SUFFICES ASSUME m + 1 <= N
                 PROVE  \E h \in [0 .. m + 1 -> States] : Steps(h, m + 1)
      OBVIOUS
    <3>1. PICK h \in [0 .. m -> States] : Steps(h, m)
      BY <1>1, <2>2
    <3> DEFINE g == [n \in 0 .. m + 1 |-> IF n = m + 1 THEN getPosition(h[m], args[m + 1]) ELSE h[n]]
    <3>2. args[m + 1] \in AllValues
      BY <1>1
    <3>3. getPosition(h[m], args[m + 1]) \in States
      BY <1>2, <3>2
    <3>4. g \in [0 .. m + 1 -> States]
      BY <3>3
    <3>5. Steps(g, m + 1)
      BY <3>1
    <3> QED
      BY <3>4, <3>5
  <2> HIDE DEF T
  <2> QED
    BY <2>1, <2>2, AllNaturals
<1>5. PICK h \in [0 .. N -> States] : Steps(h, N)
  <2>1. N \in T
    BY <1>1, <1>4
  <2> QED
    BY <1>1, <2>1
<1>6. h = [n \in 0 .. N |-> IF n = 0 THEN alloc ELSE getPosition(h[n - 1], args[n])]
    BY <1>5
<1>7. after = [n \in 0 .. N |-> IF n = 0 THEN alloc ELSE getPosition(after[n - 1], args[n])]
    BY <1>6
<1> HIDE DEF after
<1>8. after[N] \in States
  <2> DEFINE U == {n \in Nat : n <= N => after[n] \in States}
  <2>1. 0 \in U
    BY <1>1, <1>3, <1>7
  <2>2. ASSUME NEW n \in Nat, n \in U PROVE n + 1 \in U
    <3> SUFFICES ASSUME n + 1 <= N PROVE after[n + 1] \in States
      OBVIOUS
    <3>1. after[n] \in States /\ args[n + 1] \in AllValues
      BY <1>1, <2>2
    <3>2. after[n + 1] = getPosition(after[n], args[n + 1])
      BY <1>1, <1>7
    <3> QED
      BY <1>2, <3>1, <3>2
  <2> HIDE DEF U
  <2>3. Nat \subseteq U
    BY <2>1, <2>2, AllNaturals
  <2> QED
    BY <1>1, <2>3 DEF U
<1>9. LookUp(args) = after[N]
    BY DEF LookUp, N, after
<1> QED
    BY <1>8, <1>9 DEF States

-----------------------------------------------------------------------------
(* The maps s are good for the counts f when what the values D hold is      *)
(* found, and the values U have no register yet.                            *)
Good(s, f, D, U) ==
    /\ MapsOK(s)
    /\ f \in [Classes -> Nat]
    /\ \A c \in Classes : f[c] <= Len(ClassRegs(c)) + 1
    /\ EmptyFirst(s, f)
    /\ \A u \in D : Found(s, u) = u
    /\ \A u \in U : s.in[u] = NoReg

(* What is found for a value is a content.                                  *)
LEMMA FoundTyped ==
    ASSUME NEW s, MapsOK(s), NEW v \in AllValues
    PROVE  Found(s, v) \in Content
  BY DEF MapsOK, Allocs, Found

(* An operand looked up: the maps stay good.                                *)
LEMMA GoodLookUp ==
    ASSUME NEW s, NEW f, NEW D, NEW U, Good(s, f, D, U), NEW v \in AllValues
    PROVE  LET t == getPosition(s, v) IN
           Good(t, f, D, U) /\ t.in = s.in /\ \A u : Found(t, u) = Found(s, u)
<1> DEFINE t == getPosition(s, v)
<1>1. MapsOK(t) /\ SameBut(s, t) /\ EmptyFirst(t, f)
    BY GetPositionKeeps DEF Good
<1> HIDE DEF t
<1>2. t.in = s.in /\ \A u : Found(t, u) = Found(s, u)
    BY <1>1 DEF SameBut, Found
<1> QED
    BY <1>1, <1>2 DEF Good, t

(* A register taken: what the displaced value held is no longer found.      *)
LEMMA GoodTaking ==
    ASSUME NEW s, NEW f, NEW D, NEW U, Good(s, f, D, U), NEW v \in AllValues,
           D \subseteq Values, U \subseteq Values, v \in Values => v \in U, v \notin D
    PROVE  LET t == getEmptyRegister(s, v) IN
           /\ Good(t, Counted(f, Class(v)), D \ Displaced(s, v), U \ {v})
           /\ t.in[v] \in Regs
           /\ \A u \in Displaced(s, v) : /\ u \in Values /\ Class(u) = Class(v)
                                         /\ f[Class(u)] >= Len(ClassRegs(Class(u)))
<1> DEFINE t == getEmptyRegister(s, v)
           g == Counted(f, Class(v))
<1>1. /\ MapsOK(s) /\ f \in [Classes -> Nat] /\ EmptyFirst(s, f)
      /\ \A c \in Classes : f[c] <= Len(ClassRegs(c)) + 1
      /\ \A u \in D : Found(s, u) = u
      /\ \A u \in U : s.in[u] = NoReg
    BY DEF Good
<1>2. /\ MapsOK(t)
      /\ t.in[v] \in Regs
      /\ \A u \in Values \ {v} : u \notin Displaced(s, v) => Found(t, u) = Found(s, u)
      /\ \A u \in Values \ {v} : t.in[u] # s.in[u] => t.in[u] = NoReg
      /\ EmptyFirst(t, g)
      /\ \A u \in Displaced(s, v) : Class(u) = Class(v) /\ f[Class(u)] >= Len(ClassRegs(Class(u)))
    BY <1>1, TakingRegister
<1>3. /\ Class(v) \in Classes
      /\ \A c \in Classes : Len(ClassRegs(c)) \in Nat
    BY ClassTyped, ListTyped
<1>4. g \in [Classes -> Nat] /\ \A c \in Classes : g[c] <= Len(ClassRegs(c)) + 1
  <2>1. /\ g \in [Classes -> Nat]
        /\ \A k \in Classes : k # Class(v) => g[k] = f[k]
        /\ g[Class(v)] = IF f[Class(v)] > Len(ClassRegs(Class(v))) THEN f[Class(v)]
                         ELSE f[Class(v)] + 1
    BY <1>1, <1>3, CountedTyped
  <2> HIDE DEF g
  <2>2. ASSUME NEW c \in Classes PROVE g[c] <= Len(ClassRegs(c)) + 1
    <3>1. f[c] \in Nat /\ Len(ClassRegs(c)) \in Nat /\ f[c] <= Len(ClassRegs(c)) + 1
      BY <1>1, <1>3
    <3>2. CASE c = Class(v)
      BY <2>1, <3>1, <3>2
    <3>3. CASE c # Class(v)
      BY <2>1, <3>1, <3>3
    <3> QED
      BY <3>2, <3>3
  <2> QED
    BY <2>1, <2>2
<1> HIDE DEF t, g
<1>5. \A u \in D \ Displaced(s, v) : Found(t, u) = u
    BY <1>1, <1>2
<1>6. \A u \in U \ {v} : t.in[u] = NoReg
    BY <1>1, <1>2
<1>7. Displaced(s, v) \subseteq Values
    BY DEF Displaced
<1> QED
    BY <1>2, <1>4, <1>5, <1>6, <1>7 DEF Good, t, g

(* A write to the register of a value of which nothing is expected.         *)
LEMMA GoodWriting ==
    ASSUME NEW s, NEW f, NEW D, NEW U, Good(s, f, D, U), NEW v \in AllValues, NEW c \in Content,
           D \subseteq Values, v \notin D, s.in[v] \in Regs
    PROVE  LET t == [s EXCEPT !.reg[s.in[v]] = c] IN
           Good(t, f, D, U) /\ t.in = s.in
<1> DEFINE t == [s EXCEPT !.reg[s.in[v]] = c]
<1>1. /\ MapsOK(t) /\ t.in = s.in
      /\ \A u \in Values \ {v} : Found(t, u) = Found(s, u)
      /\ \A g : EmptyFirst(s, g) => EmptyFirst(t, g)
  <2>1. MapsOK(s)
    BY DEF Good
  <2> QED
    BY <2>1, WritingRegister
<1> HIDE DEF t
<1> QED
    BY <1>1 DEF Good, t

(* A result left in the register of v: from now on v is found.              *)
LEMMA GoodResult ==
    ASSUME NEW s, NEW f, NEW D, NEW U, Good(s, f, D, U), NEW v \in Values,
           D \subseteq Values, s.in[v] \in Regs, v \notin U
    PROVE  Good(Result(s, v), f, D \cup {v}, U)
<1> DEFINE t == [s EXCEPT !.reg[s.in[v]] = v]
<1>1. v \in AllValues /\ v \in Content
    BY DEF AllValues, Content
<1>2. /\ MapsOK(t) /\ t.in = s.in
      /\ \A u \in Values \ {v} : Found(t, u) = Found(s, u)
      /\ Found(t, v) = v
      /\ \A g : EmptyFirst(s, g) => EmptyFirst(t, g)
  <2>1. MapsOK(s)
    BY DEF Good
  <2> QED
    BY <1>1, <2>1, WritingRegister
<1>3. Result(s, v) = t
    BY DEF Result
<1> HIDE DEF t
<1> QED
    BY <1>2, <1>3 DEF Good

(* After a stash and whatever the callee or the next block does to the      *)
(* registers, all but the pointers cut by it are found in their slots.      *)
LEMMA GoodStash ==
    ASSUME NEW s, NEW f, NEW D, NEW U, Good(s, f, D, U), D \subseteq Values, U \subseteq Values
    PROVE  LET t == Clobbered(stash(s)) IN
           /\ Good(t, [c \in Classes |-> 0], D \ Halved(s), U)
           /\ \A v \in AllValues : t.in[v] = NoReg
           /\ \A v \in AllValues : v \in Values => Displaced(t, v) = {}
<1> DEFINE p == stash(s)
           t == Clobbered(p)
<1>1. /\ MapsOK(s)
      /\ \A u \in D : Found(s, u) = u
    BY DEF Good
<1>2. /\ MapsOK(p)
      /\ \A r \in Regs : p.held[r] = NoValue
      /\ \A v \in AllValues : p.in[v] = NoReg
      /\ \A v \in Values \ Halved(s) : Found(s, v) = v => p.slot[v] = v
    BY <1>1, Stashing
<1> HIDE DEF p
<1>3. /\ MapsOK(t) /\ t.in = p.in /\ t.held = p.held /\ t.slot = p.slot
      /\ \A f_1 : EmptyFirst(t, f_1)
    BY <1>2, Clobbering
<1> HIDE DEF t
<1>4. Values \subseteq AllValues
    BY DEF AllValues
<1>5. \A u \in D \ Halved(s) : Found(t, u) = u
    BY <1>1, <1>2, <1>3, <1>4 DEF Found
<1>6. ASSUME NEW v \in AllValues PROVE Displaced(t, v) = {}
  <2>1. t.lru[Class(v)] \in Seq(Regs) /\ Len(t.lru[Class(v)]) \in Nat \ {0}
    BY <1>3, ClassTyped, ListTyped DEF MapsOK, Allocs, Listed, ListsRegisters
  <2>2. Victim(t, v) \in Regs
    BY <2>1 DEF Victim
  <2> QED
    BY <1>2, <1>3, <1>4, <2>2, KindAssumption DEF Displaced
<1>7. \A c \in Classes : Len(ClassRegs(c)) \in Nat
    BY ListTyped
<1> QED
    BY <1>2, <1>3, <1>4, <1>5, <1>6, <1>7 DEF Good, t, p

-----------------------------------------------------------------------------
(* The inductive invariant: the maps agree, the registers not handed out    *)
(* since the last stash come first in their lists and are empty, values     *)
(* not yet computed have no register, and every other value is found but    *)
(* the displaced and the halved ones.                                       *)
IInv ==
    /\ defined \in SUBSET Values
    /\ lost \in SUBSET Values
    /\ halved \in SUBSET Values
    /\ misread \in SUBSET Values
    /\ ended \in BOOLEAN
    /\ Good(alloc, fresh, defined \ (lost \cup halved), Values \ defined)
    /\ misread \subseteq lost \cup halved

(* What NoEarlyDisplacement says of one step.                               *)
NotEarly == \A v \in lost' \ lost : fresh[Class(v)] >= Len(ClassRegs(Class(v)))

(* An operand and what was found for it: right if the value is in D.        *)
Read(found, D) == \A y \in found : y[1] \in defined /\ (y[1] \in D => y[2] = y[1])

(* The values expected to be found, and those without a register.           *)
Live == defined \ (lost \cup halved)
Unused == Values \ defined

(* Expecting less keeps the maps good.                                      *)
LEMMA GoodMonotone ==
    ASSUME NEW s, NEW f, NEW D, NEW U, Good(s, f, D, U),
           NEW E, NEW V, E \subseteq D, V \subseteq U
    PROVE  Good(s, f, E, V)
  BY DEF Good

(* Operands not found right are not among the values expected.              *)
LEMMA WrongReads ==
    ASSUME NEW found, NEW D, Read(found, D)
    PROVE  Wrong(found) \subseteq defined \ D
  BY DEF Wrong, Read

(* The common ending: when the maps are good before the result is written.  *)
LEMMA ComputedKeeps ==
    ASSUME IInv, NEW s, NEW v \in Unused, NEW found,
           Good(s, Counted(fresh, Class(v)), Live \ Displaced(alloc, v), Unused \ {v}),
           s.in[v] \in Regs,
           \A u \in Displaced(alloc, v) : fresh[Class(u)] >= Len(ClassRegs(Class(u))),
           Read(found, Live \ Displaced(alloc, v)),
           Computed(s, v, found)
    PROVE  IInv' /\ NotEarly
<1> DEFINE d == Displaced(alloc, v)
<1>1. /\ alloc' = Result(s, v) /\ defined' = defined \cup {v} /\ lost' = lost \cup d
      /\ fresh' = Counted(fresh, Class(v)) /\ misread' = Wrong(found)
      /\ halved' = halved /\ ended' = ended
    BY DEF Computed
<1>2. d \subseteq Values /\ v \in Values /\ Live \subseteq Values
    BY DEF Displaced, Unused, Live, IInv
<1> HIDE DEF d
<1>3. Good(alloc', fresh', (Live \ d) \cup {v}, Unused \ {v})
    BY <1>1, <1>2, GoodResult DEF d
<1>4. Good(alloc', fresh', defined' \ (lost' \cup halved'), Values \ defined')
    BY <1>1, <1>3, GoodMonotone DEF Live, Unused
<1>5. Wrong(found) \subseteq defined \ (Live \ d)
    BY WrongReads DEF d
<1>6. misread' \subseteq lost' \cup halved' /\ misread' \subseteq Values
    BY <1>1, <1>5 DEF Live, IInv
<1>7. NotEarly
    BY <1>1 DEF NotEarly, d
<1> QED
    BY <1>1, <1>2, <1>4, <1>6, <1>7 DEF IInv

(* The first step of most generators.                                       *)
LEMMA FirstTaking ==
    ASSUME IInv, NEW v \in AllValues, v \in Values => v \in Unused
    PROVE  LET t == getEmptyRegister(alloc, v) IN
           /\ Good(t, Counted(fresh, Class(v)), Live \ Displaced(alloc, v), Unused \ {v})
           /\ t.in[v] \in Regs
           /\ \A u \in Displaced(alloc, v) : /\ u \in Values /\ Class(u) = Class(v)
                                             /\ fresh[Class(u)] >= Len(ClassRegs(Class(u)))
<1>1. Good(alloc, fresh, Live, Unused) /\ Live \subseteq Values /\ Unused \subseteq Values
    BY DEF IInv, Live, Unused
<1>2. v \notin Live
    BY KindAssumption DEF Live, Unused, AllValues, IInv
<1> QED
    BY <1>1, <1>2, GoodTaking

(* A value is found right when it is expected to be.                        *)
LEMMA ReadOne ==
    ASSUME NEW s, NEW f, NEW D, NEW U, Good(s, f, D, U), NEW a \in defined
    PROVE  Read({<<a, Found(s, a)>>}, D)
  BY DEF Good, Read

(* Two operands read are right when each one is.                            *)
LEMMA ReadBoth ==
    ASSUME NEW D, NEW x, NEW y, Read({x}, D), Read({y}, D)
    PROVE  Read({x, y}, D)
  BY DEF Read

-----------------------------------------------------------------------------
(* Every generator keeps the invariant and displaces no value early.        *)
LEMMA DefinedTyped ==
    ASSUME IInv
    PROVE  /\ defined \subseteq Values /\ Values \subseteq AllValues
           /\ Live \subseteq defined /\ Unused \subseteq Values /\ Live \cap Unused = {}
  BY DEF IInv, AllValues, Live, Unused

(* binaryInstGenerate: the result may displace an operand, which is lost    *)
(* then.                                                                    *)
LEMMA BinaryKeeps ==
    ASSUME IInv, NEW v \in Unused, NEW a \in defined, NEW b \in defined, Binary(v, a, b)
    PROVE  IInv' /\ NotEarly
<1> DEFINE s0 == getEmptyRegister(alloc, v)
           s1 == getPosition(s0, a)
           s2 == [s1 EXCEPT !.reg[s1.in[v]] = Found(s1, a)]
           s3 == getPosition(s2, b)
           f == Counted(fresh, Class(v))
           D == Live \ Displaced(alloc, v)
           U == Unused \ {v}
           x == <<a, Found(s1, a)>>
           y == <<b, Found(s3, b)>>
<1>0. Computed(s3, v, {x, y})
    BY DEF Binary
<1>1. /\ v \in AllValues /\ a \in AllValues /\ b \in AllValues /\ v \in Values
      /\ v \notin D /\ v \notin U /\ D \subseteq Values
    BY DefinedTyped
<1>2. /\ Good(s0, f, D, U) /\ s0.in[v] \in Regs
      /\ \A u \in Displaced(alloc, v) : fresh[Class(u)] >= Len(ClassRegs(Class(u)))
    BY <1>1, FirstTaking
<1> HIDE DEF s0, f, D, U
<1>3. Good(s1, f, D, U) /\ s1.in = s0.in
    BY <1>1, <1>2, GoodLookUp
<1>4. Found(s1, a) \in Content
    BY <1>1, <1>3, FoundTyped DEF Good
<1> HIDE DEF s1
<1>5. Good(s2, f, D, U) /\ s2.in = s1.in
    BY <1>1, <1>2, <1>3, <1>4, GoodWriting
<1> HIDE DEF s2
<1>6. Good(s3, f, D, U) /\ s3.in = s2.in
    BY <1>1, <1>5, GoodLookUp
<1> HIDE DEF s3
<1>7. Read({x}, D) /\ Read({y}, D)
    BY <1>3, <1>6, ReadOne
<1> HIDE DEF x, y
<1>8. Read({x, y}, D)
    BY <1>7, ReadBoth
<1>9. s3.in[v] \in Regs
    BY <1>2, <1>3, <1>5, <1>6
<1> QED
    BY <1>0, <1>2, <1>6, <1>8, <1>9, ComputedKeeps DEF f, D, U

(* cmpInstGenerate, and the sdiv of binaryInstGenerate.                     *)
LEMMA CompareKeeps ==
    ASSUME IInv, NEW v \in Unused, NEW a \in defined, NEW b \in defined, Compare(v, a, b)
    PROVE  IInv' /\ NotEarly
<1> DEFINE s0 == getEmptyRegister(alloc, v)
           s1 == getPosition(s0, a)
           s2 == getPosition(s1, b)
           f == Counted(fresh, Class(v))
           D == Live \ Displaced(alloc, v)
           U == Unused \ {v}
           x == <<a, Found(s1, a)>>
           y == <<b, Found(s2, b)>>
<1>0. Computed(s2, v, {x, y})
    BY DEF Compare
<1>1. v \in AllValues /\ a \in AllValues /\ b \in AllValues
    BY DefinedTyped
<1>2. /\ Good(s0, f, D, U) /\ s0.in[v] \in Regs
      /\ \A u \in Displaced(alloc, v) : fresh[Class(u)] >= Len(ClassRegs(Class(u)))
    BY <1>1, FirstTaking
<1> HIDE DEF s0, f, D, U
<1>3. Good(s1, f, D, U) /\ s1.in = s0.in
    BY <1>1, <1>2, GoodLookUp
<1> HIDE DEF s1
<1>4. Good(s2, f, D, U) /\ s2.in = s1.in
    BY <1>1, <1>3, GoodLookUp
<1> HIDE DEF s2
<1>5. Read({x}, D) /\ Read({y}, D)
    BY <1>3, <1>4, ReadOne
<1> HIDE DEF x, y
<1>6. Read({x, y}, D) /\ s2.in[v] \in Regs
    BY <1>2, <1>3, <1>4, <1>5, ReadBoth
<1> QED
    BY <1>0, <1>2, <1>4, <1>6, ComputedKeeps DEF f, D, U

(* zextInstGenerate, fpToSiInstGenerate, siToFpInstGenerate,                *)
(* loadInstGenerate.                                                        *)
LEMMA ConvertKeeps ==
    ASSUME IInv, NEW v \in Unused, NEW a \in defined, Convert(v, a)
    PROVE  IInv' /\ NotEarly
<1> DEFINE s0 == getEmptyRegister(alloc, v)
           s1 == getPosition(s0, a)
           f == Counted(fresh, Class(v))
           D == Live \ Displaced(alloc, v)
           U == Unused \ {v}
<1>0. Computed(s1, v, {<<a, Found(s1, a)>>})
    BY DEF Convert
<1>1. v \in AllValues /\ a \in AllValues
    BY DefinedTyped
<1>2. /\ Good(s0, f, D, U) /\ s0.in[v] \in Regs
      /\ \A u \in Displaced(alloc, v) : fresh[Class(u)] >= Len(ClassRegs(Class(u)))
    BY <1>1, FirstTaking
<1> HIDE DEF s0, f, D, U
<1>3. Good(s1, f, D, U) /\ s1.in = s0.in
    BY <1>1, <1>2, GoodLookUp
<1> HIDE DEF s1
<1>4. Read({<<a, Found(s1, a)>>}, D) /\ s1.in[v] \in Regs
    BY <1>2, <1>3, ReadOne
<1> QED
    BY <1>0, <1>2, <1>3, <1>4, ComputedKeeps DEF f, D, U

(* Gep emits what Binary does, with the index in eax.                       *)
LEMMA GepKeeps ==
    ASSUME IInv, NEW v \in Unused, NEW p \in defined, NEW i \in defined, Gep(v, p, i)
    PROVE  IInv' /\ NotEarly
<1>1. Binary(v, p, i)
    BY DEF Gep, Binary
<1> QED
    BY <1>1, BinaryKeeps

(* fcmpInstGenerate takes two registers, of different classes.              *)
LEMMA FloatCompareKeeps ==
    ASSUME IInv, NEW v \in Unused, TypeOf(v) = "int", NEW a \in defined, NEW b \in defined,
           FloatCompare(v, a, b)
    PROVE  IInv' /\ NotEarly
<1> DEFINE s0 == getEmptyRegister(alloc, TempFloat)
           s1 == getEmptyRegister(s0, v)
           s2 == getPosition(s1, a)
           s3 == [s2 EXCEPT !.reg[s2.in[TempFloat]] = Found(s2, a)]
           s4 == getPosition(s3, b)
           f0 == Counted(fresh, "float")
           f1 == Counted(f0, "int")
           d0 == Displaced(alloc, TempFloat)
           d1 == Displaced(s0, v)
           D0 == Live \ d0
           D == D0 \ d1
           U == Unused \ {v}
           x == <<a, Found(s2, a)>>
           y == <<b, Found(s4, b)>>
<1>0. /\ alloc' = Result(s4, v)
      /\ defined' = defined \cup {v}
      /\ lost' = lost \cup d0 \cup d1
      /\ fresh' = f1
      /\ misread' = Wrong({x, y})
      /\ halved' = halved /\ ended' = ended
    BY DEF FloatCompare
<1>1. /\ v \in AllValues /\ a \in AllValues /\ b \in AllValues /\ v \in Values
      /\ TempFloat \in AllValues /\ TempFloat \notin Values
      /\ v \notin Live /\ Live \subseteq Values /\ Unused \subseteq Values
      /\ v \notin D /\ v \notin D0 /\ v \notin U /\ D \subseteq Values /\ D0 \subseteq Values
      /\ TempFloat \notin D /\ TempFloat \notin Unused
    BY DefinedTyped, KindAssumption DEF AllValues, Temps
<1>2. Class(TempFloat) = "float" /\ Class(v) = "int"
    BY KindAssumption DEF Class, TypeOf
<1>3. /\ Good(s0, f0, D0, Unused) /\ s0.in[TempFloat] \in Regs
      /\ \A u \in d0 : /\ u \in Values /\ fresh[Class(u)] >= Len(ClassRegs(Class(u)))
  <2>1. Unused \ {TempFloat} = Unused
    BY <1>1
  <2> QED
    BY <1>1, <1>2, <2>1, FirstTaking
<1> HIDE DEF f0, f1
<1>4. /\ Good(s1, f1, D, U) /\ s1.in[v] \in Regs
      /\ \A u \in d1 : /\ u \in Values /\ Class(u) = "int"
                       /\ f0[Class(u)] >= Len(ClassRegs(Class(u)))
  <2> HIDE DEF s0, D0
  <2> QED
    BY <1>1, <1>2, <1>3, GoodTaking DEF f1
<1>5. s1.in[TempFloat] \in Regs
  <2> HIDE DEF s0
  <2>1. MapsOK(s0) /\ v \in Values => s0.in[v] = NoReg
    BY <1>3 DEF Good
  <2> DEFINE r == Victim(s0, v)
  <2>2. s1.in[TempFloat] = IF TempFloat = s0.held[r] THEN NoReg ELSE s0.in[TempFloat]
    BY <1>1 DEF getEmptyRegister, Remapped, MapsOK, Allocs
  <2>3. s0.held[r] # TempFloat
    <3>1. /\ OwnClass(s0) /\ s0 \in Allocs /\ Listed(s0)
      BY <1>3 DEF Good, MapsOK
    <3>2. /\ s0.lru["int"] \in Seq(Regs) /\ ListsRegisters(s0.lru["int"], "int")
          /\ Len(ClassRegs("int")) \in Nat \ {0}
      BY <3>1, ListTyped DEF Allocs, Listed, Classes
    <3>3. r = s0.lru["int"][1] /\ r \in RegsOf(s0.lru["int"]) /\ r \in Regs
      BY <1>2, <3>2 DEF Victim, RegsOf, ListsRegisters
    <3>4. r \notin RegsOf(ClassRegs("float"))
      BY <3>2, <3>3, RegsAssumption DEF ListsRegisters, ClassRegs
    <3>5. TempFloat # NoValue
      BY <1>1, KindAssumption
    <3> QED
      BY <1>2, <3>1, <3>3, <3>4, <3>5 DEF OwnClass
  <2> QED
    BY <1>3, <2>2, <2>3
<1> HIDE DEF s1, D, U
<1>6. Good(s2, f1, D, U) /\ s2.in = s1.in
    BY <1>1, <1>4, GoodLookUp
<1>7. Found(s2, a) \in Content
    BY <1>1, <1>6, FoundTyped DEF Good
<1> HIDE DEF s2
<1>8. Good(s3, f1, D, U) /\ s3.in = s2.in
    BY <1>1, <1>5, <1>6, <1>7, GoodWriting
<1> HIDE DEF s3
<1>9. Good(s4, f1, D, U) /\ s4.in = s3.in
    BY <1>1, <1>8, GoodLookUp
<1> HIDE DEF s4
<1>10. Read({x}, D) /\ Read({y}, D)
    BY <1>6, <1>9, ReadOne
<1> HIDE DEF x, y
<1>11. Wrong({x, y}) \subseteq defined \ D
    BY <1>10, ReadBoth, WrongReads
<1>12. Good(alloc', f1, D \cup {v}, U)
    BY <1>0, <1>1, <1>4, <1>6, <1>8, <1>9, GoodResult
<1> HIDE DEF d0, d1
<1>13. Good(alloc', fresh', defined' \ (lost' \cup halved'), Values \ defined')
    BY <1>0, <1>12, GoodMonotone DEF D, U, Live, Unused
<1>14. misread' \subseteq lost' \cup halved' /\ misread' \subseteq Values
    BY <1>0, <1>1, <1>11, DefinedTyped DEF D, Live
<1>15. \A u \in d1 : fresh[Class(u)] >= Len(ClassRegs(Class(u)))
  <2>1. f0["int"] = fresh["int"]
    BY CountedTyped DEF f0, IInv, Good, Classes
  <2> QED
    BY <1>4, <2>1
<1>16. NotEarly
    BY <1>0, <1>3, <1>15 DEF NotEarly
<1> QED
    BY <1>0, <1>1, <1>3, <1>4, <1>13, <1>14, <1>16 DEF IInv
(* storeInstGenerate takes a scratch register and defines nothing.          *)
LEMMA StoreKeeps ==
    ASSUME IInv, NEW a \in defined, NEW p \in defined, Store(a, p)
    PROVE  IInv' /\ NotEarly
<1> DEFINE t  == IF TypeOf(a) = "int" THEN TempInt ELSE TempFloat
           s0 == getEmptyRegister(alloc, t)
           s1 == getPosition(s0, p)
           s2 == getPosition(s1, a)
           s3 == [s2 EXCEPT !.reg[s2.in[t]] = Found(s2, a)]
           f == Counted(fresh, Class(t))
           d == Displaced(alloc, t)
           D == Live \ d
           x == <<p, Found(s1, p)>>
           y == <<a, Found(s2, a)>>
<1>0. /\ alloc' = s3 /\ lost' = lost \cup d /\ fresh' = f /\ misread' = Wrong({x, y})
      /\ defined' = defined /\ halved' = halved /\ ended' = ended
    BY DEF Store
<1>1. /\ t \in AllValues /\ t \notin Values /\ a \in AllValues /\ p \in AllValues
      /\ t \notin D /\ t \notin Unused /\ D \subseteq Values
    BY DefinedTyped, KindAssumption DEF AllValues, Temps
<1> HIDE DEF t
<1>2. /\ Good(s0, f, D, Unused) /\ s0.in[t] \in Regs
      /\ \A u \in d : u \in Values /\ fresh[Class(u)] >= Len(ClassRegs(Class(u)))
  <2>1. Unused \ {t} = Unused
    BY <1>1
  <2> QED
    BY <1>1, <2>1, FirstTaking
<1> HIDE DEF s0, f, D, d
<1>3. Good(s1, f, D, Unused) /\ s1.in = s0.in
    BY <1>1, <1>2, GoodLookUp
<1> HIDE DEF s1
<1>4. Good(s2, f, D, Unused) /\ s2.in = s1.in
    BY <1>1, <1>3, GoodLookUp
<1>5. Found(s2, a) \in Content
    BY <1>1, <1>4, FoundTyped DEF Good
<1> HIDE DEF s2
<1>6. Good(s3, f, D, Unused)
    BY <1>1, <1>2, <1>3, <1>4, <1>5, GoodWriting
<1> HIDE DEF s3
<1>7. Read({x}, D) /\ Read({y}, D)
    BY <1>3, <1>4, ReadOne
<1> HIDE DEF x, y
<1>8. Wrong({x, y}) \subseteq defined \ D
    BY <1>7, ReadBoth, WrongReads
<1>9. Good(alloc', fresh', defined' \ (lost' \cup halved'), Values \ defined')
    BY <1>0, <1>6, GoodMonotone DEF D, Live, Unused
<1>10. misread' \subseteq lost' \cup halved' /\ misread' \subseteq Values
    BY <1>0, <1>8, DefinedTyped DEF D, Live
<1>11. NotEarly
    BY <1>0, <1>2 DEF NotEarly
<1> QED
    BY <1>0, <1>2, <1>9, <1>10, <1>11 DEF IInv

(* The arguments of a call, looked up and read from alloc.                  *)
LEMMA ArgumentsKeep ==
    ASSUME IInv, NEW args \in Seq(defined)
    PROVE  /\ Good(LookUp(args), fresh, Live, Unused)
           /\ Wrong({<<args[i], Found(alloc, args[i])>> : i \in 1 .. Len(args)})
                  \subseteq defined \ Live
<1>1. Good(alloc, fresh, Live, Unused)
    BY DEF IInv, Live, Unused
<1>2. args \in Seq(AllValues)
    BY DefinedTyped
<1>3. Like(alloc, LookUp(args))
    BY <1>1, <1>2, LookingUp DEF Good
<1>4. Good(LookUp(args), fresh, Live, Unused)
    BY <1>1, <1>3 DEF Good, Like, SameBut, Found
<1> DEFINE found == {<<args[i], Found(alloc, args[i])>> : i \in 1 .. Len(args)}
<1>5. \A i \in 1 .. Len(args) : args[i] \in defined
    OBVIOUS
<1>6. Read(found, Live)
    BY <1>1, <1>5 DEF Read, Good
<1> QED
    BY <1>4, <1>6, WrongReads

(* callInstGenerate without a result.                                       *)
LEMMA CallVoidKeeps ==
    ASSUME IInv, NEW args \in Seq(defined), CallVoid(args)
    PROVE  IInv' /\ NotEarly
<1> DEFINE s == LookUp(args)
           t == Clobbered(stash(s))
<1>0. /\ alloc' = t /\ halved' = halved \cup Halved(s) /\ fresh' = [c \in Classes |-> 0]
      /\ misread' = Wrong({<<args[i], Found(alloc, args[i])>> : i \in 1 .. Len(args)})
      /\ defined' = defined /\ lost' = lost /\ ended' = ended
    BY DEF CallVoid, CallWith
<1>1. /\ Good(s, fresh, Live, Unused)
      /\ misread' \subseteq defined \ Live
    BY <1>0, ArgumentsKeep
<1> HIDE DEF s
<1>2. Good(t, [c \in Classes |-> 0], Live \ Halved(s), Unused)
    BY <1>1, DefinedTyped, GoodStash
<1> HIDE DEF t
<1>3. Good(alloc', fresh', defined' \ (lost' \cup halved'), Values \ defined')
    BY <1>0, <1>2, GoodMonotone DEF Live, Unused
<1>4. misread' \subseteq lost' \cup halved' /\ misread' \subseteq Values
    BY <1>0, <1>1, DefinedTyped DEF Live
<1>5. Halved(s) \subseteq Values
    BY DEF Halved
<1> QED
    BY <1>0, <1>3, <1>4, <1>5 DEF IInv, NotEarly

(* callInstGenerate with a result: after the stash a register is empty.     *)
LEMMA CallKeeps ==
    ASSUME IInv, NEW v \in Unused, NEW args \in Seq(defined), Call(v, args)
    PROVE  IInv' /\ NotEarly
<1> DEFINE s == LookUp(args)
           s0 == Clobbered(stash(s))
           s1 == getEmptyRegister(s0, v)
           zero == [c \in Classes |-> 0]
           f == Counted(zero, Class(v))
           D == Live \ Halved(s)
           U == Unused \ {v}
<1>0. /\ alloc' = Result(s1, v) /\ halved' = halved \cup Halved(s) /\ fresh' = f
      /\ misread' = Wrong({<<args[i], Found(alloc, args[i])>> : i \in 1 .. Len(args)})
      /\ defined' = defined \cup {v} /\ lost' = lost \cup Displaced(s0, v) /\ ended' = ended
    BY DEF Call, CallWith
<1>1. /\ Good(s, fresh, Live, Unused)
      /\ misread' \subseteq defined \ Live
    BY <1>0, ArgumentsKeep
<1> HIDE DEF s
<1>2. /\ v \in AllValues /\ v \in Values /\ v \notin D /\ v \notin U
      /\ D \subseteq Values /\ Unused \subseteq Values
    BY DefinedTyped
<1>3. Good(s0, zero, D, Unused) /\ Displaced(s0, v) = {}
    BY <1>1, <1>2, DefinedTyped, GoodStash
<1> HIDE DEF s0, zero, D
<1>4. Good(s1, f, D \ Displaced(s0, v), U) /\ s1.in[v] \in Regs
    BY <1>2, <1>3, GoodTaking
<1>5. Good(s1, f, D, U)
    BY <1>3, <1>4
<1> HIDE DEF s1, f, U
<1>6. Good(alloc', fresh', D \cup {v}, U)
    BY <1>0, <1>2, <1>4, <1>5, GoodResult
<1>7. Good(alloc', fresh', defined' \ (lost' \cup halved'), Values \ defined')
    BY <1>0, <1>6, GoodMonotone DEF D, U, Live, Unused
<1>8. misread' \subseteq lost' \cup halved' /\ misread' \subseteq Values
    BY <1>0, <1>1, DefinedTyped DEF Live
<1>9. Halved(s) \subseteq Values
    BY DEF Halved
<1> QED
    BY <1>0, <1>2, <1>3, <1>7, <1>8, <1>9 DEF IInv, NotEarly

(* brInstGenerate: the position found before the stash is still right.      *)
LEMMA BranchKeeps ==
    ASSUME IInv, NEW c \in defined, TypeOf(c) = "int", BranchOn(c)
    PROVE  IInv' /\ NotEarly
<1> DEFINE s1 == getPosition(alloc, c)
           s2 == stash(s1)
           t == Clobbered(s2)
           x == IF s1.in[c] # NoReg THEN s2.reg[s1.in[c]] ELSE s2.slot[c]
<1>0. /\ alloc' = t /\ misread' = Wrong({<<c, x>>}) /\ halved' = halved \cup Halved(s1)
      /\ fresh' = [k \in Classes |-> 0] /\ defined' = defined /\ lost' = lost /\ ended' = ended
    BY DEF BranchOn
<1>1. Good(alloc, fresh, Live, Unused) /\ c \in AllValues /\ c \in Values
    BY DefinedTyped DEF IInv, Live, Unused
<1>2. Good(s1, fresh, Live, Unused)
    BY <1>1, GoodLookUp
<1> HIDE DEF s1
<1>3. Good(t, [k \in Classes |-> 0], Live \ Halved(s1), Unused)
    BY <1>2, DefinedTyped, GoodStash
<1>4. /\ s2.reg = s1.reg
      /\ \A v \in Values \ Halved(s1) : Found(s1, v) = v => s2.slot[v] = v
    BY <1>2, Stashing DEF Good
<1> HIDE DEF s2, t
<1>5. c \in Live => x = c
  <2> HAVE c \in Live
  <2>1. Found(s1, c) = c
    BY <1>2 DEF Good
  <2>2. c \notin Halved(s1)
    BY DEF Halved
  <2> QED
    BY <1>1, <1>4, <2>1, <2>2 DEF Found
<1> HIDE DEF x
<1>6. misread' \subseteq defined \ Live
  <2>1. Read({<<c, x>>}, Live)
    BY <1>5 DEF Read
  <2> QED
    BY <1>0, <2>1, WrongReads
<1>7. Good(alloc', fresh', defined' \ (lost' \cup halved'), Values \ defined')
    BY <1>0, <1>3, GoodMonotone DEF Live, Unused
<1>8. misread' \subseteq lost' \cup halved' /\ misread' \subseteq Values
    BY <1>0, <1>6, DefinedTyped DEF Live
<1>9. Halved(s1) \subseteq Values
    BY DEF Halved
<1> QED
    BY <1>0, <1>7, <1>8, <1>9 DEF IInv, NotEarly

(* An unconditional br only stashes.                                        *)
LEMMA JumpKeeps ==
    ASSUME IInv, Jump
    PROVE  IInv' /\ NotEarly
<1>1. Good(alloc, fresh, Live, Unused)
    BY DEF IInv, Live, Unused
<1>2. Good(Clobbered(stash(alloc)), [k \in Classes |-> 0], Live \ Halved(alloc), Unused)
    BY <1>1, DefinedTyped, GoodStash
<1>3. Good(alloc', fresh', defined' \ (lost' \cup halved'), Values \ defined')
    BY <1>2, GoodMonotone DEF Jump, Live, Unused
<1>4. Halved(alloc) \subseteq Values
    BY DEF Halved
<1> QED
    BY <1>3, <1>4 DEF Jump, IInv, NotEarly

(* ret: the operand, never a pointer, is in its slot.                       *)
LEMMA ReturnKeeps ==
    ASSUME IInv, NEW c \in defined, TypeOf(c) # "ptr", Return(c)
    PROVE  IInv' /\ NotEarly
<1> DEFINE s0 == getPosition(alloc, c)
           s1 == Clobbered(stash(s0))
<1>0. /\ alloc' = s1 /\ misread' = Wrong({<<c, Found(s1, c)>>}) /\ halved' = halved \cup Halved(alloc)
      /\ fresh' = [k \in Classes |-> 0] /\ defined' = defined /\ lost' = lost /\ ended' = TRUE
    BY DEF Return
<1>1. Good(alloc, fresh, Live, Unused) /\ c \in AllValues /\ c \in Values
    BY DefinedTyped DEF IInv, Live, Unused
<1>2. Good(s0, fresh, Live, Unused) /\ Halved(s0) = Halved(alloc)
  <2>1. SameBut(alloc, s0)
    BY <1>1, GetPositionKeeps DEF Good
  <2> QED
    BY <1>1, <2>1, GoodLookUp DEF SameBut, Halved
<1> HIDE DEF s0
<1>3. Good(s1, [k \in Classes |-> 0], Live \ Halved(s0), Unused)
    BY <1>2, DefinedTyped, GoodStash
<1> HIDE DEF s1
<1>4. c \notin Halved(s0)
    BY DEF Halved
<1>5. misread' \subseteq defined \ (Live \ Halved(s0))
    BY <1>0, <1>3, ReadOne, WrongReads
<1>6. Good(alloc', fresh', defined' \ (lost' \cup halved'), Values \ defined')
    BY <1>0, <1>2, <1>3, GoodMonotone DEF Live, Unused
<1>7. misread' \subseteq lost' \cup halved' /\ misread' \subseteq Values
    BY <1>0, <1>2, <1>5, DefinedTyped DEF Live
<1>8. Halved(alloc) \subseteq Values
    BY DEF Halved
<1> QED
    BY <1>0, <1>6, <1>7, <1>8 DEF IInv, NotEarly

-----------------------------------------------------------------------------
(* At the head of the function the parameters are in their slots.           *)
LEMMA InitHolds == Init => IInv
<1> SUFFICES ASSUME Init PROVE IInv
    OBVIOUS
<1>1. /\ alloc.lru = [c \in Classes |-> ClassRegs(c)]
      /\ alloc.held = [r \in Regs |-> NoValue]
      /\ alloc.in = [v \in AllValues |-> NoReg]
      /\ alloc.slot = [v \in AllValues |-> IF v \in Params THEN v ELSE Junk]
      /\ alloc.reg = [r \in Regs |-> Junk]
      /\ alloc \in Allocs
  <2>1. [c \in Classes |-> ClassRegs(c)] \in [Classes -> Seq(Regs)]
    BY ListTyped
  <2>2. [v \in AllValues |-> IF v \in Params THEN v ELSE Junk] \in [AllValues -> Content]
    BY DEF Content
  <2>3. [r \in Regs |-> Junk] \in [Regs -> Content]
    BY DEF Content
  <2> QED
    BY <2>1, <2>2, <2>3 DEF Init, Allocs
<1>2. Listed(alloc)
    BY <1>1, ListTyped DEF Listed
<1>3. Agree(alloc) /\ OwnClass(alloc)
    BY <1>1, RegsAssumption, KindAssumption DEF Agree, OwnClass, AllValues
<1>4. EmptyFirst(alloc, fresh)
  <2> SUFFICES ASSUME NEW c \in Classes, NEW i \in 1 .. Len(alloc.lru[c])
               PROVE  alloc.held[alloc.lru[c][i]] = NoValue
    BY DEF EmptyFirst
  <2>1. alloc.lru[c] \in Seq(Regs)
    BY <1>1 DEF Allocs
  <2> QED
    BY <1>1, <2>1
<1>5. \A c \in Classes : Len(ClassRegs(c)) \in Nat
    BY ListTyped
<1>6. /\ \A v \in Params : v \in AllValues
      /\ \A v \in Values : v \in AllValues
    BY KindAssumption DEF AllValues
<1>7. Good(alloc, fresh, Params, Values \ Params)
    BY <1>1, <1>2, <1>3, <1>4, <1>5, <1>6 DEF Init, Good, MapsOK, Found
<1> QED
    BY <1>7, KindAssumption DEF Init, IInv

(* Every step of the generator keeps the invariant.                         *)
LEMMA StepKeeps ==
    ASSUME IInv, [Next]_vars
    PROVE  IInv' /\ NotEarly
<1>1. CASE UNCHANGED vars
    BY <1>1 DEF vars, IInv, NotEarly, Good, MapsOK, Listed, Agree, OwnClass, EmptyFirst, Found
<1>2. ASSUME NEW k \in {"int", "float"}, NEW v \in Fresh(k), NEW a \in Avail(k), NEW b \in Avail(k),
             Binary(v, a, b)
      PROVE  IInv' /\ NotEarly
    BY <1>2, BinaryKeeps DEF Fresh, Avail, Unused
<1>3. ASSUME NEW v \in Fresh("int"), NEW a \in Avail("int"), NEW b \in Avail("int"), Compare(v, a, b)
      PROVE  IInv' /\ NotEarly
    BY <1>3, CompareKeeps DEF Fresh, Avail, Unused
<1>4. ASSUME NEW v \in Fresh("int"), NEW a \in Avail("float"), NEW b \in Avail("float"),
             FloatCompare(v, a, b)
      PROVE  IInv' /\ NotEarly
    BY <1>4, FloatCompareKeeps DEF Fresh, Avail, Unused
<1>5. ASSUME NEW v \in Fresh("int") \cup Fresh("float"), NEW a \in defined, Convert(v, a)
      PROVE  IInv' /\ NotEarly
    BY <1>5, ConvertKeeps DEF Fresh, Unused
<1>6. ASSUME NEW v \in Fresh("ptr"), NEW p \in Avail("ptr"), NEW i \in Avail("int"), Gep(v, p, i)
      PROVE  IInv' /\ NotEarly
    BY <1>6, GepKeeps DEF Fresh, Avail, Unused
<1>7. ASSUME NEW a \in Avail("int") \cup Avail("float"), NEW p \in Avail("ptr"), Store(a, p)
      PROVE  IInv' /\ NotEarly
    BY <1>7, StoreKeeps DEF Avail
<1>8. ArgLists \subseteq Seq(defined)
    BY DEF ArgLists
<1>9. ASSUME NEW v \in Fresh("int") \cup Fresh("float"), NEW args \in ArgLists, Call(v, args)
      PROVE  IInv' /\ NotEarly
    BY <1>8, <1>9, CallKeeps DEF Fresh, Unused
<1>10. ASSUME NEW args \in ArgLists, CallVoid(args)
       PROVE  IInv' /\ NotEarly
    BY <1>8, <1>10, CallVoidKeeps
<1>11. ASSUME NEW c \in Avail("int"), BranchOn(c)
       PROVE  IInv' /\ NotEarly
    BY <1>11, BranchKeeps DEF Avail
<1>12. CASE Jump
    BY <1>12, JumpKeeps
<1>13. ASSUME NEW c \in Avail("int") \cup Avail("float"), Return(c)
       PROVE  IInv' /\ NotEarly
    BY <1>13, ReturnKeeps DEF Avail
<1>14. \A k : Avail(k) \subseteq defined
    BY DEF Avail
<1> QED
    BY <1>1, <1>2, <1>3, <1>4, <1>5, <1>6, <1>7, <1>9, <1>10, <1>11, <1>12, <1>13, <1>14 DEF Next

(* The maps agree and every operand is found wherever the invariant holds.  *)
LEMMA InvariantSuffices ==
    ASSUME IInv
    PROVE  TypeOK /\ RegisterMapsAgree /\ OperandsFound
<1>1. /\ MapsOK(alloc) /\ fresh \in [Classes -> Nat]
      /\ \A c \in Classes : fresh[c] <= Len(ClassRegs(c)) + 1
    BY DEF IInv, Good
<1>2. \A c \in Classes : Len(ClassRegs(c)) \in Nat
    BY ListTyped
<1>3. TypeOK
    BY <1>1, <1>2 DEF IInv, TypeOK, MapsOK, Listed
<1> QED
    BY <1>1, <1>3 DEF RegisterMapsAgree, OperandsFound, IInv, MapsOK, Agree

(* The invariant holds in every reachable state.                            *)
THEOREM AllocationInvariant == Spec => []IInv
<1>1. IInv /\ [Next]_vars => IInv'
    BY StepKeeps
<1> QED
    BY <1>1, InitHolds, PTL DEF Spec

(* In every reachable state of the generator the register maps are typed,   *)
(* list every register of a class once, and agree with each other.          *)
THEOREM MapsAgree == Spec => []RegisterMapsAgree
<1>1. IInv => RegisterMapsAgree
    BY InvariantSuffices
<1> QED
    BY <1>1, AllocationInvariant, PTL

(* Every operand is found where getPosition says, unless its register was   *)
(* handed to another value or it is a pointer that a stash cut in half.     *)
THEOREM OperandsAreFound == Spec => []OperandsFound
<1>1. IInv => OperandsFound
    BY InvariantSuffices
<1> QED
    BY <1>1, AllocationInvariant, PTL

(* No value is displaced while some register of its class was not handed    *)
(* out since the last stash.                                                *)
THEOREM NoneDisplacedEarly == Spec => NoEarlyDisplacement
<1>1. IInv /\ [Next]_vars =>
         [\A v \in lost' \ lost : fresh[Class(v)] >= Len(ClassRegs(Class(v)))]_vars
    BY StepKeeps DEF NotEarly
<1> QED
    BY <1>1, AllocationInvariant, PTL DEF Spec, NoEarlyDisplacement
=============================================================================
