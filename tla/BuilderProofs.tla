--------------------------- MODULE BuilderProofs ----------------------------
(****************************************************************************)
(* Theorems about Builder, for every set of programs that satisfies the     *)
(* typing rules of BuilderTypes.                                            *)
(*                                                                          *)
(* The agenda is the continuation of the visitor.  A description says of a  *)
(* state what the next thing to do depends on: which names the scopes bind  *)
(* to which types, and the types of expressionValue and varAddress, if they *)
(* matter.  Step says from which description to which each kind of item     *)
(* leads: a node does what its typing rule says, the rest of a visit what   *)
(* the visit still owes.  Runs chains the items of the whole agenda.        *)
(*                                                                          *)
(* Working says that the agenda runs from a description that matches the    *)
(* state, and that the code so far is typed and uses only what it has made; *)
(* Beginning is the part before the function, the global variables.  One    *)
(* lemma per action (...Works) shows that the items put on the agenda in    *)
(* place of its head run to where the head would have led.  Two facts need  *)
(* more: the scopes are counted by the visits that leave them (ScopeInv),   *)
(* and every block ends with a terminator or will be come back to           *)
(* (ControlInv).                                                            *)
(****************************************************************************)
EXTENDS BuilderTypes, Integers, FiniteSetTheorems, SequenceTheorems, TLAPS

-----------------------------------------------------------------------------
(* Sequences                                                                *)

LEMMA ListFacts ==
    ASSUME NEW s, IsList(s)
    PROVE  Len(s) \in Nat /\ DOMAIN s = 1 .. Len(s)
BY DEF IsList

LEMMA ListSeq ==
    ASSUME NEW s, IsList(s), NEW S, \A i \in DOMAIN s : s[i] \in S
    PROVE  s \in Seq(S)
BY DEF IsList

LEMMA SeqList ==
    ASSUME NEW S, NEW s \in Seq(S)
    PROVE  IsList(s)
BY DEF IsList

LEMMA ConcatList ==
    ASSUME NEW s, IsList(s), NEW t, IsList(t)
    PROVE  /\ IsList(s \o t)
           /\ Len(s \o t) = Len(s) + Len(t)
           /\ \A i \in 1 .. Len(s) : (s \o t)[i] = s[i]
           /\ \A i \in 1 .. Len(t) : (s \o t)[Len(s) + i] = t[i]
           /\ \A i \in Len(s) + 1 .. Len(s) + Len(t) : (s \o t)[i] = t[i - Len(s)]
<1> DEFINE S == {s[i] : i \in DOMAIN s} \cup {t[i] : i \in DOMAIN t}
<1>1. s \in Seq(S) /\ t \in Seq(S)
    <2>1. \A i \in DOMAIN s : s[i] \in S  OBVIOUS
    <2>2. \A i \in DOMAIN t : t[i] \in S  OBVIOUS
    <2> HIDE DEF S
    <2> QED BY <2>1, <2>2, ListSeq
<1> HIDE DEF S
<1>2. s \o t \in Seq(S)  BY <1>1
<1>3. IsList(s \o t)  BY <1>2, SeqList
<1> QED BY <1>1, <1>2, <1>3

(* The same of a concatenation with a name.                                 *)
Joined(u, s, t) ==
    /\ IsList(u)
    /\ Len(u) = Len(s) + Len(t)
    /\ \A i \in 1 .. Len(s) : u[i] = s[i]
    /\ \A i \in 1 .. Len(t) : u[Len(s) + i] = t[i]

LEMMA ConcatJoined ==
    ASSUME NEW s, IsList(s), NEW t, IsList(t)
    PROVE  Joined(s \o t, s, t)
BY ConcatList DEF Joined

LEMMA TailList ==
    ASSUME NEW s, IsList(s), s # <<>>
    PROVE  /\ IsList(Tail(s))
           /\ Len(s) >= 1
           /\ Head(s) = s[1]
           /\ Len(Tail(s)) = Len(s) - 1
           /\ \A i \in 1 .. Len(s) - 1 : Tail(s)[i] = s[i + 1]
<1> DEFINE S == {s[i] : i \in DOMAIN s}
<1>1. s \in Seq(S)  BY DEF IsList
<1> HIDE DEF S
<1>2. Tail(s) \in Seq(S)  BY <1>1
<1>3. IsList(Tail(s))  BY <1>2, SeqList
<1> QED BY <1>1, <1>2, <1>3

LEMMA AppendList ==
    ASSUME NEW s, IsList(s), NEW e
    PROVE  /\ IsList(Append(s, e))
           /\ Len(Append(s, e)) = Len(s) + 1
           /\ \A i \in 1 .. Len(s) : Append(s, e)[i] = s[i]
           /\ Append(s, e)[Len(s) + 1] = e
<1> DEFINE S == {s[i] : i \in DOMAIN s} \cup {e}
<1>1. s \in Seq(S) /\ e \in S
    <2>1. \A i \in DOMAIN s : s[i] \in S  OBVIOUS
    <2>2. e \in S  OBVIOUS
    <2> HIDE DEF S
    <2> QED BY <2>1, <2>2, ListSeq
<1> HIDE DEF S
<1>2. Append(s, e) \in Seq(S)  BY <1>1
<1>3. IsList(Append(s, e))  BY <1>2, SeqList
<1> QED BY <1>1, <1>2, <1>3

LEMMA FrontList ==
    ASSUME NEW s, IsList(s), Len(s) >= 1
    PROVE  /\ IsList(Front(s))
           /\ Len(Front(s)) = Len(s) - 1
           /\ \A i \in 1 .. Len(s) - 1 : Front(s)[i] = s[i]
<1> DEFINE S == {s[i] : i \in DOMAIN s}
<1>1. s \in Seq(S)  BY DEF IsList
<1> HIDE DEF S
<1>2. Len(s) \in Nat /\ \A i \in 1 .. Len(s) - 1 : s[i] \in S  BY <1>1
<1>3. /\ Front(s) \in Seq(S)
      /\ Len(Front(s)) = IF 1 <= Len(s) - 1 THEN Len(s) - 1 - 1 + 1 ELSE 0
      /\ \A i \in 1 .. (Len(s) - 1) - 1 + 1 : Front(s)[i] = s[1 + i - 1]
    BY <1>2, SubSeqProperties DEF Front
<1>4. IsList(Front(s))  BY <1>3, SeqList
<1>5. \A n \in Nat : n >= 1 => (IF 1 <= n - 1 THEN n - 1 - 1 + 1 ELSE 0) = n - 1  OBVIOUS
<1>6. ASSUME NEW i \in 1 .. Len(s) - 1 PROVE Front(s)[i] = s[i]
    <2>1. i \in 1 .. (Len(s) - 1) - 1 + 1 /\ 1 + i - 1 = i  BY <1>2
    <2> QED BY <1>3, <2>1
<1> HIDE DEF Front
<1>7. Len(Front(s)) = Len(s) - 1  BY <1>2, <1>3, <1>5
<1> QED BY <1>4, <1>6, <1>7

LEMMA ShortLists ==
    /\ IsList(<<>>) /\ Len(<<>>) = 0
    /\ \A a : IsList(<<a>>) /\ Len(<<a>>) = 1 /\ <<a>>[1] = a
    /\ \A a, b : /\ IsList(<<a, b>>) /\ Len(<<a, b>>) = 2
                 /\ <<a, b>>[1] = a /\ <<a, b>>[2] = b
BY DEF IsList

LEMMA EqualLists ==
    ASSUME NEW s, IsList(s), NEW t, IsList(t), Len(s) = Len(t), \A i \in 1 .. Len(s) : s[i] = t[i]
    PROVE  s = t
<1> DEFINE S == {s[i] : i \in DOMAIN s}
<1>1. s \in Seq(S)  BY DEF IsList
<1>2. \A i \in DOMAIN t : t[i] \in S  BY ListFacts
<1> HIDE DEF S
<1>3. t \in Seq(S)  BY <1>2, ListSeq
<1> QED BY <1>1, <1>3

LEMMA AppendTuple ==
    ASSUME NEW a, NEW b
    PROVE  Append(<<a>>, b) = <<a, b>>
<1>1. IsList(<<a>>) /\ Len(<<a>>) = 1 /\ <<a>>[1] = a  BY ShortLists
<1>2. IsList(<<a, b>>) /\ Len(<<a, b>>) = 2 /\ <<a, b>>[1] = a /\ <<a, b>>[2] = b  BY ShortLists
<1>3. /\ IsList(Append(<<a>>, b)) /\ Len(Append(<<a>>, b)) = 2
      /\ Append(<<a>>, b)[1] = a /\ Append(<<a>>, b)[2] = b
    BY <1>1, AppendList
<1>4. \A i \in 1 .. 2 : i = 1 \/ i = 2  OBVIOUS
<1> DEFINE s == Append(<<a>>, b)
           t == <<a, b>>
<1>5. \A i \in 1 .. 2 : s[i] = t[i]  BY <1>2, <1>3, <1>4
<1>6. IsList(s) /\ IsList(t) /\ Len(s) = 2 /\ Len(t) = 2  BY <1>2, <1>3
<1> HIDE DEF s, t
<1>7. s = t  BY <1>5, <1>6, EqualLists
<1> QED BY <1>7 DEF s, t

LEMMA ConcatTuple ==
    ASSUME NEW a, NEW b
    PROVE  <<a>> \o <<b>> = <<a, b>>
<1>1. PICK s, t, u : s = <<a>> /\ t = <<b>> /\ u = <<a, b>>  OBVIOUS
<1>2. /\ IsList(s) /\ Len(s) = 1 /\ s[1] = a
      /\ IsList(t) /\ Len(t) = 1 /\ t[1] = b
      /\ IsList(u) /\ Len(u) = 2 /\ u[1] = a /\ u[2] = b
    BY <1>1, ShortLists
<1>6. PICK w : w = s \o t  OBVIOUS
<1>3. /\ IsList(w) /\ Len(w) = Len(s) + Len(t)
      /\ \A i \in 1 .. Len(s) : w[i] = s[i]
      /\ \A i \in 1 .. Len(t) : w[Len(s) + i] = t[i]
    <2>1. IsList(s) /\ IsList(t)  BY <1>2
    <2> QED BY <1>6, <2>1, ConcatList
<1>4. \A i \in 1 .. 2 : i = 1 \/ i = 1 + 1  OBVIOUS
<1>5. w[1] = a /\ w[1 + 1] = b  BY <1>2, <1>3
<1>7. \A i \in 1 .. 2 : w[i] = u[i]  BY <1>2, <1>4, <1>5
<1>8. IsList(w) /\ Len(w) = 2  BY <1>2, <1>3
<1>9. w = u  BY <1>2, <1>7, <1>8, EqualLists
<1> QED BY <1>1, <1>6, <1>9

-----------------------------------------------------------------------------
(* Code                                                                     *)

IsCode(c) == IsList(c) /\ \A bb \in DOMAIN c : IsList(c[bb])

(* What is in c stays where it is in d.                                     *)
Extends(c, d) ==
    /\ DOMAIN c \subseteq DOMAIN d
    /\ \A bb \in DOMAIN c : /\ DOMAIN c[bb] \subseteq DOMAIN d[bb]
                            /\ \A i \in DOMAIN c[bb] : d[bb][i] = c[bb][i]

(* d is c with instructions added to block bb.                              *)
Grows(c, d, bb) ==
    /\ IsCode(d)
    /\ Len(d) = Len(c)
    /\ \A b \in DOMAIN c : b # bb => d[b] = c[b]
    /\ Extends(c, d)

LEMMA ExtendsItself == ASSUME NEW c PROVE Extends(c, c)
BY DEF Extends

LEMMA ExtendsFurther ==
    ASSUME NEW c, NEW d, NEW e, Extends(c, d), Extends(d, e)
    PROVE  Extends(c, e)
BY DEF Extends

LEMMA GrowsItself == ASSUME NEW c, NEW bb, IsCode(c) PROVE Grows(c, c, bb)
BY ExtendsItself DEF Grows

LEMMA GrowsFurther ==
    ASSUME NEW c, NEW d, NEW e, NEW bb, IsCode(c), Grows(c, d, bb), Grows(d, e, bb)
    PROVE  Grows(c, e, bb)
<1>1. DOMAIN c = DOMAIN d  BY ListFacts DEF Grows, IsCode
<1> QED BY <1>1, ExtendsFurther DEF Grows

LEMMA PutFacts ==
    ASSUME NEW c, IsCode(c), NEW bb \in DOMAIN c, NEW inst
    PROVE  /\ Grows(c, Put(c, bb, inst), bb)
           /\ Put(c, bb, inst)[bb] = Append(c[bb], inst)
           /\ IsList(c[bb])
           /\ Len(Put(c, bb, inst)[bb]) = Len(c[bb]) + 1
           /\ Put(c, bb, inst)[bb][Len(c[bb]) + 1] = inst
           /\ \A i \in DOMAIN c[bb] : Put(c, bb, inst)[bb][i] = c[bb][i]
           /\ DOMAIN Put(c, bb, inst) = DOMAIN c
           /\ DOMAIN Put(c, bb, inst)[bb] = 1 .. Len(c[bb]) + 1
<1> DEFINE d == Put(c, bb, inst)
           S == {c[b] : b \in DOMAIN c} \cup {Append(c[bb], inst)}
<1>1. d = [c EXCEPT ![bb] = Append(c[bb], inst)]  BY DEF Put
<1>2. IsList(c) /\ Len(c) \in Nat /\ DOMAIN c = 1 .. Len(c) /\ IsList(c[bb])  BY ListFacts DEF IsCode
<1>3. c \in Seq(S)
    <2>1. \A b \in DOMAIN c : c[b] \in S  OBVIOUS
    <2> HIDE DEF S
    <2> QED BY <1>2, <2>1, ListSeq
<1>4. Append(c[bb], inst) \in S  OBVIOUS
<1> HIDE DEF S, d
<1>5. d \in Seq(S) /\ Len(d) = Len(c) /\ DOMAIN d = DOMAIN c  BY <1>1, <1>3, <1>4
<1>6. d[bb] = Append(c[bb], inst) /\ \A b \in DOMAIN c : b # bb => d[b] = c[b]  BY <1>1, <1>2
<1>7. /\ IsList(d[bb]) /\ Len(d[bb]) = Len(c[bb]) + 1
      /\ d[bb][Len(c[bb]) + 1] = inst
      /\ \A i \in DOMAIN c[bb] : d[bb][i] = c[bb][i]
      /\ DOMAIN d[bb] = 1 .. Len(c[bb]) + 1
      /\ DOMAIN c[bb] \subseteq DOMAIN d[bb]
    BY <1>2, <1>6, AppendList, ListFacts
<1>8. IsCode(d)  BY <1>5, <1>6, <1>7, SeqList DEF IsCode
<1>9. Grows(c, d, bb)  BY <1>5, <1>6, <1>7, <1>8 DEF Grows, Extends
<1> QED BY <1>2, <1>5, <1>6, <1>7, <1>9 DEF d

LEMMA WithBlocksFacts ==
    ASSUME NEW c, IsCode(c), NEW k \in Nat
    PROVE  /\ IsCode(WithBlocks(c, k))
           /\ Extends(c, WithBlocks(c, k))
           /\ Len(WithBlocks(c, k)) = Len(c) + k
           /\ Len(c) \in Nat
           /\ DOMAIN WithBlocks(c, k) = 1 .. Len(c) + k
           /\ \A b \in DOMAIN c : b \in DOMAIN WithBlocks(c, k) /\ WithBlocks(c, k)[b] = c[b]
           /\ \A b \in Len(c) + 1 .. Len(c) + k : WithBlocks(c, k)[b] = <<>>
<1> DEFINE t == [i \in 1 .. k |-> <<>>]
           d == WithBlocks(c, k)
<1>1. t \in Seq({<<>>}) /\ Len(t) = k  OBVIOUS
<1>2. IsList(t) /\ \A i \in 1 .. k : t[i] = <<>>  BY <1>1, SeqList
<1>3. IsList(c) /\ Len(c) \in Nat /\ DOMAIN c = 1 .. Len(c)  BY ListFacts DEF IsCode
<1> HIDE DEF t
<1>4. d = c \o t  BY DEF t, WithBlocks
<1> HIDE DEF d
<1>5. /\ IsList(d) /\ Len(d) = Len(c) + k
      /\ \A b \in 1 .. Len(c) : d[b] = c[b]
      /\ \A b \in Len(c) + 1 .. Len(c) + k : d[b] = t[b - Len(c)]
    <2>1. IsList(t) /\ Len(t) = k  BY <1>1, <1>2
    <2>2. IsList(d) /\ Len(d) = Len(c) + Len(t)  BY <1>3, <1>4, <2>1, ConcatList, ZenonT(30)
    <2>3. \A b \in 1 .. Len(c) : d[b] = c[b]  BY <1>3, <1>4, <2>1, ConcatList, ZenonT(30)
    <2>4. \A b \in Len(c) + 1 .. Len(c) + Len(t) : d[b] = t[b - Len(c)]
        BY <1>3, <1>4, <2>1, ConcatList, ZenonT(30)
    <2> QED BY <2>1, <2>2, <2>3, <2>4
<1>6. \A b \in Len(c) + 1 .. Len(c) + k : d[b] = <<>>  BY <1>2, <1>3, <1>5
<1>7. DOMAIN d = 1 .. Len(c) + k  BY <1>5, ListFacts
<1>8. IsCode(d)  BY <1>3, <1>5, <1>6, <1>7, ShortLists DEF IsCode
<1> QED BY <1>3, <1>5, <1>6, <1>7, <1>8 DEF d, Extends

-----------------------------------------------------------------------------
(* Values and instructions                                                  *)

Known(c, v) ==
    v.from[1] = "at" => v.from[2] \in DOMAIN c /\ v.from[3] \in DOMAIN c[v.from[2]]

(* A value, and the address of one of type v.ty.                            *)
Value(c, v) ==
    /\ v.ty \in Types
    /\ Known(c, v)
    /\ TypeOfValue(c, v) = IrType(v.ty)
AddressOfA(c, v) ==
    /\ v.ty \in VarTypes
    /\ Known(c, v)
    /\ TypeOfValue(c, v) = I!Pointer(IrType(v.ty))

InstOK(p, c, inst) ==
    /\ inst.ty \in Types
    /\ \A n \in DOMAIN inst.to : inst.to[n] \in DOMAIN c
    /\ \A n \in DOMAIN inst.args : Known(c, inst.args[n])
    /\ Fits(p, c, inst)

CodeOK(p, c) ==
    /\ IsCode(c)
    /\ \A bb \in DOMAIN c : \A i \in DOMAIN c[bb] : InstOK(p, c, c[bb][i])

LEMMA KnownStays ==
    ASSUME NEW c, NEW d, Extends(c, d), NEW v, Known(c, v)
    PROVE  Known(d, v) /\ TypeOfValue(d, v) = TypeOfValue(c, v)
BY DEF Extends, Known, TypeOfValue

LEMMA ValueStays ==
    ASSUME NEW c, NEW d, Extends(c, d), NEW v
    PROVE  /\ Value(c, v) => Value(d, v)
           /\ AddressOfA(c, v) => AddressOfA(d, v)
BY KnownStays DEF Value, AddressOfA

LEMMA InstStays ==
    ASSUME NEW p, NEW c, NEW d, Extends(c, d), NEW inst, InstOK(p, c, inst)
    PROVE  InstOK(p, d, inst)
<1>1. \A n \in DOMAIN inst.args : /\ Known(d, inst.args[n])
                                  /\ TypeOfValue(d, inst.args[n]) = TypeOfValue(c, inst.args[n])
    BY KnownStays DEF InstOK
<1>2. [n \in DOMAIN inst.args |-> TypeOfValue(d, inst.args[n])]
        = [n \in DOMAIN inst.args |-> TypeOfValue(c, inst.args[n])]
    BY <1>1
<1>3. OperandTypes(d, inst) = OperandTypes(c, inst)
    BY <1>2, Zenon DEF OperandTypes
<1>4. Fits(p, d, inst) = Fits(p, c, inst)
    BY <1>3, Zenon DEF Fits
<1>5. \A n \in DOMAIN inst.to : inst.to[n] \in DOMAIN d
    BY DEF InstOK, Extends
<1> QED BY <1>1, <1>4, <1>5 DEF InstOK

LEMMA PutOK ==
    ASSUME NEW p, NEW c, CodeOK(p, c), NEW bb \in DOMAIN c, NEW inst, InstOK(p, c, inst)
    PROVE  CodeOK(p, Put(c, bb, inst)) /\ Grows(c, Put(c, bb, inst), bb)
<1> DEFINE d == Put(c, bb, inst)
<1>1. /\ Grows(c, d, bb) /\ DOMAIN d = DOMAIN c
      /\ DOMAIN d[bb] = 1 .. Len(c[bb]) + 1
      /\ \A i \in DOMAIN c[bb] : d[bb][i] = c[bb][i]
      /\ d[bb][Len(c[bb]) + 1] = inst
      /\ DOMAIN c[bb] = 1 .. Len(c[bb]) /\ Len(c[bb]) \in Nat
    BY PutFacts, ListFacts DEF CodeOK, IsCode
<1>2. Extends(c, d) /\ IsCode(d) /\ \A b \in DOMAIN c : b # bb => d[b] = c[b]
    BY <1>1 DEF Grows
<1> HIDE DEF d
<1>3. ASSUME NEW b \in DOMAIN d, NEW i \in DOMAIN d[b]
      PROVE  InstOK(p, d, d[b][i])
    <2>1. InstOK(p, c, d[b][i])
        <3>1. CASE b # bb  BY <1>1, <1>2, <3>1 DEF CodeOK
        <3>2. CASE b = bb /\ i \in DOMAIN c[bb]  BY <1>1, <3>2 DEF CodeOK
        <3>3. CASE b = bb /\ i = Len(c[bb]) + 1  BY <1>1, <3>3
        <3> QED BY <1>1, <3>1, <3>2, <3>3
    <2> QED BY <1>2, <2>1, InstStays
<1> QED BY <1>1, <1>2, <1>3 DEF CodeOK, d

LEMMA WithBlocksOK ==
    ASSUME NEW p, NEW c, CodeOK(p, c), NEW k \in Nat
    PROVE  CodeOK(p, WithBlocks(c, k)) /\ Extends(c, WithBlocks(c, k))
<1> DEFINE d == WithBlocks(c, k)
<1>1. /\ IsCode(d) /\ Extends(c, d) /\ DOMAIN d = 1 .. Len(c) + k
      /\ Len(c) \in Nat /\ DOMAIN c = 1 .. Len(c)
      /\ \A b \in DOMAIN c : d[b] = c[b]
      /\ \A b \in Len(c) + 1 .. Len(c) + k : d[b] = <<>>
    BY WithBlocksFacts, ListFacts DEF CodeOK, IsCode
<1> HIDE DEF d
<1>2. ASSUME NEW b \in DOMAIN d, NEW i \in DOMAIN d[b]
      PROVE  InstOK(p, d, d[b][i])
    <2>1. b \in DOMAIN c
        <3>1. DOMAIN <<>> = {}  OBVIOUS
        <3> QED BY <1>1, <3>1
    <2>2. InstOK(p, c, d[b][i])  BY <1>1, <2>1 DEF CodeOK
    <2> QED BY <1>1, <2>2, InstStays
<1> QED BY <1>1, <1>2 DEF CodeOK, d

(* The value of an instruction just put.                                    *)
LEMMA LastValue ==
    ASSUME NEW c, IsCode(c), NEW bb \in DOMAIN c, NEW inst
    PROVE  LET d == Put(c, bb, inst)
               v == LastOf(d, bb)
           IN  /\ v.ty = inst.ty
               /\ v.from = <<"at", bb, Len(c[bb]) + 1>>
               /\ Known(d, v)
               /\ TypeOfValue(d, v) = TypeOfInst(inst)
<1> DEFINE d == Put(c, bb, inst)
           v == LastOf(d, bb)
<1>1. /\ DOMAIN d = DOMAIN c /\ DOMAIN d[bb] = 1 .. Len(c[bb]) + 1
      /\ Len(d[bb]) = Len(c[bb]) + 1 /\ Len(c[bb]) \in Nat
      /\ d[bb][Len(c[bb]) + 1] = inst
    BY PutFacts, ListFacts
<1>2. v = [ty |-> d[bb][Len(d[bb])].ty, from |-> <<"at", bb, Len(d[bb])>>]  BY DEF LastOf
<1> HIDE DEF d, v
<1>3. v.ty = inst.ty /\ v.from = <<"at", bb, Len(c[bb]) + 1>>  BY <1>1, <1>2
<1>4. v.from[1] = "at" /\ v.from[2] = bb /\ v.from[3] = Len(c[bb]) + 1  BY <1>3
<1>5. Known(d, v)  BY <1>1, <1>4 DEF Known
<1>6. TypeOfValue(d, v) = TypeOfInst(inst)  BY <1>1, <1>4 DEF TypeOfValue
<1> QED BY <1>3, <1>5, <1>6 DEF d, v

-----------------------------------------------------------------------------
(* The instructions the visitor makes                                       *)

LEMMA IrTypes ==
    /\ IrType("i32") = <<"int32">>
    /\ IrType("i1") = <<"int1">>
    /\ IrType("float") = <<"float">>
    /\ IrType("void") = <<"void">>
    /\ IrType("i32*") = <<"pointer", <<"int32">> >>
    /\ IrType("float*") = <<"pointer", <<"float">> >>
    /\ IrType("i32[]") = <<"array", <<"int32">> >>
    /\ IrType("float[]") = <<"array", <<"float">> >>
BY DEF IrType, IsArray, I!Int1, I!Int32, I!Float, I!Void, I!Pointer, I!ArrayOf

LEMMA ArgTypes ==
    ASSUME NEW c
    PROVE  /\ [n \in DOMAIN <<>> |-> TypeOfValue(c, <<>>[n])] = <<>>
           /\ \A v : [n \in DOMAIN <<v>> |-> TypeOfValue(c, <<v>>[n])] = <<TypeOfValue(c, v)>>
           /\ \A v, w : [n \in DOMAIN <<v, w>> |-> TypeOfValue(c, <<v, w>>[n])]
                            = <<TypeOfValue(c, v), TypeOfValue(c, w)>>
OBVIOUS

LEMMA BrOK ==
    ASSUME NEW p, NEW c, NEW to \in DOMAIN c
    PROVE  InstOK(p, c, Br(to))
BY ArgTypes DEF InstOK, Br, Inst, Fits, OperandTypes, Operation, TypeOfInst, Types,
    I!BranchInst, I!ResultType

LEMMA CondBrOK ==
    ASSUME NEW p, NEW c, NEW yes \in DOMAIN c, NEW no \in DOMAIN c, NEW v, Value(c, v), v.ty = "i1"
    PROVE  InstOK(p, c, CondBr(v, yes, no))
BY ArgTypes, IrTypes DEF InstOK, CondBr, Inst, Fits, OperandTypes, Operation, TypeOfInst, Types,
    I!BranchInst, I!ResultType, I!Int1, Value

LEMMA ReturnVoidOK ==
    ASSUME NEW p, NEW c, p.fun.ret = "void"
    PROVE  InstOK(p, c, Inst("ret", "void", <<>>, <<>>, ""))
BY ArgTypes, IrTypes DEF InstOK, Inst, Fits, OperandTypes, Operation, TypeOfInst, Types,
    I!ReturnInst, I!ResultType, I!Void

LEMMA ReturnOK ==
    ASSUME NEW p, NEW c, NEW v, Value(c, v), v.ty = p.fun.ret, v.ty \in {"i32", "float"}
    PROVE  InstOK(p, c, Inst("ret", "void", <<v>>, <<>>, ""))
BY ArgTypes, IrTypes DEF InstOK, Inst, Fits, OperandTypes, Operation, TypeOfInst, Types,
    I!ReturnInst, I!ResultType, I!Void, Value

LEMMA AllocaOK ==
    ASSUME NEW p, NEW c, NEW ty \in VarTypes, NEW tag
    PROVE  LET inst == Inst("alloca", ty, <<>>, <<>>, tag)
           IN  InstOK(p, c, inst) /\ TypeOfInst(inst) = I!Pointer(IrType(ty))
BY ArgTypes, IrTypes DEF InstOK, Inst, Fits, OperandTypes, Operation, TypeOfInst, Types, VarTypes,
    LocalTypes, ParamTypes, I!AllocaInst, I!ArrayTypeFits, I!is_array_type, I!is_integer_type,
    I!ResultType, I!Void, I!Int1, I!Int32, I!Float, I!Pointer

LEMMA StoreOK ==
    ASSUME NEW p, NEW c, NEW v, Value(c, v), NEW a, AddressOfA(c, a), v.ty = a.ty
    PROVE  InstOK(p, c, Inst("store", "void", <<v, a>>, <<>>, ""))
BY ArgTypes DEF InstOK, Inst, Fits, OperandTypes, Operation, TypeOfInst, Types,
    I!StoreInst, I!ResultType, I!Void, Value, AddressOfA

LEMMA LoadOK ==
    ASSUME NEW p, NEW c, NEW a, AddressOfA(c, a)
    PROVE  LET inst == Inst("load", a.ty, <<a>>, <<>>, "")
           IN  InstOK(p, c, inst) /\ TypeOfInst(inst) = IrType(a.ty)
BY ArgTypes, IrTypes DEF InstOK, Inst, Fits, OperandTypes, Operation, TypeOfInst, Types, VarTypes,
    LocalTypes, ParamTypes, IsArray, I!LoadInst, I!is_pointer_type, I!ResultType, I!Pointer, AddressOfA

(* The address of the first element of an array.                            *)
LEMMA DecayOK ==
    ASSUME NEW p, NEW c, NEW a, AddressOfA(c, a), IsArray(a.ty)
    PROVE  LET inst == Inst("gep", PointerTo(a.ty), <<a, Const("i32")>>, <<>>, "")
           IN  InstOK(p, c, inst) /\ TypeOfInst(inst) = IrType(PointerTo(a.ty))
<1>1. TypeOfValue(c, Const("i32")) = <<"int32">> /\ Known(c, Const("i32"))
    BY IrTypes DEF TypeOfValue, Const, Known
<1>2. a.ty \in {"i32[]", "float[]"}  BY DEF IsArray
<1>3. PICK w : w = Const("i32")  OBVIOUS
<1>4. TypeOfValue(c, w) = <<"int32">> /\ Known(c, w)  BY <1>1, <1>3
<1> DEFINE inst == Inst("gep", PointerTo(a.ty), <<a, w>>, <<>>, "")
<1>5. /\ inst.op = "gep" /\ inst.args = <<a, w>> /\ inst.to = <<>> /\ inst.ty = PointerTo(a.ty)
      /\ DOMAIN inst.args = {1, 2} /\ inst.args[1] = a /\ inst.args[2] = w /\ DOMAIN inst.to = {}
    BY DEF Inst
<1> HIDE DEF inst
<1>6. PICK q \in {"int32", "float"} : /\ IrType(a.ty) = <<"array", <<q>> >>
                                    /\ IrType(PointerTo(a.ty)) = <<"pointer", <<q>> >>
    <2>1. CASE a.ty = "i32[]"
        <3>1. PointerTo(a.ty) = "i32*"  BY <2>1 DEF PointerTo, ElemOf
        <3> QED BY <2>1, <3>1, IrTypes
    <2>2. CASE a.ty = "float[]"
        <3>1. PointerTo(a.ty) = "float*"  BY <2>2 DEF PointerTo, ElemOf
        <3> QED BY <2>2, <3>1, IrTypes
    <2> QED BY <1>2, <2>1, <2>2
<1>7. PointerTo(a.ty) \in Types /\ IrType(ElemOf(PointerTo(a.ty))) = <<q>>
    BY <1>2, <1>6, IrTypes DEF PointerTo, ElemOf, Types
<1>8. TypeOfInst(inst) = <<"pointer", <<q>> >>  BY <1>5, <1>7 DEF TypeOfInst, I!Pointer
<1>9. TypeOfValue(c, a) = <<"pointer", <<"array", <<q>> >> >>  BY <1>6 DEF AddressOfA, I!Pointer
<1>10. OperandTypes(c, inst) = << <<"pointer", <<"array", <<q>> >> >>, <<"int32">>, <<"int32">> >>
    <2> DEFINE tys == [k \in DOMAIN inst.args |-> TypeOfValue(c, inst.args[k])]
    <2>1. tys = [k \in DOMAIN <<a, w>> |-> TypeOfValue(c, <<a, w>>[k])]  BY <1>5, Zenon
    <2>2. tys = << <<"pointer", <<"array", <<q>> >> >>, <<"int32">> >>  BY <1>4, <1>9, <2>1, ArgTypes
    <2> HIDE DEF tys
    <2>3. I!is_array_type(I!get_pointer_element_type(tys[1]))
        BY <2>2 DEF I!is_array_type, I!get_pointer_element_type, I!is_pointer_type
    <2>4. OperandTypes(c, inst) = <<tys[1], I!Int32, tys[2]>>  BY <1>5, <2>3 DEF OperandTypes, tys
    <2> QED BY <2>2, <2>4 DEF I!Int32
<1>11. Fits(p, c, inst)
    <2>1. PICK tys : tys = OperandTypes(c, inst)  OBVIOUS
    <2>2. /\ tys[1] = <<"pointer", <<"array", <<q>> >> >>
          /\ tys[2] = <<"int32">> /\ tys[3] = <<"int32">> /\ Len(tys) = 3
        BY <1>10, <2>1
    <2>3. I!GetElementPtrInst(tys)
        BY <2>2 DEF I!GetElementPtrInst, I!is_pointer_type, I!is_array_type, I!get_pointer_element_type, I!Int32
    <2>4. I!get_element_type(tys[1], 2) = <<q>>
        BY <2>2 DEF I!get_element_type, I!is_array_type, I!get_pointer_element_type, I!is_pointer_type
    <2>5. Operation(inst) = "getelementptr"  BY <1>5 DEF Operation
    <2>6. TypeOfInst(inst) = I!ResultType("getelementptr", IrType(inst.ty), tys)
        BY <1>8, <2>2, <2>4 DEF I!ResultType, I!Pointer
    <2> QED BY <2>1, <2>3, <2>5, <2>6 DEF Fits
<1>12. InstOK(p, c, inst)
    <2>1. Known(c, a)  BY DEF AddressOfA
    <2> QED BY <1>4, <1>5, <1>7, <1>11, <2>1 DEF InstOK
<1> QED BY <1>3, <1>6, <1>8, <1>12 DEF inst

LEMMA ElementOK ==
    ASSUME NEW p, NEW c, NEW b, NEW ty, NEW v, Value(c, v), v.ty = "i32",
           \/ AddressOfA(c, b) /\ b.ty = ty /\ IsArray(ty)
           \/ Value(c, b) /\ b.ty = ty /\ ty \in {"i32*", "float*"}
    PROVE  LET inst == Inst("gep", ElemOf(ty), <<b, v>>, <<>>, "")
           IN  InstOK(p, c, inst) /\ TypeOfInst(inst) = I!Pointer(IrType(ElemOf(ty)))
<1>1. ty \in {"i32[]", "float[]", "i32*", "float*"}  BY DEF IsArray
<1>2. TypeOfValue(c, v) = <<"int32">> /\ Known(c, v) /\ Known(c, b)
    BY IrTypes DEF Value, AddressOfA
<1> DEFINE inst == Inst("gep", ElemOf(ty), <<b, v>>, <<>>, "")
<1>3. /\ inst.op = "gep" /\ inst.args = <<b, v>> /\ inst.to = <<>> /\ inst.ty = ElemOf(ty)
      /\ DOMAIN inst.args = {1, 2} /\ inst.args[1] = b /\ inst.args[2] = v /\ DOMAIN inst.to = {}
    BY DEF Inst
<1> HIDE DEF inst
<1>4. ElemOf(ty) \in {"i32", "float"} /\ ElemOf(ElemOf(ty)) = ElemOf(ty)  BY <1>1 DEF ElemOf
<1>5. PICK q \in {"int32", "float"} : IrType(ElemOf(ty)) = <<q>>  BY <1>4, IrTypes
<1>6. TypeOfInst(inst) = <<"pointer", <<q>> >>  BY <1>3, <1>4, <1>5 DEF TypeOfInst, I!Pointer
<1> DEFINE tys == [k \in DOMAIN inst.args |-> TypeOfValue(c, inst.args[k])]
           ops == OperandTypes(c, inst)
<1>7. tys = <<TypeOfValue(c, b), <<"int32">> >>
    <2>1. tys = [k \in DOMAIN <<b, v>> |-> TypeOfValue(c, <<b, v>>[k])]  BY <1>3, Zenon
    <2> QED BY <1>2, <2>1, ArgTypes
<1> HIDE DEF tys
<1>8. /\ I!GetElementPtrInst(ops)
      /\ I!ResultType("getelementptr", IrType(inst.ty), ops) = <<"pointer", <<q>> >>
    <2>1. CASE AddressOfA(c, b) /\ b.ty = ty /\ IsArray(ty)
        <3>1. TypeOfValue(c, b) = <<"pointer", <<"array", <<q>> >> >>
            <4>1. CASE ty = "i32[]"  BY <1>5, <2>1, <4>1, IrTypes DEF AddressOfA, I!Pointer, ElemOf
            <4>2. CASE ty = "float[]"  BY <1>5, <2>1, <4>2, IrTypes DEF AddressOfA, I!Pointer, ElemOf
            <4> QED BY <2>1, <4>1, <4>2 DEF IsArray
        <3>2. I!is_array_type(I!get_pointer_element_type(tys[1]))
            BY <1>7, <3>1 DEF I!is_array_type, I!get_pointer_element_type, I!is_pointer_type
        <3>3. ops = <<tys[1], I!Int32, tys[2]>>  BY <1>3, <3>2 DEF OperandTypes, tys
        <3>4. PICK o : o = ops  OBVIOUS
        <3>5. /\ o[1] = <<"pointer", <<"array", <<q>> >> >>
              /\ o[2] = <<"int32">> /\ o[3] = <<"int32">> /\ Len(o) = 3
            BY <1>7, <3>1, <3>3, <3>4 DEF I!Int32
        <3>6. I!GetElementPtrInst(o)
            BY <3>5 DEF I!GetElementPtrInst, I!is_pointer_type, I!is_array_type,
                I!get_pointer_element_type, I!Int32
        <3>7. I!get_element_type(o[1], 2) = <<q>>
            BY <3>5 DEF I!get_element_type, I!is_array_type, I!get_pointer_element_type, I!is_pointer_type
        <3> QED BY <3>4, <3>5, <3>6, <3>7 DEF I!ResultType, I!Pointer
    <2>2. CASE Value(c, b) /\ b.ty = ty /\ ty \in {"i32*", "float*"}
        <3>1. TypeOfValue(c, b) = <<"pointer", <<q>> >>
            <4>1. CASE ty = "i32*"  BY <1>5, <2>2, <4>1, IrTypes DEF Value, ElemOf
            <4>2. CASE ty = "float*"  BY <1>5, <2>2, <4>2, IrTypes DEF Value, ElemOf
            <4> QED BY <2>2, <4>1, <4>2
        <3>2. ~I!is_array_type(I!get_pointer_element_type(tys[1]))
            BY <1>7, <3>1 DEF I!is_array_type, I!get_pointer_element_type, I!is_pointer_type
        <3>3. ops = tys  BY <1>3, <3>2 DEF OperandTypes, tys
        <3>4. PICK o : o = ops  OBVIOUS
        <3>5. o[1] = <<"pointer", <<q>> >> /\ o[2] = <<"int32">> /\ Len(o) = 2
            BY <1>7, <3>1, <3>3, <3>4
        <3>6. I!GetElementPtrInst(o)
            BY <3>5 DEF I!GetElementPtrInst, I!is_pointer_type, I!is_array_type, I!is_integer_type,
                I!get_pointer_element_type, I!Int32, I!Float
        <3>7. I!get_element_type(o[1], 1) = <<q>>
            BY <3>5 DEF I!get_element_type, I!is_array_type, I!get_pointer_element_type, I!is_pointer_type
        <3> QED BY <3>4, <3>5, <3>6, <3>7 DEF I!ResultType, I!Pointer
    <2> QED BY <2>1, <2>2
<1>9. Operation(inst) = "getelementptr"  BY <1>3 DEF Operation
<1> HIDE DEF ops
<1>10. Fits(p, c, inst)  BY <1>6, <1>8, <1>9 DEF Fits, ops
<1>11. InstOK(p, c, inst)  BY <1>2, <1>3, <1>4, <1>10 DEF InstOK, Types
<1> QED BY <1>5, <1>6, <1>11 DEF inst, I!Pointer

LEMMA NegativeOK ==
    ASSUME NEW p, NEW c, NEW v, Value(c, v), v.ty = "i32"
    PROVE  LET inst == Inst("neg", "i1", <<v>>, <<>>, "")
           IN  InstOK(p, c, inst) /\ TypeOfInst(inst) = IrType("i1")
BY ArgTypes, IrTypes DEF InstOK, Inst, Fits, OperandTypes, Operation, TypeOfInst, Types,
    I!CmpInst, I!FCmpInst, I!is_integer_type, I!ResultType, I!Int1, I!Int32, I!Float, Value

LEMMA NotZeroOK ==
    ASSUME NEW p, NEW c, NEW v, Value(c, v), v.ty \in {"i32", "float"}
    PROVE  LET inst == Inst("ne0", "i1", <<v>>, <<>>, "")
           IN  InstOK(p, c, inst) /\ TypeOfInst(inst) = IrType("i1")
<1> DEFINE inst == Inst("ne0", "i1", <<v>>, <<>>, "")
<1>1. /\ inst.op = "ne0" /\ inst.args = <<v>> /\ inst.to = <<>> /\ inst.ty = "i1"
      /\ inst.args[1] = v /\ DOMAIN inst.args = {1} /\ DOMAIN inst.to = {}
    BY DEF Inst
<1> HIDE DEF inst
<1>3. TypeOfInst(inst) = <<"int1">>  BY <1>1 DEF TypeOfInst, I!Int1
<1>4. Fits(p, c, inst)
    <2>5. CASE v.ty = "i32"
        <3>1. Operation(inst) = "cmp"  BY <2>5, <1>1 DEF Operation
        <3>2. TypeOfValue(c, v) = <<"int32">>  BY <2>5, IrTypes DEF Value
        <3>3. OperandTypes(c, inst) = << <<"int32">>, <<"int32">> >>
            <4> DEFINE tys == [k \in DOMAIN inst.args |-> TypeOfValue(c, inst.args[k])]
            <4>1. tys = [k \in DOMAIN <<v>> |-> TypeOfValue(c, <<v>>[k])]  BY <1>1, Zenon
            <4>2. tys = << <<"int32">> >>  BY <3>2, <4>1, ArgTypes
            <4>3. OperandTypes(c, inst) = Append(tys, IF Operation(inst) = "fcmp" THEN I!Float ELSE I!Int32)
                BY <1>1, Zenon DEF OperandTypes
            <4> HIDE DEF tys
            <4> QED BY <3>1, <4>2, <4>3, AppendTuple DEF I!Int32, I!Float
        <3>4. OperandTypes(c, inst)[1] = <<"int32">> /\ OperandTypes(c, inst)[2] = <<"int32">>
            BY <3>3
        <3>5. Fits(p, c, inst)
            BY <3>1, <3>3, <3>4, <1>3 DEF Fits, I!CmpInst, I!is_integer_type, I!ResultType, I!Int1, I!Int32
        <3> QED BY <3>5
    <2>6. CASE v.ty = "float"
        <3>1. Operation(inst) = "fcmp"  BY <2>6, <1>1 DEF Operation
        <3>2. TypeOfValue(c, v) = <<"float">>  BY <2>6, IrTypes DEF Value
        <3>3. OperandTypes(c, inst) = << <<"float">>, <<"float">> >>
            <4> DEFINE tys == [k \in DOMAIN inst.args |-> TypeOfValue(c, inst.args[k])]
            <4>1. tys = [k \in DOMAIN <<v>> |-> TypeOfValue(c, <<v>>[k])]  BY <1>1, Zenon
            <4>2. tys = << <<"float">> >>  BY <3>2, <4>1, ArgTypes
            <4>3. OperandTypes(c, inst) = Append(tys, IF Operation(inst) = "fcmp" THEN I!Float ELSE I!Int32)
                BY <1>1, Zenon DEF OperandTypes
            <4> HIDE DEF tys
            <4> QED BY <3>1, <4>2, <4>3, AppendTuple DEF I!Int32, I!Float
        <3>4. OperandTypes(c, inst)[1] = <<"float">> /\ OperandTypes(c, inst)[2] = <<"float">>
            BY <3>3
        <3>5. Fits(p, c, inst)
            BY <3>1, <3>3, <3>4, <1>3 DEF Fits, I!FCmpInst, I!is_integer_type, I!ResultType, I!Int1, I!Float
        <3> QED BY <3>5
    <2> QED BY <2>5, <2>6
<1>5. InstOK(p, c, inst)  BY <1>1, <1>4 DEF InstOK, Types, Value
<1> QED BY <1>3, <1>5, IrTypes DEF inst

LEMMA ConversionOK ==
    ASSUME NEW p, NEW c, NEW v, Value(c, v), NEW op, NEW ty,
           \/ op = "sitofp" /\ v.ty = "i32" /\ ty = "float"
           \/ op = "fptosi" /\ v.ty = "float" /\ ty = "i32"
           \/ op = "zext" /\ v.ty = "i1" /\ ty = "i32"
    PROVE  LET inst == Inst(op, ty, <<v>>, <<>>, "")
           IN  InstOK(p, c, inst) /\ TypeOfInst(inst) = IrType(ty)
<1>1. CASE op = "sitofp" /\ v.ty = "i32" /\ ty = "float"
    BY <1>1, ArgTypes, IrTypes DEF InstOK, Inst, Fits, OperandTypes, Operation, TypeOfInst, Types,
        I!SiToFpInst, I!FpToSiInst, I!ZextInst, I!is_integer_type, I!ResultType, I!Int1, I!Int32, I!Float, Value
<1>2. CASE op = "fptosi" /\ v.ty = "float" /\ ty = "i32"
    BY <1>2, ArgTypes, IrTypes DEF InstOK, Inst, Fits, OperandTypes, Operation, TypeOfInst, Types,
        I!SiToFpInst, I!FpToSiInst, I!ZextInst, I!is_integer_type, I!ResultType, I!Int1, I!Int32, I!Float, Value
<1>3. CASE op = "zext" /\ v.ty = "i1" /\ ty = "i32"
    BY <1>3, ArgTypes, IrTypes DEF InstOK, Inst, Fits, OperandTypes, Operation, TypeOfInst, Types,
        I!SiToFpInst, I!FpToSiInst, I!ZextInst, I!is_integer_type, I!ResultType, I!Int1, I!Int32, I!Float, Value
<1> QED BY <1>1, <1>2, <1>3

LEMMA BinaryOK ==
    ASSUME NEW p, NEW c, NEW v, Value(c, v), NEW w, Value(c, w), NEW op \in {"rel", "add", "mul"},
           NEW ty \in {"i32", "float"}, v.ty = ty, w.ty = ty
    PROVE  LET t    == IF op = "rel" THEN "i1" ELSE ty
               inst == Inst(op, t, <<v, w>>, <<>>, ty)
           IN  InstOK(p, c, inst) /\ TypeOfInst(inst) = IrType(t)
<1>1. CASE op = "rel" /\ ty = "i32"
    BY <1>1, ArgTypes, IrTypes DEF InstOK, Inst, Fits, OperandTypes, Operation, TypeOfInst, Types,
        I!CmpInst, I!FCmpInst, I!BinaryInst, I!is_integer_type, I!ResultType, I!Int1, I!Int32, I!Float, Value
<1>2. CASE op = "rel" /\ ty = "float"
    BY <1>2, ArgTypes, IrTypes DEF InstOK, Inst, Fits, OperandTypes, Operation, TypeOfInst, Types,
        I!CmpInst, I!FCmpInst, I!BinaryInst, I!is_integer_type, I!ResultType, I!Int1, I!Int32, I!Float, Value
<1>3. CASE op = "add" /\ ty = "i32"
    BY <1>3, ArgTypes, IrTypes DEF InstOK, Inst, Fits, OperandTypes, Operation, TypeOfInst, Types,
        I!CmpInst, I!FCmpInst, I!BinaryInst, I!is_integer_type, I!ResultType, I!Int1, I!Int32, I!Float, Value
<1>4. CASE op = "add" /\ ty = "float"
    BY <1>4, ArgTypes, IrTypes DEF InstOK, Inst, Fits, OperandTypes, Operation, TypeOfInst, Types,
        I!CmpInst, I!FCmpInst, I!BinaryInst, I!is_integer_type, I!ResultType, I!Int1, I!Int32, I!Float, Value
<1>5. CASE op = "mul" /\ ty = "i32"
    BY <1>5, ArgTypes, IrTypes DEF InstOK, Inst, Fits, OperandTypes, Operation, TypeOfInst, Types,
        I!CmpInst, I!FCmpInst, I!BinaryInst, I!is_integer_type, I!ResultType, I!Int1, I!Int32, I!Float, Value
<1>6. CASE op = "mul" /\ ty = "float"
    BY <1>6, ArgTypes, IrTypes DEF InstOK, Inst, Fits, OperandTypes, Operation, TypeOfInst, Types,
        I!CmpInst, I!FCmpInst, I!BinaryInst, I!is_integer_type, I!ResultType, I!Int1, I!Int32, I!Float, Value
<1> QED BY <1>1, <1>2, <1>3, <1>4, <1>5, <1>6

LEMMA CallOK ==
    ASSUME NEW p, NEW c, NEW id, NEW args, IsList(args), Callee(p, id).ret \in Types,
           IsList(Callee(p, id).params), Len(args) = Len(Callee(p, id).params),
           \A i \in DOMAIN args : Value(c, args[i]) /\ args[i].ty = Callee(p, id).params[i]
    PROVE  LET inst == Inst("call", Callee(p, id).ret, args, <<>>, id)
           IN  InstOK(p, c, inst) /\ TypeOfInst(inst) = IrType(Callee(p, id).ret)
<1>1. DOMAIN args = DOMAIN Callee(p, id).params  BY ListFacts
<1>2. [n \in DOMAIN args |-> TypeOfValue(c, args[n])]
        = [n \in DOMAIN Callee(p, id).params |-> IrType(Callee(p, id).params[n])]
    BY <1>1 DEF Value
<1> QED BY <1>2 DEF InstOK, Inst, Fits, OperandTypes, Operation, TypeOfInst, Value, I!CallInst, I!ResultType

-----------------------------------------------------------------------------
(* Conversions                                                              *)

(* An instruction put into the code is the value of what it computes.       *)
LEMMA PutValue ==
    ASSUME NEW p, NEW c, CodeOK(p, c), NEW bb \in DOMAIN c, NEW inst, InstOK(p, c, inst),
           TypeOfInst(inst) = IrType(inst.ty)
    PROVE  LET d == Put(c, bb, inst)
           IN  /\ CodeOK(p, d) /\ Grows(c, d, bb)
               /\ LastOf(d, bb).ty = inst.ty
               /\ Value(d, LastOf(d, bb))
<1>1. PICK d : d = Put(c, bb, inst)  OBVIOUS
<1>2. PICK w : w = LastOf(d, bb)  OBVIOUS
<1>3. CodeOK(p, d) /\ Grows(c, d, bb)  BY <1>1, PutOK
<1>4. w.ty = inst.ty /\ Known(d, w) /\ TypeOfValue(d, w) = TypeOfInst(inst)
    BY <1>1, <1>2, LastValue DEF CodeOK
<1>5. Value(d, w)  BY <1>4 DEF Value, InstOK
<1> QED BY <1>1, <1>2, <1>3, <1>4, <1>5

LEMMA PutAddress ==
    ASSUME NEW p, NEW c, CodeOK(p, c), NEW bb \in DOMAIN c, NEW inst, InstOK(p, c, inst),
           TypeOfInst(inst) = I!Pointer(IrType(inst.ty)), inst.ty \in VarTypes
    PROVE  LET d == Put(c, bb, inst)
           IN  /\ CodeOK(p, d) /\ Grows(c, d, bb)
               /\ LastOf(d, bb).ty = inst.ty
               /\ AddressOfA(d, LastOf(d, bb))
<1>1. PICK d : d = Put(c, bb, inst)  OBVIOUS
<1>2. PICK w : w = LastOf(d, bb)  OBVIOUS
<1>3. CodeOK(p, d) /\ Grows(c, d, bb)  BY <1>1, PutOK
<1>4. w.ty = inst.ty /\ Known(d, w) /\ TypeOfValue(d, w) = TypeOfInst(inst)
    BY <1>1, <1>2, LastValue DEF CodeOK
<1>5. AddressOfA(d, w)  BY <1>4 DEF AddressOfA
<1> QED BY <1>1, <1>2, <1>3, <1>4, <1>5

LEMMA MadeValue ==
    ASSUME NEW p, NEW c, CodeOK(p, c), NEW bb \in DOMAIN c, NEW inst, InstOK(p, c, inst),
           TypeOfInst(inst) = IrType(inst.ty),
           NEW d, d = Put(c, bb, inst), NEW w, w = LastOf(d, bb)
    PROVE  CodeOK(p, d) /\ Grows(c, d, bb) /\ Value(d, w) /\ w.ty = inst.ty
BY PutValue

LEMMA ConversionDone ==
    ASSUME NEW p, NEW c, CodeOK(p, c), NEW bb \in DOMAIN c, NEW v, Value(c, v), NEW op, NEW ty,
           \/ op = "sitofp" /\ v.ty = "i32" /\ ty = "float"
           \/ op = "fptosi" /\ v.ty = "float" /\ ty = "i32"
           \/ op = "zext" /\ v.ty = "i1" /\ ty = "i32"
           \/ op = "ne0" /\ v.ty \in {"i32", "float"} /\ ty = "i1",
           NEW o, o[1] = op, o[2] = ty, NEW s, s = Converting(c, bb, v, o)
    PROVE  CodeOK(p, s.c) /\ Grows(c, s.c, bb) /\ Value(s.c, s.v) /\ s.v.ty = ty
<1>1. PICK inst : inst = Inst(op, ty, <<v>>, <<>>, "")  OBVIOUS
<1>2. InstOK(p, c, inst) /\ TypeOfInst(inst) = IrType(ty)
    <2>1. CASE op = "ne0" /\ v.ty \in {"i32", "float"} /\ ty = "i1"
        BY <1>1, <2>1, NotZeroOK
    <2>2. CASE op # "ne0"
        BY <1>1, <2>2, ConversionOK
    <2> QED BY <2>1, <2>2
<1>3. inst.ty = ty  BY <1>1 DEF Inst
<1>4. PICK d, w : d = s.c /\ w = s.v  OBVIOUS
<1>5. d = Put(c, bb, inst) /\ w = LastOf(d, bb)
    <2>1. inst = Inst(o[1], o[2], <<v>>, <<>>, "")  BY <1>1
    <2> QED BY <1>4, <2>1 DEF Converting
<1>6. CodeOK(p, d) /\ Grows(c, d, bb) /\ Value(d, w) /\ w.ty = inst.ty
    BY <1>2, <1>3, <1>5, MadeValue
<1> QED BY <1>3, <1>4, <1>6

LEMMA ChainedNone ==
    ASSUME NEW c, NEW bb, NEW v
    PROVE  Chained(c, bb, v, <<>>) = [c |-> c, v |-> v]
BY ShortLists DEF Chained

LEMMA ChainedOne ==
    ASSUME NEW c, NEW bb, NEW v, NEW o, NEW ops, ops = <<o>>
    PROVE  Chained(c, bb, v, ops) = Converting(c, bb, v, o)
BY ShortLists DEF Chained

LEMMA ChainedTwo ==
    ASSUME NEW c, NEW bb, NEW v, NEW o1, NEW o2, NEW ops, ops = <<o1, o2>>
    PROVE  Chained(c, bb, v, ops)
                = Converting(Converting(c, bb, v, o1).c, bb, Converting(c, bb, v, o1).v, o2)
BY ShortLists DEF Chained

LEMMA GrowsDomain ==
    ASSUME NEW c, IsCode(c), NEW d, NEW bb, Grows(c, d, bb)
    PROVE  DOMAIN d = DOMAIN c /\ IsCode(d) /\ Extends(c, d)
BY ListFacts DEF Grows, IsCode

(* typeConvert knows the conversions the language admits.                   *)
LEMMA AdmittedConverts ==
    ASSUME NEW p, NEW s, NEW e, NEW to, Converts(p, s, e, to)
    PROVE  \E ty \in Types : Typed(p, s, e, ty) /\ Convertible(ty, to)
<1>1. PICK ty \in Types : Typed(p, s, e, ty) /\ Admitted(ty, to)  BY DEF Converts
<1>2. Convertible(ty, to)
    <2>1. CASE ty = to  BY <2>1 DEF Convertible
    <2>2. CASE ty = "i32" /\ to = "float"  BY <2>2 DEF Convertible, Conversion
    <2>3. CASE ty = "float" /\ to = "i32"  BY <2>3 DEF Convertible, Conversion
    <2>4. CASE ty = "i1" /\ to = "i32"  BY <2>4 DEF Convertible, Conversion
    <2>5. CASE ty = "i1" /\ to = "float"  BY <2>5 DEF Convertible, Conversion
    <2> QED BY <1>1, <2>1, <2>2, <2>3, <2>4, <2>5 DEF Admitted, Numeric
<1> QED BY <1>1, <1>2

LEMMA ConvertOK ==
    ASSUME NEW p, NEW c, CodeOK(p, c), NEW bb \in DOMAIN c, NEW v, Value(c, v),
           NEW to, Convertible(v.ty, to)
    PROVE  LET s == typeConvert(c, bb, v, to)
           IN  CodeOK(p, s.c) /\ Grows(c, s.c, bb) /\ Value(s.c, s.v) /\ s.v.ty = to
<1> DEFINE good(s) == CodeOK(p, s.c) /\ Grows(c, s.c, bb) /\ Value(s.c, s.v) /\ s.v.ty = to
<1>1. typeConvert(c, bb, v, to) = Chained(c, bb, v, Conversion(v.ty, to))  BY DEF typeConvert
<1>2. IsCode(c)  BY DEF CodeOK
<1>3. CASE v.ty = to
    <2>1. Conversion(v.ty, to) = <<>>  BY <1>3 DEF Conversion
    <2>2. typeConvert(c, bb, v, to) = [c |-> c, v |-> v]  BY <1>1, <2>1, ChainedNone, Zenon
    <2> QED BY <1>2, <1>3, <2>2, GrowsItself
<1>4. CASE v.ty = "i32" /\ to = "float"
    <2>1. Conversion(v.ty, to) = << <<"sitofp", "float">> >>  BY <1>4 DEF Conversion
    <2> DEFINE o == <<"sitofp", "float">>
    <2>2. typeConvert(c, bb, v, to) = Converting(c, bb, v, o)  BY <1>1, <2>1, ChainedOne, Zenon
    <2>3. o[1] = "sitofp" /\ o[2] = "float"  OBVIOUS
    <2> HIDE DEF o
    <2>4. good(Converting(c, bb, v, o))  BY <1>4, <2>3, ConversionDone
    <2> QED BY <2>2, <2>4
<1>5. CASE v.ty = "float" /\ to = "i32"
    <2>1. Conversion(v.ty, to) = << <<"fptosi", "i32">> >>  BY <1>5 DEF Conversion
    <2> DEFINE o == <<"fptosi", "i32">>
    <2>2. typeConvert(c, bb, v, to) = Converting(c, bb, v, o)  BY <1>1, <2>1, ChainedOne, Zenon
    <2>3. o[1] = "fptosi" /\ o[2] = "i32"  OBVIOUS
    <2> HIDE DEF o
    <2>4. good(Converting(c, bb, v, o))  BY <1>5, <2>3, ConversionDone
    <2> QED BY <2>2, <2>4
<1>6. CASE v.ty = "i1" /\ to = "i32"
    <2>1. Conversion(v.ty, to) = << <<"zext", "i32">> >>  BY <1>6 DEF Conversion
    <2> DEFINE o == <<"zext", "i32">>
    <2>2. typeConvert(c, bb, v, to) = Converting(c, bb, v, o)  BY <1>1, <2>1, ChainedOne, Zenon
    <2>3. o[1] = "zext" /\ o[2] = "i32"  OBVIOUS
    <2> HIDE DEF o
    <2>4. good(Converting(c, bb, v, o))  BY <1>6, <2>3, ConversionDone
    <2> QED BY <2>2, <2>4
<1>7. CASE v.ty = "i1" /\ to = "float"
    <2>1. Conversion(v.ty, to) = << <<"zext", "i32">>, <<"sitofp", "float">> >>  BY <1>7 DEF Conversion
    <2> DEFINE o1 == <<"zext", "i32">>
               o2 == <<"sitofp", "float">>
    <2>2. Conversion(v.ty, to) = <<o1, o2>>  BY <2>1
    <2>3. o1[1] = "zext" /\ o1[2] = "i32" /\ o2[1] = "sitofp" /\ o2[2] = "float"  OBVIOUS
    <2> HIDE DEF o1, o2
    <2> DEFINE s == Converting(c, bb, v, o1)
               t == Converting(s.c, bb, s.v, o2)
    <2>4. typeConvert(c, bb, v, to) = t
        <3>1. Chained(c, bb, v, Conversion(v.ty, to)) = t  BY <2>2, ChainedTwo
        <3> QED BY <1>1, <3>1, Zenon
    <2>5. CodeOK(p, s.c) /\ Grows(c, s.c, bb) /\ Value(s.c, s.v) /\ s.v.ty = "i32"
        BY <1>7, <2>3, ConversionDone
    <2> HIDE DEF s
    <2>6. DOMAIN s.c = DOMAIN c  BY <1>2, <2>5, GrowsDomain
    <2>7. PICK d, w : d = s.c /\ w = s.v  OBVIOUS
    <2>8. CodeOK(p, d) /\ Grows(c, d, bb) /\ Value(d, w) /\ w.ty = "i32" /\ bb \in DOMAIN d
        BY <2>5, <2>6, <2>7
    <2>9. t = Converting(d, bb, w, o2)  BY <2>7
    <2> HIDE DEF t
    <2>10. CodeOK(p, t.c) /\ Grows(d, t.c, bb) /\ Value(t.c, t.v) /\ t.v.ty = "float"
        BY <2>3, <2>8, <2>9, ConversionDone
    <2>11. Grows(c, t.c, bb)  BY <1>2, <2>8, <2>10, GrowsFurther
    <2> QED BY <1>7, <2>4, <2>10, <2>11
<1>8. \/ v.ty = to
      \/ v.ty = "i32" /\ to = "float"
      \/ v.ty = "float" /\ to = "i32"
      \/ v.ty = "i1" /\ to = "i32"
      \/ v.ty = "i1" /\ to = "float"
    BY DEF Convertible, Conversion
<1> QED BY <1>3, <1>4, <1>5, <1>6, <1>7, <1>8

LEMMA CompareOK ==
    ASSUME NEW p, NEW c, CodeOK(p, c), NEW bb \in DOMAIN c, NEW v, Value(c, v), v.ty \in Numeric
    PROVE  LET s == compareWith0(c, bb, v)
           IN  CodeOK(p, s.c) /\ Grows(c, s.c, bb) /\ Value(s.c, s.v) /\ s.v.ty = "i1"
<1>1. IsCode(c)  BY DEF CodeOK
<1>2. CASE v.ty = "i1"
    <2>1. compareWith0(c, bb, v) = Chained(c, bb, v, <<>>)  BY <1>2 DEF compareWith0
    <2>2. compareWith0(c, bb, v) = [c |-> c, v |-> v]  BY <2>1, ChainedNone, Zenon
    <2> QED BY <1>1, <1>2, <2>2, GrowsItself
<1>3. CASE v.ty \in {"i32", "float"}
    <2> DEFINE o == <<"ne0", "i1">>
    <2>1. compareWith0(c, bb, v) = Chained(c, bb, v, <<o>>)  BY <1>3 DEF compareWith0
    <2>2. o[1] = "ne0" /\ o[2] = "i1"  OBVIOUS
    <2> HIDE DEF o
    <2>3. compareWith0(c, bb, v) = Converting(c, bb, v, o)  BY <2>1, ChainedOne, Zenon
    <2> DEFINE s == Converting(c, bb, v, o)
    <2>4. CodeOK(p, s.c) /\ Grows(c, s.c, bb) /\ Value(s.c, s.v) /\ s.v.ty = "i1"
        BY <1>3, <2>2, ConversionDone
    <2> QED BY <2>3, <2>4
<1> QED BY <1>2, <1>3 DEF Numeric

-----------------------------------------------------------------------------
(* Scopes                                                                   *)

(* A binding of the name n.                                                 *)
BindingOK(p, c, n, b) ==
    \/ /\ b.kind = "fun"
       /\ b = Callee(p, n)
       /\ n = p.fun.id \/ n \in DOMAIN Functions
    \/ /\ b.kind = "var"
       /\ AddressOfA(c, [ty |-> b.ty, from |-> b.from])

ScopeOK(p, c, s) ==
    /\ IsList(s)
    /\ Len(s) >= 1
    /\ \A k \in DOMAIN s : \A n \in DOMAIN s[k] : BindingOK(p, c, n, s[k][n])

LEMMA FunctionList ==
    ASSUME NEW n \in Nat, NEW f, DOMAIN f = 1 .. n, f = [k \in DOMAIN f |-> f[k]]
    PROVE  IsList(f) /\ Len(f) = n
<1> DEFINE S == {f[k] : k \in DOMAIN f}
<1>1. \A k \in 1 .. n : f[k] \in S  OBVIOUS
<1> HIDE DEF S
<1>2. f \in [1 .. n -> S]  BY <1>1
<1>3. f \in Seq(S) /\ Len(f) = n  BY <1>2
<1> QED BY <1>3, SeqList

(* One scope: the signatures of its bindings, and a name added to it.       *)
ScopeSignature(f) == [n \in DOMAIN f |-> Signature(f[n])]
With(f, name, b) == [n \in DOMAIN f \cup {name} |-> IF n \in DOMAIN f THEN f[n] ELSE b]

LEMMA SignatureFacts ==
    ASSUME NEW s, IsList(s)
    PROVE  /\ IsList(Signatures(s))
           /\ Len(Signatures(s)) = Len(s)
           /\ DOMAIN Signatures(s) = DOMAIN s
           /\ \A k \in DOMAIN s : Signatures(s)[k] = ScopeSignature(s[k])
<1> DEFINE f == Signatures(s)
<1>1. f = [k \in DOMAIN s |-> ScopeSignature(s[k])]  BY Zenon DEF Signatures, ScopeSignature
<1>2. Len(s) \in Nat /\ DOMAIN s = 1 .. Len(s)  BY ListFacts
<1> HIDE DEF f
<1>3. DOMAIN f = 1 .. Len(s) /\ f = [k \in DOMAIN f |-> f[k]]  BY <1>1, <1>2
<1>4. IsList(f) /\ Len(f) = Len(s)  BY <1>2, <1>3, FunctionList
<1> QED BY <1>1, <1>2, <1>3, <1>4 DEF f

LEMMA ScopeSignatureFacts ==
    ASSUME NEW f
    PROVE  /\ DOMAIN ScopeSignature(f) = DOMAIN f
           /\ \A n \in DOMAIN f : ScopeSignature(f)[n] = Signature(f[n])
BY DEF ScopeSignature

LEMMA EmptyScope == ScopeSignature(<< >>) = << >>
BY DEF ScopeSignature

LEMMA WithSignature ==
    ASSUME NEW f, NEW name, NEW b
    PROVE  ScopeSignature(With(f, name, b)) = With(ScopeSignature(f), name, Signature(b))
<1> DEFINE w == With(f, name, b)
           g == ScopeSignature(f)
<1>1. DOMAIN w = DOMAIN f \cup {name}  BY DEF With
<1>2. \A n \in DOMAIN w : w[n] = IF n \in DOMAIN f THEN f[n] ELSE b  BY DEF With
<1>3. DOMAIN g = DOMAIN f /\ \A n \in DOMAIN f : g[n] = Signature(f[n])  BY DEF ScopeSignature
<1>4. ScopeSignature(w) = [n \in DOMAIN w |-> Signature(w[n])]  BY DEF ScopeSignature
<1>5. With(g, name, Signature(b))
        = [n \in DOMAIN g \cup {name} |-> IF n \in DOMAIN g THEN g[n] ELSE Signature(b)]
    BY Zenon DEF With
<1> HIDE DEF w, g
<1>6. \A n \in DOMAIN w : Signature(w[n]) = IF n \in DOMAIN g THEN g[n] ELSE Signature(b)
    BY <1>1, <1>2, <1>3
<1>7. DOMAIN w = DOMAIN g \cup {name}  BY <1>1, <1>3
<1>8. ScopeSignature(w) = With(g, name, Signature(b))  BY <1>4, <1>5, <1>6, <1>7
<1> QED BY <1>8 DEF w, g

LEMMA SignaturesAppend ==
    ASSUME NEW s, IsList(s), NEW f
    PROVE  Signatures(Append(s, f)) = Append(Signatures(s), ScopeSignature(f))
<1> DEFINE t == Append(s, f)
           u == Append(Signatures(s), ScopeSignature(f))
           v == Signatures(t)
<1>1. Len(s) \in Nat /\ DOMAIN s = 1 .. Len(s)  BY ListFacts
<1>2. /\ IsList(t) /\ Len(t) = Len(s) + 1
      /\ \A i \in 1 .. Len(s) : t[i] = s[i]
      /\ t[Len(s) + 1] = f
    BY AppendList
<1>3. IsList(Signatures(s)) /\ Len(Signatures(s)) = Len(s)  BY SignatureFacts
<1>4. /\ IsList(u) /\ Len(u) = Len(s) + 1
      /\ \A i \in 1 .. Len(s) : u[i] = Signatures(s)[i]
      /\ u[Len(s) + 1] = ScopeSignature(f)
    BY <1>3, AppendList
<1> HIDE DEF t, u
<1>5. DOMAIN t = 1 .. Len(s) + 1  BY <1>2, ListFacts
<1>6. IsList(v) /\ Len(v) = Len(s) + 1  BY <1>2, SignatureFacts
<1>7. ASSUME NEW i \in 1 .. Len(s) + 1 PROVE v[i] = u[i]
    <2>1. v[i] = ScopeSignature(t[i])  BY <1>2, <1>5, SignatureFacts
    <2>2. CASE i \in 1 .. Len(s)
        <3>1. i \in DOMAIN s  BY <1>1, <2>2
        <3>2. u[i] = ScopeSignature(s[i])  BY <1>4, <2>2, <3>1, SignatureFacts
        <3> QED BY <1>2, <2>1, <2>2, <3>2
    <2>3. CASE i = Len(s) + 1
        BY <1>2, <1>4, <2>1, <2>3
    <2> QED BY <1>1, <2>2, <2>3
<1> HIDE DEF v
<1>8. v = u  BY <1>4, <1>6, <1>7, EqualLists
<1> QED BY <1>8 DEF t, u, v

LEMMA SignaturesFront ==
    ASSUME NEW s, IsList(s), Len(s) >= 1
    PROVE  Signatures(Front(s)) = Front(Signatures(s))
<1> DEFINE t == Front(s)
           u == Front(Signatures(s))
           v == Signatures(t)
<1>1. Len(s) \in Nat /\ DOMAIN s = 1 .. Len(s)  BY ListFacts
<1>2. IsList(t) /\ Len(t) = Len(s) - 1 /\ \A i \in 1 .. Len(s) - 1 : t[i] = s[i]  BY FrontList
<1>3. IsList(Signatures(s)) /\ Len(Signatures(s)) = Len(s)  BY SignatureFacts
<1>4. IsList(u) /\ Len(u) = Len(s) - 1 /\ \A i \in 1 .. Len(s) - 1 : u[i] = Signatures(s)[i]
    BY <1>3, FrontList
<1> HIDE DEF t, u
<1>5. DOMAIN t = 1 .. Len(s) - 1  BY <1>2, ListFacts
<1>6. IsList(v) /\ Len(v) = Len(s) - 1  BY <1>2, SignatureFacts
<1>7. ASSUME NEW i \in 1 .. Len(s) - 1 PROVE v[i] = u[i]
    <2>1. v[i] = ScopeSignature(t[i])  BY <1>2, <1>5, SignatureFacts
    <2>2. i \in DOMAIN s  BY <1>1
    <2>3. u[i] = ScopeSignature(s[i])  BY <1>4, <2>2, SignatureFacts
    <2> QED BY <1>2, <2>1, <2>3
<1> HIDE DEF v
<1>8. v = u  BY <1>4, <1>6, <1>7, EqualLists
<1> QED BY <1>8 DEF t, u, v

LEMMA BoundFacts ==
    ASSUME NEW s, IsList(s), Len(s) >= 1, NEW name, NEW b
    PROVE  LET t == Bound(s, name, b)
           IN  /\ IsList(t) /\ Len(t) = Len(s) /\ Len(s) \in Nat
               /\ \A i \in 1 .. Len(s) - 1 : t[i] = s[i]
               /\ t[Len(s)] = With(s[Len(s)], name, b)
<1> DEFINE k == Len(s)
           new == With(s[k], name, b)
           t == [s EXCEPT ![k] = new]
<1>1. Bound(s, name, b) = t  BY Zenon DEF Bound, With
<1>2. Len(s) \in Nat /\ DOMAIN s = 1 .. Len(s)  BY ListFacts
<1> HIDE DEF new
<1>3. t = [i \in 1 .. Len(s) |-> IF i = k THEN new ELSE s[i]]
    <2> DEFINE S == {s[i] : i \in DOMAIN s}
    <2>1. s \in Seq(S)  BY DEF IsList
    <2> QED BY <1>2, <2>1
<1>4. DOMAIN t = 1 .. Len(s) /\ t = [i \in DOMAIN t |-> t[i]]  BY <1>3
<1>6. \A i \in 1 .. Len(s) : t[i] = IF i = k THEN new ELSE s[i]  BY <1>3
<1> HIDE DEF t, k
<1>5. IsList(t) /\ Len(t) = Len(s)  BY <1>2, <1>4, FunctionList
<1>7. k \in 1 .. Len(s) /\ \A i \in 1 .. Len(s) - 1 : i \in 1 .. Len(s) /\ i # k
    <2>1. \A m \in Nat : m >= 1 => m \in 1 .. m /\ \A i \in 1 .. m - 1 : i \in 1 .. m /\ i # m  OBVIOUS
    <2> QED BY <1>2, <2>1 DEF k
<1>8. t[k] = new /\ \A i \in 1 .. Len(s) - 1 : t[i] = s[i]  BY <1>6, <1>7
<1> QED BY <1>8, <1>1, <1>2, <1>5, <1>6 DEF new, k

(* push in terms of signatures.                                             *)
LEMMA SignaturesBound ==
    ASSUME NEW s, IsList(s), Len(s) >= 1, NEW name, NEW b
    PROVE  Signatures(Bound(s, name, b)) = Bound(Signatures(s), name, Signature(b))
<1>1. PICK t : t = Bound(s, name, b)  OBVIOUS
<1>2. PICK r : r = Signatures(s)  OBVIOUS
<1>3. PICK u : u = Bound(r, name, Signature(b))  OBVIOUS
<1>4. PICK v : v = Signatures(t)  OBVIOUS
<1>5. PICK k : k = Len(s)  OBVIOUS
<1>6. k \in Nat /\ DOMAIN s = 1 .. k  BY <1>5, ListFacts
<1>7. IsList(t) /\ Len(t) = k /\ \A i \in 1 .. k - 1 : t[i] = s[i]
    BY <1>1, <1>5, BoundFacts
<1>8. t[k] = With(s[k], name, b)  BY <1>1, <1>5, BoundFacts
<1>9. IsList(r) /\ Len(r) = k /\ \A i \in DOMAIN s : r[i] = ScopeSignature(s[i])
    BY <1>2, <1>5, SignatureFacts
<1>10. IsList(u) /\ Len(u) = k /\ \A i \in 1 .. k - 1 : u[i] = r[i]
    BY <1>9, <1>3, <1>5, BoundFacts
<1>11. u[k] = With(r[k], name, Signature(b))  BY <1>9, <1>3, <1>5, BoundFacts
<1>12. \A m \in Nat : m >= 1 => /\ m \in 1 .. m
                                /\ \A i \in 1 .. m : i = m \/ i \in 1 .. m - 1
                                /\ \A i \in 1 .. m - 1 : i \in 1 .. m
    OBVIOUS
<1>13. /\ k \in 1 .. k
       /\ \A i \in 1 .. k : i = k \/ i \in 1 .. k - 1
       /\ \A i \in 1 .. k - 1 : i \in 1 .. k
    BY <1>6, <1>12, <1>5
<1>14. DOMAIN t = 1 .. k  BY <1>7, ListFacts
<1>15. IsList(v) /\ Len(v) = k /\ \A i \in 1 .. k : v[i] = ScopeSignature(t[i])
    BY <1>7, <1>14, <1>4, SignatureFacts
<1>16. v[k] = u[k]
    <2>1. v[k] = ScopeSignature(With(s[k], name, b))  BY <1>13, <1>15, <1>8
    <2>2. r[k] = ScopeSignature(s[k])  BY <1>6, <1>9, <1>13
    <2>3. ScopeSignature(With(s[k], name, b)) = With(ScopeSignature(s[k]), name, Signature(b))
        BY WithSignature
    <2> QED BY <2>1, <2>2, <2>3, <1>11, Zenon
<1>17. \A i \in 1 .. k - 1 : v[i] = u[i]
    <2>1. ASSUME NEW i \in 1 .. k - 1 PROVE v[i] = u[i]
        <3>1. i \in 1 .. k  BY <1>13
        <3>2. v[i] = ScopeSignature(t[i]) /\ t[i] = s[i] /\ u[i] = r[i] /\ r[i] = ScopeSignature(s[i])
            BY <1>6, <1>7, <1>9, <1>10, <1>15, <3>1
        <3> QED BY <3>2
    <2> QED BY <2>1
<1>18. \A i \in 1 .. k : v[i] = u[i]  BY <1>13, <1>16, <1>17
<1>19. v = u  BY <1>10, <1>15, <1>18, EqualLists
<1> QED BY <1>19, <1>1, <1>2, <1>3, <1>4

(* A name that is bound means its innermost binding.                        *)
LEMMA InnermostBinds ==
    ASSUME NEW s, IsList(s), NEW id, IsBound(s, id)
    PROVE  Innermost(s, id) \in DOMAIN s /\ id \in DOMAIN s[Innermost(s, id)]
<1>1. DOMAIN s = 1 .. Len(s)  BY ListFacts
<1>2. PICK k \in 1 .. Len(s) : id \in DOMAIN s[k] /\ \A j \in k + 1 .. Len(s) : id \notin DOMAIN s[j]
    BY DEF IsBound
<1>3. Innermost(s, id) \in 1 .. Len(s) /\ id \in DOMAIN s[Innermost(s, id)]
    BY <1>2 DEF Innermost
<1> QED BY <1>1, <1>3

LEMMA FoundBinding ==
    ASSUME NEW s, IsList(s), NEW id, IsBound(Signatures(s), id)
    PROVE  LET b == s[Innermost(s, id)][id]
           IN  /\ Innermost(s, id) \in DOMAIN s
               /\ id \in DOMAIN s[Innermost(s, id)]
               /\ Signature(b) = Meaning(Signatures(s), id)
<1> DEFINE r == Signatures(s)
<1>1. /\ IsList(r) /\ Len(r) = Len(s) /\ DOMAIN r = DOMAIN s
      /\ \A i \in DOMAIN s : /\ DOMAIN r[i] = DOMAIN s[i]
                             /\ \A n \in DOMAIN s[i] : r[i][n] = Signature(s[i][n])
    BY SignatureFacts, ScopeSignatureFacts
<1>2. Len(s) \in Nat /\ DOMAIN s = 1 .. Len(s)  BY ListFacts
<1>3. IsBound(r, id)  OBVIOUS
<1> HIDE DEF r
<1> DEFINE P(k) == /\ id \in DOMAIN s[k]
                   /\ \A j \in k + 1 .. Len(s) : id \notin DOMAIN s[j]
           Q(k) == /\ id \in DOMAIN r[k]
                   /\ \A j \in k + 1 .. Len(r) : id \notin DOMAIN r[j]
<1>4. \A k \in 1 .. Len(s) : P(k) = Q(k)
    <2>1. \A k \in 1 .. Len(s) : \A j \in k + 1 .. Len(s) : j \in 1 .. Len(s)  BY <1>2
    <2>2. \A k \in 1 .. Len(s) : DOMAIN r[k] = DOMAIN s[k]  BY <1>1, <1>2
    <2> QED BY <1>1, <2>1, <2>2
<1>5. Innermost(s, id) = CHOOSE k : k \in 1 .. Len(s) /\ P(k)  BY Zenon DEF Innermost
<1>6. Innermost(r, id) = CHOOSE k : k \in 1 .. Len(r) /\ Q(k)  BY Zenon DEF Innermost
<1>7. \A k : (k \in 1 .. Len(s) /\ P(k)) <=> (k \in 1 .. Len(r) /\ Q(k))  BY <1>1, <1>4
<1> HIDE DEF P, Q
<1>8. Innermost(s, id) = Innermost(r, id)  BY <1>5, <1>6, <1>7
<1>9. Innermost(r, id) \in DOMAIN r /\ id \in DOMAIN r[Innermost(r, id)]  BY <1>1, <1>3, InnermostBinds
<1> QED BY <1>1, <1>8, <1>9 DEF Meaning, r

(* The scopes, as the code grows and as the visitor enters, leaves and      *)
(* fills them.                                                              *)
LEMMA ScopeStays ==
    ASSUME NEW p, NEW c, NEW d, Extends(c, d), NEW s, ScopeOK(p, c, s)
    PROVE  ScopeOK(p, d, s)
BY ValueStays DEF ScopeOK, BindingOK

LEMMA ScopeEntered ==
    ASSUME NEW p, NEW c, NEW s, ScopeOK(p, c, s)
    PROVE  ScopeOK(p, c, Append(s, << >>))
<1> DEFINE t == Append(s, << >>)
<1>1. Len(s) \in Nat /\ DOMAIN s = 1 .. Len(s) /\ Len(s) >= 1  BY ListFacts DEF ScopeOK
<1>2. /\ IsList(t) /\ Len(t) = Len(s) + 1
      /\ \A i \in 1 .. Len(s) : t[i] = s[i]
      /\ t[Len(s) + 1] = << >>
    BY AppendList DEF ScopeOK
<1>3. DOMAIN t = 1 .. Len(s) + 1  BY <1>2, ListFacts
<1> HIDE DEF t
<1>4. \A n \in DOMAIN << >> : FALSE  OBVIOUS
<1>5. ASSUME NEW k \in DOMAIN t, NEW n \in DOMAIN t[k] PROVE BindingOK(p, c, n, t[k][n])
    <2>1. k \in 1 .. Len(s)  BY <1>1, <1>2, <1>3, <1>4
    <2> QED BY <1>1, <1>2, <2>1 DEF ScopeOK
<1> QED BY <1>1, <1>2, <1>5 DEF ScopeOK, t

LEMMA ScopeLeft ==
    ASSUME NEW p, NEW c, NEW s, ScopeOK(p, c, s), Len(s) > 1
    PROVE  ScopeOK(p, c, Front(s)) /\ Len(Front(s)) = Len(s) - 1
<1> DEFINE t == Front(s)
<1>1. Len(s) \in Nat /\ DOMAIN s = 1 .. Len(s)  BY ListFacts DEF ScopeOK
<1>2. IsList(t) /\ Len(t) = Len(s) - 1 /\ \A i \in 1 .. Len(s) - 1 : t[i] = s[i]
    BY <1>1, FrontList DEF ScopeOK
<1>3. DOMAIN t = 1 .. Len(s) - 1  BY <1>2, ListFacts
<1> HIDE DEF t
<1>4. \A k \in DOMAIN t : k \in DOMAIN s /\ t[k] = s[k]  BY <1>1, <1>2, <1>3
<1> QED BY <1>1, <1>2, <1>4 DEF ScopeOK, t

LEMMA ScopeFilled ==
    ASSUME NEW p, NEW c, NEW s, ScopeOK(p, c, s), NEW name, NEW b, BindingOK(p, c, name, b)
    PROVE  ScopeOK(p, c, Bound(s, name, b)) /\ Len(Bound(s, name, b)) = Len(s)
<1>1. PICK t : t = Bound(s, name, b)  OBVIOUS
<1>2. PICK k : k = Len(s)  OBVIOUS
<1>3. k \in Nat /\ DOMAIN s = 1 .. k /\ k >= 1  BY <1>2, ListFacts DEF ScopeOK
<1>4. IsList(t) /\ Len(t) = k /\ \A i \in 1 .. k - 1 : t[i] = s[i]
    BY <1>1, <1>2, BoundFacts DEF ScopeOK
<1>5. t[k] = With(s[k], name, b)  BY <1>1, <1>2, BoundFacts DEF ScopeOK
<1>6. DOMAIN t = 1 .. k  BY <1>4, ListFacts
<1>7. ASSUME NEW i \in DOMAIN t, NEW n \in DOMAIN t[i] PROVE BindingOK(p, c, n, t[i][n])
    <2>1. CASE i \in 1 .. k - 1
        <3>1. i \in DOMAIN s /\ t[i] = s[i]  BY <1>3, <1>4, <2>1
        <3> QED BY <3>1 DEF ScopeOK
    <2>2. CASE i = k
        <3>1. k \in DOMAIN s  BY <1>3
        <3>2. DOMAIN t[k] = DOMAIN s[k] \cup {name} /\ t[k][n] = (IF n \in DOMAIN s[k] THEN s[k][n] ELSE b)
            BY <1>5, <2>2 DEF With
        <3>3. n \in DOMAIN s[k] => BindingOK(p, c, n, s[k][n])  BY <3>1 DEF ScopeOK
        <3>4. n \in DOMAIN s[k] \/ n = name  BY <2>2, <3>2
        <3> QED BY <2>2, <3>2, <3>3, <3>4
    <2> QED BY <1>3, <1>6, <2>1, <2>2
<1> QED BY <1>1, <1>2, <1>3, <1>4, <1>7 DEF ScopeOK

LEMMA BindingSignature ==
    /\ \A ty, from : Signature(VarBinding(ty, from)) = VarSig(ty)
    /\ \A b : b.kind = "fun" => Signature(b) = b
BY DEF Signature, VarBinding, VarSig

(* The declarations of a scope, one at a time.                              *)
LEMMA OpenedStep ==
    ASSUME NEW b, NEW ds, NEW k \in Nat, k >= 1
    PROVE  With(Opened(b, ds, k - 1), ds[k].id, VarSig(ds[k].ty)) = Opened(b, ds, k)
<1> DEFINE first(n, m) == CHOOSE i \in 1 .. m : ds[i].id = n /\ \A j \in 1 .. i - 1 : ds[j].id # n
           o == Opened(b, ds, k - 1)
           w == With(o, ds[k].id, VarSig(ds[k].ty))
           q == Opened(b, ds, k)
<1>1. DOMAIN o = DOMAIN b \cup {ds[i].id : i \in 1 .. k - 1}  BY DEF Opened
<1>2. \A n \in DOMAIN o : o[n] = IF n \in DOMAIN b THEN b[n] ELSE VarSig(ds[first(n, k - 1)].ty)
    BY DEF Opened
<1>3. q = [n \in DOMAIN b \cup {ds[i].id : i \in 1 .. k} |->
                IF n \in DOMAIN b THEN b[n] ELSE VarSig(ds[first(n, k)].ty)]
    BY DEF Opened
<1>4. w = [n \in DOMAIN o \cup {ds[k].id} |-> IF n \in DOMAIN o THEN o[n] ELSE VarSig(ds[k].ty)]
    BY DEF With
<1>5. ASSUME NEW n, n \in {ds[i].id : i \in 1 .. k - 1} PROVE first(n, k - 1) = first(n, k)
    <2>1. PICK i \in 1 .. k - 1 : ds[i].id = n  BY <1>5
    <2> DEFINE P(x) == ds[x].id = n /\ \A j \in 1 .. x - 1 : ds[j].id # n
    <2>2. ~ P(k)  BY <2>1
    <2>3. \A x : (x \in 1 .. k - 1 /\ P(x)) <=> (x \in 1 .. k /\ P(x))
        <3>1. \A x : x \in 1 .. k <=> (x \in 1 .. k - 1 \/ x = k)  OBVIOUS
        <3> HIDE DEF P
        <3> QED BY <2>2, <3>1
    <2>4. first(n, k - 1) = CHOOSE x : x \in 1 .. k - 1 /\ P(x)  BY Zenon
    <2>5. first(n, k) = CHOOSE x : x \in 1 .. k /\ P(x)  BY Zenon
    <2> HIDE DEF P, first
    <2> QED BY <2>3, <2>4, <2>5
<1>6. ASSUME NEW n, n = ds[k].id, n \notin {ds[i].id : i \in 1 .. k - 1} PROVE first(n, k) = k
    <2>1. k \in 1 .. k /\ ds[k].id = n /\ \A j \in 1 .. k - 1 : ds[j].id # n  BY <1>6
    <2>2. \A i \in 1 .. k : i = k \/ i \in 1 .. k - 1  OBVIOUS
    <2>3. first(n, k) \in 1 .. k /\ ds[first(n, k)].id = n  BY <2>1
    <2> HIDE DEF first
    <2> QED BY <1>6, <2>2, <2>3
<1>7. {ds[i].id : i \in 1 .. k} = {ds[i].id : i \in 1 .. k - 1} \cup {ds[k].id}
    <2>1. \A i : i \in 1 .. k <=> (i \in 1 .. k - 1 \/ i = k)  OBVIOUS
    <2> QED BY <2>1
<1> HIDE DEF o, w, q, first
<1>8. ASSUME NEW n \in DOMAIN o \cup {ds[k].id}
      PROVE  (IF n \in DOMAIN o THEN o[n] ELSE VarSig(ds[k].ty))
                = IF n \in DOMAIN b THEN b[n] ELSE VarSig(ds[first(n, k)].ty)
    <2>1. CASE n \in DOMAIN b  BY <1>1, <1>2, <2>1
    <2>2. CASE n \notin DOMAIN b /\ n \in {ds[i].id : i \in 1 .. k - 1}  BY <1>1, <1>2, <1>5, <2>2
    <2>3. CASE n \notin DOMAIN b /\ n \notin {ds[i].id : i \in 1 .. k - 1}
        <3>1. n = ds[k].id /\ n \notin DOMAIN o  BY <1>1, <2>3
        <3>2. first(n, k) = k  BY <1>6, <2>3, <3>1
        <3> QED BY <2>3, <3>1, <3>2
    <2> QED BY <2>1, <2>2, <2>3
<1>9. DOMAIN o \cup {ds[k].id} = DOMAIN b \cup {ds[i].id : i \in 1 .. k}  BY <1>1, <1>7
<1> DEFINE F(n) == IF n \in DOMAIN o THEN o[n] ELSE VarSig(ds[k].ty)
           G(n) == IF n \in DOMAIN b THEN b[n] ELSE VarSig(ds[first(n, k)].ty)
           D == DOMAIN o \cup {ds[k].id}
<1>10. w = [n \in D |-> F(n)]  BY <1>4
<1>11. q = [n \in D |-> G(n)]  BY <1>3, <1>9, Zenon
<1>12. \A n \in D : F(n) = G(n)  BY <1>8
<1> HIDE DEF F, G, D
<1> QED BY <1>10, <1>11, <1>12 DEF w, q, o

LEMMA OpenedNone ==
    ASSUME NEW b, b = [n \in DOMAIN b |-> b[n]], NEW ds
    PROVE  Opened(b, ds, 0) = b
<1>1. {ds[i].id : i \in 1 .. 0} = {}  OBVIOUS
<1>2. DOMAIN b \cup {ds[i].id : i \in 1 .. 0} = DOMAIN b  BY <1>1
<1>3. Opened(b, ds, 0) = [n \in DOMAIN b |-> b[n]]
    BY <1>2 DEF Opened
<1> QED BY <1>3

LEMMA BoundLast ==
    ASSUME NEW s, IsList(s), NEW f, NEW name, NEW b
    PROVE  Bound(Append(s, f), name, b) = Append(s, With(f, name, b))
<1>1. PICK t : t = Append(s, f)  OBVIOUS
<1>2. PICK u : u = Bound(t, name, b)  OBVIOUS
<1>3. PICK v : v = Append(s, With(f, name, b))  OBVIOUS
<1>4. Len(s) \in Nat  BY ListFacts
<1>5. IsList(t) /\ Len(t) = Len(s) + 1 /\ (\A i \in 1 .. Len(s) : t[i] = s[i]) /\ t[Len(s) + 1] = f
    BY <1>1, AppendList
<1>6. /\ IsList(u) /\ Len(u) = Len(s) + 1
      /\ \A i \in 1 .. Len(s) : u[i] = t[i]
      /\ u[Len(s) + 1] = With(t[Len(s) + 1], name, b)
    <2>1. Len(t) >= 1 /\ Len(t) - 1 = Len(s)  BY <1>4, <1>5
    <2>2. /\ IsList(u) /\ Len(u) = Len(t)
          /\ \A i \in 1 .. Len(t) - 1 : u[i] = t[i]
          /\ u[Len(t)] = With(t[Len(t)], name, b)
        BY <1>2, <1>5, <2>1, BoundFacts
    <2> QED BY <1>5, <2>1, <2>2
<1>7. /\ IsList(v) /\ Len(v) = Len(s) + 1
      /\ \A i \in 1 .. Len(s) : v[i] = s[i]
      /\ v[Len(s) + 1] = With(f, name, b)
    BY <1>3, AppendList
<1>8. \A i \in 1 .. Len(s) + 1 : i \in 1 .. Len(s) \/ i = Len(s) + 1  BY <1>4
<1>9. \A i \in 1 .. Len(s) + 1 : u[i] = v[i]  BY <1>5, <1>6, <1>7, <1>8
<1>10. u = v  BY <1>6, <1>7, <1>9, EqualLists
<1> QED BY <1>1, <1>2, <1>3, <1>10

-----------------------------------------------------------------------------
(* The agenda                                                               *)

Nodes == {"num", "var", "elem", "assign", "binary", "call",
          "block", "empty", "if", "while", "return"}

(* What is known where an item of the agenda is reached: the scopes, and    *)
(* the types of val and addr, "any" where nothing is known of them.         *)
Config(s, v, a) == [scopes |-> s, val |-> v, addr |-> a]
Plain(s) == Config(s, "any", "any")

(* An item that keeps the scopes g has leaves a value of a type in vs.      *)
Leaves(g, h, vs, as) ==
    /\ h = Config(g.scopes, h.val, h.addr)
    /\ h.val \in vs \cup {"any"}
    /\ h.addr \in as \cup {"any"}

ElementOf(c, b) == AddressOfA(c, [ty |-> b.ty, from |-> b.from]) /\ b.ty \notin {"i32", "float"}

(* A call in progress.                                                      *)
Calling(p, c, it, s) ==
    /\ it = [k |-> it.k, id |-> it.id, fun |-> it.fun, todo |-> it.todo, done |-> it.done]
    /\ it.fun = Callee(p, it.id)
    /\ it.fun.ret \in Types
    /\ IsList(it.fun.params) /\ IsList(it.done) /\ IsList(it.todo)
    /\ Len(it.done) + Len(it.todo) = Len(it.fun.params)
    /\ \A i \in 1 .. Len(it.done) : Value(c, it.done[i]) /\ it.done[i].ty = it.fun.params[i]
    /\ \A i \in 1 .. Len(it.todo) : Converts(p, s, it.todo[i], it.fun.params[Len(it.done) + i])

(* The item it may be reached in g, and is left in h.                       *)
Step(p, c, it, g, h) ==
    /\ it.k # "fundecl"
    /\ it.k \in Nodes =>
            \E ty \in Types \cup {"any"} :
                /\ Typed(p, g.scopes, it, ty)
                /\ Leaves(g, h, {ty}, IF it.k \in {"var", "elem"} THEN {PlaceType(g.scopes, it)} ELSE {})
    /\ it.k \in {"decl", "param"} =>
            /\ it.ty \in VarTypes
            /\ it.k = "param" => it.ty \in ParamTypes
            /\ Len(g.scopes) > 1
            /\ h = Plain(Bound(g.scopes, it.id, VarSig(it.ty)))
    /\ it.k = "exit" => Len(g.scopes) > 1 /\ h = Plain(Front(g.scopes))
    /\ it.k = "implicit" => it.ret = p.fun.ret /\ h = Plain(g.scopes)
    /\ it.k = "br" => it.to \in DOMAIN c /\ h = Plain(g.scopes)
    /\ it.k = "at" => it.bb \in DOMAIN c /\ h = Plain(g.scopes)
    /\ it.k = "branch" =>
            /\ g.val \in Numeric
            /\ Statements(p, g.scopes, it.yes) /\ Statements(p, g.scopes, it.no)
            /\ h = Plain(g.scopes)
    /\ it.k = "body" =>
            /\ g.val \in Numeric
            /\ it.head \in DOMAIN c
            /\ Statements(p, g.scopes, it.body)
            /\ h = Plain(g.scopes)
    /\ it.k = "loop" =>
            /\ it.head \in DOMAIN c /\ it.body \in DOMAIN c
            /\ Value(c, it.cond) /\ it.cond.ty = "i1"
            /\ h = Plain(g.scopes)
    /\ it.k = "returned" =>
            /\ g.val \in Types /\ Convertible(g.val, p.fun.ret) /\ p.fun.ret # "void"
            /\ h = Plain(g.scopes)
    /\ it.k = "checked" =>
            /\ ElementOf(c, it.array)
            /\ g.val \in Types /\ Convertible(g.val, "i32")
            /\ Leaves(g, h, {ElemOf(it.array.ty)}, {ElemOf(it.array.ty)})
    /\ it.k = "address" =>
            /\ ElementOf(c, it.array)
            /\ g.val = "i32"
            /\ Leaves(g, h, {ElemOf(it.array.ty)}, {ElemOf(it.array.ty)})
    /\ it.k = "target" =>
            /\ g.addr \in Types
            /\ Converts(p, g.scopes, it.rhs, g.addr)
            /\ Leaves(g, h, {g.addr}, {})
    /\ it.k = "store" =>
            /\ AddressOfA(c, it.to)
            /\ g.val \in Types /\ Convertible(g.val, it.to.ty)
            /\ Leaves(g, h, {it.to.ty}, {})
    /\ it.k = "right" =>
            /\ it.op \in {"rel", "add", "mul"}
            /\ g.val \in Numeric
            /\ \E r \in Numeric : /\ Typed(p, g.scopes, it.r, r)
                                  /\ Leaves(g, h, {BinaryType(it.op, g.val, r)}, {})
    /\ it.k = "combine" =>
            /\ it.op \in {"rel", "add", "mul"}
            /\ g.val \in Numeric
            /\ Value(c, it.l) /\ it.l.ty \in Numeric
            /\ Leaves(g, h, {BinaryType(it.op, it.l.ty, g.val)}, {})
    /\ it.k \in {"args", "arg"} =>
            /\ Calling(p, c, it, g.scopes)
            /\ it.k = "arg" => /\ it.todo # <<>>
                               /\ g.val \in Types
                               /\ Convertible(g.val, it.fun.params[Len(it.done) + 1])
            /\ Leaves(g, h, {it.fun.ret}, {})

(* The items its, in turn, from g to h.                                     *)
Runs(p, c, its, g, h) ==
    /\ IsList(its)
    /\ \E f : /\ f[1] = g
              /\ f[Len(its) + 1] = h
              /\ \A i \in DOMAIN its : Step(p, c, its[i], f[i], f[i + 1])

LEMMA StepStays ==
    ASSUME NEW p, NEW c, NEW d, Extends(c, d), NEW it, NEW g, NEW h, Step(p, c, it, g, h)
    PROVE  Step(p, d, it, g, h)
<1>1. \A b \in DOMAIN c : b \in DOMAIN d  BY DEF Extends
<1>2. \A v : /\ Value(c, v) => Value(d, v)
             /\ AddressOfA(c, v) => AddressOfA(d, v)
    BY ValueStays
<1>3. \A b : ElementOf(c, b) => ElementOf(d, b)  BY <1>2 DEF ElementOf
<1>4. \A s : Calling(p, c, it, s) => Calling(p, d, it, s)  BY <1>2 DEF Calling
<1> QED BY <1>1, <1>2, <1>3, <1>4, ZenonT(60) DEF Step

LEMMA RunsStay ==
    ASSUME NEW p, NEW c, NEW d, Extends(c, d), NEW its, NEW g, NEW h, Runs(p, c, its, g, h)
    PROVE  Runs(p, d, its, g, h)
BY StepStays DEF Runs

LEMMA RunsNone ==
    ASSUME NEW p, NEW c, NEW g
    PROVE  Runs(p, c, <<>>, g, g)
<1> DEFINE f == [i \in {1} |-> g]
<1>1. IsList(<<>>) /\ Len(<<>>) = 0 /\ DOMAIN <<>> = {}  BY ShortLists
<1>2. f[1] = g /\ f[0 + 1] = g  OBVIOUS
<1> HIDE DEF f
<1> QED BY <1>1, <1>2 DEF Runs

LEMMA RunsOne ==
    ASSUME NEW p, NEW c, NEW it, NEW g, NEW h, Step(p, c, it, g, h)
    PROVE  Runs(p, c, <<it>>, g, h)
<1> DEFINE f == [i \in {1, 2} |-> IF i = 1 THEN g ELSE h]
<1>1. PICK its : its = <<it>>  OBVIOUS
<1>2. IsList(its) /\ Len(its) = 1 /\ its[1] = it  BY <1>1, ShortLists
<1>3. DOMAIN its = {1}  BY <1>1
<1>4. f[1] = g /\ f[1 + 1] = h  OBVIOUS
<1> HIDE DEF f
<1>5. Runs(p, c, its, g, h)  BY <1>2, <1>3, <1>4 DEF Runs
<1> QED BY <1>1, <1>5

LEMMA RunsOn ==
    ASSUME NEW p, NEW c, NEW a, NEW b, NEW g, NEW h, NEW k, Runs(p, c, a, g, h), Runs(p, c, b, h, k)
    PROVE  Runs(p, c, a \o b, g, k)
<1>1. PICK f : f[1] = g /\ f[Len(a) + 1] = h /\ \A i \in DOMAIN a : Step(p, c, a[i], f[i], f[i + 1])
    BY DEF Runs
<1>2. PICK e : e[1] = h /\ e[Len(b) + 1] = k /\ \A i \in DOMAIN b : Step(p, c, b[i], e[i], e[i + 1])
    BY DEF Runs
<1>3. /\ Len(a) \in Nat /\ DOMAIN a = 1 .. Len(a)
      /\ Len(b) \in Nat /\ DOMAIN b = 1 .. Len(b)
    BY ListFacts DEF Runs
<1>4. PICK ab : ab = a \o b  OBVIOUS
<1>5. /\ IsList(ab) /\ Len(ab) = Len(a) + Len(b)
      /\ \A i \in 1 .. Len(a) : ab[i] = a[i]
      /\ \A i \in Len(a) + 1 .. Len(a) + Len(b) : ab[i] = b[i - Len(a)]
    BY <1>4, ConcatList DEF Runs
<1>6. DOMAIN ab = 1 .. Len(a) + Len(b)  BY <1>5, ListFacts
<1>7. PICK m, n : m = Len(a) /\ n = Len(b)  OBVIOUS
<1> DEFINE t == [i \in 1 .. m + n + 1 |-> IF i <= m + 1 THEN f[i] ELSE e[i - m]]
<1>8. m \in Nat /\ n \in Nat  BY <1>3, <1>7
<1>9. \A i \in 1 .. m + 1 : t[i] = f[i]  BY <1>8
<1>10. \A i \in m + 1 .. m + n + 1 : t[i] = e[i - m]
    <2>1. ASSUME NEW i \in m + 1 .. m + n + 1 PROVE t[i] = e[i - m]
        <3>1. CASE i = m + 1
            <4>1. i - m = 1 /\ t[i] = f[m + 1]  BY <1>8, <3>1
            <4> QED BY <1>1, <1>2, <1>7, <4>1
        <3>2. CASE i # m + 1  BY <1>8, <3>2
        <3> QED BY <3>1, <3>2
    <2> QED BY <2>1
<1> HIDE DEF t
<1>11. t[1] = g /\ t[Len(ab) + 1] = k
    <2>1. 1 \in 1 .. m + 1 /\ m + n + 1 \in m + 1 .. m + n + 1 /\ m + n + 1 - m = n + 1  BY <1>8
    <2> QED BY <1>1, <1>2, <1>5, <1>7, <1>9, <1>10, <2>1
<1>12. ASSUME NEW i \in DOMAIN ab PROVE Step(p, c, ab[i], t[i], t[i + 1])
    <2>1. CASE i \in 1 .. m
        <3>1. i \in 1 .. m + 1 /\ i + 1 \in 1 .. m + 1  BY <1>8, <2>1
        <3> QED BY <1>1, <1>3, <1>5, <1>7, <1>9, <2>1, <3>1
    <2>2. CASE i \in m + 1 .. m + n
        <3>1. /\ i \in m + 1 .. m + n + 1 /\ i + 1 \in m + 1 .. m + n + 1
              /\ i - m \in 1 .. n /\ i + 1 - m = i - m + 1
            BY <1>8, <2>2
        <3>2. t[i] = e[i - m] /\ t[i + 1] = e[i - m + 1] /\ ab[i] = b[i - m]
            BY <1>5, <1>7, <1>10, <2>2, <3>1
        <3> QED BY <1>2, <1>3, <1>7, <3>1, <3>2
    <2> QED BY <1>6, <1>7, <1>8, <2>1, <2>2
<1>13. Runs(p, c, ab, g, k)  BY <1>5, <1>11, <1>12 DEF Runs
<1> QED BY <1>4, <1>13

LEMMA RunsHead ==
    ASSUME NEW p, NEW c, NEW its, NEW g, NEW k, Runs(p, c, its, g, k), its # <<>>
    PROVE  \E h : Step(p, c, Head(its), g, h) /\ Runs(p, c, Tail(its), h, k)
<1>1. PICK f : f[1] = g /\ f[Len(its) + 1] = k /\ \A i \in DOMAIN its : Step(p, c, its[i], f[i], f[i + 1])
    BY DEF Runs
<1>2. PICK t : t = Tail(its)  OBVIOUS
<1>3. PICK n : n = Len(its)  OBVIOUS
<1>4. n \in Nat /\ DOMAIN its = 1 .. n /\ n >= 1 /\ Head(its) = its[1]
    BY <1>3, ListFacts, TailList DEF Runs
<1>5. IsList(t) /\ Len(t) = n - 1 /\ \A i \in 1 .. n - 1 : t[i] = its[i + 1]
    BY <1>2, <1>3, TailList DEF Runs
<1>6. DOMAIN t = 1 .. n - 1  BY <1>5, ListFacts
<1> DEFINE e == [i \in 1 .. n |-> f[i + 1]]
<1>7. \A i \in 1 .. n : e[i] = f[i + 1]  OBVIOUS
<1> HIDE DEF e
<1>8. 1 \in 1 .. n /\ n \in 1 .. n /\ n - 1 + 1 = n /\ 1 + 1 = 2  BY <1>4
<1>9. e[1] = f[2] /\ e[Len(t) + 1] = k  BY <1>1, <1>3, <1>5, <1>7, <1>8
<1>10. ASSUME NEW i \in DOMAIN t PROVE Step(p, c, t[i], e[i], e[i + 1])
    <2>1. i \in 1 .. n /\ i + 1 \in 1 .. n  BY <1>4, <1>6
    <2> QED BY <1>1, <1>4, <1>5, <1>6, <1>7, <2>1
<1>11. Runs(p, c, t, f[2], k)  BY <1>5, <1>9, <1>10 DEF Runs
<1>12. Step(p, c, its[1], g, f[2])  BY <1>1, <1>4, <1>8
<1> QED BY <1>2, <1>4, <1>11, <1>12

(* What the typing says of a node.                                          *)
LEMMA TypedRule ==
    ASSUME NEW p, NEW s, NEW e, NEW ty, Typed(p, s, e, ty)
    PROVE  Rule(p, s, e, ty) /\ e.k \in Nodes
<1>1. PICK j : j = [prog |-> p, scopes |-> s, node |-> e, ty |-> ty]  OBVIOUS
<1>2. j \in Typing /\ j.prog = p /\ j.scopes = s /\ j.node = e /\ j.ty = ty  BY <1>1 DEF Typed
<1>3. Rule(p, s, e, ty)  BY <1>2, TypingAssumption
<1>4. e.k \in Nodes  BY <1>3, Zenon DEF Rule, Nodes
<1> QED BY <1>3, <1>4

LEMMA NodeStep ==
    ASSUME NEW p, NEW c, NEW g, NEW e, NEW ty \in Types \cup {"any"}, Typed(p, g.scopes, e, ty),
           NEW v \in {ty, "any"}
    PROVE  Step(p, c, e, g, Config(g.scopes, v, "any"))
<1>1. e.k \in Nodes  BY TypedRule
<1>2. PICK h : h = Config(g.scopes, v, "any")  OBVIOUS
<1>3. h.scopes = g.scopes /\ h.val = v /\ h.addr = "any"  BY <1>2 DEF Config
<1>4. \A as : Leaves(g, h, {ty}, as)  BY <1>2, <1>3 DEF Leaves
<1>5. Step(p, c, e, g, h)  BY <1>1, <1>4 DEF Step, Nodes
<1> QED BY <1>2, <1>5

LEMMA PlaceStep ==
    ASSUME NEW p, NEW c, NEW g, NEW e, e.k \in {"var", "elem"}, NEW ty \in Types, Typed(p, g.scopes, e, ty)
    PROVE  Step(p, c, e, g, Config(g.scopes, "any", PlaceType(g.scopes, e)))
<1>2. PICK h : h = Config(g.scopes, "any", PlaceType(g.scopes, e))  OBVIOUS
<1>3. h.scopes = g.scopes /\ h.val = "any" /\ h.addr = PlaceType(g.scopes, e)  BY <1>2 DEF Config
<1>4. Leaves(g, h, {ty}, {PlaceType(g.scopes, e)})  BY <1>2, <1>3 DEF Leaves
<1>5. Step(p, c, e, g, h)  BY <1>4 DEF Step, Nodes
<1> QED BY <1>2, <1>5

LEMMA StatementsRun ==
    ASSUME NEW p, NEW c, NEW s, NEW es, Statements(p, s, es)
    PROVE  Runs(p, c, es, Plain(s), Plain(s))
<1>1. PICK g : g = Plain(s)  OBVIOUS
<1>2. g.scopes = s  BY <1>1 DEF Plain, Config
<1>3. IsList(es) /\ Len(es) \in Nat /\ DOMAIN es = 1 .. Len(es)  BY ListFacts DEF Statements
<1>4. ASSUME NEW i \in DOMAIN es PROVE Step(p, c, es[i], g, g)
    <2>1. PICK ty \in Types \cup {"any"} : Typed(p, s, es[i], ty)  BY DEF Statements, Has
    <2>2. Step(p, c, es[i], g, Config(g.scopes, "any", "any"))  BY <1>2, <2>1, NodeStep
    <2> QED BY <1>1, <1>2, <2>2 DEF Plain
<1> DEFINE f == [i \in 1 .. Len(es) + 1 |-> g]
<1>5. f[1] = g /\ f[Len(es) + 1] = g /\ \A i \in DOMAIN es : f[i] = g /\ f[i + 1] = g  BY <1>3
<1> HIDE DEF f
<1>6. Runs(p, c, es, g, g)  BY <1>3, <1>4, <1>5 DEF Runs
<1> QED BY <1>1, <1>6

LEMMA DeclarationsRun ==
    ASSUME NEW p, NEW c, NEW s, IsList(s), Len(s) >= 1, NEW ds, IsList(ds),
           \A i \in DOMAIN ds : /\ ds[i].k \in {"decl", "param"}
                                /\ ds[i].ty \in VarTypes
                                /\ ds[i].k = "param" => ds[i].ty \in ParamTypes
    PROVE  Runs(p, c, ds, Plain(Append(s, << >>)), Plain(Append(s, Inside(ds))))
<1>1. Len(ds) \in Nat /\ DOMAIN ds = 1 .. Len(ds)  BY ListFacts
<1> DEFINE at(i) == Plain(Append(s, Opened(<< >>, ds, i - 1)))
           f == [i \in 1 .. Len(ds) + 1 |-> at(i)]
<1>2. \A i \in 1 .. Len(ds) + 1 : f[i] = at(i)  OBVIOUS
<1> HIDE DEF f
<1>3. 1 \in 1 .. Len(ds) + 1 /\ Len(ds) + 1 \in 1 .. Len(ds) + 1 /\ Len(ds) + 1 - 1 = Len(ds) /\ 1 - 1 = 0
    BY <1>1
<1>4. Opened(<< >>, ds, 0) = << >>
    <2>1. << >> = [n \in DOMAIN << >> |-> << >>[n]]  OBVIOUS
    <2> QED BY <2>1, OpenedNone
<1>5. f[1] = Plain(Append(s, << >>))  BY <1>2, <1>3, <1>4
<1>6. f[Len(ds) + 1] = Plain(Append(s, Inside(ds)))  BY <1>2, <1>3 DEF Inside
<1>7. ASSUME NEW i \in DOMAIN ds PROVE Step(p, c, ds[i], f[i], f[i + 1])
    <2>1. i \in Nat /\ i >= 1 /\ i \in 1 .. Len(ds) + 1 /\ i + 1 \in 1 .. Len(ds) + 1 /\ i + 1 - 1 = i
        BY <1>1
    <2>2. PICK o, q : o = Opened(<< >>, ds, i - 1) /\ q = Opened(<< >>, ds, i)  OBVIOUS
    <2>3. q = With(o, ds[i].id, VarSig(ds[i].ty))  BY <2>1, <2>2, OpenedStep
    <2>4. Bound(Append(s, o), ds[i].id, VarSig(ds[i].ty)) = Append(s, q)  BY <2>3, BoundLast
    <2>5. f[i] = Plain(Append(s, o)) /\ f[i + 1] = Plain(Append(s, q))  BY <1>2, <2>1, <2>2
    <2>6. PICK g, h : g = f[i] /\ h = f[i + 1]  OBVIOUS
    <2>7. g.scopes = Append(s, o)  BY <2>5, <2>6 DEF Plain, Config
    <2>8. Len(g.scopes) > 1
        <3>1. Len(s) \in Nat /\ Len(Append(s, o)) = Len(s) + 1  BY ListFacts, AppendList
        <3> QED BY <2>7, <3>1
    <2>9. h = Plain(Bound(g.scopes, ds[i].id, VarSig(ds[i].ty)))  BY <2>4, <2>5, <2>6, <2>7
    <2>10. Step(p, c, ds[i], g, h)  BY <2>8, <2>9 DEF Step, Nodes
    <2> QED BY <2>6, <2>10
<1>8. Runs(p, c, ds, Plain(Append(s, << >>)), Plain(Append(s, Inside(ds))))
    BY <1>5, <1>6, <1>7 DEF Runs
<1> QED BY <1>8

-----------------------------------------------------------------------------
(* The state of the visitor in a function                                   *)

(* What g says holds.                                                       *)
Matches(c, g, s, v, a) ==
    /\ g.scopes = Signatures(s)
    /\ g.val # "any" => v.ty = g.val
    /\ g.addr # "any" => a.ty = g.addr /\ AddressOfA(c, a)

Sound(p, ag, c, bb, s, v, a) ==
    /\ CodeOK(p, c)
    /\ bb \in DOMAIN c
    /\ Value(c, v)
    /\ a.ty \in Types
    /\ ScopeOK(p, c, s)
    /\ \E g, k : Matches(c, g, s, v, a) /\ Runs(p, c, ag, g, k)

(* The item at the head of the agenda, reached in a state g describes, is   *)
(* left in h.                                                               *)
Facing(p, ag, c, bb, s, v, a, g, h) ==
    /\ CodeOK(p, c)
    /\ bb \in DOMAIN c
    /\ Value(c, v)
    /\ a.ty \in Types
    /\ ScopeOK(p, c, s)
    /\ Matches(c, g, s, v, a)
    /\ Step(p, c, Head(ag), g, h)
    /\ \E k : Runs(p, c, Tail(ag), h, k)

LEMMA FacingHead ==
    ASSUME NEW p, NEW ag, NEW c, NEW bb, NEW s, NEW v, NEW a, Sound(p, ag, c, bb, s, v, a), ag # <<>>
    PROVE  \E g, h : Facing(p, ag, c, bb, s, v, a, g, h)
<1>1. PICK g, k : Matches(c, g, s, v, a) /\ Runs(p, c, ag, g, k)  BY DEF Sound
<1>2. PICK h : Step(p, c, Head(ag), g, h) /\ Runs(p, c, Tail(ag), h, k)  BY <1>1, RunsHead
<1> QED BY <1>1, <1>2 DEF Sound, Facing

(* The item is replaced by others that lead from where the visitor has come *)
(* to, to h.                                                                *)
LEMMA Replaced ==
    ASSUME NEW p, NEW ag, NEW c, NEW h, NEW k, Runs(p, c, Tail(ag), h, k),
           NEW d, Extends(c, d), CodeOK(p, d), NEW bb \in DOMAIN d, NEW s, ScopeOK(p, d, s),
           NEW v, Value(d, v), NEW a, a.ty \in Types,
           NEW items, NEW g, Matches(d, g, s, v, a), Runs(p, d, items, g, h)
    PROVE  Sound(p, items \o Tail(ag), d, bb, s, v, a)
<1>1. Runs(p, d, Tail(ag), h, k)  BY RunsStay
<1>2. Runs(p, d, items \o Tail(ag), g, k)  BY <1>1, RunsOn
<1> QED BY <1>2 DEF Sound

(* The item is done.                                                        *)
LEMMA Finished ==
    ASSUME NEW p, NEW ag, NEW c, NEW h, NEW k, Runs(p, c, Tail(ag), h, k),
           NEW d, Extends(c, d), CodeOK(p, d), NEW bb \in DOMAIN d, NEW s, ScopeOK(p, d, s),
           NEW v, Value(d, v), NEW a, a.ty \in Types, Matches(d, h, s, v, a)
    PROVE  Sound(p, <<>> \o Tail(ag), d, bb, s, v, a)
BY RunsNone, Replaced

LEMMA RunsTwo ==
    ASSUME NEW p, NEW c, NEW a, NEW b, NEW g, NEW h, NEW k, Step(p, c, a, g, h), Step(p, c, b, h, k)
    PROVE  Runs(p, c, <<a, b>>, g, k)
<1>1. Runs(p, c, <<a>>, g, h) /\ Runs(p, c, <<b>>, h, k)  BY RunsOne
<1>2. <<a>> \o <<b>> = <<a, b>>  BY ConcatTuple
<1> QED BY <1>1, <1>2, RunsOn

LEMMA ConfigFacts ==
    /\ \A s, v, a : Config(s, v, a).scopes = s /\ Config(s, v, a).val = v /\ Config(s, v, a).addr = a
    /\ \A s : Plain(s).scopes = s /\ Plain(s).val = "any" /\ Plain(s).addr = "any"
BY DEF Config, Plain

LEMMA PlainMatches ==
    ASSUME NEW c, NEW s, NEW v, NEW a
    PROVE  Matches(c, Plain(Signatures(s)), s, v, a)
BY ConfigFacts DEF Matches

LEMMA ValueMatches ==
    ASSUME NEW c, NEW s, NEW v, NEW a, NEW ty \in {v.ty, "any"}
    PROVE  Matches(c, Config(Signatures(s), ty, "any"), s, v, a)
BY ConfigFacts DEF Matches

LEMMA FacingStays ==
    ASSUME NEW p, NEW ag, NEW c, NEW bb, NEW s, NEW v, NEW a, NEW g, NEW h,
           Facing(p, ag, c, bb, s, v, a, g, h), NEW d, Extends(c, d)
    PROVE  /\ g.scopes = Signatures(s)
           /\ bb \in DOMAIN d
           /\ DOMAIN c \subseteq DOMAIN d
           /\ Value(d, v) /\ a.ty \in Types
           /\ ScopeOK(p, d, s)
           /\ \A x : Value(c, x) => Value(d, x)
           /\ \A x : AddressOfA(c, x) => AddressOfA(d, x)
BY ScopeStays, ValueStays DEF Facing, Matches, Extends

(* The item leaves nothing known but the scopes.                            *)
LEMMA FinishedPlain ==
    ASSUME NEW p, NEW ag, NEW c, NEW b, NEW r, NEW w, NEW e, NEW g, NEW h,
           Facing(p, ag, c, b, r, w, e, g, h),
           NEW d, Extends(c, d), CodeOK(p, d), NEW bb \in DOMAIN d, NEW s, ScopeOK(p, d, s),
           NEW v, Value(d, v), NEW a, a.ty \in Types, h = Plain(Signatures(s))
    PROVE  Sound(p, <<>> \o Tail(ag), d, bb, s, v, a)
<1>1. PICK k : Runs(p, c, Tail(ag), h, k)  BY DEF Facing
<1>2. Matches(d, h, s, v, a)  BY PlainMatches
<1> QED BY <1>1, <1>2, Finished

(* It is replaced by items that need nothing known but the scopes.          *)
LEMMA ReplacedPlain ==
    ASSUME NEW p, NEW ag, NEW c, NEW b, NEW r, NEW w, NEW e, NEW g, NEW h,
           Facing(p, ag, c, b, r, w, e, g, h),
           NEW d, Extends(c, d), CodeOK(p, d), NEW bb \in DOMAIN d, NEW s, ScopeOK(p, d, s),
           NEW v, Value(d, v), NEW a, a.ty \in Types,
           NEW items, Runs(p, d, items, Plain(Signatures(s)), h)
    PROVE  Sound(p, items \o Tail(ag), d, bb, s, v, a)
<1>1. PICK k : Runs(p, c, Tail(ag), h, k)  BY DEF Facing
<1>2. Matches(d, Plain(Signatures(s)), s, v, a)  BY PlainMatches
<1> QED BY <1>1, <1>2, Replaced

LEMMA StatementFacing ==
    ASSUME NEW p, NEW ag, NEW c, NEW bb, NEW s, NEW v, NEW a, NEW g, NEW h,
           Facing(p, ag, c, bb, s, v, a, g, h),
           Head(ag).k \in {"block", "empty", "if", "while", "return"}
    PROVE  Rule(p, Signatures(s), Head(ag), "any") /\ h = Plain(Signatures(s))
<1>1. PICK it : it = Head(ag)  OBVIOUS
<1>2. it.k \in Nodes /\ it.k \notin {"var", "elem"}  BY <1>1 DEF Nodes
<1>3. PICK ty \in Types \cup {"any"} : Typed(p, g.scopes, it, ty) /\ Leaves(g, h, {ty}, {})
    BY <1>1, <1>2 DEF Facing, Step
<1>4. g.scopes = Signatures(s)  BY DEF Facing, Matches
<1>5. Rule(p, Signatures(s), it, ty)  BY <1>3, <1>4, TypedRule
<1>6. ty = "any"  BY <1>1, <1>5 DEF Rule
<1>7. h.val = "any" /\ h.addr = "any" /\ h = Config(g.scopes, h.val, h.addr)
    BY <1>3, <1>6 DEF Leaves
<1> QED BY <1>1, <1>4, <1>5, <1>6, <1>7 DEF Plain

LEMMA ExpressionFacing ==
    ASSUME NEW p, NEW ag, NEW c, NEW bb, NEW s, NEW v, NEW a, NEW g, NEW h,
           Facing(p, ag, c, bb, s, v, a, g, h),
           Head(ag).k \in {"num", "assign", "binary", "call"}
    PROVE  \E ty : /\ Rule(p, Signatures(s), Head(ag), ty)
                   /\ h = Config(Signatures(s), h.val, "any")
                   /\ h.val \in {ty, "any"}
<1>1. PICK it : it = Head(ag)  OBVIOUS
<1>2. it.k \in Nodes /\ it.k \notin {"var", "elem"}  BY <1>1 DEF Nodes
<1>3. PICK ty \in Types \cup {"any"} : Typed(p, g.scopes, it, ty) /\ Leaves(g, h, {ty}, {})
    BY <1>1, <1>2 DEF Facing, Step
<1>4. g.scopes = Signatures(s)  BY DEF Facing, Matches
<1>5. Rule(p, Signatures(s), it, ty)  BY <1>3, <1>4, TypedRule
<1>6. h.val \in {ty, "any"} /\ h.addr = "any" /\ h = Config(g.scopes, h.val, h.addr)
    BY <1>3 DEF Leaves
<1> QED BY <1>1, <1>4, <1>5, <1>6

LEMMA PlaceFacing ==
    ASSUME NEW p, NEW ag, NEW c, NEW bb, NEW s, NEW v, NEW a, NEW g, NEW h,
           Facing(p, ag, c, bb, s, v, a, g, h),
           Head(ag).k \in {"var", "elem"}
    PROVE  \E ty : /\ Rule(p, Signatures(s), Head(ag), ty)
                   /\ h = Config(Signatures(s), h.val, h.addr)
                   /\ h.val \in {ty, "any"}
                   /\ h.addr \in {PlaceType(Signatures(s), Head(ag)), "any"}
<1>1. PICK it : it = Head(ag)  OBVIOUS
<1>2. it.k \in Nodes  BY <1>1 DEF Nodes
<1>3. PICK ty \in Types \cup {"any"} :
        Typed(p, g.scopes, it, ty) /\ Leaves(g, h, {ty}, {PlaceType(g.scopes, it)})
    BY <1>1, <1>2 DEF Facing, Step
<1>4. g.scopes = Signatures(s)  BY DEF Facing, Matches
<1>5. Rule(p, Signatures(s), it, ty)  BY <1>3, <1>4, TypedRule
<1>6. /\ h.val \in {ty, "any"} /\ h.addr \in {PlaceType(g.scopes, it), "any"}
      /\ h = Config(g.scopes, h.val, h.addr)
    BY <1>3 DEF Leaves
<1> QED BY <1>1, <1>4, <1>5, <1>6

Working ==
    /\ prog \in Programs
    /\ ~ aborted
    /\ Sound(prog, agenda, code, cur, scope, val, addr)

-----------------------------------------------------------------------------
(* Each action                                                              *)

LEMMA CreateBrWorks == ASSUME Working, CreateBr PROVE Working'
<1>1. PICK g, h : Facing(prog, agenda, code, cur, scope, val, addr, g, h)
    BY FacingHead DEF Working, CreateBr, At
<1>2. PICK it : it = Head(agenda)  OBVIOUS
<1>3. it.k = "br" /\ code' = Put(code, cur, Br(it.to)) /\ agenda' = <<>> \o Tail(agenda)
    BY <1>2 DEF CreateBr, At, Now, Then
<1>4. it.to \in DOMAIN code /\ h = Plain(g.scopes)  BY <1>1, <1>2, <1>3 DEF Facing, Step
<1>5. CodeOK(prog, code) /\ cur \in DOMAIN code  BY <1>1 DEF Facing
<1>6. CodeOK(prog, code') /\ Extends(code, code')
    BY <1>3, <1>4, <1>5, BrOK, PutOK DEF Grows
<1>7. Sound(prog, <<>> \o Tail(agenda), code', cur, scope, val, addr)
    BY <1>1, <1>4, <1>6, FacingStays, FinishedPlain
<1> QED BY <1>3, <1>7 DEF Working, CreateBr, Keep

LEMMA SetInsertPointWorks == ASSUME Working, SetInsertPoint PROVE Working'
<1>1. PICK g, h : Facing(prog, agenda, code, cur, scope, val, addr, g, h)
    BY FacingHead DEF Working, SetInsertPoint, At
<1>2. PICK it : it = Head(agenda)  OBVIOUS
<1>3. it.k = "at" /\ cur' = it.bb /\ agenda' = <<>> \o Tail(agenda)
    BY <1>2 DEF SetInsertPoint, At, Now, Then
<1>4. it.bb \in DOMAIN code /\ h = Plain(g.scopes)  BY <1>1, <1>2, <1>3 DEF Facing, Step
<1>5. CodeOK(prog, code)  BY <1>1 DEF Facing
<1>6. Sound(prog, <<>> \o Tail(agenda), code, cur', scope, val, addr)
    BY <1>1, <1>3, <1>4, <1>5, ExtendsItself, FacingStays, FinishedPlain
<1> QED BY <1>3, <1>6 DEF Working, SetInsertPoint, Keep

LEMMA ExitScopeWorks == ASSUME Working, ExitScope PROVE Working'
<1>1. PICK g, h : Facing(prog, agenda, code, cur, scope, val, addr, g, h)
    BY FacingHead DEF Working, ExitScope, At
<1>2. PICK it : it = Head(agenda)  OBVIOUS
<1>3. it.k = "exit" /\ scope' = Front(scope) /\ agenda' = <<>> \o Tail(agenda)
    BY <1>2 DEF ExitScope, At, Now, Then
<1>4. Len(g.scopes) > 1 /\ h = Plain(Front(g.scopes))  BY <1>1, <1>2, <1>3 DEF Facing, Step
<1>5. CodeOK(prog, code) /\ cur \in DOMAIN code /\ g.scopes = Signatures(scope) /\ ScopeOK(prog, code, scope)
    BY <1>1 DEF Facing, Matches
<1>6. IsList(scope) /\ Len(scope) > 1 /\ Len(scope) >= 1
    BY <1>4, <1>5, SignatureFacts, ListFacts DEF ScopeOK
<1>7. ScopeOK(prog, code, scope') /\ h = Plain(Signatures(scope'))
    BY <1>3, <1>4, <1>5, <1>6, ScopeLeft, SignaturesFront
<1>8. Sound(prog, <<>> \o Tail(agenda), code, cur, scope', val, addr)
    BY <1>1, <1>5, <1>7, ExtendsItself, FacingStays, FinishedPlain
<1> QED BY <1>3, <1>8 DEF Working, ExitScope, Keep

LEMMA PutExtends ==
    ASSUME NEW p, NEW c, CodeOK(p, c), NEW bb \in DOMAIN c, NEW inst, InstOK(p, c, inst),
           NEW d, d = Put(c, bb, inst)
    PROVE  CodeOK(p, d) /\ Extends(c, d) /\ bb \in DOMAIN d
BY PutOK DEF Grows, Extends

(* The space of a variable, and the binding of its name.                    *)
LEMMA VariableMade ==
    ASSUME NEW p, NEW c, CodeOK(p, c), NEW bb \in DOMAIN c, NEW ty \in VarTypes, NEW inst, inst.ty = ty,
           InstOK(p, c, inst), TypeOfInst(inst) = I!Pointer(IrType(ty)), NEW d, d = Put(c, bb, inst)
    PROVE  /\ CodeOK(p, d) /\ Extends(c, d) /\ bb \in DOMAIN d
           /\ AddressOfA(d, LastOf(d, bb)) /\ LastOf(d, bb).ty = ty
           /\ \A n : BindingOK(p, d, n, VarBinding(ty, LastOf(d, bb).from))
<1>4. CodeOK(p, d) /\ Grows(c, d, bb) /\ LastOf(d, bb).ty = ty /\ AddressOfA(d, LastOf(d, bb))
    BY PutAddress
<1>5. Extends(c, d) /\ bb \in DOMAIN d  BY <1>4 DEF Grows, Extends
<1>6. PICK v : v = LastOf(d, bb)  OBVIOUS
<1>7. v = [ty |-> v.ty, from |-> v.from]  BY <1>6 DEF LastOf
<1>8. PICK b : b = VarBinding(ty, v.from)  OBVIOUS
<1>9. b.kind = "var" /\ [ty |-> b.ty, from |-> b.from] = v  BY <1>4, <1>6, <1>7, <1>8 DEF VarBinding
<1>10. \A n : BindingOK(p, d, n, b)  BY <1>4, <1>6, <1>9, Zenon DEF BindingOK
<1> QED BY <1>4, <1>5, <1>6, <1>8, <1>10

LEMMA VisitVarDeclarationWorks == ASSUME Working, VisitVarDeclaration PROVE Working'
<1>1. PICK g, h : Facing(prog, agenda, code, cur, scope, val, addr, g, h)
    BY FacingHead DEF Working, VisitVarDeclaration, At
<1>2. PICK it : it = Head(agenda)  OBVIOUS
<1>3. it.k = "decl" /\ agenda' = <<>> \o Tail(agenda)
    BY <1>2 DEF VisitVarDeclaration, At, Now, Then
<1>4. it.ty \in VarTypes /\ Len(g.scopes) > 1 /\ h = Plain(Bound(g.scopes, it.id, VarSig(it.ty)))
    BY <1>1, <1>2, <1>3 DEF Facing, Step
<1>5. CodeOK(prog, code) /\ cur \in DOMAIN code /\ g.scopes = Signatures(scope) /\ ScopeOK(prog, code, scope)
    BY <1>1 DEF Facing, Matches
<1>6. IsList(scope) /\ Len(scope) \in Nat /\ Len(scope) > 1 /\ Len(scope) >= 1
    BY <1>4, <1>5, SignatureFacts, ListFacts DEF ScopeOK
<1>7. PICK inst : inst = Inst("alloca", it.ty, <<>>, <<>>, it.cell)  OBVIOUS
<1>8. inst.ty = it.ty /\ InstOK(prog, code, inst) /\ TypeOfInst(inst) = I!Pointer(IrType(it.ty))
    BY <1>4, <1>7, AllocaOK DEF Inst
<1>9. Len(scope) # 1
    <2>1. PICK n : n = Len(scope)  OBVIOUS
    <2>2. n \in Nat /\ n > 1  BY <1>6, <2>1
    <2>3. n # 1  BY <2>2
    <2> QED BY <2>1, <2>3
<1>10. PICK d : d = Put(code, cur, inst)  OBVIOUS
<1>11. code' = d /\ scope' = Bound(scope, it.id, VarBinding(it.ty, LastOf(d, cur).from))
    BY <1>2, <1>7, <1>9, <1>10, Zenon DEF VisitVarDeclaration, Now
<1>12. /\ code' = Put(code, cur, inst)
       /\ scope' = Bound(scope, it.id, VarBinding(it.ty, LastOf(code', cur).from))
    BY <1>10, <1>11
<1>13. /\ CodeOK(prog, code') /\ Extends(code, code') /\ cur \in DOMAIN code'
       /\ BindingOK(prog, code', it.id, VarBinding(it.ty, LastOf(code', cur).from))
    BY <1>4, <1>5, <1>8, <1>12, VariableMade
<1>14. ScopeOK(prog, code', scope')  BY <1>1, <1>12, <1>13, FacingStays, ScopeFilled
<1>15. h = Plain(Signatures(scope'))
    BY <1>4, <1>5, <1>6, <1>12, SignaturesBound, BindingSignature
<1>16. Sound(prog, <<>> \o Tail(agenda), code', cur, scope', val, addr)
    BY <1>1, <1>13, <1>14, <1>15, FacingStays, FinishedPlain
<1> QED BY <1>3, <1>16 DEF Working, VisitVarDeclaration, Keep

LEMMA ArgumentValue ==
    ASSUME NEW c, NEW ty \in ParamTypes, NEW cell, NEW a, a = [ty |-> ty, from |-> <<"arg", cell>>]
    PROVE  Value(c, a) /\ a.ty = ty
<1>1. a.ty = ty /\ a.from[1] = "arg"  BY SMT
<1>2. TypeOfValue(c, a) = IrType(ty) /\ Known(c, a)  BY <1>1 DEF TypeOfValue, Known
<1> QED BY <1>1, <1>2 DEF Value, ParamTypes, Types

LEMMA VisitParamWorks == ASSUME Working, VisitParam PROVE Working'
<1>1. PICK g, h : Facing(prog, agenda, code, cur, scope, val, addr, g, h)
    BY FacingHead DEF Working, VisitParam, At
<1>2. PICK it : it = Head(agenda)  OBVIOUS
<1>3. it.k = "param" /\ agenda' = <<>> \o Tail(agenda)
    BY <1>2 DEF VisitParam, At, Now, Then
<1>4. /\ it.ty \in VarTypes /\ it.ty \in ParamTypes
      /\ Len(g.scopes) > 1 /\ h = Plain(Bound(g.scopes, it.id, VarSig(it.ty)))
    BY <1>1, <1>2, <1>3 DEF Facing, Step
<1>5. CodeOK(prog, code) /\ cur \in DOMAIN code /\ g.scopes = Signatures(scope) /\ ScopeOK(prog, code, scope)
    BY <1>1 DEF Facing, Matches
<1>6. IsList(scope) /\ Len(scope) > 1 /\ Len(scope) >= 1
    BY <1>4, <1>5, SignatureFacts, ListFacts DEF ScopeOK
<1>7. PICK inst : inst = Inst("alloca", it.ty, <<>>, <<>>, it.cell)  OBVIOUS
<1>8. inst.ty = it.ty /\ InstOK(prog, code, inst) /\ TypeOfInst(inst) = I!Pointer(IrType(it.ty))
    BY <1>7, <1>4, AllocaOK DEF Inst
<1>9. PICK d : d = Put(code, cur, inst)  OBVIOUS
<1>10. PICK a : a = [ty |-> it.ty, from |-> <<"arg", it.cell>>]  OBVIOUS
<1>11. PICK q : q = LastOf(d, cur)  OBVIOUS
<1>12. PICK store : store = Inst("store", "void", <<a, q>>, <<>>, "")  OBVIOUS
<1>13. /\ code' = Put(d, cur, store)
       /\ scope' = Bound(scope, it.id, VarBinding(it.ty, q.from))
    BY <1>7, <1>2, <1>12, <1>9, <1>10, <1>11 DEF VisitParam, Now
<1>14. /\ CodeOK(prog, d) /\ Extends(code, d) /\ cur \in DOMAIN d
       /\ AddressOfA(d, q) /\ q.ty = it.ty
       /\ BindingOK(prog, d, it.id, VarBinding(it.ty, q.from))
    BY <1>4, <1>5, <1>9, <1>11, <1>8, VariableMade
<1>15. InstOK(prog, d, store)
    BY <1>4, <1>10, <1>14, <1>12, ArgumentValue, StoreOK
<1>16. CodeOK(prog, code') /\ Extends(d, code') /\ cur \in DOMAIN code'
    BY <1>13, <1>14, <1>15, PutExtends
<1>17. Extends(code, code')  BY <1>14, <1>16, ExtendsFurther
<1>18. ScopeOK(prog, d, scope')  BY <1>1, <1>13, <1>14, FacingStays, ScopeFilled
<1>19. ScopeOK(prog, code', scope')  BY <1>16, <1>18, ScopeStays
<1>20. h = Plain(Signatures(scope'))
    <2>1. PICK b : b = VarBinding(it.ty, q.from)  OBVIOUS
    <2>2. scope' = Bound(scope, it.id, b) /\ Signature(b) = VarSig(it.ty)  BY <1>13, <2>1, BindingSignature
    <2>3. Signatures(scope') = Bound(g.scopes, it.id, VarSig(it.ty))  BY <1>5, <1>6, <2>2, SignaturesBound
    <2> QED BY <1>4, <2>3
<1>21. Sound(prog, <<>> \o Tail(agenda), code', cur, scope', val, addr)
    BY <1>1, <1>16, <1>17, <1>19, <1>20, FacingStays, FinishedPlain
<1> QED BY <1>3, <1>21 DEF Working, VisitParam, Keep

LEMMA ConstantValue ==
    ASSUME NEW c, NEW ty \in Types
    PROVE  Value(c, Const(ty)) /\ Const(ty).ty = ty
<1>1. PICK a : a = Const(ty)  OBVIOUS
<1>2. a.ty = ty /\ a.from[1] = "const"  BY <1>1, SMT DEF Const
<1>3. TypeOfValue(c, a) = IrType(ty) /\ Known(c, a)  BY <1>2 DEF TypeOfValue, Known
<1> QED BY <1>1, <1>2, <1>3 DEF Value

LEMMA FunctionRule ==
    ASSUME NEW p \in Programs
    PROVE  p.fun.ret \in {"i32", "float", "void"} /\ p.fun.ret \in Types
BY TypingAssumption DEF ProgramRule, Types

LEMMA ImplicitReturnWorks == ASSUME Working, ImplicitReturn PROVE Working'
<1>1. PICK g, h : Facing(prog, agenda, code, cur, scope, val, addr, g, h)
    BY FacingHead DEF Working, ImplicitReturn, At
<1>2. PICK it : it = Head(agenda)  OBVIOUS
<1>3. it.k = "implicit" /\ agenda' = <<>> \o Tail(agenda)
    BY <1>2 DEF ImplicitReturn, At, Now, Then
<1>4. it.ret = prog.fun.ret /\ h = Plain(g.scopes)  BY <1>1, <1>2, <1>3 DEF Facing, Step
<1>5. CodeOK(prog, code) /\ cur \in DOMAIN code  BY <1>1 DEF Facing
<1>6. it.ret \in {"i32", "float", "void"} /\ it.ret \in Types  BY <1>4, FunctionRule DEF Working
<1>7. CodeOK(prog, code') /\ Extends(code, code')
    <2>1. CASE it.ret = "void"
        <3>1. code' = Put(code, cur, Inst("ret", "void", <<>>, <<>>, ""))
            BY <1>2, <2>1 DEF ImplicitReturn, Now
        <3>2. InstOK(prog, code, Inst("ret", "void", <<>>, <<>>, ""))  BY <1>4, <2>1, ReturnVoidOK
        <3> QED BY <1>5, <3>1, <3>2, PutExtends
    <2>2. CASE it.ret \in {"i32", "float"}
        <3>1. PICK inst : inst = Inst("ret", "void", <<Const(it.ret)>>, <<>>, "")  OBVIOUS
        <3>2. code' = Put(code, cur, inst)  BY <1>2, <2>2, <3>1 DEF ImplicitReturn, Now
        <3>3. Value(code, Const(it.ret)) /\ Const(it.ret).ty = it.ret  BY <1>6, ConstantValue
        <3>4. PICK v : v = Const(it.ret)  OBVIOUS
        <3>5. InstOK(prog, code, Inst("ret", "void", <<v>>, <<>>, ""))
            BY <1>4, <2>2, <3>3, <3>4, ReturnOK
        <3>6. InstOK(prog, code, inst)  BY <3>1, <3>4, <3>5
        <3> QED BY <1>5, <3>2, <3>6, PutExtends
    <2> QED BY <1>6, <2>1, <2>2
<1>8. Sound(prog, <<>> \o Tail(agenda), code', cur, scope, val, addr)
    BY <1>1, <1>4, <1>7, FacingStays, FinishedPlain
<1> QED BY <1>3, <1>8 DEF Working, ImplicitReturn, Keep

LEMMA ScopesFacing ==
    ASSUME NEW p, NEW ag, NEW c, NEW bb, NEW s, NEW v, NEW a, NEW g, NEW h,
           Facing(p, ag, c, bb, s, v, a, g, h)
    PROVE  /\ CodeOK(p, c) /\ bb \in DOMAIN c /\ ScopeOK(p, c, s)
           /\ g.scopes = Signatures(s)
           /\ IsList(s) /\ Len(s) >= 1
           /\ IsList(Signatures(s)) /\ Len(Signatures(s)) = Len(s) /\ Len(s) \in Nat
BY SignatureFacts, ListFacts DEF Facing, Matches, ScopeOK

LEMMA AppendConcat ==
    ASSUME NEW s, IsList(s), NEW e
    PROVE  Append(s, e) = s \o <<e>>
<1>1. PICK t, u, w : t = <<e>> /\ u = s \o t /\ w = Append(s, e)  OBVIOUS
<1>2. IsList(t) /\ Len(t) = 1 /\ t[1] = e  BY <1>1, ShortLists
<1>3. Len(s) \in Nat  BY ListFacts
<1>4. /\ IsList(u) /\ Len(u) = Len(s) + Len(t)
      /\ \A i \in 1 .. Len(s) : u[i] = s[i]
      /\ \A i \in 1 .. Len(t) : u[Len(s) + i] = t[i]
    BY <1>1, <1>2, ConcatList
<1>5. /\ IsList(w) /\ Len(w) = Len(s) + 1
      /\ \A i \in 1 .. Len(s) : w[i] = s[i]
      /\ w[Len(s) + 1] = e
    BY <1>1, AppendList
<1>6. u[Len(s) + 1] = e  BY <1>2, <1>4
<1>7. \A i \in 1 .. Len(s) + 1 : i \in 1 .. Len(s) \/ i = Len(s) + 1  BY <1>3
<1>8. \A i \in 1 .. Len(s) + 1 : u[i] = w[i]  BY <1>4, <1>5, <1>6, <1>7
<1>9. u = w  BY <1>2, <1>4, <1>5, <1>8, EqualLists
<1> QED BY <1>1, <1>9

LEMMA FrontAppend ==
    ASSUME NEW s, IsList(s), NEW e
    PROVE  Front(Append(s, e)) = s
<1>1. PICK t : t = Append(s, e)  OBVIOUS
<1>2. PICK u : u = Front(t)  OBVIOUS
<1>3. Len(s) \in Nat  BY ListFacts
<1>4. IsList(t) /\ Len(t) = Len(s) + 1 /\ \A i \in 1 .. Len(s) : t[i] = s[i]  BY <1>1, AppendList
<1>5. Len(t) >= 1 /\ Len(t) - 1 = Len(s)  BY <1>3, <1>4
<1>6. IsList(u) /\ Len(u) = Len(t) - 1 /\ \A i \in 1 .. Len(t) - 1 : u[i] = t[i]
    BY <1>2, <1>4, <1>5, FrontList
<1>7. \A i \in 1 .. Len(u) : u[i] = s[i]  BY <1>4, <1>5, <1>6
<1>8. u = s  BY <1>5, <1>6, <1>7, EqualLists
<1> QED BY <1>1, <1>2, <1>8

LEMMA RunsSingle ==
    ASSUME NEW p, NEW c, NEW its, IsList(its), Len(its) = 1, NEW g, NEW h, Step(p, c, its[1], g, h)
    PROVE  Runs(p, c, its, g, h)
<1>1. PICK t : t = <<its[1]>>  OBVIOUS
<1>2. IsList(t) /\ Len(t) = 1 /\ t[1] = its[1]  BY <1>1, ShortLists
<1>3. \A i \in 1 .. Len(its) : i = 1  OBVIOUS
<1>4. \A i \in 1 .. Len(its) : its[i] = t[i]  BY <1>2, <1>3
<1>5. its = t  BY <1>2, <1>4, EqualLists
<1> QED BY <1>1, <1>5, RunsOne

LEMMA VisitCompoundStmtWorks == ASSUME Working, VisitCompoundStmt PROVE Working'
<1>1. PICK g, h : Facing(prog, agenda, code, cur, scope, val, addr, g, h)
    BY FacingHead DEF Working, VisitCompoundStmt, At
<1>2. PICK it : it = Head(agenda)  OBVIOUS
<1>3. PICK e : e = [k |-> "exit"]  OBVIOUS
<1>4. /\ it.k = "block" /\ scope' = Append(scope, << >>)
      /\ agenda' = Append(it.decls \o it.stmts, e) \o Tail(agenda)
    BY <1>2, <1>3 DEF VisitCompoundStmt, At, Now, Then, Scoped
<1>5. PICK S : S = Signatures(scope)  OBVIOUS
<1>6. Rule(prog, S, it, "any") /\ h = Plain(S)  BY <1>1, <1>2, <1>4, <1>5, StatementFacing
<1>7. /\ IsList(it.decls)
      /\ \A i \in DOMAIN it.decls : it.decls[i].k = "decl" /\ it.decls[i].ty \in LocalTypes
      /\ Statements(prog, Append(S, Inside(it.decls)), it.stmts)
    BY <1>4, <1>6 DEF Rule
<1>8. /\ CodeOK(prog, code) /\ cur \in DOMAIN code /\ ScopeOK(prog, code, scope)
      /\ IsList(scope) /\ IsList(S) /\ Len(S) >= 1
    BY <1>1, <1>5, ScopesFacing
<1>9. Runs(prog, code, it.decls, Plain(Append(S, << >>)), Plain(Append(S, Inside(it.decls))))
    BY <1>7, <1>8, DeclarationsRun DEF VarTypes
<1>10. Runs(prog, code, it.stmts, Plain(Append(S, Inside(it.decls))), Plain(Append(S, Inside(it.decls))))
    BY <1>7, StatementsRun
<1>11. Runs(prog, code, <<e>>, Plain(Append(S, Inside(it.decls))), Plain(S))
    <2>1. PICK T : T = Append(S, Inside(it.decls))  OBVIOUS
    <2>2. Len(T) > 1 /\ Front(T) = S  BY <1>8, <2>1, AppendList, FrontAppend, ListFacts
    <2>3. Step(prog, code, e, Plain(T), Plain(S))
        BY <1>3, <2>2, ConfigFacts DEF Step, Nodes
    <2> QED BY <2>1, <2>3, RunsOne
<1>12. Runs(prog, code, (it.decls \o it.stmts) \o <<e>>, Plain(Append(S, << >>)), Plain(S))
    BY <1>9, <1>10, <1>11, RunsOn
<1>13. Append(it.decls \o it.stmts, e) = (it.decls \o it.stmts) \o <<e>>
    BY <1>7, ConcatList, AppendConcat DEF Statements
<1>14. Signatures(scope') = Append(S, << >>)
    BY <1>4, <1>5, <1>8, SignaturesAppend, EmptyScope, Zenon
<1>15. ScopeOK(prog, code, scope')  BY <1>4, <1>8, ScopeEntered
<1>16. PICK items : items = Append(it.decls \o it.stmts, e)  OBVIOUS
<1>17. Runs(prog, code, items, Plain(Signatures(scope')), h)
    BY <1>6, <1>12, <1>13, <1>14, <1>16, Zenon
<1>18. Extends(code, code) /\ Value(code, val) /\ addr.ty \in Types
    BY <1>1, ExtendsItself, FacingStays
<1>19. Sound(prog, items \o Tail(agenda), code, cur, scope', val, addr)
    BY <1>1, <1>8, <1>15, <1>17, <1>18, ReplacedPlain
<1> QED BY <1>4, <1>16, <1>19 DEF Working, VisitCompoundStmt, Keep

LEMMA VisitExpressionStmtWorks == ASSUME Working, VisitExpressionStmt PROVE Working'
<1>1. PICK g, h : Facing(prog, agenda, code, cur, scope, val, addr, g, h)
    BY FacingHead DEF Working, VisitExpressionStmt, At
<1>2. PICK it : it = Head(agenda)  OBVIOUS
<1>3. it.k = "empty" /\ agenda' = <<>> \o Tail(agenda)
    BY <1>2 DEF VisitExpressionStmt, At, Now, Plan, Then
<1>4. h = Plain(Signatures(scope))  BY <1>1, <1>2, <1>3, StatementFacing
<1>5. Sound(prog, <<>> \o Tail(agenda), code, cur, scope, val, addr)
    BY <1>1, <1>4, ScopesFacing, ExtendsItself, FacingStays, FinishedPlain
<1> QED BY <1>3, <1>5 DEF Working, VisitExpressionStmt, Plan, Keep

LEMMA VisitSelectionStmtWorks == ASSUME Working, VisitSelectionStmt PROVE Working'
<1>1. PICK g, h : Facing(prog, agenda, code, cur, scope, val, addr, g, h)
    BY FacingHead DEF Working, VisitSelectionStmt, At
<1>2. PICK it : it = Head(agenda)  OBVIOUS
<1>3. PICK e : e = [k |-> "branch", yes |-> it.yes, no |-> it.no]  OBVIOUS
<1>4. it.k = "if" /\ agenda' = <<it.cond, e>> \o Tail(agenda)
    BY <1>2, <1>3 DEF VisitSelectionStmt, At, Now, Plan, Then
<1>5. PICK S : S = Signatures(scope)  OBVIOUS
<1>6. Rule(prog, S, it, "any") /\ h = Plain(S)  BY <1>1, <1>2, <1>4, <1>5, StatementFacing
<1>7. Has(prog, S, it.cond, Numeric) /\ Statements(prog, S, it.yes) /\ Statements(prog, S, it.no)
    BY <1>4, <1>6 DEF Rule
<1>8. PICK t \in Numeric : Typed(prog, S, it.cond, t)  BY <1>7 DEF Has
<1>9. Step(prog, code, it.cond, Plain(S), Config(S, t, "any"))
    BY <1>8, ConfigFacts, NodeStep, ZenonT(60) DEF Numeric, Types
<1>10. Step(prog, code, e, Config(S, t, "any"), Plain(S))
    BY <1>3, <1>7, ConfigFacts DEF Step, Nodes
<1>11. Runs(prog, code, <<it.cond, e>>, Plain(S), Plain(S))  BY <1>9, <1>10, RunsTwo
<1>12. Sound(prog, <<it.cond, e>> \o Tail(agenda), code, cur, scope, val, addr)
    BY <1>1, <1>5, <1>6, <1>11, ScopesFacing, ExtendsItself, FacingStays, ReplacedPlain
<1> QED BY <1>4, <1>12 DEF Working, VisitSelectionStmt, Plan, Keep

LEMMA FreshBlocks ==
    ASSUME NEW p, NEW c, CodeOK(p, c), NEW k \in Nat, NEW d, d = WithBlocks(c, k)
    PROVE  /\ CodeOK(p, d) /\ Extends(c, d)
           /\ DOMAIN c \subseteq DOMAIN d
           /\ \A i \in 1 .. k : Len(c) + i \in DOMAIN d
<1>1. CodeOK(p, d) /\ Extends(c, d)  BY WithBlocksOK
<1>2. DOMAIN d = 1 .. Len(c) + k /\ Len(c) \in Nat
    BY WithBlocksFacts DEF CodeOK
<1>3. \A i \in 1 .. k : Len(c) + i \in 1 .. Len(c) + k  BY <1>2
<1> QED BY <1>1, <1>2, <1>3 DEF Extends

LEMMA VisitIterationStmtWorks == ASSUME Working, VisitIterationStmt PROVE Working'
<1>1. PICK g, h : Facing(prog, agenda, code, cur, scope, val, addr, g, h)
    BY FacingHead DEF Working, VisitIterationStmt, At
<1>2. PICK it : it = Head(agenda)  OBVIOUS
<1>3. PICK n : n = Len(code) + 1  OBVIOUS
<1>4. PICK d : d = WithBlocks(code, 1)  OBVIOUS
<1>5. PICK e : e = [k |-> "body", head |-> n, body |-> it.body]  OBVIOUS
<1>6. /\ it.k = "while" /\ agenda' = <<it.cond, e>> \o Tail(agenda)
      /\ code' = Put(d, cur, Br(n)) /\ cur' = n
    BY <1>2, <1>5, <1>3, <1>4 DEF VisitIterationStmt, At, Now, Then, Fresh
<1>7. PICK S : S = Signatures(scope)  OBVIOUS
<1>8. Rule(prog, S, it, "any") /\ h = Plain(S)  BY <1>1, <1>2, <1>6, <1>7, StatementFacing
<1>9. Has(prog, S, it.cond, Numeric) /\ Statements(prog, S, it.body)
    BY <1>6, <1>8 DEF Rule
<1>10. PICK t \in Numeric : Typed(prog, S, it.cond, t)  BY <1>9 DEF Has
<1>11. CodeOK(prog, code) /\ cur \in DOMAIN code  BY <1>1, ScopesFacing
<1>12. CodeOK(prog, d) /\ Extends(code, d) /\ cur \in DOMAIN d /\ n \in DOMAIN d
    BY <1>11, <1>3, <1>4, FreshBlocks
<1>13. PICK inst : inst = Br(n)  OBVIOUS
<1>14. InstOK(prog, d, inst)  BY <1>12, <1>13, BrOK
<1>15. CodeOK(prog, code') /\ Extends(d, code')  BY <1>6, <1>12, <1>13, <1>14, PutExtends
<1>16. Extends(code, code') /\ n \in DOMAIN code'  BY <1>12, <1>15, ExtendsFurther DEF Extends
<1>17. Step(prog, code', it.cond, Plain(S), Config(S, t, "any"))
    BY <1>10, ConfigFacts, NodeStep, ZenonT(60) DEF Numeric, Types
<1>18. Step(prog, code', e, Config(S, t, "any"), Plain(S))
    BY <1>5, <1>9, <1>16, ConfigFacts DEF Step, Nodes
<1>19. Runs(prog, code', <<it.cond, e>>, Plain(S), Plain(S))  BY <1>17, <1>18, RunsTwo
<1>20. ScopeOK(prog, code', scope) /\ Value(code', val) /\ addr.ty \in Types
    BY <1>1, <1>16, FacingStays
<1>21. Sound(prog, <<it.cond, e>> \o Tail(agenda), code', n, scope, val, addr)
    BY <1>1, <1>7, <1>8, <1>15, <1>16, <1>19, <1>20, ReplacedPlain
<1> QED BY <1>6, <1>21 DEF Working, VisitIterationStmt, Keep

LEMMA ArmRuns ==
    ASSUME NEW p, NEW c, NEW s, NEW es, Statements(p, s, es), NEW bb \in DOMAIN c, NEW to \in DOMAIN c
    PROVE  Runs(p, c, Arm(bb, es, to), Plain(s), Plain(s))
<1>1. PICK a, b : a = Place(bb) /\ b = Goto(to)  OBVIOUS
<1>2. a.k = "at" /\ a.bb = bb /\ b.k = "br" /\ b.to = to  BY <1>1 DEF Place, Goto
<1>3. Step(p, c, a, Plain(s), Plain(s)) /\ Step(p, c, b, Plain(s), Plain(s))
    BY <1>2, ConfigFacts DEF Step, Nodes
<1>4. Runs(p, c, <<a>>, Plain(s), Plain(s)) /\ Runs(p, c, <<b>>, Plain(s), Plain(s))
    BY <1>3, RunsOne
<1>5. Runs(p, c, (<<a>> \o es) \o <<b>>, Plain(s), Plain(s))  BY <1>4, StatementsRun, RunsOn
<1> QED BY <1>1, <1>5 DEF Arm

LEMMA PlaceRuns ==
    ASSUME NEW p, NEW c, NEW s, NEW bb \in DOMAIN c
    PROVE  Runs(p, c, <<Place(bb)>>, Plain(s), Plain(s))
<1>1. PICK a : a = Place(bb)  OBVIOUS
<1>2. a.k = "at" /\ a.bb = bb  BY <1>1 DEF Place
<1>3. Step(p, c, a, Plain(s), Plain(s))  BY <1>2, ConfigFacts DEF Step, Nodes
<1> QED BY <1>1, <1>3, RunsOne

(* The value a condition leaves, compared with zero.                        *)
LEMMA ComparedFacing ==
    ASSUME NEW p, NEW ag, NEW c, NEW bb, NEW s, NEW v, NEW a, NEW g, NEW h,
           Facing(p, ag, c, bb, s, v, a, g, h), g.val \in Numeric, NEW x, x = compareWith0(c, bb, v)
    PROVE  /\ CodeOK(p, x.c) /\ Extends(c, x.c) /\ Len(x.c) = Len(c)
           /\ bb \in DOMAIN x.c
           /\ Value(x.c, x.v) /\ x.v.ty = "i1"
<1>1. v.ty \in Numeric  BY DEF Facing, Matches, Numeric
<1>2. CodeOK(p, c) /\ bb \in DOMAIN c /\ Value(c, v)  BY DEF Facing
<1>3. CodeOK(p, x.c) /\ Grows(c, x.c, bb) /\ Value(x.c, x.v) /\ x.v.ty = "i1"
    BY <1>1, <1>2, CompareOK
<1> QED BY <1>2, <1>3 DEF Grows, Extends

LEMMA BranchWorks == ASSUME Working, Branch PROVE Working'
<1>1. PICK g, h : Facing(prog, agenda, code, cur, scope, val, addr, g, h)
    BY FacingHead DEF Working, Branch, At
<1>2. PICK it : it = Head(agenda)  OBVIOUS
<1>3. PICK x : x = compareWith0(code, cur, val)  OBVIOUS
<1>4. it.k = "branch"  BY <1>2 DEF Branch, At, Now
<1>5. PICK S : S = Signatures(scope)  OBVIOUS
<1>6. g.val \in Numeric /\ Statements(prog, S, it.yes) /\ Statements(prog, S, it.no) /\ h = Plain(S)
    BY <1>1, <1>2, <1>4, <1>5 DEF Facing, Step, Matches
<1>7. /\ CodeOK(prog, x.c) /\ Extends(code, x.c) /\ Len(x.c) = Len(code)
      /\ cur \in DOMAIN x.c
      /\ Value(x.c, x.v) /\ x.v.ty = "i1"
    BY <1>1, <1>3, <1>6, ComparedFacing
<1>8. PICK yes, next, no : yes = Len(code) + 1 /\ next = Len(code) + 2 /\ no = Len(code) + 3  OBVIOUS
<1>9. ASSUME NEW d, CodeOK(prog, d), Extends(x.c, d), NEW to \in DOMAIN d, yes \in DOMAIN d, cur \in DOMAIN d,
             code' = Put(d, cur, CondBr(x.v, yes, to))
      PROVE  CodeOK(prog, code') /\ Extends(code, code') /\ DOMAIN d \subseteq DOMAIN code'
    <2>1. PICK inst : inst = CondBr(x.v, yes, to)  OBVIOUS
    <2>2. Value(d, x.v)  BY <1>7, <1>9, ValueStays
    <2>3. InstOK(prog, d, inst)  BY <1>7, <1>9, <2>1, <2>2, CondBrOK
    <2>4. CodeOK(prog, code') /\ Extends(d, code')  BY <1>9, <2>1, <2>3, PutExtends
    <2>5. Extends(x.c, code')  BY <1>9, <2>4, ExtendsFurther
    <2> QED BY <1>7, <2>4, <2>5, ExtendsFurther DEF Extends
<1>10. \E items : /\ agenda' = items \o Tail(agenda)
                  /\ CodeOK(prog, code') /\ Extends(code, code')
                  /\ Runs(prog, code', items, Plain(S), Plain(S))
    <2>1. CASE it.no = <<>>
        <3>1. PICK d : d = WithBlocks(x.c, 2)  OBVIOUS
        <3>2. PICK items : items = Arm(yes, it.yes, next) \o <<Place(next)>>  OBVIOUS
        <3>3. code' = Put(d, cur, CondBr(x.v, yes, next)) /\ agenda' = items \o Tail(agenda)
            BY <1>2, <1>3, <1>8, <2>1, <3>1, <3>2 DEF Branch, Now, Then, Fresh
        <3>4. 2 \in Nat /\ 1 \in 1 .. 2 /\ 2 \in 1 .. 2  OBVIOUS
        <3>5. /\ CodeOK(prog, d) /\ Extends(x.c, d) /\ DOMAIN x.c \subseteq DOMAIN d
              /\ yes \in DOMAIN d /\ next \in DOMAIN d
            <4>1. PICK y : y = x.c  OBVIOUS
            <4>2. /\ CodeOK(prog, d) /\ Extends(y, d) /\ DOMAIN y \subseteq DOMAIN d
                  /\ \A i \in 1 .. 2 : Len(y) + i \in DOMAIN d
                <5>1. PICK m \in Nat : m = 2  OBVIOUS
                <5>2. CodeOK(prog, y) /\ d = WithBlocks(y, m)  BY <1>7, <3>1, <4>1, <5>1
                <5>3. /\ CodeOK(prog, d) /\ Extends(y, d) /\ DOMAIN y \subseteq DOMAIN d
                      /\ \A i \in 1 .. m : Len(y) + i \in DOMAIN d
                    BY <5>2, FreshBlocks
                <5> QED BY <5>1, <5>3
            <4> QED BY <1>7, <1>8, <3>4, <4>1, <4>2
        <3>6. CodeOK(prog, code') /\ Extends(code, code') /\ DOMAIN d \subseteq DOMAIN code'
            BY <1>7, <1>9, <3>3, <3>5
        <3>7. /\ Runs(prog, code', Arm(yes, it.yes, next), Plain(S), Plain(S))
              /\ Runs(prog, code', <<Place(next)>>, Plain(S), Plain(S))
            BY <1>6, <3>5, <3>6, ArmRuns, PlaceRuns
        <3>8. Runs(prog, code', items, Plain(S), Plain(S))  BY <3>2, <3>7, RunsOn
        <3> QED BY <3>3, <3>6, <3>8
    <2>2. CASE it.no # <<>>
        <3>1. PICK d : d = WithBlocks(x.c, 3)  OBVIOUS
        <3>2. PICK items : items = (Arm(yes, it.yes, next) \o Arm(no, it.no, next)) \o <<Place(next)>>  OBVIOUS
        <3>3. code' = Put(d, cur, CondBr(x.v, yes, no)) /\ agenda' = items \o Tail(agenda)
            BY <1>2, <1>3, <1>8, <2>2, <3>1, <3>2 DEF Branch, Now, Then, Fresh
        <3>4. 3 \in Nat /\ 1 \in 1 .. 3 /\ 2 \in 1 .. 3 /\ 3 \in 1 .. 3  OBVIOUS
        <3>5. /\ CodeOK(prog, d) /\ Extends(x.c, d) /\ DOMAIN x.c \subseteq DOMAIN d
              /\ yes \in DOMAIN d /\ next \in DOMAIN d /\ no \in DOMAIN d
            <4>1. PICK y : y = x.c  OBVIOUS
            <4>2. /\ CodeOK(prog, d) /\ Extends(y, d) /\ DOMAIN y \subseteq DOMAIN d
                  /\ \A i \in 1 .. 3 : Len(y) + i \in DOMAIN d
                <5>1. PICK m \in Nat : m = 3  OBVIOUS
                <5>2. CodeOK(prog, y) /\ d = WithBlocks(y, m)  BY <1>7, <3>1, <4>1, <5>1
                <5>3. /\ CodeOK(prog, d) /\ Extends(y, d) /\ DOMAIN y \subseteq DOMAIN d
                      /\ \A i \in 1 .. m : Len(y) + i \in DOMAIN d
                    BY <5>2, FreshBlocks
                <5> QED BY <5>1, <5>3
            <4> QED BY <1>7, <1>8, <3>4, <4>1, <4>2
        <3>6. CodeOK(prog, code') /\ Extends(code, code') /\ DOMAIN d \subseteq DOMAIN code'
            BY <1>7, <1>9, <3>3, <3>5
        <3>7. /\ Runs(prog, code', Arm(yes, it.yes, next), Plain(S), Plain(S))
              /\ Runs(prog, code', Arm(no, it.no, next), Plain(S), Plain(S))
              /\ Runs(prog, code', <<Place(next)>>, Plain(S), Plain(S))
            BY <1>6, <3>5, <3>6, ArmRuns, PlaceRuns
        <3>8. Runs(prog, code', items, Plain(S), Plain(S))  BY <3>2, <3>7, RunsOn
        <3> QED BY <3>3, <3>6, <3>8
    <2> QED BY <2>1, <2>2
<1>11. PICK items : /\ agenda' = items \o Tail(agenda)
                    /\ CodeOK(prog, code') /\ Extends(code, code')
                    /\ Runs(prog, code', items, Plain(S), Plain(S))
    BY <1>10
<1>12. ScopeOK(prog, code', scope) /\ Value(code', val) /\ addr.ty \in Types /\ cur \in DOMAIN code'
    BY <1>1, <1>11, FacingStays
<1>13. Sound(prog, items \o Tail(agenda), code', cur, scope, val, addr)
    BY <1>1, <1>5, <1>6, <1>11, <1>12, ReplacedPlain
<1> QED BY <1>11, <1>13 DEF Working, Branch, Keep

LEMMA LoopBodyWorks == ASSUME Working, LoopBody PROVE Working'
<1>1. PICK g, h : Facing(prog, agenda, code, cur, scope, val, addr, g, h)
    BY FacingHead DEF Working, LoopBody, At
<1>2. PICK it : it = Head(agenda)  OBVIOUS
<1>3. PICK x : x = compareWith0(code, cur, val)  OBVIOUS
<1>4. PICK n : n = Len(code) + 1  OBVIOUS
<1>5. PICK e : e = [k |-> "loop", head |-> it.head, body |-> n, cond |-> x.v]  OBVIOUS
<1>6. PICK items : items = Arm(n, it.body, it.head) \o <<e>>  OBVIOUS
<1>7. it.k = "body" /\ code' = WithBlocks(x.c, 1) /\ agenda' = items \o Tail(agenda)
    BY <1>2, <1>3, <1>4, <1>5, <1>6 DEF LoopBody, At, Now, Then, Fresh
<1>8. PICK S : S = Signatures(scope)  OBVIOUS
<1>9. g.val \in Numeric /\ it.head \in DOMAIN code /\ Statements(prog, S, it.body) /\ h = Plain(S)
    BY <1>1, <1>2, <1>7, <1>8 DEF Facing, Step, Matches
<1>10. /\ CodeOK(prog, x.c) /\ Extends(code, x.c) /\ Len(x.c) = Len(code)
       /\ cur \in DOMAIN x.c
       /\ Value(x.c, x.v) /\ x.v.ty = "i1"
    BY <1>1, <1>3, <1>9, ComparedFacing
<1>11. PICK y, v : y = x.c /\ v = x.v  OBVIOUS
<1>12. CodeOK(prog, y) /\ code' = WithBlocks(y, 1)  BY <1>7, <1>10, <1>11
<1>13. CodeOK(prog, code') /\ Extends(y, code') /\ Len(y) + 1 \in DOMAIN code'  BY <1>12, FreshBlocks
<1>14. Extends(code, code') /\ n \in DOMAIN code' /\ it.head \in DOMAIN code' /\ Value(code', v) /\ v.ty = "i1"
    <2>1. Extends(code, y) /\ Len(y) = Len(code) /\ Value(y, v) /\ v.ty = "i1"  BY <1>10, <1>11
    <2>2. Extends(code, code') /\ Value(code', v)  BY <1>13, <2>1, ExtendsFurther, ValueStays
    <2>3. DOMAIN code \subseteq DOMAIN code'  BY <2>2 DEF Extends
    <2> QED BY <1>4, <1>9, <1>13, <2>1, <2>2, <2>3
<1>15. Step(prog, code', e, Plain(S), Plain(S))
    BY <1>5, <1>11, <1>14, ConfigFacts DEF Step, Nodes
<1>16. Runs(prog, code', Arm(n, it.body, it.head), Plain(S), Plain(S))  BY <1>9, <1>14, ArmRuns
<1>17. Runs(prog, code', items, Plain(S), Plain(S))  BY <1>6, <1>15, <1>16, RunsOne, RunsOn
<1>18. ScopeOK(prog, code', scope) /\ Value(code', val) /\ addr.ty \in Types /\ cur \in DOMAIN code'
    BY <1>1, <1>14, FacingStays
<1>19. Sound(prog, items \o Tail(agenda), code', cur, scope, val, addr)
    BY <1>1, <1>8, <1>9, <1>13, <1>14, <1>17, <1>18, ReplacedPlain
<1> QED BY <1>7, <1>19 DEF Working, LoopBody, Keep

LEMMA LoopBranchWorks == ASSUME Working, LoopBranch PROVE Working'
<1>1. PICK g, h : Facing(prog, agenda, code, cur, scope, val, addr, g, h)
    BY FacingHead DEF Working, LoopBranch, At
<1>2. PICK it : it = Head(agenda)  OBVIOUS
<1>3. PICK n, d : n = Len(code) + 1 /\ d = WithBlocks(code, 1)  OBVIOUS
<1>4. PICK inst : inst = CondBr(it.cond, it.body, n)  OBVIOUS
<1>5. it.k = "loop" /\ code' = Put(d, it.head, inst) /\ cur' = n /\ agenda' = <<>> \o Tail(agenda)
    BY <1>2, <1>3, <1>4 DEF LoopBranch, At, Now, Then, Fresh
<1>6. /\ it.head \in DOMAIN code /\ it.body \in DOMAIN code
      /\ Value(code, it.cond) /\ it.cond.ty = "i1"
      /\ h = Plain(Signatures(scope))
    BY <1>1, <1>2, <1>5 DEF Facing, Step, Matches
<1>7. CodeOK(prog, code)  BY <1>1, ScopesFacing
<1>8. CodeOK(prog, d) /\ Extends(code, d) /\ DOMAIN code \subseteq DOMAIN d /\ n \in DOMAIN d
    BY <1>3, <1>7, FreshBlocks
<1>9. it.head \in DOMAIN d /\ it.body \in DOMAIN d /\ Value(d, it.cond)  BY <1>6, <1>8, ValueStays
<1>10. PICK v : v = it.cond  OBVIOUS
<1>11. InstOK(prog, d, inst)  BY <1>4, <1>6, <1>8, <1>9, <1>10, CondBrOK
<1>12. CodeOK(prog, code') /\ Extends(d, code')  BY <1>5, <1>8, <1>9, <1>11, PutExtends
<1>13. Extends(code, code') /\ n \in DOMAIN code'  BY <1>8, <1>12, ExtendsFurther DEF Extends
<1>14. ScopeOK(prog, code', scope) /\ Value(code', val) /\ addr.ty \in Types  BY <1>1, <1>13, FacingStays
<1>15. Sound(prog, <<>> \o Tail(agenda), code', n, scope, val, addr)
    BY <1>1, <1>6, <1>12, <1>13, <1>14, FinishedPlain
<1> QED BY <1>5, <1>15 DEF Working, LoopBranch, Keep

LEMMA VisitReturnStmtWorks == ASSUME Working, VisitReturnStmt PROVE Working'
<1>1. PICK g, h : Facing(prog, agenda, code, cur, scope, val, addr, g, h)
    BY FacingHead DEF Working, VisitReturnStmt, At
<1>2. PICK it : it = Head(agenda)  OBVIOUS
<1>3. it.k = "return"  BY <1>2 DEF VisitReturnStmt, At, Now
<1>4. PICK S : S = Signatures(scope)  OBVIOUS
<1>5. Rule(prog, S, it, "any") /\ h = Plain(S)  BY <1>1, <1>2, <1>3, <1>4, StatementFacing
<1>6. /\ \/ it.value = <<>> /\ prog.fun.ret = "void"
         \/ Len(it.value) = 1 /\ prog.fun.ret # "void"
      /\ IsList(it.value)
      /\ \A i \in DOMAIN it.value : Converts(prog, S, it.value[i], prog.fun.ret)
    BY <1>3, <1>5 DEF Rule
<1>7. CodeOK(prog, code) /\ cur \in DOMAIN code  BY <1>1, ScopesFacing
<1>8. CASE it.value = <<>>
    <2>1. prog.fun.ret = "void"
        <3>1. Len(<<>>) = 0  BY ShortLists
        <3> QED BY <1>6, <1>8, <3>1
    <2>2. PICK inst : inst = Inst("ret", "void", <<>>, <<>>, "")  OBVIOUS
    <2>3. code' = Put(code, cur, inst) /\ agenda' = <<>> \o Tail(agenda)
        BY <1>2, <1>8, <2>2 DEF VisitReturnStmt, Now, Then
    <2>4. InstOK(prog, code, inst)  BY <2>1, <2>2, ReturnVoidOK
    <2>5. CodeOK(prog, code') /\ Extends(code, code')  BY <1>7, <2>3, <2>4, PutExtends
    <2>6. Sound(prog, <<>> \o Tail(agenda), code', cur, scope, val, addr)
        BY <1>1, <1>4, <1>5, <2>5, FacingStays, FinishedPlain
    <2> QED BY <2>3, <2>6 DEF Working, VisitReturnStmt, Keep
<1>9. CASE it.value # <<>>
    <2>1. Len(it.value) = 1 /\ prog.fun.ret # "void"  BY <1>6, <1>9
    <2>2. PICK e : e = [k |-> "returned"]  OBVIOUS
    <2>3. code' = code /\ agenda' = (it.value \o <<e>>) \o Tail(agenda)
        BY <1>2, <1>9, <2>2 DEF VisitReturnStmt, Now, Then
    <2>4. 1 \in DOMAIN it.value  BY <1>6, <2>1, ListFacts
    <2>5. PICK t \in Types : Typed(prog, S, it.value[1], t) /\ Convertible(t, prog.fun.ret)
        BY <1>6, <2>4, AdmittedConverts
    <2>6. Step(prog, code, it.value[1], Plain(S), Config(S, t, "any"))
        BY <2>5, ConfigFacts, NodeStep
    <2>7. Step(prog, code, e, Config(S, t, "any"), Plain(S))
        BY <2>1, <2>2, <2>5, ConfigFacts DEF Step, Nodes
    <2>8. Runs(prog, code, it.value \o <<e>>, Plain(S), Plain(S))
        BY <1>6, <2>1, <2>6, <2>7, RunsSingle, RunsOne, RunsOn
    <2>9. Sound(prog, (it.value \o <<e>>) \o Tail(agenda), code, cur, scope, val, addr)
        BY <1>1, <1>4, <1>5, <1>7, <2>8, ScopesFacing, ExtendsItself, FacingStays, ReplacedPlain
    <2> QED BY <2>3, <2>9 DEF Working, VisitReturnStmt, Keep
<1> QED BY <1>8, <1>9

(* The value the visit of an expression left, converted.                    *)
LEMMA ConvertedFacing ==
    ASSUME NEW p, NEW ag, NEW c, NEW bb, NEW s, NEW v, NEW a, NEW g, NEW h,
           Facing(p, ag, c, bb, s, v, a, g, h), NEW to, g.val \in Types, Convertible(g.val, to),
           NEW x, x = typeConvert(c, bb, v, to)
    PROVE  /\ Convertible(v.ty, to)
           /\ CodeOK(p, x.c) /\ Extends(c, x.c) /\ Len(x.c) = Len(c)
           /\ bb \in DOMAIN x.c
           /\ Value(x.c, x.v) /\ x.v.ty = to
<1>1. v.ty = g.val  BY DEF Facing, Matches, Types
<1>2. CodeOK(p, c) /\ bb \in DOMAIN c /\ Value(c, v)  BY DEF Facing
<1>3. CodeOK(p, x.c) /\ Grows(c, x.c, bb) /\ Value(x.c, x.v) /\ x.v.ty = to
    BY <1>1, <1>2, ConvertOK
<1> QED BY <1>1, <1>2, <1>3 DEF Grows, Extends

LEMMA ReturnedWorks == ASSUME Working, Returned PROVE Working'
<1>1. PICK g, h : Facing(prog, agenda, code, cur, scope, val, addr, g, h)
    BY FacingHead DEF Working, Returned, At
<1>2. PICK it : it = Head(agenda)  OBVIOUS
<1>3. it.k = "returned"  BY <1>2 DEF Returned, At, Now
<1>4. PICK ret : ret = prog.fun.ret  OBVIOUS
<1>5. g.val \in Types /\ Convertible(g.val, ret) /\ ret # "void" /\ h = Plain(Signatures(scope))
    BY <1>1, <1>2, <1>3, <1>4 DEF Facing, Step, Matches
<1>6. PICK x : x = typeConvert(code, cur, val, ret)  OBVIOUS
<1>7. /\ Convertible(val.ty, ret)
      /\ CodeOK(prog, x.c) /\ Extends(code, x.c) /\ cur \in DOMAIN x.c
      /\ Value(x.c, x.v) /\ x.v.ty = ret
    BY <1>1, <1>5, <1>6, ConvertedFacing
<1>8. PICK y, v : y = x.c /\ v = x.v  OBVIOUS
<1>9. PICK inst : inst = Inst("ret", "void", <<v>>, <<>>, "")  OBVIOUS
<1>10. Yield(Put(y, cur, inst), v)
    BY <1>4, <1>6, <1>7, <1>8, <1>9, Zenon DEF Returned, returnValueType
<1>11. CodeOK(prog, y) /\ Extends(code, y) /\ cur \in DOMAIN y /\ Value(y, v) /\ v.ty = ret
    BY <1>7, <1>8
<1>12. InstOK(prog, y, inst)
    <2>1. ret \in {"i32", "float"}  BY <1>4, <1>5, FunctionRule DEF Working
    <2> QED BY <1>4, <1>9, <1>11, <2>1, ReturnOK
<1>13. code' = Put(y, cur, inst) /\ val' = v /\ agenda' = <<>> \o Tail(agenda)
    BY <1>10 DEF Yield, Then
<1>14. CodeOK(prog, code') /\ Extends(y, code')  BY <1>11, <1>12, <1>13, PutExtends
<1>15. Extends(code, code') /\ Value(code', v)  BY <1>11, <1>14, ExtendsFurther, ValueStays
<1>16. Sound(prog, <<>> \o Tail(agenda), code', cur, scope, v, addr)
    BY <1>1, <1>5, <1>14, <1>15, FacingStays, FinishedPlain
<1> QED BY <1>10, <1>13, <1>16 DEF Working, Yield, Keep

-----------------------------------------------------------------------------
(* Expressions                                                              *)

(* The item leaves a value of the type h says.                              *)
LEMMA FinishedValue ==
    ASSUME NEW p, NEW ag, NEW c, NEW b, NEW r, NEW w, NEW e, NEW g, NEW h,
           Facing(p, ag, c, b, r, w, e, g, h),
           NEW d, Extends(c, d), CodeOK(p, d), NEW bb \in DOMAIN d, NEW s, ScopeOK(p, d, s),
           NEW v, Value(d, v), NEW a, a.ty \in Types,
           h = Config(Signatures(s), h.val, "any"), h.val \in {v.ty, "any"}
    PROVE  Sound(p, <<>> \o Tail(ag), d, bb, s, v, a)
<1>1. PICK k : Runs(p, c, Tail(ag), h, k)  BY DEF Facing
<1>2. Matches(d, h, s, v, a)  BY ValueMatches
<1> QED BY <1>1, <1>2, Finished

(* It is replaced by items that need the type of the value.                 *)
LEMMA ReplacedValue ==
    ASSUME NEW p, NEW ag, NEW c, NEW b, NEW r, NEW w, NEW e, NEW g, NEW h,
           Facing(p, ag, c, b, r, w, e, g, h),
           NEW d, Extends(c, d), CodeOK(p, d), NEW bb \in DOMAIN d, NEW s, ScopeOK(p, d, s),
           NEW v, Value(d, v), NEW a, a.ty \in Types,
           NEW items, Runs(p, d, items, Config(Signatures(s), v.ty, "any"), h)
    PROVE  Sound(p, items \o Tail(ag), d, bb, s, v, a)
<1>1. PICK k : Runs(p, c, Tail(ag), h, k)  BY DEF Facing
<1>2. Matches(d, Config(Signatures(s), v.ty, "any"), s, v, a)  BY ValueMatches
<1> QED BY <1>1, <1>2, Replaced

(* The item leaves a value and the address of a variable.                   *)
LEMMA FinishedPlace ==
    ASSUME NEW p, NEW ag, NEW c, NEW b, NEW r, NEW w, NEW e, NEW g, NEW h,
           Facing(p, ag, c, b, r, w, e, g, h),
           NEW d, Extends(c, d), CodeOK(p, d), NEW bb \in DOMAIN d, NEW s, ScopeOK(p, d, s),
           NEW v, Value(d, v), NEW a, AddressOfA(d, a),
           h = Config(Signatures(s), h.val, h.addr), h.val \in {v.ty, "any"}, h.addr \in {a.ty, "any"}
    PROVE  Sound(p, <<>> \o Tail(ag), d, bb, s, v, a)
<1>1. PICK k : Runs(p, c, Tail(ag), h, k)  BY DEF Facing
<1>2. h.scopes = Signatures(s)  BY ConfigFacts
<1>3. Matches(d, h, s, v, a)  BY <1>2 DEF Matches
<1>4. a.ty \in Types  BY DEF AddressOfA, VarTypes, LocalTypes, ParamTypes, Types
<1> QED BY <1>1, <1>3, <1>4, Finished

LEMMA VisitNumWorks == ASSUME Working, VisitNum PROVE Working'
<1>1. PICK g, h : Facing(prog, agenda, code, cur, scope, val, addr, g, h)
    BY FacingHead DEF Working, VisitNum, At
<1>2. PICK it : it = Head(agenda)  OBVIOUS
<1>3. it.k = "num" /\ Yield(code, Const(it.ty))  BY <1>2 DEF VisitNum, At, Now
<1>4. PICK ty : /\ Rule(prog, Signatures(scope), it, ty)
                /\ h = Config(Signatures(scope), h.val, "any")
                /\ h.val \in {ty, "any"}
    BY <1>1, <1>2, <1>3, ExpressionFacing
<1>5. ty = it.ty /\ ty \in {"i32", "float"}  BY <1>3, <1>4 DEF Rule
<1>6. PICK v : v = Const(it.ty)  OBVIOUS
<1>7. Value(code, v) /\ v.ty = ty  BY <1>5, <1>6, ConstantValue DEF Types
<1>8. code' = code /\ val' = v /\ agenda' = <<>> \o Tail(agenda)  BY <1>3, <1>6 DEF Yield, Then
<1>9. Sound(prog, <<>> \o Tail(agenda), code, cur, scope, v, addr)
    BY <1>1, <1>4, <1>7, ScopesFacing, ExtendsItself, FacingStays, FinishedValue
<1> QED BY <1>3, <1>8, <1>9 DEF Working, Yield, Keep

(* The end of ASTVar.                                                       *)
LEMMA LoadedWorks ==
    ASSUME NEW p, NEW c, CodeOK(p, c), cur \in DOMAIN c, NEW a, AddressOfA(c, a), Loaded(c, a)
    PROVE  /\ addr' = a
           /\ CodeOK(p, code') /\ Extends(c, code') /\ cur \in DOMAIN code'
           /\ Value(code', val')
           /\ val'.ty = IF IsArray(a.ty) THEN PointerTo(a.ty) ELSE a.ty
           /\ AddressOfA(code', a)
<1>1. PICK l, i : l = Inst("load", a.ty, <<a>>, <<>>, "")
                  /\ i = Inst("gep", PointerTo(a.ty), <<a, Const("i32")>>, <<>>, "")
    OBVIOUS
<1>2. PICK d, e : d = Put(c, cur, l) /\ e = Put(d, cur, i)  OBVIOUS
<1>3. /\ addr' = a
      /\ code' = IF IsArray(a.ty) THEN e ELSE d
      /\ val' = LastOf(code', cur)
    BY <1>1, <1>2 DEF Loaded
<1>4. l.ty = a.ty /\ InstOK(p, c, l) /\ TypeOfInst(l) = IrType(l.ty)
    BY <1>1, LoadOK DEF Inst
<1>5. CodeOK(p, d) /\ Extends(c, d) /\ cur \in DOMAIN d  BY <1>2, <1>4, PutExtends
<1>6. AddressOfA(d, a)  BY <1>5, ValueStays
<1>7. CASE ~ IsArray(a.ty)
    <2>1. LastOf(d, cur).ty = l.ty /\ Value(d, LastOf(d, cur))  BY <1>2, <1>4, PutValue
    <2> QED BY <1>3, <1>4, <1>5, <1>6, <1>7, <2>1
<1>8. CASE IsArray(a.ty)
    <2>1. i.ty = PointerTo(a.ty) /\ InstOK(p, d, i) /\ TypeOfInst(i) = IrType(i.ty)
        BY <1>1, <1>6, <1>8, DecayOK DEF Inst
    <2>2. CodeOK(p, e) /\ Extends(d, e) /\ cur \in DOMAIN e  BY <1>2, <1>5, <2>1, PutExtends
    <2>3. LastOf(e, cur).ty = i.ty /\ Value(e, LastOf(e, cur))  BY <1>2, <1>5, <2>1, PutValue
    <2>4. Extends(c, e) /\ AddressOfA(e, a)  BY <1>5, <1>6, <2>2, ExtendsFurther, ValueStays
    <2> QED BY <1>3, <1>8, <2>1, <2>2, <2>3, <2>4
<1> QED BY <1>7, <1>8

LEMMA VariableFound ==
    ASSUME NEW p, NEW c, NEW s, ScopeOK(p, c, s), NEW id, IsVar(Signatures(s), id)
    PROVE  LET b == s[Innermost(s, id)][id]
           IN  /\ AddressOfA(c, [ty |-> b.ty, from |-> b.from])
               /\ b.ty = Meaning(Signatures(s), id).ty
<1>1. PICK b : b = s[Innermost(s, id)][id]  OBVIOUS
<1>2. IsBound(Signatures(s), id) /\ Meaning(Signatures(s), id).kind = "var"  BY DEF IsVar
<1>3. /\ Innermost(s, id) \in DOMAIN s /\ id \in DOMAIN s[Innermost(s, id)]
      /\ Signature(b) = Meaning(Signatures(s), id)
    BY <1>1, <1>2, FoundBinding DEF ScopeOK
<1>4. BindingOK(p, c, id, b)  BY <1>1, <1>3 DEF ScopeOK
<1>5. b.kind # "fun"  BY <1>2, <1>3, BindingSignature
<1>6. AddressOfA(c, [ty |-> b.ty, from |-> b.from])  BY <1>4, <1>5 DEF BindingOK
<1>7. Signature(b) = VarSig(b.ty)  BY <1>5 DEF Signature
<1>8. b.ty = Meaning(Signatures(s), id).ty  BY <1>3, <1>7 DEF VarSig
<1> QED BY <1>1, <1>6, <1>8

LEMMA VisitVarWorks == ASSUME Working, VisitVar PROVE Working'
<1>1. PICK g, h : Facing(prog, agenda, code, cur, scope, val, addr, g, h)
    BY FacingHead DEF Working, VisitVar, At
<1>2. PICK it : it = Head(agenda)  OBVIOUS
<1>3. PICK b : b = scope[Innermost(scope, it.id)][it.id]  OBVIOUS
<1>4. PICK a : a = [ty |-> b.ty, from |-> b.from]  OBVIOUS
<1>5. it.k = "var" /\ Loaded(code, a) /\ agenda' = <<>> \o Tail(agenda)
    BY <1>2, <1>3, <1>4 DEF VisitVar, At, Now, Then, Find
<1>6. PICK S : S = Signatures(scope)  OBVIOUS
<1>7. PICK ty : /\ Rule(prog, S, it, ty)
                /\ h = Config(S, h.val, h.addr)
                /\ h.val \in {ty, "any"}
                /\ h.addr \in {PlaceType(S, it), "any"}
    BY <1>1, <1>2, <1>5, <1>6, PlaceFacing
<1>8. IsVar(S, it.id)  BY <1>5, <1>7 DEF Rule
<1>9. CodeOK(prog, code) /\ cur \in DOMAIN code /\ ScopeOK(prog, code, scope)  BY <1>1, ScopesFacing
<1>10. AddressOfA(code, a) /\ b.ty = Meaning(S, it.id).ty  BY <1>3, <1>4, <1>6, <1>8, <1>9, VariableFound
<1>11. a.ty = b.ty  BY <1>4
<1>12. ty = (IF IsArray(a.ty) THEN PointerTo(a.ty) ELSE a.ty) /\ PlaceType(S, it) = a.ty
    BY <1>5, <1>7, <1>10, <1>11 DEF Rule, PlaceType
<1>13. /\ addr' = a
       /\ CodeOK(prog, code') /\ Extends(code, code') /\ cur \in DOMAIN code'
       /\ Value(code', val')
       /\ val'.ty = IF IsArray(a.ty) THEN PointerTo(a.ty) ELSE a.ty
       /\ AddressOfA(code', a)
    BY <1>5, <1>9, <1>10, LoadedWorks
<1>14. ScopeOK(prog, code', scope)  BY <1>1, <1>13, FacingStays
<1>15. PICK v : v = val'  OBVIOUS
<1>16. Value(code', v) /\ h.val \in {v.ty, "any"} /\ h.addr \in {a.ty, "any"}
    BY <1>7, <1>12, <1>13, <1>15
<1>17. Sound(prog, <<>> \o Tail(agenda), code', cur, scope, v, a)
    BY <1>1, <1>6, <1>7, <1>13, <1>14, <1>16, FinishedPlace
<1> QED BY <1>5, <1>13, <1>15, <1>17 DEF Working, VisitVar, Keep

LEMMA VisitElementWorks == ASSUME Working, VisitElement PROVE Working'
<1>1. PICK g, h : Facing(prog, agenda, code, cur, scope, val, addr, g, h)
    BY FacingHead DEF Working, VisitElement, At
<1>2. PICK it : it = Head(agenda)  OBVIOUS
<1>3. PICK b : b = scope[Innermost(scope, it.id)][it.id]  OBVIOUS
<1>4. PICK e : e = [k |-> "checked", array |-> b]  OBVIOUS
<1>5. it.k = "elem" /\ agenda' = <<it.index, e>> \o Tail(agenda)
    BY <1>2, <1>3, <1>4 DEF VisitElement, At, Now, Plan, Then, Find
<1>6. PICK S : S = Signatures(scope)  OBVIOUS
<1>7. PICK ty : /\ Rule(prog, S, it, ty)
                /\ h = Config(S, h.val, h.addr)
                /\ h.val \in {ty, "any"}
                /\ h.addr \in {PlaceType(S, it), "any"}
    BY <1>1, <1>2, <1>5, <1>6, PlaceFacing
<1>8. /\ IsVar(S, it.id) /\ Meaning(S, it.id).ty \notin {"i32", "float"}
      /\ Converts(prog, S, it.index, "i32")
      /\ ty = PlaceType(S, it)
    BY <1>5, <1>7 DEF Rule
<1>9. CodeOK(prog, code) /\ cur \in DOMAIN code /\ ScopeOK(prog, code, scope)  BY <1>1, ScopesFacing
<1>10. AddressOfA(code, [ty |-> b.ty, from |-> b.from]) /\ b.ty = Meaning(S, it.id).ty
    BY <1>3, <1>6, <1>8, <1>9, VariableFound
<1>11. ElementOf(code, b)  BY <1>8, <1>10, Zenon DEF ElementOf
<1>12. PlaceType(S, it) = ElemOf(b.ty)  BY <1>5, <1>10 DEF PlaceType
<1>13. PICK t \in Types : Typed(prog, S, it.index, t) /\ Convertible(t, "i32")  BY <1>8, AdmittedConverts
<1>14. Step(prog, code, it.index, Plain(S), Config(S, t, "any"))  BY <1>13, ConfigFacts, NodeStep
<1>15. PICK f : f = Config(S, t, "any")  OBVIOUS
<1>16. f.scopes = S /\ f.val = t  BY <1>15, ConfigFacts
<1>17. e.k = "checked" /\ e.array = b  BY <1>4
<1>18. Leaves(f, h, {ElemOf(b.ty)}, {ElemOf(b.ty)})  BY <1>7, <1>8, <1>12, <1>16 DEF Leaves
<1>19. Step(prog, code, e, f, h)  BY <1>11, <1>13, <1>16, <1>17, <1>18 DEF Step, Nodes
<1>20. Runs(prog, code, <<it.index, e>>, Plain(S), h)  BY <1>14, <1>15, <1>19, RunsTwo
<1>21. Sound(prog, <<it.index, e>> \o Tail(agenda), code, cur, scope, val, addr)
    BY <1>1, <1>6, <1>9, <1>20, ExtendsItself, FacingStays, ReplacedPlain
<1> QED BY <1>5, <1>21 DEF Working, VisitElement, Plan, Keep

LEMMA CalleeFacts ==
    ASSUME NEW p \in Programs, NEW id, id = p.fun.id \/ id \in DOMAIN Functions
    PROVE  Callee(p, id).ret \in Types /\ IsList(Callee(p, id).params)
<1>1. CASE id = p.fun.id
    <2>1. p.fun.ret \in Types /\ IsList(p.fun.params)  BY TypingAssumption, FunctionRule DEF ProgramRule
    <2>2. Callee(p, id) = FunSig(p.fun)  BY <1>1 DEF Callee
    <2>3. PICK f : f = [i \in 1 .. Len(p.fun.params) |-> p.fun.params[i].ty]  OBVIOUS
    <2>4. Callee(p, id).ret = p.fun.ret /\ Callee(p, id).params = f  BY <2>2, <2>3 DEF FunSig
    <2>5. Len(p.fun.params) \in Nat  BY <2>1, ListFacts
    <2>6. DOMAIN f = 1 .. Len(p.fun.params) /\ f = [i \in DOMAIN f |-> f[i]]  BY <2>3
    <2>7. IsList(f)  BY <2>5, <2>6, FunctionList
    <2> QED BY <2>1, <2>4, <2>7
<1>2. CASE id # p.fun.id
    <2>1. id \in DOMAIN Functions /\ Callee(p, id) = Functions[id]  BY <1>2 DEF Callee
    <2>2. id \in {"input", "output", "outputFloat", "neg_idx_except"}  BY <2>1 DEF Functions
    <2>3. Functions[id].ret \in {"i32", "void"} /\ Functions[id].params \in {<<>>, <<"i32">>, <<"float">>}
        BY <2>2 DEF Functions
    <2> QED BY <2>1, <2>3, ShortLists DEF Types
<1> QED BY <1>1, <1>2

LEMMA OwnName ==
    ASSUME NEW p \in Programs
    PROVE  p.fun.id \notin DOMAIN Functions
<1>1. PICK outer : outer = Opened(Functions, p.globals, Len(p.globals))  OBVIOUS
<1>2. p.fun.id \notin DOMAIN outer  BY <1>1, TypingAssumption DEF ProgramRule
<1>3. DOMAIN Functions \subseteq DOMAIN outer  BY <1>1 DEF Opened
<1> QED BY <1>2, <1>3

(* The call of neg_idx_except.                                              *)
LEMMA ExceptOK ==
    ASSUME NEW p \in Programs, NEW c
    PROVE  InstOK(p, c, Inst("call", "void", <<>>, <<>>, "neg_idx_except"))
<1>1. PICK id : id = "neg_idx_except"  OBVIOUS
<1>2. id \in DOMAIN Functions /\ Functions[id].ret = "void" /\ Functions[id].params = <<>>
    BY <1>1 DEF Functions
<1>3. id # p.fun.id  BY <1>2, OwnName
<1>4. Callee(p, id).ret = "void" /\ Callee(p, id).params = <<>>  BY <1>2, <1>3 DEF Callee
<1>5. "void" \in Types  BY DEF Types
<1>6. IsList(<<>>) /\ \A i \in DOMAIN <<>> : FALSE  BY ShortLists
<1>7. InstOK(p, c, Inst("call", Callee(p, id).ret, <<>>, <<>>, id))
    BY <1>4, <1>5, <1>6, CallOK
<1> QED BY <1>1, <1>4, <1>7

LEMMA ElementWorks == ASSUME Working, Element PROVE Working'
<1>1. PICK g, h : Facing(prog, agenda, code, cur, scope, val, addr, g, h)
    BY FacingHead DEF Working, Element, At
<1>2. PICK it : it = Head(agenda)  OBVIOUS
<1>3. it.k = "checked"  BY <1>2 DEF Element, At, Now
<1>4. PICK S : S = Signatures(scope)  OBVIOUS
<1>5. /\ ElementOf(code, it.array)
      /\ g.val \in Types /\ Convertible(g.val, "i32")
      /\ Leaves(g, h, {ElemOf(it.array.ty)}, {ElemOf(it.array.ty)})
      /\ g.scopes = S
    BY <1>1, <1>2, <1>3, <1>4 DEF Facing, Step, Matches
<1>6. PICK x : x = typeConvert(code, cur, val, "i32")  OBVIOUS
<1>7. /\ Convertible(val.ty, "i32")
      /\ CodeOK(prog, x.c) /\ Extends(code, x.c) /\ Len(x.c) = Len(code) /\ cur \in DOMAIN x.c
      /\ Value(x.c, x.v) /\ x.v.ty = "i32"
    BY <1>1, <1>5, <1>6, ConvertedFacing
<1>8. PICK y, v : y = x.c /\ v = x.v  OBVIOUS
<1>9. PICK yes, no : yes = Len(code) + 1 /\ no = Len(code) + 2  OBVIOUS
<1>10. PICK neg, fail, jump : /\ neg = Inst("neg", "i1", <<v>>, <<>>, "")
                              /\ fail = Inst("call", "void", <<>>, <<>>, "neg_idx_except")
                              /\ jump = Br(no)
    OBVIOUS
<1>11. PICK t : t = Put(y, cur, neg)  OBVIOUS
<1>12. PICK test : test = CondBr(LastOf(t, cur), yes, no)  OBVIOUS
<1>13. PICK w : w = WithBlocks(t, 2)  OBVIOUS
<1>14. PICK u : u = Put(w, cur, test)  OBVIOUS
<1>15. PICK z : z = Put(u, yes, fail)  OBVIOUS
<1>16. PICK e : e = [k |-> "address", array |-> it.array]  OBVIOUS
<1>17. /\ code' = Put(z, yes, jump) /\ val' = v /\ cur' = no
       /\ agenda' = <<e>> \o Tail(agenda)
       /\ Keep /\ scope' = scope /\ addr' = addr
    BY <1>2, <1>6, <1>7, <1>8, <1>9, <1>10, <1>11, <1>12, <1>13, <1>14, <1>15, <1>16
        DEF Element, Now, Then, Fresh
<1>18. /\ CodeOK(prog, y) /\ Extends(code, y) /\ Len(y) = Len(code) /\ cur \in DOMAIN y
       /\ Value(y, v) /\ v.ty = "i32"
    BY <1>7, <1>8
<1>19. neg.ty = "i1" /\ InstOK(prog, y, neg) /\ TypeOfInst(neg) = IrType(neg.ty)
    BY <1>10, <1>18, NegativeOK DEF Inst
<1>20. CodeOK(prog, t) /\ Extends(y, t) /\ cur \in DOMAIN t  BY <1>11, <1>18, <1>19, PutExtends
<1>21. PICK i : i = LastOf(t, cur)  OBVIOUS
<1>22. Value(t, i) /\ i.ty = "i1"  BY <1>11, <1>18, <1>19, <1>21, PutValue
<1>23. Len(t) = Len(code)  BY <1>11, <1>18, PutFacts DEF Grows, CodeOK
<1>24. PICK two \in Nat : two = 2  OBVIOUS
<1>25. /\ CodeOK(prog, w) /\ Extends(t, w)
       /\ \A m \in 1 .. two : Len(t) + m \in DOMAIN w
    BY <1>13, <1>20, <1>24, FreshBlocks
<1>26. 1 \in 1 .. two /\ 2 \in 1 .. two  BY <1>24
<1>27. yes \in DOMAIN w /\ no \in DOMAIN w /\ cur \in DOMAIN w
    BY <1>9, <1>20, <1>23, <1>25, <1>26 DEF Extends
<1>28. InstOK(prog, w, test)  BY <1>12, <1>21, <1>22, <1>25, <1>27, ValueStays, CondBrOK
<1>29. CodeOK(prog, u) /\ Extends(w, u)  BY <1>14, <1>25, <1>27, <1>28, PutExtends
<1>30. yes \in DOMAIN u /\ no \in DOMAIN u  BY <1>27, <1>29 DEF Extends
<1>31. InstOK(prog, u, fail)  BY <1>10, ExceptOK DEF Working
<1>32. CodeOK(prog, z) /\ Extends(u, z)  BY <1>15, <1>29, <1>30, <1>31, PutExtends
<1>33. yes \in DOMAIN z /\ no \in DOMAIN z  BY <1>30, <1>32 DEF Extends
<1>34. InstOK(prog, z, jump)  BY <1>10, <1>33, BrOK
<1>35. CodeOK(prog, code') /\ Extends(z, code')  BY <1>17, <1>32, <1>33, <1>34, PutExtends
<1>36. no \in DOMAIN code'  BY <1>33, <1>35 DEF Extends
<1>37. Extends(y, code')  BY <1>20, <1>25, <1>29, <1>32, <1>35, ExtendsFurther
<1>38. Extends(code, code') /\ Value(code', v)  BY <1>18, <1>37, ExtendsFurther, ValueStays
<1>39. ElementOf(code', it.array)  BY <1>5, <1>38, ValueStays DEF ElementOf
<1>40. PICK f : f = Config(S, v.ty, "any")  OBVIOUS
<1>41. f.scopes = S /\ f.val = "i32"  BY <1>18, <1>40, ConfigFacts
<1>42. Leaves(f, h, {ElemOf(it.array.ty)}, {ElemOf(it.array.ty)})  BY <1>5, <1>41 DEF Leaves
<1>43. e.k = "address" /\ e.array = it.array  BY <1>16
<1>44. Step(prog, code', e, f, h)  BY <1>39, <1>41, <1>42, <1>43 DEF Step, Nodes
<1>45. Runs(prog, code', <<e>>, f, h)  BY <1>44, RunsOne
<1>46. ScopeOK(prog, code', scope) /\ addr.ty \in Types  BY <1>1, <1>38, FacingStays
<1>47. Sound(prog, <<e>> \o Tail(agenda), code', no, scope, v, addr)
    BY <1>1, <1>4, <1>35, <1>36, <1>38, <1>40, <1>45, <1>46, ReplacedValue
<1> QED BY <1>17, <1>47 DEF Working, Keep

LEMMA AddressWorks == ASSUME Working, Address PROVE Working'
<1>1. PICK g, h : Facing(prog, agenda, code, cur, scope, val, addr, g, h)
    BY FacingHead DEF Working, Address, At
<1>2. PICK it : it = Head(agenda)  OBVIOUS
<1>3. it.k = "address"  BY <1>2 DEF Address, At, Now
<1>4. PICK S, ty : S = Signatures(scope) /\ ty = it.array.ty  OBVIOUS
<1>5. /\ ElementOf(code, it.array)
      /\ g.val = "i32"
      /\ Leaves(g, h, {ElemOf(ty)}, {ElemOf(ty)})
      /\ g.scopes = S
      /\ val.ty = "i32"
    BY <1>1, <1>2, <1>3, <1>4 DEF Facing, Step, Matches
<1>6. CodeOK(prog, code) /\ cur \in DOMAIN code /\ ScopeOK(prog, code, scope) /\ Value(code, val)
    BY <1>1 DEF Facing
<1>7. PICK a : a = [ty |-> ty, from |-> it.array.from]  OBVIOUS
<1>8. PICK l : l = Inst("load", a.ty, <<a>>, <<>>, "")  OBVIOUS
<1>9. PICK p : p = Put(code, cur, l)  OBVIOUS
<1>10. PICK c, b : /\ c = (IF IsArray(a.ty) THEN code ELSE p)
                   /\ b = (IF IsArray(a.ty) THEN a ELSE LastOf(p, cur))
    OBVIOUS
<1>11. PICK i : i = Inst("gep", ElemOf(a.ty), <<b, val>>, <<>>, "")  OBVIOUS
<1>12. PICK d : d = Put(c, cur, i)  OBVIOUS
<1>13. PICK e : e = LastOf(d, cur)  OBVIOUS
<1>14. /\ Loaded(d, e) /\ agenda' = <<>> \o Tail(agenda)
       /\ Keep /\ cur' = cur /\ scope' = scope
    <2>1. CASE IsArray(a.ty)
        BY <1>2, <1>4, <1>7, <1>8, <1>9, <1>10, <1>11, <1>12, <1>13, <2>1 DEF Address, Now, Then
    <2>2. CASE ~ IsArray(a.ty)
        BY <1>2, <1>4, <1>7, <1>8, <1>9, <1>10, <1>11, <1>12, <1>13, <2>2 DEF Address, Now, Then
    <2> QED BY <2>1, <2>2
<1>15. AddressOfA(code, a) /\ a.ty = ty /\ ty \in VarTypes /\ ty \notin {"i32", "float"}
    BY <1>4, <1>5, <1>7 DEF ElementOf, AddressOfA
<1>16. /\ CodeOK(prog, c) /\ Extends(code, c) /\ cur \in DOMAIN c
       /\ \/ AddressOfA(c, b) /\ b.ty = ty /\ IsArray(ty)
          \/ Value(c, b) /\ b.ty = ty /\ ty \in {"i32*", "float*"}
    <2>1. CASE IsArray(a.ty)  BY <1>6, <1>10, <1>15, <2>1, ExtendsItself
    <2>2. CASE ~ IsArray(a.ty)
        <3>1. l.ty = a.ty /\ InstOK(prog, code, l) /\ TypeOfInst(l) = IrType(l.ty)
            BY <1>8, <1>15, LoadOK DEF Inst
        <3>2. CodeOK(prog, p) /\ Extends(code, p) /\ cur \in DOMAIN p  BY <1>6, <1>9, <3>1, PutExtends
        <3>3. LastOf(p, cur).ty = l.ty /\ Value(p, LastOf(p, cur))  BY <1>6, <1>9, <3>1, PutValue
        <3>4. ty \in {"i32*", "float*"}  BY <1>15, <2>2 DEF VarTypes, LocalTypes, ParamTypes, IsArray
        <3> QED BY <1>10, <1>15, <2>2, <3>1, <3>2, <3>3, <3>4
    <2> QED BY <2>1, <2>2
<1>17. Value(c, val)  BY <1>6, <1>16, ValueStays
<1>18. ElemOf(ty) \in VarTypes /\ ElemOf(ty) \in {"i32", "float"} /\ ~ IsArray(ElemOf(ty))
    BY DEF ElemOf, VarTypes, LocalTypes, IsArray
<1>19. i.ty = ElemOf(ty) /\ InstOK(prog, c, i) /\ TypeOfInst(i) = I!Pointer(IrType(ElemOf(ty)))
    BY <1>5, <1>11, <1>15, <1>16, <1>17, ElementOK, ZenonT(60) DEF Inst
<1>20. CodeOK(prog, d) /\ Extends(c, d) /\ cur \in DOMAIN d  BY <1>12, <1>16, <1>19, PutExtends
<1>21. AddressOfA(d, e) /\ e.ty = ElemOf(ty)  BY <1>12, <1>13, <1>16, <1>18, <1>19, PutAddress
<1>22. /\ addr' = e
       /\ CodeOK(prog, code') /\ Extends(d, code') /\ cur \in DOMAIN code'
       /\ Value(code', val') /\ val'.ty = ElemOf(ty)
       /\ AddressOfA(code', e)
    BY <1>14, <1>18, <1>20, <1>21, LoadedWorks
<1>23. Extends(code, code')  BY <1>16, <1>20, <1>22, ExtendsFurther
<1>24. ScopeOK(prog, code', scope)  BY <1>1, <1>23, FacingStays
<1>25. PICK v : v = val'  OBVIOUS
<1>26. /\ Value(code', v)
       /\ h = Config(S, h.val, h.addr) /\ h.val \in {v.ty, "any"} /\ h.addr \in {e.ty, "any"}
    BY <1>5, <1>21, <1>22, <1>25 DEF Leaves
<1>27. Sound(prog, <<>> \o Tail(agenda), code', cur, scope, v, e)
    BY <1>1, <1>4, <1>22, <1>23, <1>24, <1>26, FinishedPlace
<1> QED BY <1>14, <1>22, <1>25, <1>27 DEF Working, Keep

LEMMA VisitAssignWorks == ASSUME Working, VisitAssign PROVE Working'
<1>1. PICK g, h : Facing(prog, agenda, code, cur, scope, val, addr, g, h)
    BY FacingHead DEF Working, VisitAssign, At
<1>2. PICK it : it = Head(agenda)  OBVIOUS
<1>3. PICK var, rhs : var = it.var /\ rhs = it.rhs  OBVIOUS
<1>4. PICK e : e = [k |-> "target", rhs |-> rhs]  OBVIOUS
<1>5. it.k = "assign" /\ agenda' = <<var, e>> \o Tail(agenda)
    BY <1>2, <1>3, <1>4 DEF VisitAssign, At, Now, Plan, Then
<1>6. PICK S, to : S = Signatures(scope) /\ to = PlaceType(S, var)  OBVIOUS
<1>7. PICK ty : /\ Rule(prog, S, it, ty)
                /\ h = Config(S, h.val, "any")
                /\ h.val \in {ty, "any"}
    BY <1>1, <1>2, <1>5, <1>6, ExpressionFacing
<1>8. /\ var.k \in {"var", "elem"}
      /\ Has(prog, S, var, Types)
      /\ Converts(prog, S, rhs, to)
      /\ ty = to
    BY <1>3, <1>5, <1>6, <1>7 DEF Rule
<1>9. PICK t \in Types : Typed(prog, S, var, t)  BY <1>8 DEF Has
<1>10. Rule(prog, S, var, t)  BY <1>9, TypedRule
<1>11. Meaning(S, var.id).ty \in VarTypes  BY <1>8, <1>10 DEF Rule, IsVar
<1>12. to \in Types
    <2>1. to \in {Meaning(S, var.id).ty, "i32", "float"}  BY <1>6 DEF PlaceType, ElemOf
    <2> QED BY <1>11, <2>1 DEF VarTypes, LocalTypes, ParamTypes, Types
<1>13. PICK f : f = Config(S, "any", to)  OBVIOUS
<1>14. f.scopes = S /\ f.addr = to  BY <1>13, ConfigFacts
<1>15. Step(prog, code, var, Plain(S), f)
    <2>1. PICK q : q = Plain(S)  OBVIOUS
    <2>2. q.scopes = S  BY <2>1, ConfigFacts
    <2>3. var.k \in {"var", "elem"} /\ Typed(prog, q.scopes, var, t)  BY <1>8, <1>9, <2>2
    <2>4. Step(prog, code, var, q, Config(q.scopes, "any", PlaceType(q.scopes, var)))
        BY <2>3, PlaceStep
    <2> QED BY <1>6, <1>13, <2>1, <2>2, <2>4
<1>16. e.k = "target" /\ e.rhs = rhs  BY <1>4
<1>17. Leaves(f, h, {to}, {})  BY <1>7, <1>8, <1>14, ConfigFacts DEF Leaves
<1>18. Step(prog, code, e, f, h)  BY <1>8, <1>12, <1>14, <1>16, <1>17 DEF Step, Nodes
<1>19. Runs(prog, code, <<var, e>>, Plain(S), h)  BY <1>15, <1>18, RunsTwo
<1>20. CodeOK(prog, code) /\ cur \in DOMAIN code  BY <1>1, ScopesFacing
<1>21. Sound(prog, <<var, e>> \o Tail(agenda), code, cur, scope, val, addr)
    BY <1>1, <1>6, <1>19, <1>20, ExtendsItself, FacingStays, ReplacedPlain
<1> QED BY <1>5, <1>21 DEF Working, VisitAssign, Plan, Keep

LEMMA TargetWorks == ASSUME Working, Target PROVE Working'
<1>1. PICK g, h : Facing(prog, agenda, code, cur, scope, val, addr, g, h)
    BY FacingHead DEF Working, Target, At
<1>2. PICK it : it = Head(agenda)  OBVIOUS
<1>3. PICK rhs : rhs = it.rhs  OBVIOUS
<1>4. PICK e : e = [k |-> "store", to |-> addr]  OBVIOUS
<1>5. it.k = "target" /\ agenda' = <<rhs, e>> \o Tail(agenda)
    BY <1>2, <1>3, <1>4 DEF Target, At, Now, Plan, Then
<1>6. PICK S : S = Signatures(scope)  OBVIOUS
<1>7. /\ g.addr \in Types
      /\ Converts(prog, S, rhs, g.addr)
      /\ Leaves(g, h, {g.addr}, {})
      /\ g.scopes = S
    BY <1>1, <1>2, <1>3, <1>5, <1>6 DEF Facing, Step, Matches
<1>8. addr.ty = g.addr /\ AddressOfA(code, addr)
    <2>1. g.addr # "any"  BY <1>7 DEF Types
    <2> QED BY <1>1, <2>1 DEF Facing, Matches
<1>9. PICK t \in Types : Typed(prog, S, rhs, t) /\ Convertible(t, addr.ty)  BY <1>7, <1>8, AdmittedConverts
<1>10. PICK f : f = Config(S, t, "any")  OBVIOUS
<1>11. f.scopes = S /\ f.val = t  BY <1>10, ConfigFacts
<1>12. Step(prog, code, rhs, Plain(S), f)  BY <1>9, <1>10, ConfigFacts, NodeStep
<1>13. e.k = "store" /\ e.to = addr  BY <1>4
<1>14. Leaves(f, h, {addr.ty}, {})  BY <1>7, <1>8, <1>11 DEF Leaves
<1>15. Step(prog, code, e, f, h)  BY <1>8, <1>9, <1>11, <1>13, <1>14 DEF Step, Nodes
<1>16. Runs(prog, code, <<rhs, e>>, Plain(S), h)  BY <1>12, <1>15, RunsTwo
<1>17. CodeOK(prog, code) /\ cur \in DOMAIN code  BY <1>1, ScopesFacing
<1>18. Sound(prog, <<rhs, e>> \o Tail(agenda), code, cur, scope, val, addr)
    BY <1>1, <1>6, <1>16, <1>17, ExtendsItself, FacingStays, ReplacedPlain
<1> QED BY <1>5, <1>18 DEF Working, Target, Plan, Keep

LEMMA StoreWorks == ASSUME Working, Store PROVE Working'
<1>1. PICK g, h : Facing(prog, agenda, code, cur, scope, val, addr, g, h)
    BY FacingHead DEF Working, Store, At
<1>2. PICK it : it = Head(agenda)  OBVIOUS
<1>3. it.k = "store"  BY <1>2 DEF Store, At, Now
<1>4. PICK a, S : a = it.to /\ S = Signatures(scope)  OBVIOUS
<1>5. /\ AddressOfA(code, a)
      /\ g.val \in Types /\ Convertible(g.val, a.ty)
      /\ Leaves(g, h, {a.ty}, {})
      /\ g.scopes = S
    BY <1>1, <1>2, <1>3, <1>4 DEF Facing, Step, Matches
<1>6. PICK x : x = typeConvert(code, cur, val, a.ty)  OBVIOUS
<1>7. /\ Convertible(val.ty, a.ty)
      /\ CodeOK(prog, x.c) /\ Extends(code, x.c) /\ cur \in DOMAIN x.c
      /\ Value(x.c, x.v) /\ x.v.ty = a.ty
    BY <1>1, <1>5, <1>6, ConvertedFacing
<1>8. PICK y, v : y = x.c /\ v = x.v  OBVIOUS
<1>9. PICK inst : inst = Inst("store", "void", <<v, a>>, <<>>, "")  OBVIOUS
<1>10. Yield(Put(y, cur, inst), v)
    BY <1>2, <1>4, <1>6, <1>7, <1>8, <1>9, Zenon DEF Store, Now
<1>11. CodeOK(prog, y) /\ Extends(code, y) /\ cur \in DOMAIN y /\ Value(y, v) /\ v.ty = a.ty
    BY <1>7, <1>8
<1>12. AddressOfA(y, a)  BY <1>5, <1>11, ValueStays
<1>13. InstOK(prog, y, inst)  BY <1>9, <1>11, <1>12, StoreOK
<1>14. code' = Put(y, cur, inst) /\ val' = v /\ agenda' = <<>> \o Tail(agenda)
    BY <1>10 DEF Yield, Then
<1>15. CodeOK(prog, code') /\ Extends(y, code') /\ cur \in DOMAIN code'
    BY <1>11, <1>13, <1>14, PutExtends
<1>16. Extends(code, code') /\ Value(code', v)  BY <1>11, <1>15, ExtendsFurther, ValueStays
<1>17. h = Config(S, h.val, "any") /\ h.val \in {v.ty, "any"}  BY <1>5, <1>11 DEF Leaves
<1>18. ScopeOK(prog, code', scope) /\ addr.ty \in Types  BY <1>1, <1>16, FacingStays
<1>19. Sound(prog, <<>> \o Tail(agenda), code', cur, scope, v, addr)
    BY <1>1, <1>4, <1>15, <1>16, <1>17, <1>18, FinishedValue
<1> QED BY <1>10, <1>14, <1>19 DEF Working, Yield, Keep

LEMMA VisitBinaryWorks == ASSUME Working, VisitBinary PROVE Working'
<1>1. PICK g, h : Facing(prog, agenda, code, cur, scope, val, addr, g, h)
    BY FacingHead DEF Working, VisitBinary, At
<1>2. PICK it : it = Head(agenda)  OBVIOUS
<1>3. PICK a, b, op : a = it.l /\ b = it.r /\ op = it.op  OBVIOUS
<1>4. PICK e : e = [k |-> "right", op |-> op, r |-> b]  OBVIOUS
<1>5. it.k = "binary" /\ agenda' = <<a, e>> \o Tail(agenda)
    BY <1>2, <1>3, <1>4 DEF VisitBinary, At, Now, Plan, Then
<1>6. PICK S : S = Signatures(scope)  OBVIOUS
<1>7. PICK ty : /\ Rule(prog, S, it, ty)
                /\ h = Config(S, h.val, "any")
                /\ h.val \in {ty, "any"}
    BY <1>1, <1>2, <1>5, <1>6, ExpressionFacing
<1>8. /\ op \in {"rel", "add", "mul"}
      /\ \E l, r \in Numeric : /\ Typed(prog, S, a, l)
                               /\ Typed(prog, S, b, r)
                               /\ ty = BinaryType(op, l, r)
    BY <1>3, <1>5, <1>7 DEF Rule
<1>9. PICK l \in Numeric, r \in Numeric :
        /\ Typed(prog, S, a, l)
        /\ Typed(prog, S, b, r)
        /\ ty = BinaryType(op, l, r)
    BY <1>8
<1>10. PICK f : f = Config(S, l, "any")  OBVIOUS
<1>11. f.scopes = S /\ f.val = l  BY <1>10, ConfigFacts
<1>12. l \in Types  BY DEF Numeric, Types
<1>13. Step(prog, code, a, Plain(S), f)  BY <1>9, <1>10, <1>12, ConfigFacts, NodeStep, ZenonT(60)
<1>14. e.k = "right" /\ e.op = op /\ e.r = b  BY <1>4
<1>15. Leaves(f, h, {BinaryType(op, l, r)}, {})  BY <1>7, <1>9, <1>11, ConfigFacts DEF Leaves
<1>16. Step(prog, code, e, f, h)  BY <1>8, <1>9, <1>11, <1>14, <1>15 DEF Step, Nodes
<1>17. Runs(prog, code, <<a, e>>, Plain(S), h)  BY <1>13, <1>16, RunsTwo
<1>18. CodeOK(prog, code) /\ cur \in DOMAIN code  BY <1>1, ScopesFacing
<1>19. Sound(prog, <<a, e>> \o Tail(agenda), code, cur, scope, val, addr)
    BY <1>1, <1>6, <1>17, <1>18, ExtendsItself, FacingStays, ReplacedPlain
<1> QED BY <1>5, <1>19 DEF Working, VisitBinary, Plan, Keep

LEMMA RightWorks == ASSUME Working, Right PROVE Working'
<1>1. PICK g, h : Facing(prog, agenda, code, cur, scope, val, addr, g, h)
    BY FacingHead DEF Working, Right, At
<1>2. PICK it : it = Head(agenda)  OBVIOUS
<1>3. PICK b, op : b = it.r /\ op = it.op  OBVIOUS
<1>4. PICK e : e = [k |-> "combine", op |-> op, l |-> val]  OBVIOUS
<1>5. it.k = "right" /\ agenda' = <<b, e>> \o Tail(agenda)
    BY <1>2, <1>3, <1>4 DEF Right, At, Now, Plan, Then
<1>6. PICK S : S = Signatures(scope)  OBVIOUS
<1>7. /\ op \in {"rel", "add", "mul"}
      /\ g.val \in Numeric
      /\ g.scopes = S
      /\ \E r \in Numeric : /\ Typed(prog, S, b, r)
                            /\ Leaves(g, h, {BinaryType(op, g.val, r)}, {})
    BY <1>1, <1>2, <1>3, <1>5, <1>6 DEF Facing, Step, Matches
<1>8. PICK r \in Numeric : /\ Typed(prog, S, b, r)
                           /\ Leaves(g, h, {BinaryType(op, g.val, r)}, {})
    BY <1>7
<1>9. val.ty = g.val /\ Value(code, val)
    <2>1. g.val # "any"  BY <1>7 DEF Numeric
    <2> QED BY <1>1, <2>1 DEF Facing, Matches
<1>10. PICK f : f = Config(S, r, "any")  OBVIOUS
<1>11. f.scopes = S /\ f.val = r  BY <1>10, ConfigFacts
<1>12. r \in Types  BY DEF Numeric, Types
<1>13. Step(prog, code, b, Plain(S), f)  BY <1>8, <1>10, <1>12, ConfigFacts, NodeStep
<1>14. e.k = "combine" /\ e.op = op /\ e.l = val  BY <1>4
<1>15. Leaves(f, h, {BinaryType(op, val.ty, r)}, {})  BY <1>7, <1>8, <1>9, <1>11 DEF Leaves
<1>16. Step(prog, code, e, f, h)  BY <1>7, <1>8, <1>9, <1>11, <1>14, <1>15 DEF Step, Nodes
<1>17. Runs(prog, code, <<b, e>>, Plain(S), h)  BY <1>13, <1>16, RunsTwo
<1>18. CodeOK(prog, code) /\ cur \in DOMAIN code  BY <1>1, ScopesFacing
<1>19. Sound(prog, <<b, e>> \o Tail(agenda), code, cur, scope, val, addr)
    BY <1>1, <1>6, <1>17, <1>18, ExtendsItself, FacingStays, ReplacedPlain
<1> QED BY <1>5, <1>19 DEF Working, Right, Plan, Keep

(* Both operands converted, and the instruction put.                        *)
LEMMA CombineWorks == ASSUME Working, Combine PROVE Working'
<1>1. PICK g, h : Facing(prog, agenda, code, cur, scope, val, addr, g, h)
    BY FacingHead DEF Working, Combine, At
<1>2. PICK it : it = Head(agenda)  OBVIOUS
<1>3. PICK u, op, S : u = it.l /\ op = it.op /\ S = Signatures(scope)  OBVIOUS
<1>4. it.k = "combine"  BY <1>2 DEF Combine, At, Now
<1>5. /\ op \in {"rel", "add", "mul"}
      /\ g.val \in Numeric
      /\ Value(code, u) /\ u.ty \in Numeric
      /\ Leaves(g, h, {BinaryType(op, u.ty, g.val)}, {})
      /\ g.scopes = S
    BY <1>1, <1>2, <1>3, <1>4 DEF Facing, Step, Matches
<1>6. val.ty = g.val /\ Value(code, val) /\ CodeOK(prog, code) /\ cur \in DOMAIN code
    <2>1. g.val # "any"  BY <1>5 DEF Numeric
    <2> QED BY <1>1, <2>1 DEF Facing, Matches
<1>7. PICK type : type = (IF u.ty = "i32" /\ val.ty = "i32" THEN "i32" ELSE "float")  OBVIOUS
<1>8. type \in {"i32", "float"} /\ Convertible(u.ty, type) /\ Convertible(val.ty, type)
    BY <1>5, <1>6, <1>7 DEF Numeric, Convertible, Conversion
<1>9. PICK x : x = typeConvert(code, cur, u, type)  OBVIOUS
<1>10. CodeOK(prog, x.c) /\ Grows(code, x.c, cur) /\ Value(x.c, x.v) /\ x.v.ty = type
    BY <1>5, <1>6, <1>8, <1>9, ConvertOK
<1>11. PICK c, l : c = x.c /\ l = x.v  OBVIOUS
<1>12. CodeOK(prog, c) /\ Extends(code, c) /\ cur \in DOMAIN c /\ Value(c, l) /\ l.ty = type
    BY <1>6, <1>10, <1>11 DEF Grows, Extends
<1>13. Value(c, val)  BY <1>6, <1>12, ValueStays
<1>14. PICK y : y = typeConvert(c, cur, val, type)  OBVIOUS
<1>15. CodeOK(prog, y.c) /\ Grows(c, y.c, cur) /\ Value(y.c, y.v) /\ y.v.ty = type
    BY <1>8, <1>12, <1>13, <1>14, ConvertOK
<1>16. PICK d, r : d = y.c /\ r = y.v  OBVIOUS
<1>17. /\ CodeOK(prog, d) /\ Extends(c, d) /\ cur \in DOMAIN d
       /\ Value(d, r) /\ r.ty = type
       /\ Value(d, l) /\ l.ty = type
    BY <1>12, <1>15, <1>16, ValueStays DEF Grows, Extends
<1>18. PICK t : t = (IF op = "rel" THEN "i1" ELSE type)  OBVIOUS
<1>19. PICK inst : inst = Inst(op, t, <<l, r>>, <<>>, type)  OBVIOUS
<1>20. PICK z : z = Put(d, cur, inst)  OBVIOUS
<1>21. Yield(z, LastOf(z, cur))
    BY <1>2, <1>3, <1>7, <1>8, <1>9, <1>11, <1>14, <1>16, <1>18, <1>19, <1>20, Zenon DEF Combine, Now
<1>22. inst.ty = t /\ InstOK(prog, d, inst) /\ TypeOfInst(inst) = IrType(inst.ty)
    <2>1. inst.ty = t  BY <1>19 DEF Inst
    <2>2. inst = Inst(op, IF op = "rel" THEN "i1" ELSE type, <<l, r>>, <<>>, type)  BY <1>18, <1>19
    <2>3. op \in {"rel", "add", "mul"} /\ type \in {"i32", "float"}  BY <1>5, <1>8
    <2>4. Value(d, l) /\ Value(d, r) /\ l.ty = type /\ r.ty = type  BY <1>17
    <2>5. InstOK(prog, d, inst) /\ TypeOfInst(inst) = IrType(IF op = "rel" THEN "i1" ELSE type)
        BY <2>2, <2>3, <2>4, BinaryOK
    <2> QED BY <1>18, <2>1, <2>5
<1>23. CodeOK(prog, z) /\ Extends(d, z) /\ cur \in DOMAIN z  BY <1>17, <1>20, <1>22, PutExtends
<1>24. PICK v : v = LastOf(z, cur)  OBVIOUS
<1>25. Value(z, v) /\ v.ty = t  BY <1>17, <1>20, <1>22, <1>24, PutValue
<1>26. Extends(code, z)  BY <1>12, <1>17, <1>23, ExtendsFurther
<1>27. code' = z /\ val' = v /\ agenda' = <<>> \o Tail(agenda)  BY <1>21, <1>24 DEF Yield, Then
<1>28. BinaryType(op, u.ty, g.val) = t  BY <1>6, <1>7, <1>18 DEF BinaryType
<1>29. h = Config(S, h.val, "any") /\ h.val \in {v.ty, "any"}  BY <1>5, <1>25, <1>28 DEF Leaves
<1>30. ScopeOK(prog, z, scope) /\ addr.ty \in Types  BY <1>1, <1>26, FacingStays
<1>31. Sound(prog, <<>> \o Tail(agenda), z, cur, scope, v, addr)
    BY <1>1, <1>3, <1>23, <1>25, <1>26, <1>29, <1>30, FinishedValue
<1> QED BY <1>21, <1>27, <1>31 DEF Working, Yield, Keep

(* The function a name is bound to.                                         *)
LEMMA FunctionFound ==
    ASSUME NEW p \in Programs, NEW c, NEW s, ScopeOK(p, c, s), NEW id, IsBound(Signatures(s), id),
           Meaning(Signatures(s), id).kind = "fun"
    PROVE  LET b == s[Innermost(s, id)][id]
           IN  /\ b = Meaning(Signatures(s), id)
               /\ b = Callee(p, id)
               /\ b.ret \in Types /\ IsList(b.params)
<1>1. PICK b : b = s[Innermost(s, id)][id]  OBVIOUS
<1>2. /\ Innermost(s, id) \in DOMAIN s /\ id \in DOMAIN s[Innermost(s, id)]
      /\ Signature(b) = Meaning(Signatures(s), id)
    BY <1>1, FoundBinding DEF ScopeOK
<1>3. BindingOK(p, c, id, b)  BY <1>1, <1>2 DEF ScopeOK
<1>4. b.kind = "fun"
    <2>1. SUFFICES ASSUME b.kind # "fun" PROVE FALSE  OBVIOUS
    <2>2. Signature(b) = VarSig(b.ty)  BY <2>1 DEF Signature
    <2>3. Signature(b).kind = "var"  BY <2>2 DEF VarSig
    <2> QED BY <1>2, <2>3
<1>5. b = Meaning(Signatures(s), id)  BY <1>2, <1>4, BindingSignature
<1>6. b = Callee(p, id) /\ (id = p.fun.id \/ id \in DOMAIN Functions)  BY <1>3, <1>4 DEF BindingOK
<1>7. b.ret \in Types /\ IsList(b.params)  BY <1>6, CalleeFacts
<1> QED BY <1>1, <1>5, <1>6, <1>7

LEMMA VisitCallWorks == ASSUME Working, VisitCall PROVE Working'
<1>1. PICK g, h : Facing(prog, agenda, code, cur, scope, val, addr, g, h)
    BY FacingHead DEF Working, VisitCall, At
<1>2. PICK it : it = Head(agenda)  OBVIOUS
<1>3. PICK id, args : id = it.id /\ args = it.args  OBVIOUS
<1>4. PICK b : b = scope[Innermost(scope, id)][id]  OBVIOUS
<1>5. PICK e : e = [k |-> "args", id |-> id, fun |-> b, todo |-> args, done |-> <<>>]  OBVIOUS
<1>6. it.k = "call" /\ agenda' = <<e>> \o Tail(agenda)
    BY <1>2, <1>3, <1>4, <1>5 DEF VisitCall, At, Now, Plan, Then, Find
<1>7. PICK S : S = Signatures(scope)  OBVIOUS
<1>8. PICK ty : /\ Rule(prog, S, it, ty)
                /\ h = Config(S, h.val, "any")
                /\ h.val \in {ty, "any"}
    BY <1>1, <1>2, <1>6, <1>7, ExpressionFacing
<1>9. PICK f : f = Meaning(S, id)  OBVIOUS
<1>10. /\ IsBound(S, id)
       /\ f.kind = "fun"
       /\ IsList(args)
       /\ Len(args) = Len(f.params)
       /\ \A i \in DOMAIN args : Converts(prog, S, args[i], f.params[i])
       /\ ty = f.ret
    BY <1>3, <1>6, <1>8, <1>9 DEF Rule
<1>11. CodeOK(prog, code) /\ cur \in DOMAIN code /\ ScopeOK(prog, code, scope)  BY <1>1, ScopesFacing
<1>12. b = f /\ b = Callee(prog, id) /\ b.ret \in Types /\ IsList(b.params)
    BY <1>4, <1>7, <1>9, <1>10, <1>11, FunctionFound DEF Working
<1>13. /\ e.k = "args" /\ e.id = id /\ e.fun = b /\ e.todo = args /\ e.done = <<>>
       /\ e = [k |-> e.k, id |-> e.id, fun |-> e.fun, todo |-> e.todo, done |-> e.done]
    BY <1>5
<1>14. Calling(prog, code, e, S)
    <2>1. Len(args) \in Nat /\ DOMAIN args = 1 .. Len(args)  BY <1>10, ListFacts
    <2>2. IsList(e.done) /\ Len(e.done) = 0 /\ 1 .. Len(e.done) = {}  BY <1>13, ShortLists
    <2>3. Len(e.done) + Len(e.todo) = Len(e.fun.params)  BY <1>10, <1>12, <1>13, <2>1, <2>2
    <2>4. \A i \in 1 .. Len(e.todo) : Len(e.done) + i = i  BY <1>13, <2>1, <2>2
    <2>5. \A i \in 1 .. Len(e.todo) : Converts(prog, S, e.todo[i], e.fun.params[Len(e.done) + i])
        BY <1>10, <1>12, <1>13, <2>1, <2>4
    <2> QED BY <1>10, <1>12, <1>13, <2>2, <2>3, <2>5 DEF Calling
<1>15. PICK q : q = Plain(S)  OBVIOUS
<1>16. q.scopes = S  BY <1>15, ConfigFacts
<1>17. Leaves(q, h, {b.ret}, {})  BY <1>8, <1>10, <1>12, <1>16, ConfigFacts DEF Leaves
<1>18. Step(prog, code, e, q, h)  BY <1>13, <1>14, <1>16, <1>17 DEF Step, Nodes
<1>19. Runs(prog, code, <<e>>, Plain(S), h)  BY <1>15, <1>18, RunsOne
<1>20. Sound(prog, <<e>> \o Tail(agenda), code, cur, scope, val, addr)
    BY <1>1, <1>7, <1>11, <1>19, ExtendsItself, FacingStays, ReplacedPlain
<1> QED BY <1>6, <1>20 DEF Working, VisitCall, Plan, Keep

(* An item of a call in progress, with other fields.                        *)
LEMMA CallItem ==
    ASSUME NEW it, it = [k |-> it.k, id |-> it.id, fun |-> it.fun, todo |-> it.todo, done |-> it.done],
           NEW k, NEW todo, NEW done
    PROVE  /\ [it EXCEPT !.k = k] = [k |-> k, id |-> it.id, fun |-> it.fun, todo |-> it.todo, done |-> it.done]
           /\ [it EXCEPT !.k = k, !.todo = todo, !.done = done]
                    = [k |-> k, id |-> it.id, fun |-> it.fun, todo |-> todo, done |-> done]
<1>1. PICK q, id, fun, t, d : q = it.k /\ id = it.id /\ fun = it.fun /\ t = it.todo /\ d = it.done  OBVIOUS
<1>2. it = [k |-> q, id |-> id, fun |-> fun, todo |-> t, done |-> d]  BY <1>1
<1>3. [it EXCEPT !.k = k] = [k |-> k, id |-> id, fun |-> fun, todo |-> t, done |-> d]  BY <1>2
<1>4. [it EXCEPT !.k = k, !.todo = todo, !.done = done]
            = [k |-> k, id |-> id, fun |-> fun, todo |-> todo, done |-> done]
    <2>1. PICK x : x = [it EXCEPT !.k = k]  OBVIOUS
    <2>2. x = [k |-> k, id |-> id, fun |-> fun, todo |-> t, done |-> d]  BY <1>3, <2>1
    <2>3. PICK y : y = [x EXCEPT !.todo = todo]  OBVIOUS
    <2>4. y = [k |-> k, id |-> id, fun |-> fun, todo |-> todo, done |-> d]  BY <2>2, <2>3
    <2>5. [y EXCEPT !.done = done] = [k |-> k, id |-> id, fun |-> fun, todo |-> todo, done |-> done]
        BY <2>4
    <2> QED BY <2>1, <2>3, <2>5
<1> QED BY <1>1, <1>3, <1>4

LEMMA NextArgumentWorks == ASSUME Working, NextArgument PROVE Working'
<1>1. PICK g, h : Facing(prog, agenda, code, cur, scope, val, addr, g, h)
    BY FacingHead DEF Working, NextArgument, At
<1>2. PICK it : it = Head(agenda)  OBVIOUS
<1>3. PICK S : S = Signatures(scope)  OBVIOUS
<1>4. it.k = "args" /\ it.todo # <<>>  BY <1>2 DEF NextArgument, At, Now
<1>5. Calling(prog, code, it, S) /\ Leaves(g, h, {it.fun.ret}, {}) /\ g.scopes = S
    BY <1>1, <1>2, <1>3, <1>4 DEF Facing, Step, Matches
<1>6. PICK id, fun, todo, done : id = it.id /\ fun = it.fun /\ todo = it.todo /\ done = it.done  OBVIOUS
<1>7. it = [k |-> it.k, id |-> it.id, fun |-> it.fun, todo |-> it.todo, done |-> it.done]
    BY <1>5 DEF Calling
<1>8. PICK e : e = [it EXCEPT !.k = "arg"]  OBVIOUS
<1>9. e = [k |-> "arg", id |-> id, fun |-> fun, todo |-> todo, done |-> done]
    BY <1>6, <1>7, <1>8, CallItem
<1>10. /\ e.k = "arg" /\ e.id = id /\ e.fun = fun /\ e.todo = todo /\ e.done = done
       /\ e = [k |-> e.k, id |-> e.id, fun |-> e.fun, todo |-> e.todo, done |-> e.done]
    BY <1>9
<1>11. Calling(prog, code, e, S)  BY <1>5, <1>6, <1>10, Zenon DEF Calling
<1>12. PICK a : a = Head(todo)  OBVIOUS
<1>13. agenda' = <<a, e>> \o Tail(agenda)
    BY <1>2, <1>6, <1>8, <1>12 DEF NextArgument, Now, Plan, Then
<1>14. IsList(todo) /\ todo # <<>>  BY <1>4, <1>5, <1>6 DEF Calling
<1>15. a = todo[1] /\ Len(todo) \in Nat /\ Len(todo) >= 1  BY <1>12, <1>14, TailList, ListFacts
<1>16. PICK to : to = fun.params[Len(done) + 1]  OBVIOUS
<1>17. Converts(prog, S, a, to)
    <2>1. 1 \in 1 .. Len(todo)  BY <1>15
    <2>2. \A i \in 1 .. Len(todo) : Converts(prog, S, todo[i], fun.params[Len(done) + i])
        BY <1>5, <1>6 DEF Calling
    <2> QED BY <1>15, <1>16, <2>1, <2>2
<1>18. PICK t \in Types : Typed(prog, S, a, t) /\ Convertible(t, to)  BY <1>17, AdmittedConverts
<1>19. PICK f : f = Config(S, t, "any")  OBVIOUS
<1>20. f.scopes = S /\ f.val = t  BY <1>19, ConfigFacts
<1>21. Step(prog, code, a, Plain(S), f)  BY <1>18, <1>19, ConfigFacts, NodeStep, ZenonT(60)
<1>22. Leaves(f, h, {fun.ret}, {})  BY <1>5, <1>6, <1>20 DEF Leaves
<1>23. Step(prog, code, e, f, h)
    BY <1>10, <1>11, <1>14, <1>16, <1>18, <1>20, <1>22 DEF Step, Nodes
<1>24. Runs(prog, code, <<a, e>>, Plain(S), h)  BY <1>21, <1>23, RunsTwo
<1>25. CodeOK(prog, code) /\ cur \in DOMAIN code  BY <1>1, ScopesFacing
<1>26. Sound(prog, <<a, e>> \o Tail(agenda), code, cur, scope, val, addr)
    BY <1>1, <1>3, <1>24, <1>25, ExtendsItself, FacingStays, ReplacedPlain
<1> QED BY <1>13, <1>26 DEF Working, NextArgument, Plan, Keep

LEMMA ArgumentWorks == ASSUME Working, Argument PROVE Working'
<1>1. PICK g, h : Facing(prog, agenda, code, cur, scope, val, addr, g, h)
    BY FacingHead DEF Working, Argument, At
<1>2. PICK it : it = Head(agenda)  OBVIOUS
<1>3. PICK S : S = Signatures(scope)  OBVIOUS
<1>4. it.k = "arg"  BY <1>2 DEF Argument, At, Now
<1>5. PICK id, fun, todo, done : id = it.id /\ fun = it.fun /\ todo = it.todo /\ done = it.done  OBVIOUS
<1>6. PICK to : to = fun.params[Len(done) + 1]  OBVIOUS
<1>7. /\ Calling(prog, code, it, S) /\ Leaves(g, h, {fun.ret}, {}) /\ g.scopes = S
      /\ todo # <<>>
      /\ g.val \in Types /\ Convertible(g.val, to)
    BY <1>1, <1>2, <1>3, <1>4, <1>5, <1>6 DEF Facing, Step, Matches
<1>8. PICK x : x = typeConvert(code, cur, val, to)  OBVIOUS
<1>9. /\ Convertible(val.ty, to)
      /\ CodeOK(prog, x.c) /\ Extends(code, x.c) /\ cur \in DOMAIN x.c
      /\ Value(x.c, x.v) /\ x.v.ty = to
    BY <1>1, <1>7, <1>8, ConvertedFacing
<1>10. PICK c, v : c = x.c /\ v = x.v  OBVIOUS
<1>11. CodeOK(prog, c) /\ Extends(code, c) /\ cur \in DOMAIN c /\ Value(c, v) /\ v.ty = to
    BY <1>9, <1>10
<1>12. it = [k |-> it.k, id |-> it.id, fun |-> it.fun, todo |-> it.todo, done |-> it.done]
    BY <1>7 DEF Calling
<1>13. PICK rest, made : rest = Tail(todo) /\ made = Append(done, v)  OBVIOUS
<1>14. PICK e : e = [it EXCEPT !.k = "args", !.todo = rest, !.done = made]  OBVIOUS
<1>15. /\ code' = c /\ val' = v
       /\ agenda' = << [it EXCEPT !.k = "args", !.todo = Tail(@), !.done = Append(@, v)] >> \o Tail(agenda)
       /\ Keep /\ cur' = cur /\ scope' = scope /\ addr' = addr
    BY <1>2, <1>5, <1>6, <1>8, <1>9, <1>10, Zenon DEF Argument, Now, Then
<1>16. e = [k |-> "args", id |-> id, fun |-> fun, todo |-> rest, done |-> made]
    BY <1>5, <1>12, <1>14, CallItem
<1>17. [it EXCEPT !.k = "args", !.todo = Tail(@), !.done = Append(@, v)] = e
    BY <1>5, <1>12, <1>13, <1>14
<1>18. agenda' = <<e>> \o Tail(agenda)  BY <1>15, <1>17
<1>19. /\ e.k = "args" /\ e.id = id /\ e.fun = fun /\ e.todo = rest /\ e.done = made
       /\ e = [k |-> e.k, id |-> e.id, fun |-> e.fun, todo |-> e.todo, done |-> e.done]
    BY <1>16
<1>20. /\ fun = Callee(prog, id) /\ fun.ret \in Types
       /\ IsList(fun.params) /\ IsList(done) /\ IsList(todo)
       /\ Len(done) + Len(todo) = Len(fun.params)
       /\ \A i \in 1 .. Len(done) : Value(code, done[i]) /\ done[i].ty = fun.params[i]
       /\ \A i \in 1 .. Len(todo) : Converts(prog, S, todo[i], fun.params[Len(done) + i])
    BY <1>5, <1>7, Zenon DEF Calling
<1>21. Len(done) \in Nat /\ Len(todo) \in Nat  BY <1>20, ListFacts
<1>22. /\ IsList(rest) /\ Len(todo) >= 1 /\ Len(rest) = Len(todo) - 1
       /\ \A i \in 1 .. Len(todo) - 1 : rest[i] = todo[i + 1]
    BY <1>7, <1>13, <1>20, TailList
<1>23. /\ IsList(made) /\ Len(made) = Len(done) + 1
       /\ \A i \in 1 .. Len(done) : made[i] = done[i]
       /\ made[Len(done) + 1] = v
    BY <1>13, <1>20, AppendList
<1>24. Len(made) + Len(rest) = Len(fun.params)
    <2>1. PICK m, n : m = Len(done) /\ n = Len(todo)  OBVIOUS
    <2>2. m \in Nat /\ n \in Nat /\ m + n = Len(fun.params)  BY <1>20, <1>21, <2>1
    <2>3. Len(made) = m + 1 /\ Len(rest) = n - 1  BY <1>22, <1>23, <2>1
    <2>4. (m + 1) + (n - 1) = m + n  BY <2>2
    <2> QED BY <2>2, <2>3, <2>4
<1>25. ASSUME NEW i \in 1 .. Len(made) PROVE Value(c, made[i]) /\ made[i].ty = fun.params[i]
    <2>1. CASE i = Len(done) + 1  BY <1>6, <1>11, <1>23, <2>1
    <2>2. CASE i # Len(done) + 1
        <3>1. i \in 1 .. Len(done)  BY <1>21, <1>23, <2>2
        <3>2. Value(code, done[i]) /\ done[i].ty = fun.params[i] /\ made[i] = done[i]
            BY <1>20, <1>23, <3>1
        <3> QED BY <1>11, <3>2, ValueStays
    <2> QED BY <2>1, <2>2
<1>26. ASSUME NEW i \in 1 .. Len(rest) PROVE Converts(prog, S, rest[i], fun.params[Len(made) + i])
    <2>1. i + 1 \in 1 .. Len(todo) /\ i \in 1 .. Len(todo) - 1 /\ Len(done) + (i + 1) = Len(made) + i
        BY <1>21, <1>22, <1>23
    <2>2. Converts(prog, S, todo[i + 1], fun.params[Len(done) + (i + 1)])  BY <1>20, <2>1
    <2> QED BY <1>22, <2>1, <2>2
<1>27. Calling(prog, c, e, S)
    BY <1>19, <1>20, <1>22, <1>23, <1>24, <1>25, <1>26 DEF Calling
<1>28. PICK f : f = Config(S, v.ty, "any")  OBVIOUS
<1>29. f.scopes = S  BY <1>28, ConfigFacts
<1>30. Leaves(f, h, {fun.ret}, {})  BY <1>7, <1>29 DEF Leaves
<1>31. Step(prog, c, e, f, h)  BY <1>19, <1>27, <1>29, <1>30 DEF Step, Nodes
<1>32. Runs(prog, c, <<e>>, f, h)  BY <1>31, RunsOne
<1>33. ScopeOK(prog, c, scope) /\ addr.ty \in Types  BY <1>1, <1>11, FacingStays
<1>34. Sound(prog, <<e>> \o Tail(agenda), c, cur, scope, v, addr)
    BY <1>1, <1>3, <1>11, <1>28, <1>32, <1>33, ReplacedValue
<1> QED BY <1>15, <1>18, <1>34 DEF Working, Keep

LEMMA CreateCallWorks == ASSUME Working, CreateCall PROVE Working'
<1>1. PICK g, h : Facing(prog, agenda, code, cur, scope, val, addr, g, h)
    BY FacingHead DEF Working, CreateCall, At
<1>2. PICK it : it = Head(agenda)  OBVIOUS
<1>3. PICK S : S = Signatures(scope)  OBVIOUS
<1>4. it.k = "args" /\ it.todo = <<>>  BY <1>2 DEF CreateCall, At, Now
<1>5. Calling(prog, code, it, S) /\ Leaves(g, h, {it.fun.ret}, {}) /\ g.scopes = S
    BY <1>1, <1>2, <1>3, <1>4 DEF Facing, Step, Matches
<1>6. PICK id, fun, done : id = it.id /\ fun = it.fun /\ done = it.done  OBVIOUS
<1>7. /\ fun = Callee(prog, id) /\ fun.ret \in Types
      /\ IsList(fun.params) /\ IsList(done)
      /\ Len(done) + Len(<<>>) = Len(fun.params)
      /\ \A i \in 1 .. Len(done) : Value(code, done[i]) /\ done[i].ty = fun.params[i]
    BY <1>4, <1>5, <1>6 DEF Calling
<1>8. Len(done) = Len(fun.params) /\ DOMAIN done = 1 .. Len(done)
    BY <1>7, ShortLists, ListFacts
<1>9. PICK inst : inst = Inst("call", fun.ret, done, <<>>, id)  OBVIOUS
<1>10. inst.ty = fun.ret /\ InstOK(prog, code, inst) /\ TypeOfInst(inst) = IrType(inst.ty)
    <2>1. inst.ty = fun.ret  BY <1>9 DEF Inst
    <2>2. inst = Inst("call", Callee(prog, id).ret, done, <<>>, id)  BY <1>7, <1>9
    <2>3. InstOK(prog, code, inst) /\ TypeOfInst(inst) = IrType(Callee(prog, id).ret)
        BY <1>7, <1>8, <2>2, CallOK
    <2> QED BY <1>7, <2>1, <2>3
<1>11. PICK c : c = Put(code, cur, inst)  OBVIOUS
<1>12. PICK v : v = LastOf(c, cur)  OBVIOUS
<1>13. Yield(c, v)  BY <1>2, <1>6, <1>9, <1>11, <1>12, Zenon DEF CreateCall, Now
<1>14. CodeOK(prog, code) /\ cur \in DOMAIN code  BY <1>1, ScopesFacing
<1>15. CodeOK(prog, c) /\ Extends(code, c) /\ cur \in DOMAIN c  BY <1>10, <1>11, <1>14, PutExtends
<1>16. Value(c, v) /\ v.ty = fun.ret  BY <1>10, <1>11, <1>12, <1>14, PutValue
<1>17. h = Config(S, h.val, "any") /\ h.val \in {v.ty, "any"}  BY <1>5, <1>6, <1>16 DEF Leaves
<1>18. ScopeOK(prog, c, scope) /\ addr.ty \in Types  BY <1>1, <1>15, FacingStays
<1>19. code' = c /\ val' = v /\ agenda' = <<>> \o Tail(agenda)  BY <1>13 DEF Yield, Then
<1>20. Sound(prog, <<>> \o Tail(agenda), c, cur, scope, v, addr)
    BY <1>1, <1>3, <1>15, <1>16, <1>17, <1>18, FinishedValue
<1> QED BY <1>13, <1>19, <1>20 DEF Working, Yield, Keep

-----------------------------------------------------------------------------
(* The visit of the program                                                 *)

(* Before the function: k global variables have been declared.              *)
Declaring(p, ag, s, k) ==
    /\ k \in 0 .. Len(p.globals)
    /\ IsList(ag)
    /\ Len(ag) = Len(p.globals) - k + 1
    /\ \A i \in 1 .. Len(ag) : ag[i] = Append(p.globals, p.fun)[k + i]
    /\ Signatures(s) = <<Opened(Functions, p.globals, k)>>

Beginning ==
    /\ prog \in Programs
    /\ ~ aborted
    /\ code = <<>> /\ cur = 0
    /\ val = NoVal /\ addr = NoVal
    /\ ScopeOK(prog, <<>>, scope)
    /\ \E k : Declaring(prog, agenda, scope, k)

LEMMA ProgramFacts ==
    ASSUME NEW p \in Programs
    PROVE  /\ IsList(p.globals) /\ Len(p.globals) \in Nat /\ DOMAIN p.globals = 1 .. Len(p.globals)
           /\ \A i \in DOMAIN p.globals : p.globals[i].k = "decl" /\ p.globals[i].ty \in LocalTypes
           /\ p.fun.k = "fundecl"
           /\ IsList(p.fun.params)
           /\ \A i \in DOMAIN p.fun.params : p.fun.params[i].k = "param" /\ p.fun.params[i].ty \in ParamTypes
BY TypingAssumption, ListFacts DEF ProgramRule

LEMMA FunctionsSignature ==
    /\ Functions = [n \in DOMAIN Functions |-> Functions[n]]
    /\ ScopeSignature(Functions) = Functions
    /\ \A n \in DOMAIN Functions : Functions[n].kind = "fun"
<1>1. Functions = [n \in DOMAIN Functions |-> Functions[n]]  BY DEF Functions
<1>2. \A n \in DOMAIN Functions : Functions[n].kind = "fun"  BY DEF Functions
<1>3. \A n \in DOMAIN Functions : Signature(Functions[n]) = Functions[n]  BY <1>2, BindingSignature
<1>4. ScopeSignature(Functions) = [n \in DOMAIN Functions |-> Functions[n]]  BY <1>3 DEF ScopeSignature
<1> QED BY <1>1, <1>2, <1>4

LEMMA InitBeginning == Init => Beginning
<1> SUFFICES ASSUME Init PROVE Beginning  OBVIOUS
<1>1. prog \in Programs /\ ~ aborted /\ code = <<>> /\ cur = 0 /\ val = NoVal /\ addr = NoVal
    BY DEF Init
<1>2. PICK s : s = <<Functions>>  OBVIOUS
<1>3. IsList(s) /\ Len(s) = 1 /\ s[1] = Functions /\ DOMAIN s = {1}  BY <1>2, ShortLists
<1>4. ASSUME NEW n \in DOMAIN Functions PROVE BindingOK(prog, <<>>, n, Functions[n])
    <2>1. n # prog.fun.id  BY <1>1, OwnName
    <2>2. Functions[n] = Callee(prog, n)  BY <2>1 DEF Callee
    <2>3. Functions[n].kind = "fun"  BY FunctionsSignature
    <2> QED BY <2>2, <2>3 DEF BindingOK
<1>5. \A k \in DOMAIN s : s[k] = Functions  BY <1>3
<1>6. ScopeOK(prog, <<>>, s)  BY <1>3, <1>4, <1>5 DEF ScopeOK
<1>7. Signatures(s) = <<Functions>>
    <2>1. Append(<<>>, Functions) = <<Functions>>  OBVIOUS
    <2>2. Signatures(<<>>) = <<>>
        <3>1. IsList(Signatures(<<>>)) /\ Len(Signatures(<<>>)) = 0  BY ShortLists, SignatureFacts
        <3>2. \A i \in 1 .. 0 : FALSE  OBVIOUS
        <3> QED BY <3>1, <3>2, ShortLists, EqualLists
    <2>3. Signatures(Append(<<>>, Functions)) = Append(Signatures(<<>>), ScopeSignature(Functions))
        BY ShortLists, SignaturesAppend
    <2> QED BY <1>2, <2>1, <2>2, <2>3, FunctionsSignature
<1>8. PICK z \in Nat : z = 0  OBVIOUS
<1>9. Declaring(prog, agenda, s, z)
    <2>1. IsList(prog.globals) /\ Len(prog.globals) \in Nat  BY <1>1, ProgramFacts
    <2>2. z \in 0 .. Len(prog.globals) /\ Len(prog.globals) - z = Len(prog.globals)  BY <1>8, <2>1
    <2>3. PICK ag : ag = Append(prog.globals, prog.fun)  OBVIOUS
    <2>4. IsList(ag) /\ Len(ag) = Len(prog.globals) + 1 /\ agenda = ag
        BY <2>1, <2>3, AppendList DEF Init
    <2>5. \A i \in 1 .. Len(ag) : z + i = i  BY <1>8, <2>1, <2>4
    <2>6. Opened(Functions, prog.globals, z) = Functions  BY <1>8, FunctionsSignature, OpenedNone
    <2> QED BY <1>7, <2>2, <2>3, <2>4, <2>5, <2>6 DEF Declaring
<1> QED BY <1>1, <1>2, <1>6, <1>9 DEF Init, Beginning

(* The item at the head, before the function.                               *)
LEMMA DeclaringHead ==
    ASSUME NEW p \in Programs, NEW ag, NEW s, NEW k, Declaring(p, ag, s, k)
    PROVE  /\ k \in Nat /\ ag # <<>> /\ Head(ag).k \in {"decl", "fundecl"}
           /\ Head(ag).k = "decl" => /\ k + 1 \in DOMAIN p.globals
                                     /\ Head(ag) = p.globals[k + 1]
           /\ Head(ag).k = "fundecl" => /\ k = Len(p.globals)
                                        /\ Head(ag) = p.fun
                                        /\ Tail(ag) = <<>>
<1>1. PICK n : n = Len(p.globals)  OBVIOUS
<1>2. n \in Nat /\ IsList(p.globals) /\ DOMAIN p.globals = 1 .. n  BY <1>1, ProgramFacts
<1>3. k \in Nat /\ k <= n /\ IsList(ag) /\ Len(ag) = n - k + 1  BY <1>1, <1>2 DEF Declaring
<1>4. Len(ag) >= 1 /\ 1 \in 1 .. Len(ag)  BY <1>2, <1>3
<1>5. ag # <<>>  BY <1>4, ShortLists
<1>6. Head(ag) = ag[1] /\ IsList(Tail(ag)) /\ Len(Tail(ag)) = Len(ag) - 1  BY <1>3, <1>5, TailList
<1>7. PICK all : all = Append(p.globals, p.fun)  OBVIOUS
<1>8. Head(ag) = all[k + 1]  BY <1>4, <1>6, <1>7 DEF Declaring
<1>9. (\A i \in 1 .. n : all[i] = p.globals[i]) /\ all[n + 1] = p.fun  BY <1>1, <1>2, <1>7, AppendList
<1>10. CASE k = n
    <2>1. Head(ag) = p.fun /\ Head(ag).k = "fundecl"  BY <1>8, <1>9, <1>10, ProgramFacts
    <2>2. Len(Tail(ag)) = 0  BY <1>2, <1>3, <1>6, <1>10
    <2>3. \A i \in 1 .. Len(Tail(ag)) : FALSE
        <3>1. \A i \in 1 .. 0 : FALSE  OBVIOUS
        <3> QED BY <2>2, <3>1, Zenon
    <2>4. Tail(ag) = <<>>  BY <1>6, <2>2, <2>3, ShortLists, EqualLists
    <2> QED BY <1>1, <1>3, <1>5, <1>10, <2>1, <2>4
<1>11. CASE k # n
    <2>1. k + 1 \in 1 .. n  BY <1>2, <1>3, <1>11
    <2>2. Head(ag) = p.globals[k + 1]  BY <1>8, <1>9, <2>1
    <2>3. Head(ag).k = "decl"  BY <1>2, <2>1, <2>2, ProgramFacts
    <2> QED BY <1>2, <1>3, <1>5, <2>1, <2>2, <2>3
<1> QED BY <1>10, <1>11

LEMMA DeclarationBegins == ASSUME Beginning, VisitVarDeclaration PROVE Beginning'
<1>1. PICK k : Declaring(prog, agenda, scope, k)  BY DEF Beginning
<1>2. PICK it : it = Head(agenda)  OBVIOUS
<1>3. PICK n, outer : n = Len(prog.globals) /\ outer = Opened(Functions, prog.globals, k)  OBVIOUS
<1>4. it.k = "decl" /\ agenda' = <<>> \o Tail(agenda)
    BY <1>2 DEF VisitVarDeclaration, At, Now, Then
<1>5. prog \in Programs /\ ScopeOK(prog, <<>>, scope)  BY DEF Beginning
<1>6. k \in Nat /\ k + 1 \in DOMAIN prog.globals /\ it = prog.globals[k + 1] /\ agenda # <<>>
    BY <1>1, <1>2, <1>4, <1>5, DeclaringHead
<1>7. n \in Nat /\ DOMAIN prog.globals = 1 .. n /\ it.ty \in LocalTypes  BY <1>3, <1>5, <1>6, ProgramFacts
<1>8. /\ k < n /\ IsList(agenda) /\ Len(agenda) = n - k + 1
      /\ \A i \in 1 .. Len(agenda) : agenda[i] = Append(prog.globals, prog.fun)[k + i]
      /\ Signatures(scope) = <<outer>>
    <2>1. k + 1 \in 1 .. n  BY <1>6, <1>7
    <2>2. k < n  BY <1>6, <1>7, <2>1
    <2> QED BY <1>1, <1>3, <2>2, Zenon DEF Declaring
<1>9. IsList(scope) /\ Len(scope) = 1
    <2>1. IsList(scope)  BY <1>5 DEF ScopeOK
    <2>2. Len(Signatures(scope)) = Len(scope)  BY <2>1, SignatureFacts
    <2> QED BY <1>8, <2>1, <2>2, ShortLists
<1>10. PICK b : b = VarBinding(it.ty, <<"global", it.cell>>)  OBVIOUS
<1>11. scope' = Bound(scope, it.id, b) /\ code' = code
    BY <1>2, <1>9, <1>10 DEF VisitVarDeclaration, Now
<1>12. BindingOK(prog, <<>>, it.id, b)
    <2>1. PICK a, ty, fr : a = [ty |-> b.ty, from |-> b.from] /\ ty = it.ty /\ fr = <<"global", it.cell>>
        OBVIOUS
    <2>2. b.kind = "var" /\ b.ty = ty /\ b.from = fr  BY <1>10, <2>1 DEF VarBinding
    <2>3. a.ty = ty /\ a.from = fr  BY <2>1, <2>2
    <2>4. fr[1] = "global"  BY <2>1
    <2>5. ty \in VarTypes  BY <1>7, <2>1 DEF VarTypes
    <2>6. Known(<<>>, a)  BY <2>3, <2>4 DEF Known
    <2>7. TypeOfValue(<<>>, a) = I!Pointer(IrType(a.ty))  BY <2>3, <2>4 DEF TypeOfValue
    <2>8. AddressOfA(<<>>, a)  BY <2>3, <2>5, <2>6, <2>7 DEF AddressOfA
    <2> QED BY <2>1, <2>2, <2>8, Zenon DEF BindingOK
<1>13. ScopeOK(prog, <<>>, scope')  BY <1>5, <1>11, <1>12, ScopeFilled
<1>14. Signatures(scope') = <<Opened(Functions, prog.globals, k + 1)>>
    <2>1. Signature(b) = VarSig(it.ty)  BY <1>10, BindingSignature
    <2>2. Signatures(scope') = Bound(<<outer>>, it.id, VarSig(it.ty))
        <3>1. Len(scope) >= 1  BY <1>9
        <3>2. Signatures(Bound(scope, it.id, b)) = Bound(Signatures(scope), it.id, Signature(b))
            BY <1>9, <3>1, SignaturesBound
        <3> QED BY <1>8, <1>11, <2>1, <3>2
    <2>3. Append(<<>>, outer) = <<outer>>  OBVIOUS
    <2>4. PICK w : w = With(outer, it.id, VarSig(it.ty))  OBVIOUS
    <2>5. Append(<<>>, w) = <<w>>  OBVIOUS
    <2>6. Bound(Append(<<>>, outer), it.id, VarSig(it.ty)) = Append(<<>>, w)
        <3>1. PICK z : z = <<>>  OBVIOUS
        <3>2. IsList(z)  BY <3>1, ShortLists
        <3>3. PICK v : v = VarSig(it.ty)  OBVIOUS
        <3>4. Bound(Append(z, outer), it.id, v) = Append(z, With(outer, it.id, v))  BY <3>2, BoundLast
        <3> QED BY <2>4, <3>1, <3>3, <3>4
    <2>7. PICK m \in Nat : m = k + 1  BY <1>6
    <2>8. m >= 1 /\ m - 1 = k  BY <1>6, <2>7
    <2>9. w = Opened(Functions, prog.globals, m)
        <3>1. With(Opened(Functions, prog.globals, m - 1), prog.globals[m].id, VarSig(prog.globals[m].ty))
                    = Opened(Functions, prog.globals, m)
            BY <2>8, OpenedStep
        <3> QED BY <1>3, <1>6, <2>4, <2>7, <2>8, <3>1
    <2> QED BY <2>2, <2>3, <2>5, <2>6, <2>7, <2>9
<1>15. Declaring(prog, agenda', scope', k + 1)
    <2>1. k + 1 \in 0 .. n  BY <1>6, <1>7, <1>8
    <2>2. PICK t : t = Tail(agenda)  OBVIOUS
    <2>3. IsList(t) /\ Len(t) = Len(agenda) - 1 /\ (\A i \in 1 .. Len(agenda) - 1 : t[i] = agenda[i + 1])
        BY <1>6, <1>8, <2>2, TailList
    <2>4. agenda' = t  BY <1>4, <2>2, <2>3 DEF IsList
    <2>5. Len(t) = n - (k + 1) + 1  BY <1>6, <1>7, <1>8, <2>3
    <2>6. ASSUME NEW i \in 1 .. Len(t) PROVE t[i] = Append(prog.globals, prog.fun)[(k + 1) + i]
        <3>1. i \in 1 .. Len(agenda) - 1 /\ i + 1 \in 1 .. Len(agenda) /\ k + (i + 1) = (k + 1) + i
            BY <1>6, <1>7, <1>8, <2>3
        <3>2. agenda[i + 1] = Append(prog.globals, prog.fun)[k + (i + 1)]  BY <1>8, <3>1
        <3> QED BY <2>3, <3>1, <3>2
    <2> QED BY <1>3, <1>14, <2>1, <2>3, <2>4, <2>5, <2>6 DEF Declaring
<1>16. prog' = prog /\ aborted' = aborted /\ cur' = cur /\ val' = val /\ addr' = addr
    BY DEF VisitVarDeclaration, Keep
<1> QED BY <1>5, <1>11, <1>13, <1>15, <1>16 DEF Beginning

(* What the visit of the function has to do leads from its parameters'      *)
(* scope back to the outer one.                                             *)
LEMMA FunctionRuns ==
    ASSUME NEW p \in Programs, NEW c, NEW o, IsList(o), Len(o) = 1,
           Typed(p, Append(o, Inside(p.fun.params)), p.fun.body, "any")
    PROVE  Runs(p, c, Scoped(Append(p.fun.params, p.fun.body)) \o << [k |-> "implicit", ret |-> p.fun.ret] >>,
                Plain(Append(o, << >>)), Plain(o))
<1>1. PICK ds, body : ds = p.fun.params /\ body = p.fun.body  OBVIOUS
<1>2. /\ IsList(ds)
      /\ \A i \in DOMAIN ds : /\ ds[i].k \in {"decl", "param"}
                              /\ ds[i].ty \in VarTypes
                              /\ ds[i].k = "param" => ds[i].ty \in ParamTypes
    BY <1>1, ProgramFacts DEF VarTypes
<1>3. PICK t : t = Append(o, Inside(ds))  OBVIOUS
<1>4. Len(t) > 1 /\ Front(t) = o
    <2>1. PICK q : q = Inside(ds)  OBVIOUS
    <2>2. Len(Append(o, q)) = Len(o) + 1 /\ Front(Append(o, q)) = o  BY AppendList, FrontAppend
    <2> QED BY <1>3, <2>1, <2>2
<1>5. Len(o) >= 1  OBVIOUS
<1>6. Runs(p, c, ds, Plain(Append(o, << >>)), Plain(t))  BY <1>2, <1>3, <1>5, DeclarationsRun
<1>7. Step(p, c, body, Plain(t), Plain(t))
    <2>1. PICK g : g = Plain(t)  OBVIOUS
    <2>2. g.scopes = t  BY <2>1, ConfigFacts
    <2>3. Typed(p, g.scopes, body, "any")  BY <1>1, <1>3, <2>2
    <2>4. Step(p, c, body, g, Config(g.scopes, "any", "any"))  BY <2>3, NodeStep
    <2> QED BY <2>1, <2>2, <2>4 DEF Plain
<1>8. PICK e : e = [k |-> "exit"]  OBVIOUS
<1>9. e.k = "exit"  BY <1>8
<1>10. Step(p, c, e, Plain(t), Plain(o))
    <2>1. PICK g, h : g = Plain(t) /\ h = Plain(o)  OBVIOUS
    <2>2. g.scopes = t  BY <2>1, ConfigFacts
    <2>3. Len(g.scopes) > 1  BY <1>4, <2>2
    <2>4. h = Plain(Front(g.scopes))  BY <1>4, <2>1, <2>2
    <2>5. Step(p, c, e, g, h)  BY <1>9, <2>3, <2>4 DEF Step, Nodes
    <2> QED BY <2>1, <2>5
<1>11. PICK r : r = [k |-> "implicit", ret |-> p.fun.ret]  OBVIOUS
<1>12. r.k = "implicit" /\ r.ret = p.fun.ret  BY <1>11
<1>13. Step(p, c, r, Plain(o), Plain(o))
    <2>1. PICK g : g = Plain(o)  OBVIOUS
    <2>2. g.scopes = o  BY <2>1, ConfigFacts
    <2>3. Step(p, c, r, g, g)  BY <1>12, <2>1, <2>2 DEF Step, Nodes
    <2> QED BY <2>1, <2>3
<1>14. Runs(p, c, <<body>>, Plain(t), Plain(t))  BY <1>7, RunsOne
<1>15. Runs(p, c, <<e>>, Plain(t), Plain(o))  BY <1>10, RunsOne
<1>16. Runs(p, c, <<r>>, Plain(o), Plain(o))  BY <1>13, RunsOne
<1>17. PICK a : a = ds \o <<body>>  OBVIOUS
<1>18. Runs(p, c, a, Plain(Append(o, << >>)), Plain(t))  BY <1>6, <1>14, <1>17, RunsOn
<1>19. PICK b : b = a \o <<e>>  OBVIOUS
<1>20. Runs(p, c, b, Plain(Append(o, << >>)), Plain(o))  BY <1>15, <1>18, <1>19, RunsOn
<1>21. Append(ds, body) = a  BY <1>2, <1>17, AppendConcat
<1>22. Append(a, e) = b  BY <1>18, <1>19, AppendConcat DEF Runs
<1>23. Runs(p, c, b \o <<r>>, Plain(Append(o, << >>)), Plain(o))  BY <1>16, <1>20, RunsOn
<1> QED BY <1>1, <1>8, <1>11, <1>21, <1>22, <1>23 DEF Scoped

LEMMA FunctionBegins == ASSUME Beginning, VisitFunDeclaration PROVE Working'
<1>1. PICK k : Declaring(prog, agenda, scope, k)  BY DEF Beginning
<1>2. PICK it, fun : it = Head(agenda) /\ fun = prog.fun  OBVIOUS
<1>3. PICK outer : outer = Opened(Functions, prog.globals, Len(prog.globals))  OBVIOUS
<1>4. prog \in Programs /\ ScopeOK(prog, <<>>, scope) /\ val = NoVal /\ addr = NoVal /\ ~ aborted
    BY DEF Beginning
<1>5. it.k = "fundecl"  BY <1>2 DEF VisitFunDeclaration, At, Now
<1>6. k = Len(prog.globals) /\ it = fun /\ Tail(agenda) = <<>>
    BY <1>1, <1>2, <1>4, <1>5, DeclaringHead
<1>7. Signatures(scope) = <<outer>>  BY <1>1, <1>3, <1>6 DEF Declaring
<1>8. IsList(scope) /\ Len(scope) = 1 /\ Len(scope) >= 1
    <2>1. IsList(scope)  BY <1>4 DEF ScopeOK
    <2>2. Len(Signatures(scope)) = Len(scope)  BY <2>1, SignatureFacts
    <2> QED BY <1>7, <2>1, <2>2, ShortLists
<1>9. PICK f : f = FunSig(fun)  OBVIOUS
<1>10. PICK s, items : /\ s = Bound(scope, fun.id, f)
                       /\ items = Scoped(Append(fun.params, fun.body)) \o << [k |-> "implicit", ret |-> fun.ret] >>
    OBVIOUS
<1>11. /\ scope' = Append(s, << >>)
       /\ code' = << <<>> >>
       /\ cur' = 1
       /\ agenda' = items \o Tail(agenda)
       /\ prog' = prog /\ aborted' = aborted /\ val' = val /\ addr' = addr
    BY <1>2, <1>6, <1>9, <1>10 DEF VisitFunDeclaration, Now, Then, Keep, FunSig
<1>12. PICK c : c = << <<>> >>  OBVIOUS
<1>13. CodeOK(prog, c) /\ 1 \in DOMAIN c /\ Extends(<<>>, c)
    <2>1. IsList(c) /\ Len(c) = 1 /\ c[1] = <<>> /\ DOMAIN c = {1}  BY <1>12, ShortLists
    <2>2. IsList(<<>>) /\ DOMAIN <<>> = {}  BY ShortLists
    <2>3. \A bb \in DOMAIN c : c[bb] = <<>>  BY <2>1
    <2>4. IsCode(c)  BY <2>1, <2>2, <2>3 DEF IsCode
    <2>5. CodeOK(prog, c)  BY <2>2, <2>3, <2>4 DEF CodeOK
    <2> QED BY <2>1, <2>2, <2>5 DEF Extends
<1>14. ScopeOK(prog, c, scope')
    <2>1. Callee(prog, fun.id) = f  BY <1>2, <1>9 DEF Callee
    <2>2. f.kind = "fun"  BY <1>9 DEF FunSig
    <2>3. BindingOK(prog, <<>>, fun.id, f)  BY <1>2, <2>1, <2>2 DEF BindingOK
    <2>4. ScopeOK(prog, <<>>, s)  BY <1>4, <1>10, <2>3, ScopeFilled
    <2>5. ScopeOK(prog, <<>>, scope')  BY <1>11, <2>4, ScopeEntered
    <2> QED BY <1>13, <2>5, ScopeStays
<1>15. PICK w : w = [n \in DOMAIN outer \cup {fun.id} |-> IF n = fun.id THEN f ELSE outer[n]]  OBVIOUS
<1>16. /\ Typed(prog, <<w, Inside(fun.params)>>, fun.body, "any")
       /\ fun.id \notin DOMAIN outer
    BY <1>2, <1>3, <1>4, <1>9, <1>15, TypingAssumption DEF ProgramRule
<1>17. With(outer, fun.id, f) = w  BY <1>15, <1>16 DEF With
<1>18. Signatures(s) = <<w>> /\ IsList(s) /\ Len(s) = 1
    <2>1. Signature(f) = f  BY <1>9, BindingSignature DEF FunSig
    <2>2. Signatures(s) = Bound(Signatures(scope), fun.id, Signature(f))
        BY <1>8, <1>10, SignaturesBound
    <2>3. PICK z : z = <<>>  OBVIOUS
    <2>4. IsList(z) /\ Append(z, outer) = <<outer>> /\ Append(z, w) = <<w>>  BY <2>3, ShortLists
    <2>5. Bound(Append(z, outer), fun.id, f) = Append(z, With(outer, fun.id, f))
        <3>1. PICK id : id = fun.id  OBVIOUS
        <3>2. IsList(z)  BY <2>4
        <3>3. Bound(Append(z, outer), id, f) = Append(z, With(outer, id, f))  BY <3>2, BoundLast
        <3> QED BY <3>1, <3>3
    <2>6. Signatures(s) = <<w>>  BY <1>7, <1>17, <2>1, <2>2, <2>4, <2>5
    <2>7. IsList(s) /\ Len(s) = Len(scope)  BY <1>8, <1>10, BoundFacts
    <2> QED BY <1>8, <2>6, <2>7
<1>19. PICK o : o = <<w>>  OBVIOUS
<1>20. Signatures(scope') = Append(o, << >>)
    BY <1>11, <1>18, <1>19, SignaturesAppend, EmptyScope
<1>21. IsList(o) /\ Len(o) = 1 /\ Append(o, Inside(fun.params)) = <<w, Inside(fun.params)>>
    BY <1>19, ShortLists, AppendTuple
<1>22. Runs(prog, c, items, Plain(Append(o, << >>)), Plain(o))
    BY <1>2, <1>4, <1>10, <1>16, <1>21, FunctionRuns
<1>23. agenda' = items
    <2>1. PICK its, S : its = items /\ S = {its[i] : i \in DOMAIN its}  OBVIOUS
    <2>2. its \in Seq(S)  BY <1>22, <2>1 DEF Runs, IsList
    <2>3. its \o <<>> = its  BY <2>2
    <2> QED BY <1>6, <1>11, <2>1, <2>3
<1>24. Value(c, val) /\ addr.ty \in Types
    <2>1. NoVal.ty = "void" /\ NoVal.from = <<"none">>  BY DEF NoVal
    <2>2. PICK v, fr : v = val /\ fr = <<"none">>  OBVIOUS
    <2>3. v.ty = "void" /\ v.from = fr /\ fr[1] = "none"  BY <1>4, <2>1, <2>2
    <2>4. Known(c, v) /\ TypeOfValue(c, v) = IrType(v.ty)  BY <2>3 DEF Known, TypeOfValue
    <2> QED BY <1>4, <2>1, <2>2, <2>3, <2>4 DEF Value, Types
<1>25. Matches(c, Plain(Append(o, << >>)), scope', val, addr)  BY <1>20, PlainMatches
<1>26. PICK S : S = scope'  OBVIOUS
<1>27. Sound(prog, items, c, 1, S, val, addr)
    BY <1>13, <1>14, <1>22, <1>24, <1>25, <1>26 DEF Sound
<1> QED BY <1>4, <1>11, <1>12, <1>23, <1>26, <1>27 DEF Working

Inv == Beginning \/ Working

LEMMA BeginningHead == ASSUME Beginning, Next PROVE VisitVarDeclaration \/ VisitFunDeclaration
<1>1. Head(agenda).k \in {"decl", "fundecl"}
    <2>1. PICK k : Declaring(prog, agenda, scope, k)  BY DEF Beginning
    <2> QED BY <2>1, DeclaringHead DEF Beginning
<1> QED BY <1>1 DEF Next, At, Now, CreateBr, SetInsertPoint, ExitScope, VisitParam, ImplicitReturn,
        VisitCompoundStmt, VisitExpressionStmt, VisitSelectionStmt, Branch, VisitIterationStmt, LoopBody,
        LoopBranch, VisitReturnStmt, Returned, VisitNum, VisitVar, VisitElement, Element, Address,
        VisitAssign, Target, Store, VisitBinary, Right, Combine, VisitCall, NextArgument, Argument, CreateCall

LEMMA BeginningStep == ASSUME Beginning, Next PROVE Inv'
BY BeginningHead, DeclarationBegins, FunctionBegins DEF Inv

LEMMA WorkingStep == ASSUME Working, Next PROVE Working'
<1>1. ~ VisitFunDeclaration
    <2>1. SUFFICES ASSUME VisitFunDeclaration PROVE FALSE  OBVIOUS
    <2>2. Head(agenda).k = "fundecl" /\ agenda # <<>>  BY <2>1 DEF VisitFunDeclaration, At, Now
    <2>3. PICK g, h : Facing(prog, agenda, code, cur, scope, val, addr, g, h)
        BY <2>2, FacingHead DEF Working
    <2> QED BY <2>2, <2>3 DEF Facing, Step
<1> QED BY <1>1, CreateBrWorks, SetInsertPointWorks, ExitScopeWorks, VisitVarDeclarationWorks,
            VisitParamWorks, ImplicitReturnWorks, VisitCompoundStmtWorks, VisitExpressionStmtWorks,
            VisitSelectionStmtWorks, BranchWorks, VisitIterationStmtWorks, LoopBodyWorks, LoopBranchWorks,
            VisitReturnStmtWorks, ReturnedWorks, VisitNumWorks, VisitVarWorks, VisitElementWorks,
            ElementWorks, AddressWorks, VisitAssignWorks, TargetWorks, StoreWorks, VisitBinaryWorks,
            RightWorks, CombineWorks, VisitCallWorks, NextArgumentWorks, ArgumentWorks, CreateCallWorks
        DEF Next

LEMMA InvStep == ASSUME Inv, [Next]_vars PROVE Inv'
<1>1. CASE UNCHANGED vars
    <2>1. Beginning => Beginning'  BY <1>1 DEF vars, Beginning
    <2>2. Working => Working'  BY <1>1 DEF vars, Working
    <2> QED BY <2>1, <2>2 DEF Inv
<1>2. CASE Next  BY <1>2, BeginningStep, WorkingStep DEF Inv
<1> QED BY <1>1, <1>2

LEMMA InvTypeOK == ASSUME Inv PROVE TypeOK
<1>1. CASE Beginning
    <2>1. code = <<>> /\ cur = 0 /\ val = NoVal /\ addr = NoVal  BY <1>1 DEF Beginning
    <2>2. Len(code) = 0 /\ DOMAIN code = {}  BY <2>1, ShortLists
    <2>3. val.ty = "void" /\ addr.ty = "void"  BY <2>1 DEF NoVal
    <2> QED BY <2>1, <2>2, <2>3 DEF TypeOK, Types
<1>2. CASE Working
    <2>1. CodeOK(prog, code) /\ cur \in DOMAIN code /\ Value(code, val) /\ addr.ty \in Types
        BY <1>2 DEF Working, Sound
    <2>2. Len(code) \in Nat /\ DOMAIN code = 1 .. Len(code)  BY <2>1, ListFacts DEF CodeOK, IsCode
    <2>3. cur \in 0 .. Len(code) /\ cur # 0  BY <2>1, <2>2
    <2>4. ASSUME NEW bb \in DOMAIN code, NEW i \in DOMAIN code[bb]
          PROVE  LET inst == code[bb][i]
                 IN  /\ inst.ty \in Types
                     /\ \A n \in DOMAIN inst.to : inst.to[n] \in DOMAIN code
                     /\ \A n \in DOMAIN inst.args : inst.args[n].from[1] = "at" =>
                             LET at == inst.args[n].from
                             IN  at[2] \in DOMAIN code /\ at[3] \in DOMAIN code[at[2]]
        <3>1. InstOK(prog, code, code[bb][i])  BY <2>1 DEF CodeOK
        <3> QED BY <3>1, Zenon DEF InstOK, Known
    <2>5. {val.ty, addr.ty} \subseteq Types  BY <2>1 DEF Value
    <2> QED BY <2>3, <2>4, <2>5, Zenon DEF TypeOK
<1> QED BY <1>1, <1>2 DEF Inv

LEMMA InvFits == ASSUME Inv PROVE InstructionsFit
<1> SUFFICES ASSUME Done
             PROVE  /\ \A bb \in DOMAIN code : \A i \in DOMAIN code[bb] : Fits(prog, code, code[bb][i])
                    /\ I!FunctionTypeFits(IrType(prog.fun.ret),
                                          [i \in DOMAIN prog.fun.params |-> IrType(prog.fun.params[i].ty)])
    BY DEF InstructionsFit
<1>1. Working
    <2>1. SUFFICES ASSUME Beginning PROVE FALSE  BY DEF Inv
    <2>2. PICK k : Declaring(prog, agenda, scope, k)  BY <2>1 DEF Beginning
    <2>3. agenda # <<>>  BY <2>1, <2>2, DeclaringHead DEF Beginning
    <2> QED BY <2>3 DEF Done
<1>2. CodeOK(prog, code) /\ prog \in Programs  BY <1>1 DEF Working, Sound
<1>3. \A bb \in DOMAIN code : \A i \in DOMAIN code[bb] : Fits(prog, code, code[bb][i])
    BY <1>2 DEF CodeOK, InstOK
<1>4. PICK tys : tys = [i \in DOMAIN prog.fun.params |-> IrType(prog.fun.params[i].ty)]  OBVIOUS
<1>5. ASSUME NEW i \in DOMAIN tys PROVE tys[i] \in {IrType(ty) : ty \in ParamTypes}
    <2>1. i \in DOMAIN prog.fun.params /\ tys[i] = IrType(prog.fun.params[i].ty)  BY <1>4
    <2> QED BY <1>2, <2>1, ProgramFacts
<1>6. IrType(prog.fun.ret) \in {IrType(ty) : ty \in {"i32", "float", "void"}}
    BY <1>2, FunctionRule
<1>7. I!FunctionTypeFits(IrType(prog.fun.ret), tys)
    <2>1. \A i \in DOMAIN tys : tys[i] \in {<<"int32">>, <<"float">>, <<"pointer", <<"int32">> >>,
                                             <<"pointer", <<"float">> >>}
        BY <1>5, IrTypes DEF ParamTypes
    <2>2. IrType(prog.fun.ret) \in {<<"int32">>, <<"float">>, <<"void">>}  BY <1>6, IrTypes
    <2>3. \A t \in {<<"int32">>, <<"float">>, <<"pointer", <<"int32">> >>, <<"pointer", <<"float">> >>} :
                I!is_integer_type(t) \/ I!is_pointer_type(t) \/ t = I!Float
        BY DEF I!is_integer_type, I!is_pointer_type, I!Float, I!Int1, I!Int32
    <2>4. \A t \in {<<"int32">>, <<"float">>, <<"void">>} : I!is_integer_type(t) \/ t \in {I!Void, I!Float}
        BY DEF I!is_integer_type, I!Void, I!Float, I!Int1, I!Int32
    <2> QED BY <2>1, <2>2, <2>3, <2>4 DEF I!FunctionTypeFits
<1> QED BY <1>3, <1>4, <1>7

-----------------------------------------------------------------------------
(* The scopes entered and not left                                          *)

Exits(ag) == {i \in DOMAIN ag : ag[i].k = "exit"}
Exitless(its) == \A i \in DOMAIN its : its[i].k # "exit"
Counted(ag, s) == IsFiniteSet(Exits(ag)) /\ Len(s) = 1 + Cardinality(Exits(ag))

(* The head of the agenda replaced by the items its.                        *)
LEMMA Spliced ==
    ASSUME NEW its, IsList(its), NEW ag, IsList(ag), ag # <<>>, NEW u, u = its \o Tail(ag),
           NEW m, m = Len(its), NEW n, n = Len(ag)
    PROVE  /\ m \in Nat /\ n \in Nat /\ n >= 1 /\ DOMAIN ag = 1 .. n /\ DOMAIN its = 1 .. m
           /\ IsList(u) /\ Len(u) = m + n - 1 /\ DOMAIN u = 1 .. m + n - 1
           /\ Head(ag) = ag[1]
           /\ \A i \in 1 .. m : u[i] = its[i]
           /\ \A i \in m + 1 .. m + n - 1 : u[i] = ag[i - m + 1]
           /\ \A j \in 2 .. n : u[m + j - 1] = ag[j]
<1>1. m \in Nat /\ DOMAIN its = 1 .. m /\ n \in Nat /\ DOMAIN ag = 1 .. n  BY ListFacts
<1>2. PICK t : t = Tail(ag)  OBVIOUS
<1>3. IsList(t) /\ n >= 1 /\ Head(ag) = ag[1] /\ Len(t) = n - 1 /\ \A i \in 1 .. n - 1 : t[i] = ag[i + 1]
    BY <1>2, TailList
<1>4. /\ IsList(u) /\ Len(u) = m + (n - 1)
      /\ \A i \in 1 .. m : u[i] = its[i]
      /\ \A i \in m + 1 .. m + (n - 1) : u[i] = t[i - m]
    BY <1>2, <1>3, ConcatList
<1>5. m + (n - 1) = m + n - 1  BY <1>1
<1>6. DOMAIN u = 1 .. m + n - 1  BY <1>4, <1>5, ListFacts
<1>7. ASSUME NEW i \in m + 1 .. m + n - 1 PROVE u[i] = ag[i - m + 1]
    <2>1. i \in m + 1 .. m + (n - 1) /\ i - m \in 1 .. n - 1  BY <1>1
    <2> QED BY <1>3, <1>4, <2>1
<1>8. ASSUME NEW j \in 2 .. n PROVE u[m + j - 1] = ag[j]
    <2>1. m + j - 1 \in m + 1 .. m + n - 1 /\ (m + j - 1) - m + 1 = j  BY <1>1
    <2> QED BY <1>7, <2>1
<1> QED BY <1>1, <1>3, <1>4, <1>5, <1>6, <1>7, <1>8

LEMMA Shifted ==
    ASSUME NEW S \in SUBSET Int, IsFiniteSet(S), NEW k \in Int, NEW T, T = {i + k : i \in S}
    PROVE  IsFiniteSet(T) /\ Cardinality(T) = Cardinality(S)
<1> DEFINE f == [i \in S |-> i + k]
<1>1. f \in [S -> T]  OBVIOUS
<1>2. \A i, j \in S : f[i] = f[j] => i = j  OBVIOUS
<1>3. \A t \in T : \E i \in S : f[i] = t  OBVIOUS
<1>4. f \in Bijection(S, T)  BY <1>1, <1>2, <1>3 DEF Bijection, Injection, Surjection, IsInjective
<1>5. ExistsBijection(S, T)  BY <1>4 DEF ExistsBijection
<1> QED BY <1>5, FS_Bijection

(* No scope is entered or left.                                             *)
LEMMA CountStays ==
    ASSUME NEW ag, IsList(ag), ag # <<>>, Head(ag).k # "exit", NEW its, IsList(its), Exitless(its),
           NEW s, Counted(ag, s), NEW t, Len(t) = Len(s)
    PROVE  Counted(its \o Tail(ag), t)
<1>1. PICK u, m, n : u = its \o Tail(ag) /\ m = Len(its) /\ n = Len(ag)  OBVIOUS
<1>2. /\ m \in Nat /\ n \in Nat /\ n >= 1 /\ DOMAIN ag = 1 .. n /\ DOMAIN its = 1 .. m
      /\ DOMAIN u = 1 .. m + n - 1
      /\ Head(ag) = ag[1]
      /\ \A i \in 1 .. m : u[i] = its[i]
      /\ \A i \in m + 1 .. m + n - 1 : u[i] = ag[i - m + 1]
      /\ \A j \in 2 .. n : u[m + j - 1] = ag[j]
    BY <1>1, Spliced
<1>3. Exits(ag) \in SUBSET Int  BY <1>2 DEF Exits
<1>4. PICK k \in Int : k = m - 1  BY <1>2
<1>5. Exits(u) = {i + k : i \in Exits(ag)}
    <2>1. ASSUME NEW i \in Exits(u) PROVE \E j \in Exits(ag) : i = j + k
        <3>1. i \in 1 .. m + n - 1 /\ u[i].k = "exit"  BY <1>2 DEF Exits
        <3>2. i \notin 1 .. m  BY <1>2, <3>1 DEF Exitless
        <3>3. i \in m + 1 .. m + n - 1 /\ i - m + 1 \in 1 .. n /\ i = (i - m + 1) + k  BY <1>2, <1>4, <3>1, <3>2
        <3>4. i - m + 1 \in Exits(ag)  BY <1>2, <3>1, <3>3 DEF Exits
        <3> QED BY <3>3, <3>4
    <2>2. ASSUME NEW j \in Exits(ag) PROVE j + k \in Exits(u)
        <3>1. j \in 1 .. n /\ ag[j].k = "exit"  BY <1>2 DEF Exits
        <3>2. j # 1  BY <1>2, <3>1
        <3>3. j \in 2 .. n /\ j + k = m + j - 1 /\ j + k \in 1 .. m + n - 1  BY <1>2, <1>4, <3>1, <3>2
        <3>4. u[j + k].k = "exit"  BY <1>2, <3>1, <3>3
        <3> QED BY <1>2, <3>3, <3>4 DEF Exits
    <2> QED BY <2>1, <2>2
<1>6. IsFiniteSet(Exits(u)) /\ Cardinality(Exits(u)) = Cardinality(Exits(ag))
    BY <1>3, <1>5, Shifted, ZenonT(60) DEF Counted
<1> QED BY <1>1, <1>6 DEF Counted

(* A scope is entered, and its exit planned.                                *)
LEMMA CountEntered ==
    ASSUME NEW ag, IsList(ag), ag # <<>>, Head(ag).k # "exit", NEW its, IsList(its), Exitless(its),
           NEW e, e.k = "exit", NEW s, Counted(ag, s), NEW t, Len(t) = Len(s) + 1
    PROVE  Counted(Append(its, e) \o Tail(ag), t)
<1>1. PICK a : a = Append(its, e)  OBVIOUS
<1>2. PICK u, m, n : u = a \o Tail(ag) /\ m = Len(its) /\ n = Len(ag)  OBVIOUS
<1>3. m \in Nat /\ DOMAIN its = 1 .. m  BY <1>2, ListFacts
<1>4. IsList(a) /\ Len(a) = m + 1 /\ (\A i \in 1 .. m : a[i] = its[i]) /\ a[m + 1] = e
    BY <1>1, <1>2, AppendList
<1>5. PICK q : q = m + 1  OBVIOUS
<1>6. /\ n \in Nat /\ n >= 1 /\ DOMAIN ag = 1 .. n
      /\ DOMAIN u = 1 .. q + n - 1
      /\ Head(ag) = ag[1]
      /\ \A i \in 1 .. q : u[i] = a[i]
      /\ \A i \in q + 1 .. q + n - 1 : u[i] = ag[i - q + 1]
      /\ \A j \in 2 .. n : u[q + j - 1] = ag[j]
    <2>1. IsList(a)  BY <1>4
    <2>2. q = Len(a)  BY <1>4, <1>5
    <2>3. u = a \o Tail(ag) /\ n = Len(ag)  BY <1>2
    <2> QED BY <2>1, <2>2, <2>3, Spliced
<1>7. Exits(ag) \in SUBSET Int  BY <1>6 DEF Exits
<1>8. PICK T : T = {i + m : i \in Exits(ag)}  OBVIOUS
<1>9. IsFiniteSet(T) /\ Cardinality(T) = Cardinality(Exits(ag))
    <2>1. m \in Int /\ IsFiniteSet(Exits(ag))  BY <1>3 DEF Counted
    <2> QED BY <1>7, <1>8, <2>1, Shifted
<1>10. q \notin T
    <2>1. 1 \notin Exits(ag)  BY <1>6 DEF Exits
    <2> QED BY <1>3, <1>5, <1>7, <1>8, <2>1
<1>11. Exits(u) = T \cup {q}
    <2>1. ASSUME NEW i \in Exits(u) PROVE i \in T \cup {q}
        <3>1. i \in 1 .. q + n - 1 /\ u[i].k = "exit"  BY <1>6 DEF Exits
        <3>2. i \notin 1 .. m
            <4>1. SUFFICES ASSUME i \in 1 .. m PROVE FALSE  OBVIOUS
            <4>2. i \in 1 .. q /\ u[i] = its[i]  BY <1>3, <1>4, <1>5, <1>6, <4>1
            <4> QED BY <1>3, <3>1, <4>1, <4>2 DEF Exitless
        <3>3. CASE i # q
            <4>1. i \in q + 1 .. q + n - 1 /\ i - q + 1 \in 1 .. n /\ i = (i - q + 1) + m
                BY <1>3, <1>5, <1>6, <3>1, <3>2, <3>3
            <4>2. i - q + 1 \in Exits(ag)  BY <1>6, <3>1, <4>1 DEF Exits
            <4> QED BY <1>8, <4>1, <4>2
        <3> QED BY <3>3
    <2>2. ASSUME NEW j \in Exits(ag) PROVE j + m \in Exits(u)
        <3>1. j \in 1 .. n /\ ag[j].k = "exit"  BY <1>6 DEF Exits
        <3>2. j # 1  BY <1>6, <3>1
        <3>3. j \in 2 .. n /\ j + m = q + j - 1 /\ j + m \in 1 .. q + n - 1
            BY <1>3, <1>5, <1>6, <3>1, <3>2
        <3>4. u[j + m].k = "exit"  BY <1>6, <3>1, <3>3
        <3> QED BY <1>6, <3>3, <3>4 DEF Exits
    <2>3. q \in Exits(u)
        <3>1. q \in 1 .. q /\ q \in 1 .. q + n - 1  BY <1>3, <1>5, <1>6
        <3>2. u[q] = e  BY <1>4, <1>5, <1>6, <3>1
        <3> QED BY <1>6, <3>1, <3>2 DEF Exits
    <2> QED BY <1>8, <2>1, <2>2, <2>3
<1>12. IsFiniteSet(Exits(u)) /\ Cardinality(Exits(u)) = Cardinality(T) + 1
    BY <1>9, <1>10, <1>11, FS_AddElement
<1>13. Cardinality(T) \in Nat  BY <1>9, FS_CardinalityType
<1> QED BY <1>1, <1>2, <1>9, <1>12, <1>13 DEF Counted

(* The innermost scope is left.                                             *)
LEMMA CountLeft ==
    ASSUME NEW ag, IsList(ag), ag # <<>>, Head(ag).k = "exit",
           NEW s, Counted(ag, s), NEW t, Len(t) = Len(s) - 1
    PROVE  Counted(<<>> \o Tail(ag), t)
<1>1. PICK z, u, m, n : z = <<>> /\ u = z \o Tail(ag) /\ m = Len(z) /\ n = Len(ag)  OBVIOUS
<1>2. IsList(z) /\ m = 0  BY <1>1, ShortLists
<1>3. /\ m \in Nat /\ n \in Nat /\ n >= 1 /\ DOMAIN ag = 1 .. n
      /\ DOMAIN u = 1 .. m + n - 1
      /\ Head(ag) = ag[1]
      /\ \A i \in m + 1 .. m + n - 1 : u[i] = ag[i - m + 1]
      /\ \A j \in 2 .. n : u[m + j - 1] = ag[j]
    BY <1>1, <1>2, Spliced
<1>4. PICK S : S = Exits(ag) \ {1}  OBVIOUS
<1>5. 1 \in Exits(ag)  BY <1>3 DEF Exits
<1>6. IsFiniteSet(S) /\ Cardinality(S) = Cardinality(Exits(ag)) - 1
    BY <1>4, <1>5, FS_RemoveElement DEF Counted
<1>7. S \in SUBSET Int  BY <1>3, <1>4 DEF Exits
<1>8. PICK k \in Int : k = -1  OBVIOUS
<1>9. Exits(u) = {i + k : i \in S}
    <2>1. ASSUME NEW i \in Exits(u) PROVE \E j \in S : i = j + k
        <3>1. i \in 1 .. n - 1 /\ u[i].k = "exit"  BY <1>2, <1>3 DEF Exits
        <3>2. i + 1 \in 1 .. n /\ i + 1 # 1 /\ i = (i + 1) + k /\ i \in m + 1 .. m + n - 1 /\ i - m + 1 = i + 1
            BY <1>2, <1>3, <1>8, <3>1
        <3>3. i + 1 \in S  BY <1>3, <1>4, <3>1, <3>2 DEF Exits
        <3> QED BY <3>2, <3>3
    <2>2. ASSUME NEW j \in S PROVE j + k \in Exits(u)
        <3>1. j \in 1 .. n /\ ag[j].k = "exit" /\ j # 1  BY <1>3, <1>4 DEF Exits
        <3>2. j \in 2 .. n /\ j + k = m + j - 1 /\ j + k \in 1 .. m + n - 1  BY <1>2, <1>3, <1>8, <3>1
        <3>3. u[j + k].k = "exit"  BY <1>3, <3>1, <3>2
        <3> QED BY <1>3, <3>2, <3>3 DEF Exits
    <2> QED BY <2>1, <2>2
<1>10. IsFiniteSet(Exits(u)) /\ Cardinality(Exits(u)) = Cardinality(S)  BY <1>6, <1>7, <1>9, Shifted, ZenonT(60)
<1>11. Cardinality(Exits(ag)) \in Nat  BY FS_CardinalityType DEF Counted
<1> QED BY <1>1, <1>6, <1>10, <1>11 DEF Counted

-----------------------------------------------------------------------------
(* What a step does to the agenda, the insert point and the number of scopes *)

Calm(its) == \A i \in DOMAIN its : its[i].k \notin {"at", "loop", "body", "implicit"}

(* What is left to do in the visit of an expression of Straight.            *)
StraightItem(it) ==
    \/ it \in Straight
    \/ it.k \in {"num", "var", "store", "combine"}
    \/ it.k = "target" /\ it.rhs \in Straight
    \/ it.k = "right" /\ it.r \in Straight
    \/ it.k \in {"args", "arg"} /\ \A i \in DOMAIN it.todo : it.todo[i] \in Straight
StraightItems(its) == \A i \in DOMAIN its : StraightItem(its[i])

(* Instructions are added to the current block only, no scope is entered or *)
(* left, no block is to begin.                                              *)
Quiet(items) ==
    /\ IsList(items) /\ agenda' = items \o Tail(agenda)
    /\ Calm(items) /\ Exitless(items)
    /\ StraightItem(Head(agenda)) => StraightItems(items)
    /\ cur' = cur /\ Grows(code, code', cur)
    /\ Len(scope') = Len(scope)

LEMMA WorkingFacts ==
    ASSUME Working
    PROVE  /\ prog \in Programs /\ ~ aborted
           /\ CodeOK(prog, code) /\ IsCode(code) /\ cur \in DOMAIN code
           /\ IsList(agenda)
           /\ IsList(scope) /\ Len(scope) >= 1 /\ Len(scope) \in Nat
<1>1. Sound(prog, agenda, code, cur, scope, val, addr) /\ prog \in Programs /\ ~ aborted  BY DEF Working
<1>2. CodeOK(prog, code) /\ cur \in DOMAIN code  BY <1>1 DEF Sound
<1>3. IsCode(code)  BY <1>2 DEF CodeOK
<1>4. IsList(agenda)  BY <1>1 DEF Sound, Runs
<1>5. IsList(scope) /\ Len(scope) >= 1  BY <1>1 DEF Sound, ScopeOK
<1> QED BY <1>1, <1>2, <1>3, <1>4, <1>5, ListFacts

LEMMA TypedNode ==
    ASSUME NEW p, NEW s, NEW e
    PROVE  /\ \A tys : Has(p, s, e, tys) => e.k \in Nodes
           /\ \A to : Converts(p, s, e, to) => e.k \in Nodes
BY TypedRule DEF Has, Converts

LEMMA StraightFacts ==
    ASSUME NEW it, StraightItem(it)
    PROVE  /\ it.k \in {"num", "var", "store", "combine", "target", "right", "args", "arg",
                        "assign", "binary", "call"}
           /\ it.k = "target" => it.rhs \in Straight
           /\ it.k = "right" => it.r \in Straight
           /\ it.k \in {"args", "arg"} => \A i \in DOMAIN it.todo : it.todo[i] \in Straight
           /\ it.k = "assign" => it.var.k = "var" /\ it.rhs \in Straight
           /\ it.k = "binary" => it.l \in Straight /\ it.r \in Straight
           /\ it.k = "call" => \A i \in DOMAIN it.args : it.args[i] \in Straight
<1>1. CASE it \in Straight
    <2>1. StraightRule(it)  BY <1>1, StraightAssumption
    <2> QED BY <2>1 DEF StraightRule
<1>2. CASE it \notin Straight  BY <1>2 DEF StraightItem
<1> QED BY <1>1, <1>2

LEMMA QuietNone ==
    ASSUME agenda' = <<>> \o Tail(agenda), cur' = cur, Grows(code, code', cur), Len(scope') = Len(scope)
    PROVE  \E items : Quiet(items)
<1>1. PICK z : z = <<>>  OBVIOUS
<1>2. IsList(z) /\ DOMAIN z = {}  BY <1>1, ShortLists
<1>3. Calm(z) /\ Exitless(z) /\ StraightItems(z)  BY <1>2 DEF Calm, Exitless, StraightItems
<1>4. agenda' = z \o Tail(agenda)  BY <1>1
<1>5. Quiet(z)  BY <1>2, <1>3, <1>4 DEF Quiet
<1> QED BY <1>5

LEMMA QuietOne ==
    ASSUME NEW a, agenda' = <<a>> \o Tail(agenda), cur' = cur, Grows(code, code', cur),
           Len(scope') = Len(scope),
           a.k \notin {"at", "loop", "body", "implicit", "exit"},
           StraightItem(Head(agenda)) => StraightItem(a)
    PROVE  \E items : Quiet(items)
<1>1. PICK z : z = <<a>>  OBVIOUS
<1>2. IsList(z) /\ DOMAIN z = {1} /\ z[1] = a  BY <1>1, ShortLists
<1>3. Calm(z) /\ Exitless(z)  BY <1>2 DEF Calm, Exitless
<1>4. StraightItem(Head(agenda)) => StraightItems(z)  BY <1>2 DEF StraightItems
<1>5. agenda' = z \o Tail(agenda)  BY <1>1
<1>6. Quiet(z)  BY <1>2, <1>3, <1>4, <1>5 DEF Quiet
<1> QED BY <1>6

LEMMA QuietTwo ==
    ASSUME NEW a, NEW b, agenda' = <<a, b>> \o Tail(agenda), cur' = cur, Grows(code, code', cur),
           Len(scope') = Len(scope),
           a.k \notin {"at", "loop", "body", "implicit", "exit"},
           b.k \notin {"at", "loop", "body", "implicit", "exit"},
           StraightItem(Head(agenda)) => StraightItem(a) /\ StraightItem(b)
    PROVE  \E items : Quiet(items)
<1>1. PICK z : z = <<a, b>>  OBVIOUS
<1>2. IsList(z) /\ DOMAIN z = {1, 2} /\ z[1] = a /\ z[2] = b  BY <1>1, ShortLists
<1>3. Calm(z) /\ Exitless(z)  BY <1>2 DEF Calm, Exitless
<1>4. StraightItem(Head(agenda)) => StraightItems(z)  BY <1>2 DEF StraightItems
<1>5. agenda' = z \o Tail(agenda)  BY <1>1
<1>6. Quiet(z)  BY <1>2, <1>3, <1>4, <1>5 DEF Quiet
<1> QED BY <1>6

(* Instructions that convert a value go to the current block.               *)
LEMMA ConvertingGrows ==
    ASSUME NEW c, IsCode(c), NEW bb \in DOMAIN c, NEW v, NEW o
    PROVE  LET s == Converting(c, bb, v, o)
           IN  Grows(c, s.c, bb) /\ IsCode(s.c) /\ bb \in DOMAIN s.c
<1>1. PICK inst : inst = Inst(o[1], o[2], <<v>>, <<>>, "")  OBVIOUS
<1>2. PICK d : d = Put(c, bb, inst)  OBVIOUS
<1>3. Grows(c, d, bb)  BY <1>2, PutFacts
<1>4. DOMAIN d = DOMAIN c /\ IsCode(d)  BY <1>3, GrowsDomain
<1>5. Converting(c, bb, v, o).c = d  BY <1>1, <1>2 DEF Converting
<1> QED BY <1>3, <1>4, <1>5

LEMMA ChainedGrows ==
    ASSUME NEW c, IsCode(c), NEW bb \in DOMAIN c, NEW v, NEW ops,
           ops = <<>> \/ (\E o : ops = <<o>>) \/ (\E o1, o2 : ops = <<o1, o2>>)
    PROVE  Grows(c, Chained(c, bb, v, ops).c, bb)
<1>1. CASE ops = <<>>  BY <1>1, ChainedNone, GrowsItself
<1>2. ASSUME NEW o, ops = <<o>> PROVE Grows(c, Chained(c, bb, v, ops).c, bb)
    BY <1>2, ChainedOne, ConvertingGrows
<1>3. ASSUME NEW o1, NEW o2, ops = <<o1, o2>> PROVE Grows(c, Chained(c, bb, v, ops).c, bb)
    <2>1. PICK s : s = Converting(c, bb, v, o1)  OBVIOUS
    <2>2. Grows(c, s.c, bb) /\ IsCode(s.c) /\ bb \in DOMAIN s.c  BY <2>1, ConvertingGrows
    <2>3. PICK d, w : d = s.c /\ w = s.v  OBVIOUS
    <2>4. Grows(d, Converting(d, bb, w, o2).c, bb)  BY <2>2, <2>3, ConvertingGrows
    <2>5. Chained(c, bb, v, ops) = Converting(d, bb, w, o2)  BY <1>3, <2>1, <2>3, ChainedTwo
    <2> QED BY <2>2, <2>3, <2>4, <2>5, GrowsFurther
<1> QED BY <1>1, <1>2, <1>3

LEMMA ConvertGrows ==
    ASSUME NEW c, IsCode(c), NEW bb \in DOMAIN c, NEW v
    PROVE  /\ \A to : Grows(c, typeConvert(c, bb, v, to).c, bb)
           /\ Grows(c, compareWith0(c, bb, v).c, bb)
<1>1. ASSUME NEW to PROVE Grows(c, typeConvert(c, bb, v, to).c, bb)
    <2>1. PICK ops : ops = Conversion(v.ty, to)  OBVIOUS
    <2>2. ops = <<>> \/ (\E o : ops = <<o>>) \/ (\E o1, o2 : ops = <<o1, o2>>)
        BY <2>1, Zenon DEF Conversion
    <2>3. typeConvert(c, bb, v, to) = Chained(c, bb, v, ops)  BY <2>1 DEF typeConvert
    <2> QED BY <2>2, <2>3, ChainedGrows
<1>2. Grows(c, compareWith0(c, bb, v).c, bb)
    <2>1. PICK ops : ops = IF v.ty = "i1" THEN <<>> ELSE << <<"ne0", "i1">> >>  OBVIOUS
    <2>2. ops = <<>> \/ (\E o : ops = <<o>>)  BY <2>1, Zenon
    <2>3. compareWith0(c, bb, v) = Chained(c, bb, v, ops)  BY <2>1 DEF compareWith0
    <2> QED BY <2>2, <2>3, ChainedGrows
<1> QED BY <1>1, <1>2

(* Converted, and an instruction that uses the result.                      *)
LEMMA ConvertPutGrows ==
    ASSUME NEW c, IsCode(c), NEW bb \in DOMAIN c, NEW v, NEW to, NEW inst
    PROVE  Grows(c, Put(typeConvert(c, bb, v, to).c, bb, inst), bb)
<1>1. PICK d : d = typeConvert(c, bb, v, to).c  OBVIOUS
<1>2. Grows(c, d, bb)  BY <1>1, ConvertGrows
<1>3. IsCode(d) /\ bb \in DOMAIN d  BY <1>2, GrowsDomain
<1>4. Grows(d, Put(d, bb, inst), bb)  BY <1>3, PutFacts
<1> QED BY <1>1, <1>2, <1>4, GrowsFurther

LEMMA LoadedGrows ==
    ASSUME NEW c, IsCode(c), cur \in DOMAIN c, NEW a, Loaded(c, a)
    PROVE  Grows(c, code', cur)
<1>1. PICK l, i : l = Inst("load", a.ty, <<a>>, <<>>, "")
                  /\ i = Inst("gep", PointerTo(a.ty), <<a, Const("i32")>>, <<>>, "")
    OBVIOUS
<1>2. PICK d, e : d = Put(c, cur, l) /\ e = Put(d, cur, i)  OBVIOUS
<1>3. code' = IF IsArray(a.ty) THEN e ELSE d  BY <1>1, <1>2 DEF Loaded
<1>4. Grows(c, d, cur) /\ IsCode(d) /\ cur \in DOMAIN d  BY <1>2, PutFacts, GrowsDomain
<1>5. Grows(d, e, cur)  BY <1>2, <1>4, PutFacts
<1>6. Grows(c, e, cur)  BY <1>4, <1>5, GrowsFurther
<1> QED BY <1>3, <1>4, <1>6

LEMMA VisitVarDeclarationQuiet == ASSUME Working, VisitVarDeclaration PROVE \E items : Quiet(items)
<1>1. PICK it : it = Head(agenda)  OBVIOUS
<1>2. IsCode(code) /\ cur \in DOMAIN code /\ IsList(scope) /\ Len(scope) >= 1  BY WorkingFacts
<1>3. agenda' = <<>> \o Tail(agenda) /\ cur' = cur  BY DEF VisitVarDeclaration, Then
<1>4. PICK inst, b1, b2 :
            /\ inst = Inst("alloca", it.ty, <<>>, <<>>, it.cell)
            /\ b1 = VarBinding(it.ty, <<"global", it.cell>>)
            /\ b2 = VarBinding(it.ty, LastOf(Put(code, cur, inst), cur).from)
    OBVIOUS
<1>5. \/ scope' = Bound(scope, it.id, b1) /\ code' = code
      \/ scope' = Bound(scope, it.id, b2) /\ code' = Put(code, cur, inst)
    BY <1>1, <1>4 DEF VisitVarDeclaration, Now
<1>6. Grows(code, code', cur)  BY <1>2, <1>5, PutFacts, GrowsItself
<1>7. Len(scope') = Len(scope)  BY <1>2, <1>5, BoundFacts
<1> QED BY <1>3, <1>6, <1>7, QuietNone

LEMMA VisitParamQuiet == ASSUME Working, VisitParam PROVE \E items : Quiet(items)
<1>1. PICK it : it = Head(agenda)  OBVIOUS
<1>2. IsCode(code) /\ cur \in DOMAIN code /\ IsList(scope) /\ Len(scope) >= 1  BY WorkingFacts
<1>3. agenda' = <<>> \o Tail(agenda) /\ cur' = cur  BY DEF VisitParam, Then
<1>4. PICK i : i = Inst("alloca", it.ty, <<>>, <<>>, it.cell)  OBVIOUS
<1>5. PICK c : c = Put(code, cur, i)  OBVIOUS
<1>6. PICK b, j : /\ b = VarBinding(it.ty, LastOf(c, cur).from)
                  /\ j = Inst("store", "void", <<[ty |-> it.ty, from |-> <<"arg", it.cell>>], LastOf(c, cur)>>, <<>>, "")
    OBVIOUS
<1>7. scope' = Bound(scope, it.id, b) /\ code' = Put(c, cur, j)
    BY <1>1, <1>4, <1>5, <1>6 DEF VisitParam, Now
<1>8. Grows(code, c, cur)  BY <1>2, <1>5, PutFacts
<1>9. IsCode(c) /\ cur \in DOMAIN c  BY <1>2, <1>8, GrowsDomain
<1>10. Grows(c, code', cur)  BY <1>7, <1>9, PutFacts
<1>11. Grows(code, code', cur)  BY <1>2, <1>8, <1>10, GrowsFurther
<1>12. Len(scope') = Len(scope)  BY <1>2, <1>7, BoundFacts
<1> QED BY <1>3, <1>11, <1>12, QuietNone

LEMMA VisitExpressionStmtQuiet == ASSUME Working, VisitExpressionStmt PROVE \E items : Quiet(items)
<1>1. agenda' = <<>> \o Tail(agenda) /\ cur' = cur /\ code' = code /\ scope' = scope
    BY DEF VisitExpressionStmt, Plan, Then
<1>2. Grows(code, code', cur)  BY <1>1, WorkingFacts, GrowsItself
<1> QED BY <1>1, <1>2, QuietNone

LEMMA VisitSelectionStmtQuiet == ASSUME Working, VisitSelectionStmt PROVE \E items : Quiet(items)
<1>1. PICK g, h : Facing(prog, agenda, code, cur, scope, val, addr, g, h)
    BY FacingHead DEF Working, VisitSelectionStmt, At
<1>2. PICK it : it = Head(agenda)  OBVIOUS
<1>3. PICK a, b : a = it.cond /\ b = [k |-> "branch", yes |-> it.yes, no |-> it.no]  OBVIOUS
<1>4. it.k = "if" /\ agenda' = <<a, b>> \o Tail(agenda) /\ cur' = cur /\ code' = code /\ scope' = scope
    BY <1>2, <1>3 DEF VisitSelectionStmt, At, Now, Plan, Then
<1>5. Rule(prog, Signatures(scope), it, "any")  BY <1>1, <1>2, <1>4, StatementFacing
<1>6. a.k \in Nodes  BY <1>3, <1>4, <1>5, TypedNode DEF Rule
<1>7. b.k = "branch"  BY <1>3
<1>8. ~ StraightItem(it)  BY <1>4, StraightFacts
<1>9. Grows(code, code', cur)  BY <1>4, WorkingFacts, GrowsItself
<1> QED BY <1>2, <1>4, <1>6, <1>7, <1>8, <1>9, QuietTwo DEF Nodes

LEMMA VisitReturnStmtQuiet == ASSUME Working, VisitReturnStmt PROVE \E items : Quiet(items)
<1>1. PICK g, h : Facing(prog, agenda, code, cur, scope, val, addr, g, h)
    BY FacingHead DEF Working, VisitReturnStmt, At
<1>2. PICK it : it = Head(agenda)  OBVIOUS
<1>3. it.k = "return" /\ cur' = cur /\ scope' = scope  BY <1>2 DEF VisitReturnStmt, At, Now
<1>4. Rule(prog, Signatures(scope), it, "any")  BY <1>1, <1>2, <1>3, StatementFacing
<1>5. /\ it.value = <<>> \/ Len(it.value) = 1
      /\ IsList(it.value)
      /\ \A i \in DOMAIN it.value : it.value[i].k \in Nodes
    BY <1>3, <1>4, TypedNode DEF Rule
<1>6. IsCode(code) /\ cur \in DOMAIN code  BY WorkingFacts
<1>7. CASE it.value = <<>>
    <2>1. PICK inst : inst = Inst("ret", "void", <<>>, <<>>, "")  OBVIOUS
    <2>2. code' = Put(code, cur, inst) /\ agenda' = <<>> \o Tail(agenda)
        BY <1>2, <1>7, <2>1 DEF VisitReturnStmt, Now, Then
    <2>3. Grows(code, code', cur)  BY <1>6, <2>2, PutFacts
    <2> QED BY <1>3, <2>2, <2>3, QuietNone
<1>8. CASE it.value # <<>>
    <2>1. PICK e, u, z : e = [k |-> "returned"] /\ u = it.value /\ z = u \o <<e>>  OBVIOUS
    <2>2. code' = code /\ agenda' = z \o Tail(agenda)
        BY <1>2, <1>8, <2>1 DEF VisitReturnStmt, Now, Then
    <2>3. IsList(<<e>>) /\ Len(<<e>>) = 1 /\ <<e>>[1] = e  BY ShortLists
    <2>4. IsList(u) /\ Len(u) = 1 /\ u[1].k \in Nodes
        <3>1. IsList(u) /\ Len(u) = 1  BY <1>5, <1>8, <2>1
        <3>2. 1 \in DOMAIN u  BY <3>1, ListFacts
        <3> QED BY <1>5, <2>1, <3>1, <3>2
    <2>5. /\ IsList(z) /\ Len(z) = Len(u) + 1
          /\ \A i \in 1 .. Len(u) : z[i] = u[i]
          /\ \A i \in 1 .. 1 : z[Len(u) + i] = e
        <3>1. PICK w : w = <<e>>  OBVIOUS
        <3>2. IsList(w) /\ Len(w) = 1 /\ w[1] = e  BY <2>3, <3>1
        <3>3. z = u \o w  BY <2>1, <3>1
        <3>4. IsList(u) /\ IsList(w)  BY <2>4, <3>2
        <3>5. /\ IsList(z) /\ Len(z) = Len(u) + Len(w)
              /\ \A i \in 1 .. Len(u) : z[i] = u[i]
              /\ \A i \in 1 .. Len(w) : z[Len(u) + i] = w[i]
            BY <3>3, <3>4, ConcatList
        <3> QED BY <3>2, <3>5
    <2>6. Len(z) = 2 /\ z[1] = u[1] /\ z[2] = e  BY <2>4, <2>5
    <2>7. DOMAIN z = 1 .. 2  BY <2>5, <2>6, ListFacts
    <2>8. e.k = "returned"  BY <2>1
    <2>9. Calm(z) /\ Exitless(z)  BY <2>4, <2>6, <2>7, <2>8 DEF Calm, Exitless, Nodes
    <2>10. ~ StraightItem(it)  BY <1>3, StraightFacts
    <2>11. Grows(code, code', cur)  BY <1>6, <2>2, GrowsItself
    <2>12. Quiet(z)  BY <1>2, <1>3, <2>2, <2>5, <2>9, <2>10, <2>11 DEF Quiet
    <2> QED BY <2>12
<1> QED BY <1>7, <1>8

LEMMA ReturnedQuiet == ASSUME Working, Returned PROVE \E items : Quiet(items)
<1>1. ~ Abort  BY ReturnedWorks DEF Working, Abort
<1>2. PICK v : v = typeConvert(code, cur, val, returnValueType).v  OBVIOUS
<1>3. PICK inst : inst = Inst("ret", "void", <<v>>, <<>>, "")  OBVIOUS
<1>4. Yield(Put(typeConvert(code, cur, val, returnValueType).c, cur, inst), v)
    BY <1>1, <1>2, <1>3, Zenon DEF Returned
<1>5. /\ code' = Put(typeConvert(code, cur, val, returnValueType).c, cur, inst)
      /\ agenda' = <<>> \o Tail(agenda) /\ cur' = cur /\ scope' = scope
    BY <1>4 DEF Yield, Then
<1>6. Grows(code, code', cur)  BY <1>5, WorkingFacts, ConvertPutGrows
<1> QED BY <1>5, <1>6, QuietNone

LEMMA VisitNumQuiet == ASSUME Working, VisitNum PROVE \E items : Quiet(items)
<1>1. agenda' = <<>> \o Tail(agenda) /\ cur' = cur /\ code' = code /\ scope' = scope
    BY DEF VisitNum, Yield, Then
<1>2. Grows(code, code', cur)  BY <1>1, WorkingFacts, GrowsItself
<1> QED BY <1>1, <1>2, QuietNone

LEMMA VisitVarQuiet == ASSUME Working, VisitVar PROVE \E items : Quiet(items)
<1>1. PICK a : a = [ty |-> Find(Now.id).ty, from |-> Find(Now.id).from]  OBVIOUS
<1>2. Loaded(code, a) /\ agenda' = <<>> \o Tail(agenda) /\ cur' = cur /\ scope' = scope
    BY <1>1 DEF VisitVar, Then
<1>3. Grows(code, code', cur)  BY <1>2, WorkingFacts, LoadedGrows
<1> QED BY <1>2, <1>3, QuietNone

LEMMA VisitElementQuiet == ASSUME Working, VisitElement PROVE \E items : Quiet(items)
<1>1. PICK g, h : Facing(prog, agenda, code, cur, scope, val, addr, g, h)
    BY FacingHead DEF Working, VisitElement, At
<1>2. PICK it : it = Head(agenda)  OBVIOUS
<1>3. PICK a, b : a = it.index /\ b = [k |-> "checked", array |-> Find(it.id)]  OBVIOUS
<1>4. it.k = "elem" /\ agenda' = <<a, b>> \o Tail(agenda) /\ cur' = cur /\ code' = code /\ scope' = scope
    BY <1>2, <1>3 DEF VisitElement, At, Now, Plan, Then
<1>5. PICK ty : Rule(prog, Signatures(scope), it, ty)  BY <1>1, <1>2, <1>4, PlaceFacing
<1>6. a.k \in Nodes  BY <1>3, <1>4, <1>5, TypedNode DEF Rule
<1>7. b.k = "checked"  BY <1>3
<1>8. ~ StraightItem(it)  BY <1>4, StraightFacts
<1>9. Grows(code, code', cur)  BY <1>4, WorkingFacts, GrowsItself
<1> QED BY <1>2, <1>4, <1>6, <1>7, <1>8, <1>9, QuietTwo DEF Nodes

LEMMA AddressQuiet == ASSUME Working, Address PROVE \E items : Quiet(items)
<1>1. PICK a : a = [ty |-> Now.array.ty, from |-> Now.array.from]  OBVIOUS
<1>2. PICK l : l = Inst("load", a.ty, <<a>>, <<>>, "")  OBVIOUS
<1>3. PICK p : p = Put(code, cur, l)  OBVIOUS
<1>4. PICK b, v : /\ b = IF IsArray(a.ty) THEN code ELSE p
                  /\ v = IF IsArray(a.ty) THEN a ELSE LastOf(p, cur)
    OBVIOUS
<1>5. PICK i : i = Inst("gep", ElemOf(a.ty), <<v, val>>, <<>>, "")  OBVIOUS
<1>6. PICK e, x : e = Put(b, cur, i) /\ x = LastOf(e, cur)  OBVIOUS
<1>7. PICK base : base = IF IsArray(a.ty) THEN [c |-> code, v |-> a] ELSE [c |-> p, v |-> LastOf(p, cur)]
    OBVIOUS
<1>8. base.c = b /\ base.v = v  BY <1>4, <1>7
<1>9. Loaded(Put(base.c, cur, Inst("gep", ElemOf(a.ty), <<base.v, val>>, <<>>, "")),
             LastOf(Put(base.c, cur, Inst("gep", ElemOf(a.ty), <<base.v, val>>, <<>>, "")), cur))
    BY <1>1, <1>2, <1>3, <1>7, Zenon DEF Address
<1>10. Loaded(e, x)  BY <1>5, <1>6, <1>8, <1>9
<1>11. IsCode(code) /\ cur \in DOMAIN code  BY WorkingFacts
<1>12. Grows(code, b, cur)  BY <1>3, <1>4, <1>11, PutFacts, GrowsItself
<1>13. IsCode(b) /\ cur \in DOMAIN b  BY <1>11, <1>12, GrowsDomain
<1>14. Grows(b, e, cur)  BY <1>6, <1>13, PutFacts
<1>15. IsCode(e) /\ cur \in DOMAIN e  BY <1>13, <1>14, GrowsDomain
<1>16. Grows(e, code', cur)  BY <1>10, <1>15, LoadedGrows
<1>17. Grows(code, code', cur)
    <2>1. Grows(code, e, cur)  BY <1>11, <1>12, <1>14, GrowsFurther
    <2> QED BY <1>11, <1>16, <2>1, GrowsFurther
<1>18. agenda' = <<>> \o Tail(agenda) /\ cur' = cur /\ scope' = scope  BY DEF Address, Then
<1> QED BY <1>17, <1>18, QuietNone

LEMMA VisitAssignQuiet == ASSUME Working, VisitAssign PROVE \E items : Quiet(items)
<1>1. PICK g, h : Facing(prog, agenda, code, cur, scope, val, addr, g, h)
    BY FacingHead DEF Working, VisitAssign, At
<1>2. PICK it : it = Head(agenda)  OBVIOUS
<1>3. PICK a, r, b : a = it.var /\ r = it.rhs /\ b = [k |-> "target", rhs |-> r]  OBVIOUS
<1>4. it.k = "assign" /\ agenda' = <<a, b>> \o Tail(agenda) /\ cur' = cur /\ code' = code /\ scope' = scope
    BY <1>2, <1>3 DEF VisitAssign, At, Now, Plan, Then
<1>5. PICK ty : Rule(prog, Signatures(scope), it, ty)  BY <1>1, <1>2, <1>4, ExpressionFacing
<1>6. a.k \in {"var", "elem"}  BY <1>3, <1>4, <1>5 DEF Rule
<1>7. b.k = "target" /\ b.rhs = r  BY <1>3
<1>8. StraightItem(it) => StraightItem(a) /\ StraightItem(b)
    <2>1. StraightItem(it) => a.k = "var" /\ r \in Straight  BY <1>3, <1>4, StraightFacts
    <2> QED BY <1>7, <2>1 DEF StraightItem
<1>9. Grows(code, code', cur)  BY <1>4, WorkingFacts, GrowsItself
<1> QED BY <1>2, <1>4, <1>6, <1>7, <1>8, <1>9, QuietTwo

LEMMA TargetQuiet == ASSUME Working, Target PROVE \E items : Quiet(items)
<1>1. PICK g, h : Facing(prog, agenda, code, cur, scope, val, addr, g, h)
    BY FacingHead DEF Working, Target, At
<1>2. PICK it : it = Head(agenda)  OBVIOUS
<1>3. PICK a, b : a = it.rhs /\ b = [k |-> "store", to |-> addr]  OBVIOUS
<1>4. it.k = "target" /\ agenda' = <<a, b>> \o Tail(agenda) /\ cur' = cur /\ code' = code /\ scope' = scope
    BY <1>2, <1>3 DEF Target, At, Now, Plan, Then
<1>5. Step(prog, code, it, g, h)  BY <1>1, <1>2 DEF Facing
<1>6. a.k \in Nodes  BY <1>3, <1>4, <1>5, TypedNode DEF Step
<1>7. b.k = "store"  BY <1>3
<1>8. StraightItem(it) => StraightItem(a) /\ StraightItem(b)
    <2>1. StraightItem(it) => a \in Straight  BY <1>3, <1>4, StraightFacts
    <2> QED BY <1>7, <2>1 DEF StraightItem
<1>9. Grows(code, code', cur)  BY <1>4, WorkingFacts, GrowsItself
<1> QED BY <1>2, <1>4, <1>6, <1>7, <1>8, <1>9, QuietTwo DEF Nodes

LEMMA StoreQuiet == ASSUME Working, Store PROVE \E items : Quiet(items)
<1>1. ~ Abort  BY StoreWorks DEF Working, Abort
<1>2. PICK a : a = Now.to  OBVIOUS
<1>3. PICK v : v = typeConvert(code, cur, val, a.ty).v  OBVIOUS
<1>4. PICK inst : inst = Inst("store", "void", <<v, a>>, <<>>, "")  OBVIOUS
<1>5. Yield(Put(typeConvert(code, cur, val, a.ty).c, cur, inst), v)
    BY <1>1, <1>2, <1>3, <1>4, Zenon DEF Store
<1>6. /\ code' = Put(typeConvert(code, cur, val, a.ty).c, cur, inst)
      /\ agenda' = <<>> \o Tail(agenda) /\ cur' = cur /\ scope' = scope
    BY <1>5 DEF Yield, Then
<1>7. Grows(code, code', cur)  BY <1>6, WorkingFacts, ConvertPutGrows
<1> QED BY <1>6, <1>7, QuietNone

LEMMA VisitBinaryQuiet == ASSUME Working, VisitBinary PROVE \E items : Quiet(items)
<1>1. PICK g, h : Facing(prog, agenda, code, cur, scope, val, addr, g, h)
    BY FacingHead DEF Working, VisitBinary, At
<1>2. PICK it : it = Head(agenda)  OBVIOUS
<1>3. PICK a, r, b : a = it.l /\ r = it.r /\ b = [k |-> "right", op |-> it.op, r |-> r]  OBVIOUS
<1>4. it.k = "binary" /\ agenda' = <<a, b>> \o Tail(agenda) /\ cur' = cur /\ code' = code /\ scope' = scope
    BY <1>2, <1>3 DEF VisitBinary, At, Now, Plan, Then
<1>5. PICK ty : Rule(prog, Signatures(scope), it, ty)  BY <1>1, <1>2, <1>4, ExpressionFacing
<1>6. a.k \in Nodes
    <2>1. \E l \in Numeric : Typed(prog, Signatures(scope), it.l, l)  BY <1>4, <1>5 DEF Rule
    <2> QED BY <1>3, <2>1, TypedRule
<1>7. b.k = "right" /\ b.r = r  BY <1>3
<1>8. StraightItem(it) => StraightItem(a) /\ StraightItem(b)
    <2>1. StraightItem(it) => a \in Straight /\ r \in Straight  BY <1>3, <1>4, StraightFacts
    <2> QED BY <1>7, <2>1 DEF StraightItem
<1>9. Grows(code, code', cur)  BY <1>4, WorkingFacts, GrowsItself
<1> QED BY <1>2, <1>4, <1>6, <1>7, <1>8, <1>9, QuietTwo DEF Nodes

LEMMA RightQuiet == ASSUME Working, Right PROVE \E items : Quiet(items)
<1>1. PICK g, h : Facing(prog, agenda, code, cur, scope, val, addr, g, h)
    BY FacingHead DEF Working, Right, At
<1>2. PICK it : it = Head(agenda)  OBVIOUS
<1>3. PICK a, b : a = it.r /\ b = [k |-> "combine", op |-> it.op, l |-> val]  OBVIOUS
<1>4. it.k = "right" /\ agenda' = <<a, b>> \o Tail(agenda) /\ cur' = cur /\ code' = code /\ scope' = scope
    BY <1>2, <1>3 DEF Right, At, Now, Plan, Then
<1>5. Step(prog, code, it, g, h)  BY <1>1, <1>2 DEF Facing
<1>6. a.k \in Nodes
    <2>1. \E r \in Numeric : Typed(prog, g.scopes, it.r, r)  BY <1>4, <1>5 DEF Step
    <2> QED BY <1>3, <2>1, TypedRule
<1>7. b.k = "combine"  BY <1>3
<1>8. StraightItem(it) => StraightItem(a) /\ StraightItem(b)
    <2>1. StraightItem(it) => a \in Straight  BY <1>3, <1>4, StraightFacts
    <2> QED BY <1>7, <2>1 DEF StraightItem
<1>9. Grows(code, code', cur)  BY <1>4, WorkingFacts, GrowsItself
<1> QED BY <1>2, <1>4, <1>6, <1>7, <1>8, <1>9, QuietTwo DEF Nodes

LEMMA CombineQuiet == ASSUME Working, Combine PROVE \E items : Quiet(items)
<1>1. ~ Abort  BY CombineWorks DEF Working, Abort
<1>2. PICK ty : ty = IF Now.l.ty = "i32" /\ val.ty = "i32" THEN "i32" ELSE "float"  OBVIOUS
<1>3. PICK l : l = typeConvert(code, cur, Now.l, ty)  OBVIOUS
<1>4. PICK r : r = typeConvert(l.c, cur, val, ty)  OBVIOUS
<1>5. PICK inst : inst = Inst(Now.op, IF Now.op = "rel" THEN "i1" ELSE ty, <<l.v, r.v>>, <<>>, ty)  OBVIOUS
<1>6. PICK c : c = Put(r.c, cur, inst)  OBVIOUS
<1>7. Yield(c, LastOf(c, cur))
    BY <1>1, <1>2, <1>3, <1>4, <1>5, <1>6, Zenon DEF Combine
<1>8. code' = c /\ agenda' = <<>> \o Tail(agenda) /\ cur' = cur /\ scope' = scope
    BY <1>7 DEF Yield, Then
<1>9. IsCode(code) /\ cur \in DOMAIN code  BY WorkingFacts
<1>10. PICK d : d = l.c  OBVIOUS
<1>11. Grows(code, d, cur)  BY <1>3, <1>9, <1>10, ConvertGrows
<1>12. IsCode(d) /\ cur \in DOMAIN d  BY <1>9, <1>11, GrowsDomain
<1>13. c = Put(typeConvert(d, cur, val, ty).c, cur, inst)  BY <1>4, <1>6, <1>10
<1>14. Grows(d, c, cur)  BY <1>12, <1>13, ConvertPutGrows
<1>15. Grows(code, code', cur)  BY <1>8, <1>9, <1>11, <1>14, GrowsFurther
<1> QED BY <1>8, <1>15, QuietNone

LEMMA VisitCallQuiet == ASSUME Working, VisitCall PROVE \E items : Quiet(items)
<1>1. PICK it : it = Head(agenda)  OBVIOUS
<1>2. PICK a : a = [k |-> "args", id |-> it.id, fun |-> Find(it.id), todo |-> it.args, done |-> <<>>]  OBVIOUS
<1>3. it.k = "call" /\ agenda' = <<a>> \o Tail(agenda) /\ cur' = cur /\ code' = code /\ scope' = scope
    BY <1>1, <1>2 DEF VisitCall, At, Now, Plan, Then
<1>4. a.k = "args" /\ a.todo = it.args  BY <1>2
<1>5. StraightItem(it) => StraightItem(a)
    <2>1. StraightItem(it) => \A i \in DOMAIN it.args : it.args[i] \in Straight  BY <1>3, StraightFacts
    <2> QED BY <1>4, <2>1 DEF StraightItem
<1>6. Grows(code, code', cur)  BY <1>3, WorkingFacts, GrowsItself
<1> QED BY <1>1, <1>3, <1>4, <1>5, <1>6, QuietOne

LEMMA NextArgumentQuiet == ASSUME Working, NextArgument PROVE \E items : Quiet(items)
<1>1. PICK g, h : Facing(prog, agenda, code, cur, scope, val, addr, g, h)
    BY FacingHead DEF Working, NextArgument, At
<1>2. PICK it : it = Head(agenda)  OBVIOUS
<1>3. PICK todo : todo = it.todo  OBVIOUS
<1>4. PICK a, b : a = Head(todo) /\ b = [it EXCEPT !.k = "arg"]  OBVIOUS
<1>5. /\ it.k = "args" /\ todo # <<>> /\ agenda' = <<a, b>> \o Tail(agenda)
      /\ cur' = cur /\ code' = code /\ scope' = scope
    BY <1>2, <1>3, <1>4 DEF NextArgument, At, Now, Plan, Then
<1>6. Step(prog, code, it, g, h)  BY <1>1, <1>2 DEF Facing
<1>7. Calling(prog, code, it, g.scopes)  BY <1>5, <1>6 DEF Step
<1>8. /\ it = [k |-> it.k, id |-> it.id, fun |-> it.fun, todo |-> it.todo, done |-> it.done]
      /\ IsList(todo)
      /\ \A i \in 1 .. Len(todo) : Converts(prog, g.scopes, todo[i], it.fun.params[Len(it.done) + i])
    BY <1>3, <1>7, Zenon DEF Calling
<1>9. a = todo[1] /\ 1 \in 1 .. Len(todo) /\ 1 \in DOMAIN todo
    <2>1. Head(todo) = todo[1] /\ Len(todo) >= 1  BY <1>5, <1>8, TailList
    <2> QED BY <1>4, <1>8, <2>1, ListFacts
<1>10. a.k \in Nodes  BY <1>8, <1>9, TypedNode
<1>11. b.k = "arg" /\ b.todo = todo  BY <1>3, <1>4, <1>8
<1>12. StraightItem(it) => StraightItem(a) /\ StraightItem(b)
    <2>1. StraightItem(it) => \A i \in DOMAIN todo : todo[i] \in Straight  BY <1>3, <1>5, StraightFacts
    <2> QED BY <1>9, <1>11, <2>1 DEF StraightItem
<1>13. Grows(code, code', cur)  BY <1>5, WorkingFacts, GrowsItself
<1> QED BY <1>2, <1>5, <1>10, <1>11, <1>12, <1>13, QuietTwo DEF Nodes

LEMMA ArgumentQuiet == ASSUME Working, Argument PROVE \E items : Quiet(items)
<1>1. PICK g, h : Facing(prog, agenda, code, cur, scope, val, addr, g, h)
    BY FacingHead DEF Working, Argument, At
<1>2. PICK it : it = Head(agenda)  OBVIOUS
<1>3. ~ Abort  BY ArgumentWorks DEF Working, Abort
<1>4. PICK todo, rest : todo = it.todo /\ rest = Tail(todo)  OBVIOUS
<1>5. PICK to : to = it.fun.params[Len(it.done) + 1]  OBVIOUS
<1>6. PICK v : v = typeConvert(code, cur, val, to).v  OBVIOUS
<1>7. PICK made : made = Append(it.done, v)  OBVIOUS
<1>8. PICK e : e = [it EXCEPT !.k = "args", !.todo = rest, !.done = made]  OBVIOUS
<1>9. /\ it.k = "arg"
      /\ code' = typeConvert(code, cur, val, to).c
      /\ agenda' = << [it EXCEPT !.k = "args", !.todo = Tail(@), !.done = Append(@, v)] >> \o Tail(agenda)
      /\ cur' = cur /\ scope' = scope
    BY <1>2, <1>3, <1>5, <1>6, Zenon DEF Argument, At, Now, Then
<1>10. Step(prog, code, it, g, h)  BY <1>1, <1>2 DEF Facing
<1>11. Calling(prog, code, it, g.scopes) /\ it.todo # <<>>  BY <1>9, <1>10 DEF Step
<1>12. /\ it = [k |-> it.k, id |-> it.id, fun |-> it.fun, todo |-> it.todo, done |-> it.done]
       /\ IsList(todo) /\ todo # <<>>
    BY <1>4, <1>11, Zenon DEF Calling
<1>13. [it EXCEPT !.k = "args", !.todo = Tail(@), !.done = Append(@, v)] = e
    BY <1>4, <1>7, <1>8, <1>12
<1>14. agenda' = <<e>> \o Tail(agenda)  BY <1>9, <1>13
<1>15. e = [k |-> "args", id |-> it.id, fun |-> it.fun, todo |-> rest, done |-> made]
    BY <1>8, <1>12, CallItem
<1>16. e.k = "args" /\ e.todo = rest  BY <1>15
<1>17. /\ IsList(rest) /\ Len(todo) >= 1 /\ Len(rest) = Len(todo) - 1
       /\ \A i \in 1 .. Len(todo) - 1 : rest[i] = todo[i + 1]
    BY <1>4, <1>12, TailList
<1>18. Len(todo) \in Nat /\ DOMAIN todo = 1 .. Len(todo) /\ DOMAIN rest = 1 .. Len(todo) - 1
    BY <1>12, <1>17, ListFacts
<1>19. StraightItem(it) => StraightItem(e)
    <2>1. StraightItem(it) => \A i \in DOMAIN todo : todo[i] \in Straight  BY <1>4, <1>9, StraightFacts
    <2>2. \A i \in DOMAIN rest : rest[i] = todo[i + 1] /\ i + 1 \in DOMAIN todo  BY <1>17, <1>18
    <2>3. StraightItem(it) => \A i \in DOMAIN rest : rest[i] \in Straight  BY <2>1, <2>2
    <2> QED BY <1>16, <2>3 DEF StraightItem
<1>20. Grows(code, code', cur)  BY <1>9, WorkingFacts, ConvertGrows
<1> QED BY <1>2, <1>9, <1>14, <1>16, <1>19, <1>20, QuietOne

LEMMA CreateCallQuiet == ASSUME Working, CreateCall PROVE \E items : Quiet(items)
<1>1. PICK inst : inst = Inst("call", Now.fun.ret, Now.done, <<>>, Now.id)  OBVIOUS
<1>2. code' = Put(code, cur, inst) /\ agenda' = <<>> \o Tail(agenda) /\ cur' = cur /\ scope' = scope
    BY <1>1 DEF CreateCall, Yield, Then
<1>3. Grows(code, code', cur)  BY <1>2, WorkingFacts, PutFacts
<1> QED BY <1>2, <1>3, QuietNone

-----------------------------------------------------------------------------
(* The blocks and the insert point                                          *)

Ends(block) == block # <<>> /\ (IsBr(block[Len(block)]) \/ IsRet(block[Len(block)]))

(* The insert point comes back to block b, or the branch of a loop does.    *)
Covers(it, b) == (it.k = "at" /\ it.bb = b) \/ (it.k = "loop" /\ it.head = b)
Covered(c, ag, b) == Ends(c[b]) \/ \E i \in DOMAIN ag : Covers(ag[i], b)

(* A block that does not end with a terminator is the current one or one    *)
(* the agenda comes back to.  The insert point is moved behind a branch     *)
(* only.  The condition of a loop is computed in the block the loop began   *)
(* with.                                                                    *)
Control(c, ag, bb) ==
    /\ \A i \in 1 .. Len(ag) : ag[i].k = "implicit" <=> i = Len(ag)
    /\ \A i \in 2 .. Len(ag) : ag[i].k \in {"at", "loop"} => ag[i - 1].k = "br"
    /\ ag # <<>> /\ ag[1].k \in {"at", "loop"} => Covered(c, ag, bb)
    /\ \A b \in DOMAIN c : Covered(c, ag, b) \/ (b = bb /\ ag # <<>>)
    /\ \A i \in 1 .. Len(ag) : ag[i].k = "body" =>
            ag[i].head = bb /\ \A j \in 1 .. i - 1 : StraightItem(ag[j])

(* The head of the agenda ag replaced by items, the code c by d, the insert *)
(* point bb by b2.                                                          *)
Moves(ag, c, bb, items, d, b2) ==
    /\ Head(ag).k # "implicit"
    /\ items = <<>> \/ Head(ag).k # "br"
    /\ StraightItem(Head(ag)) => StraightItems(items) /\ b2 = bb
    /\ \A i \in 1 .. Len(items) : items[i].k # "implicit"
    /\ \A i \in 2 .. Len(items) : items[i].k \in {"at", "loop"} => items[i - 1].k = "br"
    /\ \A i \in 1 .. Len(items) : items[i].k = "body" =>
            items[i].head = b2 /\ \A j \in 1 .. i - 1 : StraightItem(items[j])
    /\ Head(ag).k = "br" \/ (items # <<>> /\ items[1].k \in {"at", "loop"}) =>
            Ends(d[b2]) \/ \E i \in 1 .. Len(items) : Covers(items[i], b2)
    /\ \A b \in DOMAIN d :
            \/ Ends(d[b])
            \/ b = b2
            \/ \E i \in 1 .. Len(items) : Covers(items[i], b)
            \/ /\ b \in DOMAIN c /\ d[b] = c[b]
               /\ ~ Covers(Head(ag), b)
               /\ b # bb \/ Head(ag).k \in {"at", "loop"}

LEMMA ControlMoves ==
    ASSUME NEW ag, IsList(ag), ag # <<>>, NEW c, NEW bb, Control(c, ag, bb),
           NEW items, IsList(items), NEW d, NEW b2, Moves(ag, c, bb, items, d, b2)
    PROVE  Control(d, items \o Tail(ag), b2)
<1>1. PICK u, m, n : u = items \o Tail(ag) /\ m = Len(items) /\ n = Len(ag)  OBVIOUS
<1>2. /\ m \in Nat /\ n \in Nat /\ n >= 1 /\ DOMAIN ag = 1 .. n /\ DOMAIN items = 1 .. m
      /\ IsList(u) /\ Len(u) = m + n - 1 /\ DOMAIN u = 1 .. m + n - 1
      /\ Head(ag) = ag[1]
      /\ \A i \in 1 .. m : u[i] = items[i]
      /\ \A i \in m + 1 .. m + n - 1 : u[i] = ag[i - m + 1]
      /\ \A j \in 2 .. n : u[m + j - 1] = ag[j]
    <2>1. IsList(items) /\ IsList(ag) /\ ag # <<>>  OBVIOUS
    <2>2. u = items \o Tail(ag)  BY <1>1
    <2>3. m = Len(items)  BY <1>1
    <2>4. n = Len(ag)  BY <1>1
    <2>5. /\ m \in Nat /\ n \in Nat /\ n >= 1 /\ DOMAIN ag = 1 .. n /\ DOMAIN items = 1 .. m
          /\ DOMAIN u = 1 .. m + n - 1
          /\ Head(ag) = ag[1]
        BY <2>1, <2>2, <2>3, <2>4, Spliced
    <2>6. \A i \in 1 .. m : u[i] = items[i]  BY <2>1, <2>2, <2>3, <2>4, Spliced
    <2>7. \A i \in m + 1 .. m + n - 1 : u[i] = ag[i - m + 1]  BY <2>1, <2>2, <2>3, <2>4, Spliced
    <2>8. \A j \in 2 .. n : u[m + j - 1] = ag[j]  BY <2>1, <2>2, <2>3, <2>4, Spliced
    <2>9. IsList(u) /\ Len(u) = m + n - 1
        <3>1. PICK t : t = Tail(ag)  OBVIOUS
        <3>2. IsList(t) /\ Len(t) = n - 1  BY <2>4, <3>1, TailList
        <3>3. u = items \o t  BY <2>2, <3>1
        <3>4. IsList(u) /\ Len(u) = Len(items) + Len(t)  BY <3>2, <3>3, ConcatList
        <3> QED BY <2>3, <2>5, <3>2, <3>4
    <2> QED BY <2>5, <2>6, <2>7, <2>8, <2>9
<1>3. /\ \A i \in 1 .. n : ag[i].k = "implicit" <=> i = n
      /\ \A i \in 2 .. n : ag[i].k \in {"at", "loop"} => ag[i - 1].k = "br"
      /\ ag[1].k \in {"at", "loop"} => Covered(c, ag, bb)
      /\ \A b \in DOMAIN c : Covered(c, ag, b) \/ b = bb
      /\ \A i \in 1 .. n : ag[i].k = "body" =>
              ag[i].head = bb /\ \A j \in 1 .. i - 1 : StraightItem(ag[j])
    BY <1>1 DEF Control
<1>4. /\ ag[1].k # "implicit"
      /\ m = 0 \/ ag[1].k # "br"
      /\ StraightItem(ag[1]) => StraightItems(items) /\ b2 = bb
      /\ \A i \in 1 .. m : items[i].k # "implicit"
      /\ \A i \in 2 .. m : items[i].k \in {"at", "loop"} => items[i - 1].k = "br"
      /\ \A i \in 1 .. m : items[i].k = "body" =>
              items[i].head = b2 /\ \A j \in 1 .. i - 1 : StraightItem(items[j])
      /\ ag[1].k = "br" \/ (m # 0 /\ items[1].k \in {"at", "loop"}) =>
              Ends(d[b2]) \/ \E i \in 1 .. m : Covers(items[i], b2)
      /\ \A b \in DOMAIN d :
              \/ Ends(d[b])
              \/ b = b2
              \/ \E i \in 1 .. m : Covers(items[i], b)
              \/ /\ b \in DOMAIN c /\ d[b] = c[b]
                 /\ ~ Covers(ag[1], b)
                 /\ b # bb \/ ag[1].k \in {"at", "loop"}
    <2>1. (items = <<>>) <=> m = 0
        <3>1. items = <<>> => m = 0  BY <1>1, ShortLists
        <3>2. m = 0 => items = <<>>
            <4>1. \A i \in 1 .. 0 : FALSE  OBVIOUS
            <4> QED BY <1>1, <4>1, ShortLists, EqualLists
        <3> QED BY <3>1, <3>2
    <2> QED BY <1>1, <1>2, <2>1, Zenon DEF Moves
<1>5. n >= 2
    <2>1. 1 \in 1 .. n  BY <1>2
    <2> QED BY <1>2, <1>3, <1>4, <2>1
<1>6. u # <<>>  BY <1>2, <1>5, ShortLists
<1>7. ASSUME NEW b, \E i \in 1 .. m : Covers(items[i], b)
      PROVE  \E i \in DOMAIN u : Covers(u[i], b)
    <2>1. PICK i \in 1 .. m : Covers(items[i], b)  BY <1>7
    <2>2. i \in 1 .. m + n - 1 /\ u[i] = items[i]  BY <1>2
    <2> QED BY <1>2, <2>1, <2>2
<1>8. ASSUME NEW b, NEW i \in DOMAIN ag, Covers(ag[i], b), ~ Covers(ag[1], b)
      PROVE  \E j \in DOMAIN u : Covers(u[j], b)
    <2>1. i \in 2 .. n  BY <1>2, <1>8
    <2>2. m + i - 1 \in 1 .. m + n - 1 /\ u[m + i - 1] = ag[i]  BY <1>2, <2>1
    <2> QED BY <1>2, <1>8, <2>2
<1>9. ASSUME NEW i \in 1 .. Len(u) PROVE u[i].k = "implicit" <=> i = Len(u)
    <2>1. CASE i \in 1 .. m
        <3>1. u[i].k # "implicit"  BY <1>2, <1>4, <2>1
        <3>2. i # Len(u)  BY <1>2, <1>5, <2>1
        <3> QED BY <3>1, <3>2
    <2>2. CASE i \notin 1 .. m
        <3>1. i \in m + 1 .. m + n - 1 /\ i - m + 1 \in 1 .. n /\ (i = m + n - 1 <=> i - m + 1 = n)
            BY <1>2, <2>2
        <3>2. u[i] = ag[i - m + 1]  BY <1>2, <3>1
        <3> QED BY <1>2, <1>3, <3>1, <3>2
    <2> QED BY <2>1, <2>2
<1>10. ASSUME NEW i \in 2 .. Len(u), u[i].k \in {"at", "loop"} PROVE u[i - 1].k = "br"
    <2>1. CASE i \in 1 .. m
        <3>1. i \in 2 .. m /\ i - 1 \in 1 .. m  BY <1>2, <2>1
        <3> QED BY <1>2, <1>4, <1>10, <2>1, <3>1
    <2>2. CASE i \notin 1 .. m
        <3>1. i \in m + 1 .. m + n - 1 /\ i - m + 1 \in 2 .. n  BY <1>2, <2>2
        <3>2. u[i] = ag[i - m + 1] /\ ag[i - m + 1 - 1].k = "br"  BY <1>2, <1>3, <1>10, <3>1
        <3>3. CASE i = m + 1
            <4>1. i - m + 1 - 1 = 1  BY <1>2, <3>3
            <4> QED BY <1>2, <1>4, <1>10, <3>2, <3>3, <4>1
        <3>4. CASE i # m + 1
            <4>1. i - 1 \in m + 1 .. m + n - 1 /\ (i - 1) - m + 1 = i - m + 1 - 1  BY <1>2, <3>1, <3>4
            <4> QED BY <1>2, <3>2, <4>1
        <3> QED BY <3>3, <3>4
    <2> QED BY <2>1, <2>2
<1>11. ASSUME u[1].k \in {"at", "loop"} PROVE Covered(d, u, b2)
    <2>1. ag[1].k = "br" \/ (m # 0 /\ items[1].k \in {"at", "loop"})
        <3>1. CASE m = 0
            <4>1. 1 \in m + 1 .. m + n - 1 /\ 1 - m + 1 = 2 /\ 2 \in 2 .. n /\ 2 - 1 = 1  BY <1>2, <1>5, <3>1
            <4>2. u[1] = ag[2]  BY <1>2, <4>1
            <4> QED BY <1>3, <1>11, <4>1, <4>2
        <3>2. CASE m # 0
            <4>1. 1 \in 1 .. m  BY <1>2, <3>2
            <4> QED BY <1>2, <1>11, <3>2, <4>1
        <3> QED BY <3>1, <3>2
    <2> QED BY <1>4, <1>7, <2>1 DEF Covered
<1>12. ASSUME NEW b \in DOMAIN d PROVE Covered(d, u, b) \/ (b = b2 /\ u # <<>>)
    <2>1. CASE Ends(d[b]) \/ b = b2 \/ \E i \in 1 .. m : Covers(items[i], b)
        BY <1>6, <1>7, <2>1 DEF Covered
    <2>2. CASE b \in DOMAIN c /\ d[b] = c[b] /\ ~ Covers(ag[1], b) /\ (b # bb \/ ag[1].k \in {"at", "loop"})
        <3>1. Covered(c, ag, b)  BY <1>3, <2>2
        <3> QED BY <1>8, <2>2, <3>1 DEF Covered
    <2> QED BY <1>4, <2>1, <2>2
<1>13. ASSUME NEW i \in 1 .. Len(u), u[i].k = "body"
       PROVE  u[i].head = b2 /\ \A j \in 1 .. i - 1 : StraightItem(u[j])
    <2>1. CASE i \in 1 .. m
        <3>1. u[i] = items[i]  BY <1>2, <2>1
        <3>2. items[i].head = b2 /\ \A j \in 1 .. i - 1 : StraightItem(items[j])
            BY <1>4, <1>13, <2>1, <3>1
        <3>3. \A j \in 1 .. i - 1 : u[j] = items[j]
            <4>1. \A j \in 1 .. i - 1 : j \in 1 .. m  BY <1>2, <2>1
            <4> QED BY <1>2, <4>1
        <3> QED BY <3>1, <3>2, <3>3
    <2>2. CASE i \notin 1 .. m
        <3>1. i \in m + 1 .. m + n - 1 /\ i - m + 1 \in 2 .. n  BY <1>2, <2>2
        <3>2. u[i] = ag[i - m + 1]  BY <1>2, <3>1
        <3>3. PICK q : q = i - m + 1  OBVIOUS
        <3>4. q \in 1 .. n /\ ag[q].k = "body"  BY <1>2, <1>13, <3>1, <3>2, <3>3
        <3>5. ag[q].head = bb /\ \A j \in 1 .. q - 1 : StraightItem(ag[j])  BY <1>3, <3>4
        <3>6. 1 \in 1 .. q - 1  BY <1>2, <3>1, <3>3
        <3>7. StraightItems(items) /\ b2 = bb  BY <1>4, <3>5, <3>6
        <3>8. ASSUME NEW j \in 1 .. i - 1 PROVE StraightItem(u[j])
            <4>1. CASE j \in 1 .. m  BY <1>2, <3>7, <4>1 DEF StraightItems
            <4>2. CASE j \notin 1 .. m
                <5>1. j \in m + 1 .. m + n - 1 /\ j - m + 1 \in 1 .. q - 1  BY <1>2, <3>1, <3>3, <4>2
                <5> QED BY <1>2, <3>5, <5>1
            <4> QED BY <4>1, <4>2
        <3> QED BY <3>2, <3>3, <3>5, <3>7, <3>8
    <2> QED BY <2>1, <2>2
<1>14. Control(d, u, b2)
    BY <1>9, <1>10, <1>11, <1>12, <1>13 DEF Control
<1> QED BY <1>1, <1>14

(* A step that neither enters nor leaves a scope, and how it keeps Control. *)
Steady(items) ==
    /\ IsList(items) /\ agenda' = items \o Tail(agenda)
    /\ Exitless(items)
    /\ Len(scope') = Len(scope)
Guided(items) ==
    Control(code, agenda, cur) /\ LoopsTestStraight(prog) => Moves(agenda, code, cur, items, code', cur')

LEMMA QuietMoves ==
    ASSUME NEW items, Working, Quiet(items), Head(agenda).k \notin {"at", "loop", "br", "implicit"}
    PROVE  Steady(items) /\ Guided(items)
<1>1. /\ IsList(items) /\ agenda' = items \o Tail(agenda)
      /\ Calm(items) /\ Exitless(items)
      /\ StraightItem(Head(agenda)) => StraightItems(items)
      /\ cur' = cur /\ Grows(code, code', cur)
      /\ Len(scope') = Len(scope)
    BY DEF Quiet
<1>2. IsCode(code)  BY WorkingFacts
<1>3. DOMAIN code' = DOMAIN code /\ \A b \in DOMAIN code : b # cur => code'[b] = code[b]
    BY <1>1, <1>2, GrowsDomain DEF Grows
<1>4. Len(items) \in Nat /\ DOMAIN items = 1 .. Len(items)  BY <1>1, ListFacts
<1>5. \A i \in 1 .. Len(items) : items[i].k \notin {"at", "loop", "body", "implicit"}
    BY <1>1, <1>4 DEF Calm
<1>6. items # <<>> => 1 \in 1 .. Len(items)
    <2>1. Len(items) = 0 => items = <<>>
        <3>1. \A i \in 1 .. 0 : FALSE  OBVIOUS
        <3> QED BY <1>1, <3>1, ShortLists, EqualLists
    <2> QED BY <1>4, <2>1
<1>7. \A i \in 2 .. Len(items) : i \in 1 .. Len(items)  BY <1>4
<1>8. \A b : ~ Covers(Head(agenda), b)  BY DEF Covers
<1>9. Moves(agenda, code, cur, items, code', cur')
    BY <1>1, <1>3, <1>5, <1>6, <1>7, <1>8 DEF Moves
<1> QED BY <1>1, <1>9 DEF Steady, Guided

LEMMA PutEnds ==
    ASSUME NEW c, IsCode(c), NEW bb \in DOMAIN c, NEW inst, IsBr(inst) \/ IsRet(inst), NEW d, d = Put(c, bb, inst)
    PROVE  /\ IsCode(d) /\ DOMAIN d = DOMAIN c /\ Len(d) = Len(c)
           /\ Ends(d[bb])
           /\ \A b \in DOMAIN c : b # bb => d[b] = c[b]
<1>1. Grows(c, d, bb)  BY PutFacts
<1>2. DOMAIN d = DOMAIN c /\ IsCode(d)  BY <1>1, GrowsDomain
<1>3. Len(d) = Len(c) /\ \A b \in DOMAIN c : b # bb => d[b] = c[b]  BY <1>1 DEF Grows
<1>4. PICK n, m : n = Len(c[bb]) /\ m = Len(d[bb])  OBVIOUS
<1>5. IsList(c[bb]) /\ m = n + 1 /\ d[bb][n + 1] = inst  BY <1>4, PutFacts
<1>6. n \in Nat  BY <1>4, <1>5, ListFacts
<1>7. m # 0 /\ d[bb][m] = inst  BY <1>5, <1>6
<1>8. d[bb] # <<>>  BY <1>4, <1>7, ShortLists
<1>9. Ends(d[bb])  BY <1>4, <1>7, <1>8 DEF Ends
<1> QED BY <1>2, <1>3, <1>9

LEMMA BranchesAre ==
    /\ \A to : IsBr(Br(to))
    /\ \A v, yes, no : IsBr(CondBr(v, yes, no))
    /\ \A args : IsRet(Inst("ret", "void", args, <<>>, ""))
BY DEF Br, CondBr, Inst, IsBr, IsRet

LEMMA NoItems ==
    ASSUME NEW z, z = <<>>
    PROVE  IsList(z) /\ Len(z) = 0 /\ DOMAIN z = {} /\ Exitless(z) /\ StraightItems(z) /\ \A i \in 1 .. Len(z) : FALSE
BY ShortLists DEF Exitless, StraightItems

LEMMA CreateBrMoves == ASSUME Working, CreateBr PROVE \E items : Steady(items) /\ Guided(items)
<1>1. PICK it, z : it = Head(agenda) /\ z = <<>>  OBVIOUS
<1>2. PICK inst : inst = Br(it.to)  OBVIOUS
<1>3. it.k = "br" /\ code' = Put(code, cur, inst) /\ agenda' = z \o Tail(agenda) /\ cur' = cur /\ scope' = scope
    BY <1>1, <1>2 DEF CreateBr, At, Now, Then
<1>4. IsBr(inst)  BY <1>2, BranchesAre
<1>5. IsCode(code) /\ cur \in DOMAIN code  BY WorkingFacts
<1>6. DOMAIN code' = DOMAIN code /\ Ends(code'[cur]) /\ \A b \in DOMAIN code : b # cur => code'[b] = code[b]
    BY <1>3, <1>4, <1>5, PutEnds
<1>7. IsList(z) /\ Exitless(z) /\ (\A i \in 1 .. Len(z) : FALSE) /\ Len(z) = 0  BY <1>1, NoItems
<1>8. ~ StraightItem(it)  BY <1>3, StraightFacts
<1>9. \A b : ~ Covers(it, b)  BY <1>3 DEF Covers
<1>10. \A i \in 2 .. Len(z) : FALSE  BY <1>7
<1>11. Moves(agenda, code, cur, z, code', cur')
    BY <1>1, <1>3, <1>6, <1>7, <1>8, <1>9, <1>10 DEF Moves
<1> QED BY <1>3, <1>7, <1>11 DEF Steady, Guided

LEMMA SetInsertPointMoves == ASSUME Working, SetInsertPoint PROVE \E items : Steady(items) /\ Guided(items)
<1>1. PICK it, z : it = Head(agenda) /\ z = <<>>  OBVIOUS
<1>2. it.k = "at" /\ code' = code /\ agenda' = z \o Tail(agenda) /\ cur' = it.bb /\ scope' = scope
    BY <1>1 DEF SetInsertPoint, At, Now, Then
<1>3. IsList(z) /\ Exitless(z) /\ (\A i \in 1 .. Len(z) : FALSE) /\ Len(z) = 0  BY <1>1, NoItems
<1>4. ~ StraightItem(it)  BY <1>2, StraightFacts
<1>5. \A b : Covers(it, b) => b = cur'  BY <1>2 DEF Covers
<1>6. \A i \in 2 .. Len(z) : FALSE  BY <1>3
<1>7. Moves(agenda, code, cur, z, code', cur')
    BY <1>1, <1>2, <1>3, <1>4, <1>5, <1>6 DEF Moves
<1> QED BY <1>2, <1>3, <1>7 DEF Steady, Guided

LEMMA LoopBranchMoves == ASSUME Working, LoopBranch PROVE \E items : Steady(items) /\ Guided(items)
<1>1. PICK g, h : Facing(prog, agenda, code, cur, scope, val, addr, g, h)
    BY FacingHead DEF Working, LoopBranch, At
<1>2. PICK it, z : it = Head(agenda) /\ z = <<>>  OBVIOUS
<1>3. PICK n, d : n = Len(code) + 1 /\ d = WithBlocks(code, 1)  OBVIOUS
<1>4. PICK inst : inst = CondBr(it.cond, it.body, n)  OBVIOUS
<1>5. /\ it.k = "loop" /\ code' = Put(d, it.head, inst) /\ cur' = n /\ agenda' = z \o Tail(agenda)
      /\ scope' = scope
    BY <1>2, <1>3, <1>4 DEF LoopBranch, At, Now, Then, Fresh
<1>6. it.head \in DOMAIN code  BY <1>1, <1>2, <1>5 DEF Facing, Step
<1>7. IsCode(code)  BY WorkingFacts
<1>8. /\ IsCode(d) /\ DOMAIN d = 1 .. Len(code) + 1 /\ Len(code) \in Nat
      /\ \A b \in DOMAIN code : b \in DOMAIN d /\ d[b] = code[b]
    BY <1>3, <1>7, WithBlocksFacts
<1>9. DOMAIN code = 1 .. Len(code)  BY <1>7, ListFacts DEF IsCode
<1>10. PICK q : q = it.head  OBVIOUS
<1>11. q \in DOMAIN d /\ IsBr(inst) /\ code' = Put(d, q, inst)  BY <1>4, <1>5, <1>6, <1>8, <1>10, BranchesAre
<1>12. DOMAIN code' = DOMAIN d /\ Ends(code'[q]) /\ \A b \in DOMAIN d : b # q => code'[b] = d[b]
    <2>1. IsCode(d) /\ q \in DOMAIN d  BY <1>8, <1>11
    <2>2. IsBr(inst)  BY <1>11
    <2>3. PICK c : c = Put(d, q, inst)  OBVIOUS
    <2>4. DOMAIN c = DOMAIN d /\ Ends(c[q]) /\ \A b \in DOMAIN d : b # q => c[b] = d[b]
        BY <2>1, <2>2, <2>3, PutEnds
    <2> QED BY <1>11, <2>3, <2>4
<1>13. IsList(z) /\ Exitless(z) /\ (\A i \in 1 .. Len(z) : FALSE) /\ Len(z) = 0  BY <1>2, NoItems
<1>14. \A i \in 2 .. Len(z) : FALSE  BY <1>13
<1>15. ~ StraightItem(it)  BY <1>5, StraightFacts
<1>16. \A b : Covers(it, b) => b = q  BY <1>5, <1>10 DEF Covers
<1>17. ASSUME NEW b \in DOMAIN code'
       PROVE  \/ Ends(code'[b])
              \/ b = cur'
              \/ b \in DOMAIN code /\ code'[b] = code[b] /\ ~ Covers(it, b)
    <2>1. b \in 1 .. Len(code) + 1  BY <1>8, <1>12
    <2>2. b = n \/ b \in DOMAIN code  BY <1>3, <1>8, <1>9, <2>1
    <2> QED BY <1>5, <1>8, <1>12, <1>16, <2>2
<1>18. Moves(agenda, code, cur, z, code', cur')
    BY <1>2, <1>5, <1>13, <1>14, <1>15, <1>17 DEF Moves
<1> QED BY <1>5, <1>13, <1>18 DEF Steady, Guided

LEMMA VisitIterationStmtMoves == ASSUME Working, VisitIterationStmt PROVE \E items : Steady(items) /\ Guided(items)
<1>1. PICK g, h : Facing(prog, agenda, code, cur, scope, val, addr, g, h)
    BY FacingHead DEF Working, VisitIterationStmt, At
<1>2. PICK it : it = Head(agenda)  OBVIOUS
<1>3. PICK n, d : n = Len(code) + 1 /\ d = WithBlocks(code, 1)  OBVIOUS
<1>4. PICK a, e : a = it.cond /\ e = [k |-> "body", head |-> n, body |-> it.body]  OBVIOUS
<1>5. PICK z : z = <<a, e>>  OBVIOUS
<1>6. PICK inst : inst = Br(n)  OBVIOUS
<1>7. /\ it.k = "while" /\ agenda' = z \o Tail(agenda) /\ code' = Put(d, cur, inst) /\ cur' = n
      /\ scope' = scope
    BY <1>2, <1>3, <1>4, <1>5, <1>6 DEF VisitIterationStmt, At, Now, Then, Fresh
<1>8. PICK S : S = Signatures(scope)  OBVIOUS
<1>9. PICK ty : Typed(prog, S, it, ty)
    <2>1. Step(prog, code, it, g, h) /\ g.scopes = S  BY <1>1, <1>2, <1>8 DEF Facing, Matches
    <2>2. it.k \in Nodes  BY <1>7 DEF Nodes
    <2> QED BY <2>1, <2>2 DEF Step
<1>10. a.k \in Nodes  BY <1>4, <1>7, <1>9, TypedRule, TypedNode DEF Rule
<1>11. ASSUME LoopsTestStraight(prog) PROVE StraightItem(a)
    <2>1. PICK j : j = [prog |-> prog, scopes |-> S, node |-> it, ty |-> ty]  OBVIOUS
    <2>2. j \in Typing /\ j.prog = prog /\ j.node = it  BY <1>9, <2>1 DEF Typed
    <2>3. a \in Straight  BY <1>4, <1>7, <1>11, <2>2 DEF LoopsTestStraight
    <2> QED BY <2>3 DEF StraightItem
<1>12. IsCode(code) /\ cur \in DOMAIN code  BY WorkingFacts
<1>13. /\ IsCode(d) /\ DOMAIN d = 1 .. Len(code) + 1 /\ Len(code) \in Nat
       /\ \A b \in DOMAIN code : b \in DOMAIN d /\ d[b] = code[b]
    BY <1>3, <1>12, WithBlocksFacts
<1>14. DOMAIN code = 1 .. Len(code)  BY <1>12, ListFacts DEF IsCode
<1>15. DOMAIN code' = DOMAIN d /\ Ends(code'[cur]) /\ \A b \in DOMAIN d : b # cur => code'[b] = d[b]
    <2>1. IsCode(d) /\ cur \in DOMAIN d  BY <1>12, <1>13
    <2>2. IsBr(inst)  BY <1>6, BranchesAre
    <2>3. PICK c : c = Put(d, cur, inst)  OBVIOUS
    <2>4. DOMAIN c = DOMAIN d /\ Ends(c[cur]) /\ \A b \in DOMAIN d : b # cur => c[b] = d[b]
        BY <2>1, <2>2, <2>3, PutEnds
    <2> QED BY <1>7, <2>3, <2>4
<1>16. ASSUME NEW b \in DOMAIN code'
       PROVE  Ends(code'[b]) \/ b = cur' \/ (b \in DOMAIN code /\ code'[b] = code[b] /\ b # cur)
    <2>1. b \in 1 .. Len(code) + 1  BY <1>13, <1>15
    <2>2. b = n \/ b \in DOMAIN code  BY <1>3, <1>13, <1>14, <2>1
    <2> QED BY <1>7, <1>13, <1>15, <2>2
<1>17. IsList(z) /\ Len(z) = 2 /\ z[1] = a /\ z[2] = e /\ DOMAIN z = {1, 2}  BY <1>5, ShortLists
<1>18. e.k = "body" /\ e.head = n  BY <1>4
<1>19. Exitless(z)  BY <1>10, <1>17, <1>18 DEF Exitless, Nodes
<1>20. ~ StraightItem(it)  BY <1>7, StraightFacts
<1>21. \A b : ~ Covers(it, b)  BY <1>7 DEF Covers
<1>22. ASSUME LoopsTestStraight(prog)
       PROVE  /\ \A i \in 1 .. Len(z) : z[i].k \notin {"implicit", "at", "loop"}
              /\ \A i \in 1 .. Len(z) : z[i].k = "body" =>
                    z[i].head = cur' /\ \A j \in 1 .. i - 1 : StraightItem(z[j])
    <2>1. StraightItem(a)  BY <1>11, <1>22
    <2>2. \A i \in 1 .. 2 : i = 1 \/ i = 2  OBVIOUS
    <2>3. \A j \in 1 .. 2 - 1 : j = 1  OBVIOUS
    <2>4. a.k \notin {"implicit", "at", "loop", "body"}  BY <1>10 DEF Nodes
    <2> QED BY <1>7, <1>17, <1>18, <2>1, <2>2, <2>3, <2>4
<1>23. z # <<>> => 1 \in 1 .. Len(z)  BY <1>17
<1>24. \A i \in 2 .. Len(z) : i \in 1 .. Len(z)  BY <1>17
<1>25. LoopsTestStraight(prog) => Moves(agenda, code, cur, z, code', cur')
    <2> SUFFICES ASSUME LoopsTestStraight(prog) PROVE Moves(agenda, code, cur, z, code', cur')  OBVIOUS
    <2> QED BY <1>2, <1>7, <1>16, <1>20, <1>21, <1>22, <1>23, <1>24 DEF Moves
<1> QED BY <1>7, <1>17, <1>19, <1>25 DEF Steady, Guided

LEMMA ElementMoves == ASSUME Working, Element PROVE \E items : Steady(items) /\ Guided(items)
<1>1. ~ Abort  BY ElementWorks DEF Working, Abort
<1>2. PICK it : it = Head(agenda)  OBVIOUS
<1>3. PICK x : x = typeConvert(code, cur, val, "i32")  OBVIOUS
<1>4. PICK y, v : y = x.c /\ v = x.v  OBVIOUS
<1>5. PICK yes, no : yes = Len(code) + 1 /\ no = Len(code) + 2  OBVIOUS
<1>6. PICK neg, fail, jump : /\ neg = Inst("neg", "i1", <<v>>, <<>>, "")
                             /\ fail = Inst("call", "void", <<>>, <<>>, "neg_idx_except")
                             /\ jump = Br(no)
    OBVIOUS
<1>7. PICK t : t = Put(y, cur, neg)  OBVIOUS
<1>8. PICK test : test = CondBr(LastOf(t, cur), yes, no)  OBVIOUS
<1>9. PICK w : w = WithBlocks(t, 2)  OBVIOUS
<1>10. PICK u : u = Put(w, cur, test)  OBVIOUS
<1>11. PICK s : s = Put(u, yes, fail)  OBVIOUS
<1>12. PICK e, z : e = [k |-> "address", array |-> it.array] /\ z = <<e>>  OBVIOUS
<1>13. /\ it.k = "checked"
       /\ code' = Put(s, yes, jump) /\ cur' = no
       /\ agenda' = z \o Tail(agenda)
       /\ scope' = scope
    BY <1>1, <1>2, <1>3, <1>4, <1>5, <1>6, <1>7, <1>8, <1>9, <1>10, <1>11, <1>12
        DEF Element, At, Now, Then, Fresh
<1>14. IsCode(code) /\ cur \in DOMAIN code  BY WorkingFacts
<1>15. Len(code) \in Nat /\ DOMAIN code = 1 .. Len(code)  BY <1>14, ListFacts DEF IsCode
<1>16. Grows(code, t, cur)
    BY <1>3, <1>4, <1>7, <1>14, ConvertPutGrows
<1>17. /\ IsCode(t) /\ Len(t) = Len(code) /\ DOMAIN t = DOMAIN code
       /\ \A b \in DOMAIN code : b # cur => t[b] = code[b]
    BY <1>14, <1>16, GrowsDomain DEF Grows
<1>18. PICK two \in Nat : two = 2  OBVIOUS
<1>19. /\ IsCode(w) /\ DOMAIN w = 1 .. Len(t) + two
       /\ \A b \in DOMAIN t : b \in DOMAIN w /\ w[b] = t[b]
    BY <1>9, <1>17, <1>18, WithBlocksFacts
<1>20. yes \in DOMAIN w /\ no \in DOMAIN w /\ cur \in DOMAIN w /\ cur # yes
    BY <1>5, <1>14, <1>15, <1>17, <1>18, <1>19
<1>21. IsBr(test) /\ IsBr(jump)  BY <1>6, <1>8, BranchesAre
<1>22. IsCode(u) /\ DOMAIN u = DOMAIN w /\ Ends(u[cur]) /\ \A b \in DOMAIN w : b # cur => u[b] = w[b]
    <2>1. IsBr(test)  BY <1>21
    <2>2. IsCode(w) /\ cur \in DOMAIN w  BY <1>19, <1>20
    <2> QED BY <1>10, <2>1, <2>2, PutEnds
<1>23. IsCode(s) /\ DOMAIN s = DOMAIN w /\ \A b \in DOMAIN w : b # yes => s[b] = u[b]
    <2>1. IsCode(u) /\ yes \in DOMAIN u  BY <1>20, <1>22
    <2>2. Grows(u, s, yes)  BY <1>11, <2>1, PutFacts
    <2>3. DOMAIN s = DOMAIN u /\ IsCode(s)  BY <2>1, <2>2, GrowsDomain
    <2> QED BY <1>22, <2>2, <2>3 DEF Grows
<1>24. DOMAIN code' = DOMAIN w /\ Ends(code'[yes]) /\ \A b \in DOMAIN w : b # yes => code'[b] = s[b]
    <2>1. IsBr(jump)  BY <1>21
    <2>2. IsCode(s) /\ yes \in DOMAIN s  BY <1>20, <1>23
    <2>3. PICK c : c = Put(s, yes, jump)  OBVIOUS
    <2>4. DOMAIN c = DOMAIN s /\ Ends(c[yes]) /\ \A b \in DOMAIN s : b # yes => c[b] = s[b]
        BY <2>1, <2>2, <2>3, PutEnds
    <2> QED BY <1>13, <1>23, <2>3, <2>4
<1>25. ASSUME NEW b \in DOMAIN code'
       PROVE  Ends(code'[b]) \/ b = cur' \/ (b \in DOMAIN code /\ code'[b] = code[b] /\ b # cur)
    <2>1. b = yes \/ b = no \/ b \in DOMAIN code  BY <1>5, <1>15, <1>17, <1>18, <1>19, <1>24
    <2>2. CASE b = yes  BY <1>24, <2>2
    <2>3. CASE b = no  BY <1>13, <2>3
    <2>4. CASE b # yes /\ b = cur  BY <1>20, <1>22, <1>23, <1>24, <2>4
    <2>5. CASE b # yes /\ b # cur /\ b \in DOMAIN code  BY <1>17, <1>19, <1>22, <1>23, <1>24, <2>5
    <2> QED BY <2>1, <2>2, <2>3, <2>4, <2>5
<1>26. IsList(z) /\ Len(z) = 1 /\ DOMAIN z = {1} /\ z[1] = e /\ e.k = "address"  BY <1>12, ShortLists
<1>27. Exitless(z)  BY <1>26 DEF Exitless
<1>28. ~ StraightItem(it)  BY <1>13, StraightFacts
<1>29. \A b : ~ Covers(it, b)  BY <1>13 DEF Covers
<1>30. \A i \in 1 .. Len(z) : z[i].k = "address"  BY <1>26
<1>31. \A i \in 2 .. Len(z) : FALSE  BY <1>26
<1>32. Moves(agenda, code, cur, z, code', cur')
    BY <1>2, <1>13, <1>25, <1>26, <1>28, <1>29, <1>30, <1>31 DEF Moves
<1> QED BY <1>13, <1>26, <1>27, <1>32 DEF Steady, Guided

(* Blocks that begin one after the other, the first at once.                *)
Reaches(its, b) == \E i \in 1 .. Len(its) : Covers(its[i], b)
Arranged(its) ==
    /\ IsList(its) /\ Len(its) \in Nat /\ Len(its) >= 1
    /\ its[1].k \in {"at", "loop"}
    /\ \A i \in 1 .. Len(its) : its[i].k \notin {"implicit", "body", "exit"}
    /\ \A i \in 2 .. Len(its) : its[i].k \in {"at", "loop"} => its[i - 1].k = "br"

LEMMA ArrangedOne ==
    ASSUME NEW it, it.k \in {"at", "loop"}, NEW z, z = <<it>>
    PROVE  Arranged(z) /\ \A b : Covers(it, b) => Reaches(z, b)
<1>1. IsList(z) /\ Len(z) = 1 /\ z[1] = it  BY ShortLists
<1>2. 1 \in 1 .. Len(z)  BY <1>1
<1>3. \A i \in 1 .. Len(z) : i = 1  BY <1>1
<1>4. \A i \in 2 .. Len(z) : FALSE  BY <1>1
<1>5. Arranged(z)  BY <1>1, <1>3, <1>4 DEF Arranged
<1> QED BY <1>1, <1>2, <1>5 DEF Reaches

LEMMA ArrangedJoin ==
    ASSUME NEW a, Arranged(a), a[Len(a)].k = "br", NEW b, Arranged(b), NEW u, u = a \o b
    PROVE  /\ Arranged(u)
           /\ u[Len(u)] = b[Len(b)]
           /\ \A x : Reaches(a, x) \/ Reaches(b, x) => Reaches(u, x)
<1>1. PICK m, n : m = Len(a) /\ n = Len(b)  OBVIOUS
<1>2. IsList(a) /\ IsList(b) /\ m \in Nat /\ n \in Nat /\ m >= 1 /\ n >= 1  BY <1>1 DEF Arranged
<1>3. /\ IsList(u) /\ Len(u) = m + n
      /\ \A i \in 1 .. m : u[i] = a[i]
      /\ \A i \in 1 .. n : u[m + i] = b[i]
      /\ \A i \in m + 1 .. m + n : u[i] = b[i - m]
    <2>1. IsList(a) /\ IsList(b)  BY <1>2
    <2>2. IsList(u) /\ Len(u) = Len(a) + Len(b)  BY <2>1, ConcatList
    <2>3. \A i \in 1 .. Len(a) : u[i] = a[i]  BY <2>1, ConcatList
    <2>4. \A i \in 1 .. Len(b) : u[Len(a) + i] = b[i]  BY <2>1, ConcatList
    <2>5. \A i \in Len(a) + 1 .. Len(a) + Len(b) : u[i] = b[i - Len(a)]  BY <2>1, ConcatList
    <2> QED BY <1>1, <2>2, <2>3, <2>4, <2>5
<1>4. u[1].k \in {"at", "loop"}
    <2>1. 1 \in 1 .. m  BY <1>2
    <2> QED BY <1>3, <2>1 DEF Arranged
<1>5. ASSUME NEW i \in 1 .. Len(u) PROVE u[i].k \notin {"implicit", "body", "exit"}
    <2>1. CASE i \in 1 .. m  BY <1>1, <1>3, <2>1 DEF Arranged
    <2>2. CASE i \notin 1 .. m
        <3>1. i \in m + 1 .. m + n /\ i - m \in 1 .. n  BY <1>2, <1>3, <2>2
        <3> QED BY <1>1, <1>3, <3>1 DEF Arranged
    <2> QED BY <2>1, <2>2
<1>6. ASSUME NEW i \in 2 .. Len(u), u[i].k \in {"at", "loop"} PROVE u[i - 1].k = "br"
    <2>1. CASE i \in 1 .. m
        <3>1. i \in 2 .. m /\ i - 1 \in 1 .. m  BY <1>2, <2>1
        <3> QED BY <1>1, <1>3, <1>6, <2>1, <3>1 DEF Arranged
    <2>2. CASE i = m + 1
        <3>1. i - 1 = m /\ m \in 1 .. m  BY <1>2, <2>2
        <3> QED BY <1>1, <1>3, <3>1
    <2>3. CASE i \notin 1 .. m /\ i # m + 1
        <3>1. /\ i \in m + 1 .. m + n /\ i - 1 \in m + 1 .. m + n
              /\ i - m \in 2 .. n /\ (i - 1) - m = (i - m) - 1
            BY <1>2, <1>3, <2>3
        <3>2. u[i] = b[i - m] /\ u[i - 1] = b[(i - m) - 1]  BY <1>3, <3>1
        <3> QED BY <1>1, <1>6, <3>1, <3>2 DEF Arranged
    <2> QED BY <2>1, <2>2, <2>3
<1>7. Arranged(u)
    <2>1. IsList(u) /\ Len(u) \in Nat /\ Len(u) >= 1 /\ u[1].k \in {"at", "loop"}
        BY <1>2, <1>3, <1>4 DEF Arranged
    <2> QED BY <2>1, <1>5, <1>6, <1>3 DEF Arranged
<1>8. u[Len(u)] = b[Len(b)]
    <2>1. n \in 1 .. n  BY <1>2
    <2> QED BY <1>1, <1>3, <2>1
<1>9. ASSUME NEW x, Reaches(a, x) \/ Reaches(b, x) PROVE Reaches(u, x)
    <2>1. CASE Reaches(a, x)
        <3>1. PICK i \in 1 .. m : Covers(a[i], x)  BY <1>1, <2>1 DEF Reaches
        <3>2. i \in 1 .. Len(u) /\ u[i] = a[i]  BY <1>2, <1>3
        <3> QED BY <3>1, <3>2 DEF Reaches
    <2>2. CASE Reaches(b, x)
        <3>1. PICK i \in 1 .. n : Covers(b[i], x)  BY <1>1, <2>2 DEF Reaches
        <3>2. m + i \in 1 .. Len(u) /\ u[m + i] = b[i]  BY <1>2, <1>3
        <3> QED BY <3>1, <3>2 DEF Reaches
    <2> QED BY <1>9, <2>1, <2>2
<1> QED BY <1>7, <1>8, <1>9

LEMMA ArmArranged ==
    ASSUME NEW p, NEW s, NEW es, Statements(p, s, es), NEW bb, NEW to, NEW a, a = Arm(bb, es, to)
    PROVE  Arranged(a) /\ a[Len(a)].k = "br" /\ Reaches(a, bb)
<1>1. PICK x, y, v, w : x = Place(bb) /\ y = Goto(to) /\ v = <<x>> /\ w = <<y>>  OBVIOUS
<1>2. x.k = "at" /\ x.bb = bb /\ y.k = "br"  BY <1>1 DEF Place, Goto
<1>3. IsList(v) /\ Len(v) = 1 /\ v[1] = x /\ IsList(w) /\ Len(w) = 1 /\ w[1] = y  BY <1>1, ShortLists
<1>4. IsList(es) /\ DOMAIN es = 1 .. Len(es) /\ \A i \in DOMAIN es : es[i].k \in Nodes
    BY ListFacts, TypedNode DEF Statements
<1>5. PICK n : n = Len(es)  OBVIOUS
<1>6. n \in Nat  BY <1>4, <1>5, ListFacts
<1>7. PICK t : t = v \o es  OBVIOUS
<1>8. IsList(t) /\ Len(t) = 1 + n /\ t[1] = x /\ \A i \in 2 .. 1 + n : t[i].k \in Nodes
    <2>1. IsList(v) /\ IsList(es)  BY <1>3, <1>4
    <2>2. IsList(t) /\ Len(t) = Len(v) + Len(es)  BY <1>7, <2>1, ConcatList
    <2>3. \A i \in 1 .. Len(v) : t[i] = v[i]  BY <1>7, <2>1, ConcatList
    <2>4. \A i \in Len(v) + 1 .. Len(v) + Len(es) : t[i] = es[i - Len(v)]  BY <1>7, <2>1, ConcatList
    <2>5. 1 \in 1 .. Len(v)  BY <1>3
    <2>6. ASSUME NEW i \in 2 .. 1 + n PROVE t[i].k \in Nodes
        <3>1. i \in 1 + 1 .. 1 + n /\ i - 1 \in 1 .. n  BY <1>6
        <3>2. t[i] = es[i - 1]  BY <1>3, <1>5, <2>4, <3>1
        <3> QED BY <1>4, <1>5, <3>1, <3>2
    <2> QED BY <1>3, <1>5, <2>2, <2>3, <2>5, <2>6
<1>9. a = t \o w  BY <1>1, <1>7 DEF Arm
<1>10. /\ IsList(a) /\ Len(a) = n + 2
       /\ a[1] = x /\ a[n + 2] = y
       /\ \A i \in 2 .. n + 1 : a[i].k \in Nodes
    <2>1. IsList(t) /\ IsList(w)  BY <1>3, <1>8
    <2>2. IsList(a) /\ Len(a) = Len(t) + Len(w)  BY <1>9, <2>1, ConcatList
    <2>3. \A i \in 1 .. Len(t) : a[i] = t[i]  BY <1>9, <2>1, ConcatList
    <2>4. \A i \in Len(t) + 1 .. Len(t) + Len(w) : a[i] = w[i - Len(t)]  BY <1>9, <2>1, ConcatList
    <2>5. n + 2 \in Len(t) + 1 .. Len(t) + Len(w) /\ n + 2 - Len(t) = 1 /\ Len(t) + Len(w) = n + 2
        BY <1>3, <1>6, <1>8
    <2>6. 1 \in 1 .. Len(t) /\ \A i \in 2 .. n + 1 : i \in 1 .. Len(t) /\ i \in 2 .. 1 + n  BY <1>6, <1>8
    <2> QED BY <1>3, <1>8, <2>2, <2>3, <2>4, <2>5, <2>6
<1>11. ASSUME NEW i \in 2 .. Len(a) PROVE a[i].k \in Nodes \cup {"br"}
    <2>1. i \in 2 .. n + 1 \/ i = n + 2  BY <1>6, <1>10
    <2> QED BY <1>2, <1>10, <2>1
<1>12. ASSUME NEW i \in 1 .. Len(a) PROVE a[i].k \notin {"implicit", "body", "exit"}
    <2>1. i = 1 \/ i \in 2 .. Len(a)  BY <1>6, <1>10
    <2> QED BY <1>2, <1>10, <1>11, <2>1 DEF Nodes
<1>13. \A i \in 2 .. Len(a) : a[i].k \notin {"at", "loop"}  BY <1>11 DEF Nodes
<1>14. Len(a) \in Nat /\ Len(a) >= 1 /\ 1 \in 1 .. Len(a)  BY <1>6, <1>10
<1>15. Arranged(a)  BY <1>2, <1>10, <1>12, <1>13, <1>14 DEF Arranged
<1>16. Covers(a[1], bb)  BY <1>2, <1>10 DEF Covers
<1>17. Reaches(a, bb)  BY <1>14, <1>16 DEF Reaches
<1> QED BY <1>2, <1>10, <1>15, <1>17

LEMMA ArrangedMoves ==
    ASSUME NEW items, Arranged(items), agenda' = items \o Tail(agenda),
           Head(agenda).k \in {"branch", "body"},
           scope' = scope, cur' = cur,
           Ends(code'[cur]) \/ Reaches(items, cur),
           \A b \in DOMAIN code' :
                Ends(code'[b]) \/ Reaches(items, b) \/ (b \in DOMAIN code /\ code'[b] = code[b] /\ b # cur)
    PROVE  Steady(items) /\ Moves(agenda, code, cur, items, code', cur')
<1>1. /\ IsList(items)
      /\ \A i \in 1 .. Len(items) : items[i].k \notin {"implicit", "body", "exit"}
      /\ \A i \in 2 .. Len(items) : items[i].k \in {"at", "loop"} => items[i - 1].k = "br"
    BY DEF Arranged
<1>2. DOMAIN items = 1 .. Len(items)  BY <1>1, ListFacts
<1>3. Steady(items)  BY <1>1, <1>2 DEF Steady, Exitless
<1>4. ~ StraightItem(Head(agenda))  BY StraightFacts
<1>5. \A b : ~ Covers(Head(agenda), b)  BY DEF Covers
<1>6. Moves(agenda, code, cur, items, code', cur')
    BY <1>1, <1>4, <1>5 DEF Moves, Reaches
<1> QED BY <1>3, <1>6

(* Code grown in the current block, and new blocks.                         *)
LEMMA FreshDomain ==
    ASSUME IsCode(code), cur \in DOMAIN code, NEW y, Grows(code, y, cur), NEW k \in Nat,
           NEW d, d = WithBlocks(y, k)
    PROVE  /\ IsCode(d) /\ cur \in DOMAIN d
           /\ Len(code) \in Nat /\ DOMAIN code = 1 .. Len(code)
           /\ DOMAIN d = 1 .. Len(code) + k
           /\ \A b \in DOMAIN code : b # cur => d[b] = code[b]
<1>1. /\ IsCode(y) /\ Len(y) = Len(code) /\ DOMAIN y = DOMAIN code
      /\ \A b \in DOMAIN code : b # cur => y[b] = code[b]
    BY GrowsDomain DEF Grows
<1>2. /\ IsCode(d) /\ DOMAIN d = 1 .. Len(y) + k
      /\ \A b \in DOMAIN y : b \in DOMAIN d /\ d[b] = y[b]
    BY <1>1, WithBlocksFacts
<1>3. Len(code) \in Nat /\ DOMAIN code = 1 .. Len(code)  BY ListFacts DEF IsCode
<1> QED BY <1>1, <1>2, <1>3

LEMMA BranchPlaced ==
    ASSUME IsCode(code), cur \in DOMAIN code, NEW y, Grows(code, y, cur), NEW k \in Nat,
           NEW d, d = WithBlocks(y, k), NEW inst, IsBr(inst), NEW e, e = Put(d, cur, inst)
    PROVE  /\ Ends(e[cur])
           /\ \A b \in DOMAIN e : \/ b \in DOMAIN code /\ (b = cur \/ e[b] = code[b])
                                  \/ b \in Len(code) + 1 .. Len(code) + k
<1>1. /\ IsCode(d) /\ cur \in DOMAIN d
      /\ Len(code) \in Nat /\ DOMAIN code = 1 .. Len(code)
      /\ DOMAIN d = 1 .. Len(code) + k
      /\ \A b \in DOMAIN code : b # cur => d[b] = code[b]
    BY FreshDomain
<1>2. DOMAIN e = DOMAIN d /\ Ends(e[cur]) /\ \A b \in DOMAIN d : b # cur => e[b] = d[b]
    <2>1. IsCode(d) /\ cur \in DOMAIN d /\ e = Put(d, cur, inst)  BY <1>1
    <2>2. DOMAIN e = DOMAIN d /\ Ends(e[cur])  BY <2>1, PutEnds
    <2>3. \A b \in DOMAIN d : b # cur => e[b] = d[b]  BY <2>1, PutEnds
    <2> QED BY <2>2, <2>3
<1>3. ASSUME NEW b \in DOMAIN e, b \notin Len(code) + 1 .. Len(code) + k
      PROVE  b \in DOMAIN code /\ (b = cur \/ e[b] = code[b])
    <2>1. b \in 1 .. Len(code)  BY <1>1, <1>2, <1>3
    <2> QED BY <1>1, <1>2, <2>1
<1> QED BY <1>2, <1>3

LEMMA BranchMoves == ASSUME Working, Branch PROVE \E items : Steady(items) /\ Guided(items)
<1>1. PICK g, h : Facing(prog, agenda, code, cur, scope, val, addr, g, h)
    BY FacingHead DEF Working, Branch, At
<1>2. PICK it : it = Head(agenda)  OBVIOUS
<1>3. PICK x : x = compareWith0(code, cur, val)  OBVIOUS
<1>4. it.k = "branch" /\ scope' = scope /\ cur' = cur  BY <1>2 DEF Branch, At, Now
<1>5. PICK S : S = Signatures(scope)  OBVIOUS
<1>6. Statements(prog, S, it.yes) /\ Statements(prog, S, it.no)
    BY <1>1, <1>2, <1>4, <1>5 DEF Facing, Step, Matches
<1>7. PICK yes, next, no : yes = Len(code) + 1 /\ next = Len(code) + 2 /\ no = Len(code) + 3  OBVIOUS
<1>8. PICK y, v : y = x.c /\ v = x.v  OBVIOUS
<1>9. IsCode(code) /\ cur \in DOMAIN code  BY WorkingFacts
<1>10. Grows(code, y, cur)  BY <1>3, <1>8, <1>9, ConvertGrows
<1>11. Len(code) \in Nat  BY <1>9, ListFacts DEF IsCode
<1>12. PICK at, last : at = Place(next) /\ last = <<at>>  OBVIOUS
<1>13. Arranged(last) /\ Reaches(last, next)
    <2>1. at.k = "at" /\ at.bb = next  BY <1>12 DEF Place
    <2> QED BY <1>12, <2>1, ArrangedOne DEF Covers
<1>14. PICK a : a = Arm(yes, it.yes, next)  OBVIOUS
<1>15. Arranged(a) /\ a[Len(a)].k = "br" /\ Reaches(a, yes)  BY <1>6, <1>14, ArmArranged
<1>16. \E items : /\ Arranged(items) /\ agenda' = items \o Tail(agenda)
                  /\ Ends(code'[cur])
                  /\ \A b \in DOMAIN code' : \/ Reaches(items, b)
                                             \/ b \in DOMAIN code /\ (b = cur \/ code'[b] = code[b])
    <2>1. CASE it.no = <<>>
        <3>1. PICK k \in Nat : k = 2  OBVIOUS
        <3>2. PICK d : d = WithBlocks(y, k)  OBVIOUS
        <3>3. PICK inst : inst = CondBr(v, yes, next)  OBVIOUS
        <3>4. PICK items : items = a \o last  OBVIOUS
        <3>5. PICK e : e = Put(d, cur, inst)  OBVIOUS
        <3>6. code' = e /\ agenda' = items \o Tail(agenda)
            BY <1>2, <1>3, <1>7, <1>8, <1>12, <1>14, <2>1, <3>1, <3>2, <3>3, <3>4, <3>5
                DEF Branch, Now, Then, Fresh
        <3>7. IsBr(inst)  BY <3>3, BranchesAre
        <3>8. /\ Ends(e[cur])
              /\ \A b \in DOMAIN e : \/ b \in DOMAIN code /\ (b = cur \/ e[b] = code[b])
                                     \/ b \in Len(code) + 1 .. Len(code) + k
            BY <1>9, <1>10, <3>2, <3>5, <3>7, BranchPlaced
        <3>9. Arranged(items) /\ Reaches(items, yes) /\ Reaches(items, next)
            BY <1>13, <1>15, <3>4, ArrangedJoin
        <3>10. \A b \in Len(code) + 1 .. Len(code) + k : b = yes \/ b = next  BY <1>7, <1>11, <3>1
        <3> QED BY <3>6, <3>8, <3>9, <3>10
    <2>2. CASE it.no # <<>>
        <3>1. PICK k \in Nat : k = 3  OBVIOUS
        <3>2. PICK d : d = WithBlocks(y, k)  OBVIOUS
        <3>3. PICK inst : inst = CondBr(v, yes, no)  OBVIOUS
        <3>4. PICK b : b = Arm(no, it.no, next)  OBVIOUS
        <3>5. PICK t : t = a \o b  OBVIOUS
        <3>6. PICK items : items = t \o last  OBVIOUS
        <3>7. PICK e : e = Put(d, cur, inst)  OBVIOUS
        <3>8. code' = e /\ agenda' = items \o Tail(agenda)
            BY <1>2, <1>3, <1>7, <1>8, <1>12, <1>14, <2>2, <3>1, <3>2, <3>3, <3>4, <3>5, <3>6, <3>7
                DEF Branch, Now, Then, Fresh
        <3>9. IsBr(inst)  BY <3>3, BranchesAre
        <3>10. /\ Ends(e[cur])
               /\ \A i \in DOMAIN e : \/ i \in DOMAIN code /\ (i = cur \/ e[i] = code[i])
                                      \/ i \in Len(code) + 1 .. Len(code) + k
            BY <1>9, <1>10, <3>2, <3>7, <3>9, BranchPlaced
        <3>11. Arranged(b) /\ b[Len(b)].k = "br" /\ Reaches(b, no)  BY <1>6, <3>4, ArmArranged
        <3>12. Arranged(t) /\ t[Len(t)].k = "br" /\ Reaches(t, yes) /\ Reaches(t, no)
            BY <1>15, <3>5, <3>11, ArrangedJoin
        <3>13. Arranged(items) /\ Reaches(items, yes) /\ Reaches(items, no) /\ Reaches(items, next)
            BY <1>13, <3>6, <3>12, ArrangedJoin
        <3>14. \A i \in Len(code) + 1 .. Len(code) + k : i = yes \/ i = next \/ i = no
            BY <1>7, <1>11, <3>1
        <3> QED BY <3>8, <3>10, <3>13, <3>14
    <2> QED BY <2>1, <2>2
<1>17. PICK items : /\ Arranged(items) /\ agenda' = items \o Tail(agenda)
                    /\ Ends(code'[cur])
                    /\ \A b \in DOMAIN code' : \/ Reaches(items, b)
                                               \/ b \in DOMAIN code /\ (b = cur \/ code'[b] = code[b])
    BY <1>16
<1>18. \A b \in DOMAIN code' :
            Ends(code'[b]) \/ Reaches(items, b) \/ (b \in DOMAIN code /\ code'[b] = code[b] /\ b # cur)
    BY <1>17
<1>19. Head(agenda).k \in {"branch", "body"}  BY <1>2, <1>4
<1>20. Steady(items) /\ Moves(agenda, code, cur, items, code', cur')
    BY <1>4, <1>17, <1>18, <1>19, ArrangedMoves
<1> QED BY <1>20 DEF Guided

(* The loop's branch goes into the block the condition was computed in.     *)
LEMMA LoopBodyMoves == ASSUME Working, LoopBody PROVE \E items : Steady(items) /\ Guided(items)
<1>1. PICK g, h : Facing(prog, agenda, code, cur, scope, val, addr, g, h)
    BY FacingHead DEF Working, LoopBody, At
<1>2. PICK it : it = Head(agenda)  OBVIOUS
<1>3. PICK x : x = compareWith0(code, cur, val)  OBVIOUS
<1>4. PICK n : n = Len(code) + 1  OBVIOUS
<1>5. PICK y, v : y = x.c /\ v = x.v  OBVIOUS
<1>6. PICK e : e = [k |-> "loop", head |-> it.head, body |-> n, cond |-> v]  OBVIOUS
<1>7. PICK a, last : a = Arm(n, it.body, it.head) /\ last = <<e>>  OBVIOUS
<1>8. PICK items : items = a \o last  OBVIOUS
<1>9. PICK k \in Nat : k = 1  OBVIOUS
<1>10. PICK d : d = WithBlocks(y, k)  OBVIOUS
<1>11. it.k = "body" /\ code' = d /\ agenda' = items \o Tail(agenda) /\ scope' = scope /\ cur' = cur
    BY <1>2, <1>3, <1>4, <1>5, <1>6, <1>7, <1>8, <1>9, <1>10 DEF LoopBody, At, Now, Then, Fresh
<1>12. PICK S : S = Signatures(scope)  OBVIOUS
<1>13. Statements(prog, S, it.body)
    BY <1>1, <1>2, <1>11, <1>12 DEF Facing, Step, Matches
<1>14. IsCode(code) /\ cur \in DOMAIN code  BY WorkingFacts
<1>15. Grows(code, y, cur)  BY <1>3, <1>5, <1>14, ConvertGrows
<1>16. /\ Len(code) \in Nat /\ DOMAIN code = 1 .. Len(code)
       /\ DOMAIN d = 1 .. Len(code) + k
       /\ \A b \in DOMAIN code : b # cur => d[b] = code[b]
    BY <1>10, <1>14, <1>15, FreshDomain
<1>17. Arranged(a) /\ a[Len(a)].k = "br" /\ Reaches(a, n)  BY <1>7, <1>13, ArmArranged
<1>18. Arranged(last) /\ Reaches(last, it.head)
    <2>1. PICK q : q = it.head  OBVIOUS
    <2>2. e.k = "loop" /\ e.head = q  BY <1>6, <2>1
    <2>3. Covers(e, q)  BY <2>2 DEF Covers
    <2> QED BY <1>7, <2>1, <2>2, <2>3, ArrangedOne
<1>19. Arranged(items) /\ Reaches(items, n) /\ Reaches(items, it.head)
    BY <1>8, <1>17, <1>18, ArrangedJoin
<1>20. Steady(items)
    <2>1. IsList(items) /\ \A i \in 1 .. Len(items) : items[i].k # "exit"  BY <1>19 DEF Arranged
    <2>2. DOMAIN items = 1 .. Len(items)  BY <2>1, ListFacts
    <2> QED BY <1>11, <2>1, <2>2 DEF Steady, Exitless
<1>21. ASSUME Control(code, agenda, cur) PROVE Moves(agenda, code, cur, items, code', cur')
    <2>1. it.head = cur
        <3>1. IsList(agenda) /\ agenda # <<>>  BY WorkingFacts DEF LoopBody, At
        <3>2. 1 \in 1 .. Len(agenda) /\ it = agenda[1]
            <4>1. Len(agenda) >= 1 /\ Head(agenda) = agenda[1]  BY <3>1, TailList
            <4>2. Len(agenda) \in Nat  BY <3>1, ListFacts
            <4> QED BY <1>2, <4>1, <4>2
        <3> QED BY <1>11, <1>21, <3>2 DEF Control
    <2>2. ASSUME NEW b \in DOMAIN code'
          PROVE  Ends(code'[b]) \/ Reaches(items, b) \/ (b \in DOMAIN code /\ code'[b] = code[b] /\ b # cur)
        <3>1. b \in 1 .. Len(code) \/ b = n  BY <1>4, <1>9, <1>11, <1>16
        <3> QED BY <1>11, <1>16, <1>19, <2>1, <3>1
    <2>3. Head(agenda).k \in {"branch", "body"}  BY <1>2, <1>11
    <2>4. Reaches(items, cur)  BY <1>19, <2>1
    <2> QED BY <1>11, <1>19, <2>2, <2>3, <2>4, ArrangedMoves
<1> QED BY <1>20, <1>21 DEF Guided

LEMMA QuietStep ==
    ASSUME Working,
           \/ VisitVarDeclaration \/ VisitParam \/ VisitExpressionStmt \/ VisitSelectionStmt
           \/ VisitReturnStmt \/ Returned \/ VisitNum \/ VisitVar \/ VisitElement \/ Address
           \/ VisitAssign \/ Target \/ Store \/ VisitBinary \/ Right \/ Combine
           \/ VisitCall \/ NextArgument \/ Argument \/ CreateCall
    PROVE  Head(agenda).k # "exit" /\ \E items : Steady(items) /\ Guided(items)
<1>1. Head(agenda).k \notin {"at", "loop", "br", "implicit", "exit"}
    BY DEF At, Now, VisitVarDeclaration, VisitParam, VisitExpressionStmt, VisitSelectionStmt,
        VisitReturnStmt, Returned, VisitNum, VisitVar, VisitElement, Address, VisitAssign, Target, Store,
        VisitBinary, Right, Combine, VisitCall, NextArgument, Argument, CreateCall
<1>2. PICK items : Quiet(items)
    BY VisitVarDeclarationQuiet, VisitParamQuiet, VisitExpressionStmtQuiet, VisitSelectionStmtQuiet,
        VisitReturnStmtQuiet, ReturnedQuiet, VisitNumQuiet, VisitVarQuiet, VisitElementQuiet, AddressQuiet,
        VisitAssignQuiet, TargetQuiet, StoreQuiet, VisitBinaryQuiet, RightQuiet, CombineQuiet,
        VisitCallQuiet, NextArgumentQuiet, ArgumentQuiet, CreateCallQuiet
<1> QED BY <1>1, <1>2, QuietMoves

LEMMA SteadyStep ==
    ASSUME Working, Next, ~ ExitScope, ~ VisitCompoundStmt, ~ ImplicitReturn
    PROVE  Head(agenda).k # "exit" /\ \E items : Steady(items) /\ Guided(items)
<1>1. ~ VisitFunDeclaration
    <2>1. SUFFICES ASSUME VisitFunDeclaration PROVE FALSE  OBVIOUS
    <2>2. Head(agenda).k = "fundecl" /\ agenda # <<>>  BY <2>1 DEF VisitFunDeclaration, At, Now
    <2>3. PICK g, h : Facing(prog, agenda, code, cur, scope, val, addr, g, h)
        BY <2>2, FacingHead DEF Working
    <2> QED BY <2>2, <2>3 DEF Facing, Step
<1>2. CASE \/ CreateBr \/ SetInsertPoint \/ Branch \/ VisitIterationStmt \/ LoopBody \/ LoopBranch \/ Element
    <2>1. Head(agenda).k # "exit"
        BY <1>2 DEF At, Now, CreateBr, SetInsertPoint, Branch, VisitIterationStmt, LoopBody, LoopBranch, Element
    <2> QED BY <1>2, <2>1, CreateBrMoves, SetInsertPointMoves, BranchMoves, VisitIterationStmtMoves,
               LoopBodyMoves, LoopBranchMoves, ElementMoves
<1>3. CASE ~ (CreateBr \/ SetInsertPoint \/ Branch \/ VisitIterationStmt \/ LoopBody \/ LoopBranch \/ Element)
    BY <1>1, <1>3, QuietStep DEF Next
<1> QED BY <1>2, <1>3

(* A compound statement enters a scope and plans its exit.                  *)
LEMMA CompoundMoves ==
    ASSUME Working, VisitCompoundStmt
    PROVE  /\ Head(agenda).k # "exit"
           /\ \E its, e : /\ IsList(its) /\ Exitless(its) /\ e.k = "exit"
                          /\ agenda' = Append(its, e) \o Tail(agenda)
                          /\ Len(scope') = Len(scope) + 1
                          /\ IsList(Append(its, e)) /\ Guided(Append(its, e))
<1>1. PICK g, h : Facing(prog, agenda, code, cur, scope, val, addr, g, h)
    BY FacingHead DEF Working, VisitCompoundStmt, At
<1>2. PICK it : it = Head(agenda)  OBVIOUS
<1>3. PICK e : e = [k |-> "exit"]  OBVIOUS
<1>4. PICK ds, es : ds = it.decls /\ es = it.stmts  OBVIOUS
<1>5. PICK its : its = ds \o es  OBVIOUS
<1>6. PICK items : items = Append(its, e)  OBVIOUS
<1>7. /\ it.k = "block" /\ scope' = Append(scope, << >>)
      /\ agenda' = items \o Tail(agenda)
      /\ code' = code /\ cur' = cur
    BY <1>2, <1>3, <1>4, <1>5, <1>6 DEF VisitCompoundStmt, At, Now, Then, Scoped
<1>8. PICK S : S = Signatures(scope)  OBVIOUS
<1>9. Rule(prog, S, it, "any")  BY <1>1, <1>2, <1>7, <1>8, StatementFacing
<1>10. /\ IsList(ds) /\ \A i \in DOMAIN ds : ds[i].k = "decl"
       /\ Statements(prog, Append(S, Inside(ds)), es)
    BY <1>4, <1>7, <1>9 DEF Rule
<1>11. IsList(es) /\ \A i \in DOMAIN es : es[i].k \in Nodes  BY <1>10, TypedNode DEF Statements
<1>12. PICK m, n : m = Len(ds) /\ n = Len(es)  OBVIOUS
<1>13. m \in Nat /\ n \in Nat /\ DOMAIN ds = 1 .. m /\ DOMAIN es = 1 .. n  BY <1>10, <1>11, <1>12, ListFacts
<1>14. /\ IsList(its) /\ Len(its) = m + n /\ DOMAIN its = 1 .. m + n
       /\ \A i \in 1 .. m + n : its[i].k \in Nodes \cup {"decl"}
    <2>1. IsList(its) /\ Len(its) = m + n  BY <1>5, <1>10, <1>11, <1>12, ConcatList
    <2>2. \A i \in 1 .. m : its[i] = ds[i]  BY <1>5, <1>10, <1>11, <1>12, ConcatList
    <2>3. \A i \in m + 1 .. m + n : its[i] = es[i - m]  BY <1>5, <1>10, <1>11, <1>12, ConcatList
    <2>4. ASSUME NEW i \in 1 .. m + n PROVE its[i].k \in Nodes \cup {"decl"}
        <3>1. CASE i \in 1 .. m  BY <1>10, <1>13, <2>2, <3>1
        <3>2. CASE i \notin 1 .. m
            <4>1. i \in m + 1 .. m + n /\ i - m \in 1 .. n  BY <1>13, <3>2
            <4> QED BY <1>11, <1>13, <2>3, <4>1
        <3> QED BY <3>1, <3>2
    <2>5. DOMAIN its = 1 .. m + n  BY <2>1, ListFacts
    <2> QED BY <2>1, <2>4, <2>5
<1>15. Exitless(its)  BY <1>14 DEF Exitless, Nodes
<1>16. e.k = "exit"  BY <1>3
<1>17. Len(scope') = Len(scope) + 1  BY <1>7, WorkingFacts, AppendList
<1>18. /\ IsList(items) /\ Len(items) = m + n + 1
       /\ \A i \in 1 .. m + n : items[i] = its[i]
       /\ items[m + n + 1] = e
    <2>1. IsList(items) /\ Len(items) = Len(its) + 1  BY <1>6, <1>14, AppendList
    <2>2. \A i \in 1 .. Len(its) : items[i] = its[i]  BY <1>6, <1>14, AppendList
    <2>3. items[Len(its) + 1] = e  BY <1>6, <1>14, AppendList
    <2> QED BY <1>14, <2>1, <2>2, <2>3
<1>19. ASSUME NEW i \in 1 .. Len(items)
       PROVE  items[i].k \notin {"at", "loop", "body", "implicit"}
    <2>1. i \in 1 .. m + n \/ i = m + n + 1  BY <1>13, <1>18
    <2> QED BY <1>14, <1>16, <1>18, <2>1 DEF Nodes
<1>20. 1 \in 1 .. Len(items) /\ \A i \in 2 .. Len(items) : i \in 1 .. Len(items)  BY <1>13, <1>18
<1>21. ~ StraightItem(it)  BY <1>7, StraightFacts
<1>22. \A b : ~ Covers(it, b)  BY <1>7 DEF Covers
<1>23. Moves(agenda, code, cur, items, code', cur')
    BY <1>2, <1>7, <1>19, <1>20, <1>21, <1>22 DEF Moves
<1> QED BY <1>2, <1>6, <1>7, <1>14, <1>15, <1>16, <1>17, <1>18, <1>23 DEF Guided

LEMMA ExitMoves ==
    ASSUME Working, ExitScope
    PROVE  /\ Head(agenda).k = "exit"
           /\ agenda' = <<>> \o Tail(agenda)
           /\ Len(scope') = Len(scope) - 1
           /\ Guided(<<>>)
<1>1. PICK it, z : it = Head(agenda) /\ z = <<>>  OBVIOUS
<1>2. /\ it.k = "exit" /\ agenda' = z \o Tail(agenda) /\ scope' = Front(scope)
      /\ code' = code /\ cur' = cur
    BY <1>1 DEF ExitScope, At, Now, Then
<1>3. Len(scope') = Len(scope) - 1  BY <1>2, WorkingFacts, FrontList
<1>4. IsList(z) /\ Exitless(z) /\ (\A i \in 1 .. Len(z) : FALSE) /\ Len(z) = 0  BY <1>1, NoItems
<1>5. ~ StraightItem(it)  BY <1>2, StraightFacts
<1>6. \A b : ~ Covers(it, b)  BY <1>2 DEF Covers
<1>7. \A i \in 2 .. Len(z) : FALSE  BY <1>4
<1>8. Moves(agenda, code, cur, z, code', cur')
    BY <1>1, <1>2, <1>4, <1>5, <1>6, <1>7 DEF Moves
<1> QED BY <1>1, <1>2, <1>3, <1>8 DEF Guided

-----------------------------------------------------------------------------
(* The scopes of the visits in progress                                     *)

ScopeInv == Beginning \/ (Working /\ Counted(agenda, scope))

LEMMA CountedStep == ASSUME Working, Counted(agenda, scope), Next PROVE Counted(agenda', scope')
<1>1. agenda # <<>>
    BY DEF Next, At, CreateBr, SetInsertPoint, ExitScope, VisitVarDeclaration, VisitFunDeclaration,
        VisitParam, ImplicitReturn, VisitCompoundStmt, VisitExpressionStmt, VisitSelectionStmt, Branch,
        VisitIterationStmt, LoopBody, LoopBranch, VisitReturnStmt, Returned, VisitNum, VisitVar,
        VisitElement, Element, Address, VisitAssign, Target, Store, VisitBinary, Right, Combine,
        VisitCall, NextArgument, Argument, CreateCall
<1>2. IsList(agenda)  BY WorkingFacts
<1>3. CASE ExitScope
    <2>1. Counted(<<>> \o Tail(agenda), scope')  BY <1>1, <1>2, <1>3, ExitMoves, CountLeft
    <2> QED BY <1>3, <2>1, ExitMoves
<1>4. CASE VisitCompoundStmt
    <2>1. PICK its, e : /\ IsList(its) /\ Exitless(its) /\ e.k = "exit"
                        /\ agenda' = Append(its, e) \o Tail(agenda)
                        /\ Len(scope') = Len(scope) + 1
        BY <1>4, CompoundMoves
    <2>2. Head(agenda).k # "exit"  BY <1>4, CompoundMoves
    <2>3. Counted(Append(its, e) \o Tail(agenda), scope')  BY <1>1, <1>2, <2>1, <2>2, CountEntered
    <2> QED BY <2>1, <2>3
<1>5. CASE ImplicitReturn
    <2>1. PICK z : z = <<>>  OBVIOUS
    <2>2. Head(agenda).k # "exit" /\ agenda' = z \o Tail(agenda) /\ scope' = scope
        BY <1>5, <2>1 DEF ImplicitReturn, At, Now, Then
    <2>3. IsList(z) /\ Exitless(z)  BY <2>1, NoItems
    <2>4. Counted(z \o Tail(agenda), scope')  BY <1>1, <1>2, <2>2, <2>3, CountStays
    <2> QED BY <2>2, <2>4
<1>6. CASE ~ ExitScope /\ ~ VisitCompoundStmt /\ ~ ImplicitReturn
    <2>1. PICK items : Steady(items)  BY <1>6, SteadyStep
    <2>2. Head(agenda).k # "exit"  BY <1>6, SteadyStep
    <2>3. Counted(items \o Tail(agenda), scope')  BY <1>1, <1>2, <2>1, <2>2, CountStays DEF Steady
    <2> QED BY <2>1, <2>3 DEF Steady
<1> QED BY <1>3, <1>4, <1>5, <1>6

(* The agenda of the function: the parameters, the body, the exit from the  *)
(* scope around them, the implicit return.                                  *)
LEMMA FunctionAgenda ==
    ASSUME Beginning, VisitFunDeclaration
    PROVE  \E n \in Nat :
                /\ IsList(agenda') /\ Len(agenda') = n + 3
                /\ \A i \in 1 .. n + 1 : agenda'[i].k \in Nodes \cup {"param"}
                /\ agenda'[n + 2].k = "exit"
                /\ agenda'[n + 3].k = "implicit"
<1>1. PICK k : Declaring(prog, agenda, scope, k)  BY DEF Beginning
<1>2. PICK fun : fun = prog.fun  OBVIOUS
<1>3. Head(agenda).k = "fundecl" /\ prog \in Programs  BY DEF VisitFunDeclaration, At, Now, Beginning
<1>4. Head(agenda) = fun /\ Tail(agenda) = <<>>  BY <1>1, <1>2, <1>3, DeclaringHead
<1>5. PICK ps, body : ps = fun.params /\ body = fun.body  OBVIOUS
<1>6. IsList(ps) /\ \A i \in DOMAIN ps : ps[i].k = "param"  BY <1>2, <1>3, <1>5, ProgramFacts
<1>7. body.k \in Nodes
    <2>1. PICK s : Typed(prog, s, body, "any")
        BY <1>2, <1>3, <1>5, TypingAssumption DEF ProgramRule
    <2> QED BY <2>1, TypedRule
<1>8. PICK e, r : e = [k |-> "exit"] /\ r = [k |-> "implicit", ret |-> fun.ret]  OBVIOUS
<1>9. PICK a : a = Append(ps, body)  OBVIOUS
<1>10. PICK b : b = Append(a, e)  OBVIOUS
<1>11. PICK t, z : t = <<r>> /\ z = <<>>  OBVIOUS
<1>12. PICK u : u = b \o t  OBVIOUS
<1>13. agenda' = u \o z
    BY <1>4, <1>5, <1>8, <1>9, <1>10, <1>11, <1>12 DEF VisitFunDeclaration, Now, Then, Scoped
<1>14. PICK n : n = Len(ps)  OBVIOUS
<1>15. n \in Nat /\ DOMAIN ps = 1 .. n  BY <1>6, <1>14, ListFacts
<1>16. IsList(a) /\ Len(a) = n + 1 /\ (\A i \in 1 .. n : a[i] = ps[i]) /\ a[n + 1] = body
    BY <1>6, <1>9, <1>14, AppendList
<1>17. IsList(b) /\ Len(b) = n + 2 /\ (\A i \in 1 .. n + 1 : b[i] = a[i]) /\ b[n + 2] = e
    <2>1. IsList(b) /\ Len(b) = Len(a) + 1  BY <1>10, <1>16, AppendList
    <2>2. \A i \in 1 .. Len(a) : b[i] = a[i]  BY <1>10, <1>16, AppendList
    <2>3. b[Len(a) + 1] = e  BY <1>10, <1>16, AppendList
    <2>4. n + 1 + 1 = n + 2  BY <1>15
    <2> QED BY <1>16, <2>1, <2>2, <2>3, <2>4
<1>18. IsList(t) /\ Len(t) = 1 /\ t[1] = r /\ IsList(z) /\ Len(z) = 0  BY <1>11, ShortLists
<1>19. IsList(u) /\ Len(u) = n + 3 /\ (\A i \in 1 .. n + 2 : u[i] = b[i]) /\ u[n + 3] = r
    <2>1. Joined(b \o t, b, t)  BY <1>17, <1>18, ConcatJoined
    <2>2. Joined(u, b, t)  BY <1>12, <2>1
    <2>3. 1 \in 1 .. Len(t) /\ n + 2 + 1 = n + 3  BY <1>15, <1>18
    <2> QED BY <1>17, <1>18, <2>2, <2>3 DEF Joined
<1>20. PICK w : w = u \o z  OBVIOUS
<1>21. IsList(w) /\ Len(w) = n + 3 /\ \A i \in 1 .. n + 3 : w[i] = u[i]
    <2>1. Joined(u \o z, u, z)  BY <1>18, <1>19, ConcatJoined
    <2>2. Joined(w, u, z)  BY <1>20, <2>1
    <2> QED BY <1>15, <1>18, <1>19, <2>2 DEF Joined
<1>22. ASSUME NEW i \in 1 .. n + 1 PROVE w[i].k \in Nodes \cup {"param"}
    <2>1. i \in 1 .. n + 2 /\ i \in 1 .. n + 3  BY <1>15
    <2>2. w[i] = a[i]  BY <1>17, <1>19, <1>21, <2>1
    <2>3. i \in 1 .. n \/ i = n + 1  BY <1>15
    <2> QED BY <1>6, <1>7, <1>15, <1>16, <2>2, <2>3
<1>23. w[n + 2].k = "exit" /\ w[n + 3].k = "implicit"
    <2>1. n + 2 \in 1 .. n + 2 /\ n + 2 \in 1 .. n + 3 /\ n + 3 \in 1 .. n + 3  BY <1>15
    <2>2. w[n + 2] = e /\ w[n + 3] = r  BY <1>17, <1>19, <1>21, <2>1
    <2> QED BY <1>8, <2>2
<1> QED BY <1>13, <1>15, <1>20, <1>21, <1>22, <1>23

LEMMA GlobalScope == ASSUME Beginning PROVE IsList(scope) /\ Len(scope) = 1
<1>1. PICK k : Declaring(prog, agenda, scope, k)  BY DEF Beginning
<1>2. IsList(scope)  BY DEF Beginning, ScopeOK
<1>3. Len(Signatures(scope)) = Len(scope)  BY <1>2, SignatureFacts
<1>4. PICK o : o = Opened(Functions, prog.globals, k)  OBVIOUS
<1>5. Signatures(scope) = <<o>>  BY <1>1, <1>4 DEF Declaring
<1> QED BY <1>2, <1>3, <1>5, ShortLists

LEMMA CountedBegins == ASSUME Beginning, VisitFunDeclaration PROVE Counted(agenda', scope')
<1>1. PICK n \in Nat : /\ IsList(agenda') /\ Len(agenda') = n + 3
                       /\ \A i \in 1 .. n + 1 : agenda'[i].k \in Nodes \cup {"param"}
                       /\ agenda'[n + 2].k = "exit"
                       /\ agenda'[n + 3].k = "implicit"
    BY FunctionAgenda
<1>2. PICK ag : ag = agenda'  OBVIOUS
<1>3. DOMAIN ag = 1 .. n + 3  BY <1>1, <1>2, ListFacts
<1>4. ASSUME NEW i \in DOMAIN ag PROVE ag[i].k = "exit" <=> i = n + 2
    <2>1. i \in 1 .. n + 1 \/ i = n + 2 \/ i = n + 3  BY <1>3
    <2>2. n + 3 # n + 2 /\ \A j \in 1 .. n + 1 : j # n + 2  OBVIOUS
    <2> QED BY <1>1, <1>2, <2>1, <2>2 DEF Nodes
<1>5. n + 2 \in DOMAIN ag  BY <1>3
<1>6. Exits(ag) = {n + 2}  BY <1>4, <1>5 DEF Exits
<1>7. IsFiniteSet(Exits(ag)) /\ Cardinality(Exits(ag)) = 1  BY <1>6, FS_Singleton
<1>8. IsList(scope) /\ Len(scope) = 1 /\ Len(scope) >= 1  BY GlobalScope
<1>9. PICK f, name : scope' = Append(Bound(scope, name, f), << >>)  BY DEF VisitFunDeclaration
<1>10. PICK s : s = Bound(scope, name, f)  OBVIOUS
<1>11. IsList(s) /\ Len(s) = 1
    <2>1. IsList(s) /\ Len(s) = Len(scope)  BY <1>8, <1>10, BoundFacts
    <2> QED BY <1>8, <2>1
<1>12. Len(scope') = 2
    <2>1. PICK z, t : z = << >> /\ t = Append(s, z)  OBVIOUS
    <2>2. Len(t) = Len(s) + 1  BY <1>11, <2>1, AppendList
    <2>3. scope' = t  BY <1>9, <1>10, <2>1
    <2> QED BY <1>11, <2>2, <2>3
<1> QED BY <1>2, <1>7, <1>12 DEF Counted

LEMMA ScopeInvStep == ASSUME ScopeInv, [Next]_vars PROVE ScopeInv'
<1>1. CASE UNCHANGED vars
    <2>1. Beginning => Beginning'  BY <1>1 DEF vars, Beginning
    <2>2. Working => Working'  BY <1>1 DEF vars, Working
    <2>3. Counted(agenda, scope) => Counted(agenda', scope')  BY <1>1 DEF vars
    <2> QED BY <2>1, <2>2, <2>3 DEF ScopeInv
<1>2. CASE Next /\ Beginning
    <2>1. VisitVarDeclaration \/ VisitFunDeclaration  BY <1>2, BeginningHead
    <2>2. CASE VisitVarDeclaration  BY <1>2, <2>2, DeclarationBegins DEF ScopeInv
    <2>3. CASE VisitFunDeclaration  BY <1>2, <2>3, FunctionBegins, CountedBegins DEF ScopeInv
    <2> QED BY <2>1, <2>2, <2>3
<1>3. CASE Next /\ Working /\ Counted(agenda, scope)
    BY <1>3, WorkingStep, CountedStep DEF ScopeInv
<1> QED BY <1>1, <1>2, <1>3 DEF ScopeInv

LEMMA ScopeInvFollows == ASSUME ScopeInv PROVE ScopesFollowVisits
<1>1. TypeOK  BY InvTypeOK DEF ScopeInv, Inv
<1>2. Len(scope) = 1 + Cardinality(Exits(agenda))
    <2>1. CASE Beginning
        <3>1. PICK k : Declaring(prog, agenda, scope, k)  BY <2>1 DEF Beginning
        <3>2. prog \in Programs  BY <2>1 DEF Beginning
        <3>3. PICK gs, all : gs = prog.globals /\ all = Append(gs, prog.fun)  OBVIOUS
        <3>4. PICK n : n = Len(gs)  OBVIOUS
        <3>5. /\ n \in Nat /\ IsList(gs)
              /\ \A i \in 1 .. n : gs[i].k = "decl"
              /\ prog.fun.k = "fundecl"
            BY <3>2, <3>3, <3>4, ProgramFacts
        <3>6. (\A i \in 1 .. n : all[i] = gs[i]) /\ all[n + 1] = prog.fun  BY <3>3, <3>4, <3>5, AppendList
        <3>7. k \in 0 .. n /\ IsList(agenda) /\ Len(agenda) = n - k + 1
              /\ \A i \in 1 .. Len(agenda) : agenda[i] = all[k + i]
            BY <3>1, <3>3, <3>4 DEF Declaring
        <3>8. ASSUME NEW i \in DOMAIN agenda PROVE agenda[i].k # "exit"
            <4>1. i \in 1 .. Len(agenda)  BY <3>7, ListFacts
            <4>2. k + i \in 1 .. n \/ k + i = n + 1  BY <3>5, <3>7, <4>1
            <4>3. agenda[i] = all[k + i]  BY <3>7, <4>1
            <4> QED BY <3>5, <3>6, <4>2, <4>3
        <3>9. Exits(agenda) = {}  BY <3>8 DEF Exits
        <3>10. Len(scope) = 1  BY <2>1, GlobalScope
        <3> QED BY <3>9, <3>10, FS_EmptySet
    <2>2. CASE Working /\ Counted(agenda, scope)  BY <2>2 DEF Counted
    <2> QED BY <2>1, <2>2 DEF ScopeInv
<1> QED BY <1>1, <1>2 DEF ScopesFollowVisits, Exits

-----------------------------------------------------------------------------
(* The ends of the blocks                                                   *)

ControlInv ==
    LoopsTestStraight(prog) => Beginning \/ (Working /\ Control(code, agenda, cur))

(* The implicit return is the last thing to be done, and ends the current   *)
(* block.                                                                   *)
LEMMA ReturnControl ==
    ASSUME Working, Control(code, agenda, cur), ImplicitReturn
    PROVE  Control(code', agenda', cur')
<1>1. PICK it : it = Head(agenda)  OBVIOUS
<1>2. PICK inst : inst = Inst("ret", "void", IF it.ret = "void" THEN <<>> ELSE <<Const(it.ret)>>, <<>>, "")
    OBVIOUS
<1>3. PICK z : z = <<>>  OBVIOUS
<1>4. /\ it.k = "implicit" /\ agenda # <<>> /\ code' = Put(code, cur, inst)
      /\ agenda' = z \o Tail(agenda) /\ cur' = cur
    BY <1>1, <1>2, <1>3 DEF ImplicitReturn, At, Now, Then
<1>5. IsCode(code) /\ cur \in DOMAIN code /\ IsList(agenda)  BY WorkingFacts
<1>6. Len(agenda) \in Nat /\ Len(agenda) >= 1 /\ it = agenda[1]  BY <1>1, <1>4, <1>5, TailList, ListFacts
<1>7. Len(agenda) = 1
    <2>1. 1 \in 1 .. Len(agenda)  BY <1>6
    <2> QED BY <1>4, <1>6, <2>1 DEF Control
<1>8. IsList(Tail(agenda)) /\ Len(Tail(agenda)) = 0
    BY <1>4, <1>5, <1>7, TailList
<1>9. IsList(z) /\ Len(z) = 0  BY <1>3, ShortLists
<1>10. PICK w : w = agenda'  OBVIOUS
<1>11. IsList(w) /\ Len(w) = 0
    <2>1. PICK t : t = Tail(agenda)  OBVIOUS
    <2>2. IsList(t) /\ Len(t) = 0 /\ w = z \o t  BY <1>4, <1>8, <1>10, <2>1
    <2>3. IsList(w) /\ Len(w) = Len(z) + Len(t)  BY <1>9, <2>2, ConcatList
    <2> QED BY <1>9, <2>2, <2>3
<1>12. \A i \in 1 .. 0 : FALSE  OBVIOUS
<1>13. w = <<>>
    <2>1. \A i \in 1 .. Len(w) : w[i] = z[i]  BY <1>11, <1>12
    <2>2. w = z  BY <1>9, <1>11, <2>1, EqualLists
    <2> QED BY <1>3, <2>2
<1>14. IsRet(inst)  BY <1>2, BranchesAre
<1>15. PICK d : d = Put(code, cur, inst)  OBVIOUS
<1>16. DOMAIN d = DOMAIN code /\ Ends(d[cur]) /\ \A b \in DOMAIN code : b # cur => d[b] = code[b]
    BY <1>5, <1>14, <1>15, PutEnds
<1>17. ASSUME NEW b \in DOMAIN d PROVE Ends(d[b])
    <2>1. CASE b = cur  BY <1>16, <2>1
    <2>2. CASE b # cur
        <3>1. Covered(code, agenda, b)  BY <1>16, <2>2 DEF Control
        <3>2. \A i \in DOMAIN agenda : ~ Covers(agenda[i], b)
            <4>1. \A i \in DOMAIN agenda : i = 1  BY <1>5, <1>7, ListFacts
            <4>2. ~ Covers(agenda[1], b)  BY <1>4, <1>6 DEF Covers
            <4> QED BY <4>1, <4>2
        <3> QED BY <1>16, <2>2, <3>1, <3>2 DEF Covered
    <2> QED BY <2>1, <2>2
<1>18. \A i \in 2 .. 0 : FALSE  OBVIOUS
<1>19. Control(d, w, cur)
    BY <1>11, <1>12, <1>13, <1>17, <1>18 DEF Control, Covered
<1> QED BY <1>4, <1>10, <1>15, <1>19

LEMMA ControlStep ==
    ASSUME Working, Control(code, agenda, cur), LoopsTestStraight(prog), Next
    PROVE  Control(code', agenda', cur')
<1>1. IsList(agenda)  BY WorkingFacts
<1>2. agenda # <<>>
    BY DEF Next, At, CreateBr, SetInsertPoint, ExitScope, VisitVarDeclaration, VisitFunDeclaration,
        VisitParam, ImplicitReturn, VisitCompoundStmt, VisitExpressionStmt, VisitSelectionStmt, Branch,
        VisitIterationStmt, LoopBody, LoopBranch, VisitReturnStmt, Returned, VisitNum, VisitVar,
        VisitElement, Element, Address, VisitAssign, Target, Store, VisitBinary, Right, Combine,
        VisitCall, NextArgument, Argument, CreateCall
<1>3. CASE ImplicitReturn  BY <1>3, ReturnControl
<1>4. CASE ~ ImplicitReturn
    <2>1. \E items : IsList(items) /\ agenda' = items \o Tail(agenda) /\ Guided(items)
        <3>1. CASE ExitScope
            <4>1. PICK z : z = <<>>  OBVIOUS
            <4>2. IsList(z) /\ agenda' = z \o Tail(agenda) /\ Guided(z)  BY <3>1, <4>1, ExitMoves, ShortLists
            <4> QED BY <4>2
        <3>2. CASE VisitCompoundStmt
            <4>1. PICK its, e : /\ agenda' = Append(its, e) \o Tail(agenda)
                                /\ IsList(Append(its, e)) /\ Guided(Append(its, e))
                BY <3>2, CompoundMoves
            <4> QED BY <4>1
        <3>3. CASE ~ ExitScope /\ ~ VisitCompoundStmt
            BY <1>4, <3>3, SteadyStep DEF Steady
        <3> QED BY <3>1, <3>2, <3>3
    <2>2. PICK items : IsList(items) /\ agenda' = items \o Tail(agenda) /\ Guided(items)  BY <2>1
    <2>3. Moves(agenda, code, cur, items, code', cur')  BY <2>2 DEF Guided
    <2>4. PICK d, b : d = code' /\ b = cur'  OBVIOUS
    <2>5. Moves(agenda, code, cur, items, d, b)  BY <2>3, <2>4
    <2>6. Control(d, items \o Tail(agenda), b)  BY <1>1, <1>2, <2>2, <2>5, ControlMoves
    <2> QED BY <2>2, <2>4, <2>6
<1> QED BY <1>3, <1>4

LEMMA ControlBegins ==
    ASSUME Beginning, VisitFunDeclaration
    PROVE  Control(code', agenda', cur')
<1>1. PICK n \in Nat : /\ IsList(agenda') /\ Len(agenda') = n + 3
                       /\ \A i \in 1 .. n + 1 : agenda'[i].k \in Nodes \cup {"param"}
                       /\ agenda'[n + 2].k = "exit"
                       /\ agenda'[n + 3].k = "implicit"
    BY FunctionAgenda
<1>2. PICK ag, c : ag = agenda' /\ c = << <<>> >>  OBVIOUS
<1>3. code' = c /\ cur' = 1  BY <1>2 DEF VisitFunDeclaration
<1>4. DOMAIN c = {1}  BY <1>2
<1>5. ASSUME NEW i \in 1 .. Len(ag)
      PROVE  (ag[i].k = "implicit" <=> i = Len(ag)) /\ ag[i].k \notin {"at", "loop", "body"}
    <2>1. i \in 1 .. n + 1 \/ i = n + 2 \/ i = n + 3  BY <1>1, <1>2
    <2>2. n + 2 # n + 3 /\ \A j \in 1 .. n + 1 : j # n + 3  OBVIOUS
    <2> QED BY <1>1, <1>2, <2>1, <2>2 DEF Nodes
<1>6. 1 \in 1 .. Len(ag) /\ \A i \in 2 .. Len(ag) : i \in 1 .. Len(ag)  BY <1>1, <1>2
<1>7. ag # <<>>  BY <1>1, <1>2, ShortLists
<1>8. Control(c, ag, 1)  BY <1>4, <1>5, <1>6, <1>7 DEF Control
<1> QED BY <1>2, <1>3, <1>8

LEMMA ControlInvStep == ASSUME ControlInv, [Next]_vars PROVE ControlInv'
<1> SUFFICES ASSUME LoopsTestStraight(prog')
             PROVE  Beginning' \/ (Working' /\ Control(code', agenda', cur'))
    BY DEF ControlInv
<1>1. CASE UNCHANGED vars
    <2>1. Beginning => Beginning'  BY <1>1 DEF vars, Beginning
    <2>2. Working => Working'  BY <1>1 DEF vars, Working
    <2>3. Control(code, agenda, cur) => Control(code', agenda', cur')  BY <1>1 DEF vars
    <2>4. LoopsTestStraight(prog)  BY <1>1 DEF vars
    <2> QED BY <2>1, <2>2, <2>3, <2>4 DEF ControlInv
<1>2. CASE Next
    <2>1. prog' = prog
        BY <1>2, Zenon DEF Next, Keep, Plan, Yield, Abort, CreateBr, SetInsertPoint, ExitScope,
            VisitVarDeclaration, VisitFunDeclaration, VisitParam, ImplicitReturn, VisitCompoundStmt,
            VisitExpressionStmt, VisitSelectionStmt, Branch, VisitIterationStmt, LoopBody, LoopBranch,
            VisitReturnStmt, Returned, VisitNum, VisitVar, VisitElement, Element, Address, VisitAssign,
            Target, Store, VisitBinary, Right, Combine, VisitCall, NextArgument, Argument, CreateCall
    <2>2. LoopsTestStraight(prog)  BY <2>1
    <2>3. CASE Beginning
        <3>1. VisitVarDeclaration \/ VisitFunDeclaration  BY <1>2, <2>3, BeginningHead
        <3>2. CASE VisitVarDeclaration  BY <2>3, <3>2, DeclarationBegins
        <3>3. CASE VisitFunDeclaration  BY <2>3, <3>3, FunctionBegins, ControlBegins
        <3> QED BY <3>1, <3>2, <3>3
    <2>4. CASE Working /\ Control(code, agenda, cur)
        BY <1>2, <2>2, <2>4, WorkingStep, ControlStep
    <2> QED BY <2>2, <2>3, <2>4 DEF ControlInv
<1> QED BY <1>1, <1>2

LEMMA ControlInvEnds == ASSUME ControlInv PROVE EveryBlockEnds
<1> SUFFICES ASSUME Done, LoopsTestStraight(prog), NEW bb \in DOMAIN code
             PROVE  Ends(code[bb])
    BY Zenon DEF EveryBlockEnds, Ends
<1>1. ~ Beginning
    <2>1. SUFFICES ASSUME Beginning PROVE FALSE  OBVIOUS
    <2>2. PICK k : Declaring(prog, agenda, scope, k)  BY <2>1 DEF Beginning
    <2>3. agenda # <<>>  BY <2>1, <2>2, DeclaringHead DEF Beginning
    <2> QED BY <2>3 DEF Done
<1>2. Control(code, agenda, cur)  BY <1>1 DEF ControlInv
<1>3. agenda = <<>>  BY DEF Done
<1>4. DOMAIN agenda = {}  BY <1>3
<1> QED BY <1>2, <1>3, <1>4 DEF Control, Covered

-----------------------------------------------------------------------------
(* The theorems                                                             *)

LEMMA InvAlways == Spec => []Inv
<1>1. Init => Inv  BY InitBeginning DEF Inv
<1>2. Inv /\ [Next]_vars => Inv'  BY InvStep
<1> QED BY <1>1, <1>2, PTL DEF Spec

(* At every moment the insert point is a block, and what an instruction     *)
(* uses or branches to exists: CminusfBuilder uses no Value it has not      *)
(* made.                                                                    *)
THEOREM CodeWellFormed == Spec => []TypeOK
<1>1. Inv => TypeOK  BY InvTypeOK
<1> QED BY <1>1, InvAlways, PTL

(* The assertion at the end of typeConvert fails for no program the typing  *)
(* rules admit: expressions leave in expressionValue a value of the type    *)
(* the rules give them, through whatever visits lie between.                *)
THEOREM ConversionsSucceed == Spec => []ConversionsHold
<1>1. Inv => ConversionsHold  BY DEF Inv, Beginning, Working, ConversionsHold
<1> QED BY <1>1, InvAlways, PTL

(* All instructions of the finished function satisfy the assertions of the  *)
(* constructors in Instruction.cpp: operands agree in type, arguments with  *)
(* the called function's parameters, the value stored with the pointee, the *)
(* result returned with the function's.                                     *)
THEOREM InstructionsWellTyped == Spec => []InstructionsFit
<1>1. Inv => InstructionsFit  BY InvFits
<1> QED BY <1>1, InvAlways, PTL

(* scope.enter and scope.exit pair up over all the visits of                *)
(* ASTFunDeclaration and ASTCompoundStmt, nested as they may be.            *)
THEOREM ScopesPairUp == Spec => []ScopesFollowVisits
<1>1. Init => ScopeInv  BY InitBeginning DEF ScopeInv
<1>2. ScopeInv /\ [Next]_vars => ScopeInv'  BY ScopeInvStep
<1>3. ScopeInv => ScopesFollowVisits  BY ScopeInvFollows
<1> QED BY <1>1, <1>2, <1>3, PTL DEF Spec

(* Every block of the finished function ends with the br or ret             *)
(* BasicBlock::get_terminator looks for, when ASTIterationStmt puts the     *)
(* branch of no loop into a block that already has one: when no loop is     *)
(* tested on an array element.                                              *)
THEOREM BlocksTerminated == Spec => []EveryBlockEnds
<1>1. Init => ControlInv  BY InitBeginning DEF ControlInv
<1>2. ControlInv /\ [Next]_vars => ControlInv'  BY ControlInvStep
<1>3. ControlInv => EveryBlockEnds  BY ControlInvEnds
<1> QED BY <1>1, <1>2, <1>3, PTL DEF Spec
=============================================================================
