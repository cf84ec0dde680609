---------------------------- MODULE UseDefProofs ----------------------------
(****************************************************************************)
(* Proofs, for any instructions and numbers of operands, of what the module *)
(* UseDef says of use lists and of the numbers in names.                    *)
(*                                                                          *)
(* UsesExact says nothing of the stale lists of replaced values; that they  *)
(* do no harm is because no operand in a list of instructions is such a     *)
(* value, NoneReplaced.  Names stay apart because all numbers given are     *)
(* below the counter.                                                       *)
(****************************************************************************)
EXTENDS UseDef, FiniteSetTheorems, TLAPS

NoneReplaced == \A p \in Slots : p[1] \in listed => operand[p] \notin replaced

Numbered == \A u \in named : number[u] < seq_cnt

Inv == TypeOK /\ UsesExact /\ NoneDangles /\ NoneReplaced /\ Numbered /\ NamesUnique

-----------------------------------------------------------------------------
(* What an instruction can use is a value, there, and not replaced.         *)
LEMMA UsableValues ==
    ASSUME TypeOK, NEW v \in Usable
    PROVE  /\ v \in Values /\ v # None /\ v \notin replaced
           /\ v \in Users => v \in listed
BY UsersAssumption DEF TypeOK, Usable, Values, A!Values

(* The slots of an instruction that has had no operands given are empty.    *)
LEMMA EmptySlots ==
    ASSUME TypeOK, NEW p \in Slots, p[1] \notin made \/ p[2] > arity[p[1]]
    PROVE  operand[p] = None
<1>1. p[1] \in Users /\ p[2] \in Nat /\ arity[p[1]] \in Nat
    BY UsersAssumption DEF TypeOK, Slots, A!Slots
<1> QED
    BY <1>1 DEF TypeOK

-----------------------------------------------------------------------------
(* Giving operands to empty slots D of an instruction that is in a list     *)
(* afterwards keeps lists exact.                                            *)
LEMMA GivingKeeps ==
    ASSUME Inv, NEW u \in Users, NEW D, D \subseteq Slots, NEW w, w \in [D -> Usable],
           \A p \in Slots : operand'[p] = IF p \in D THEN w[p] ELSE operand[p],
           \A v \in Values : uses'[v] = uses[v] \cup {p \in D : w[p] = v},
           \A p \in D : p[1] = u /\ operand[p] = None,
           u \notin listed => \A p \in Slots : p[1] = u => operand[p] = None,
           listed' = listed \cup {u}, replaced' = replaced
    PROVE  UsesExact' /\ NoneDangles' /\ NoneReplaced'
<1>1. TypeOK /\ UsesExact /\ NoneDangles /\ NoneReplaced
    BY DEF Inv
<1>2. \A p \in D : w[p] # None /\ w[p] \notin replaced /\ (w[p] \in Users => w[p] \in listed)
    BY <1>1, UsableValues
<1>3. UsesExact'
    <2> SUFFICES ASSUME NEW v \in Values \ replaced
                 PROVE  uses'[v] = {p \in Slots : p[1] \in listed' /\ operand'[p] = v}
        BY DEF UsesExact, Values, A!Values, Slots, A!Slots
    <2>1. uses[v] = {p \in Slots : p[1] \in listed /\ operand[p] = v}
        BY <1>1 DEF UsesExact
    <2>2. v # None
        BY UsersAssumption
    <2> QED
        BY <2>1, <2>2
<1>4. NoneReplaced'
    <2> SUFFICES ASSUME NEW p \in Slots, p[1] \in listed'
                 PROVE  operand'[p] \notin replaced
        BY DEF NoneReplaced, Slots, A!Slots
    <2>1. None \notin replaced
        BY <1>1, UsersAssumption DEF TypeOK, Values, A!Values
    <2> QED
        BY <1>1, <1>2, <2>1 DEF NoneReplaced
<1>5. NoneDangles'
    <2> SUFFICES ASSUME NEW p \in Slots, p[1] \in listed', operand'[p] \in Users
                 PROVE  operand'[p] \in listed'
        BY DEF NoneDangles, Slots, A!Slots
    <2>1. None \notin Users
        BY UsersAssumption DEF Values, A!Values
    <2> QED
        BY <1>1, <1>2, <2>1 DEF NoneDangles
<1> QED
    BY <1>3, <1>4, <1>5

-----------------------------------------------------------------------------
LEMMA InitHolds == Init => Inv
<1> SUFFICES ASSUME Init PROVE Inv
    OBVIOUS
<1>1. TypeOK
    BY UsersAssumption DEF Init, TypeOK, Values, A!Values, Slots, A!Slots
<1> QED
    BY <1>1, UsersAssumption DEF Init, Inv, UsesExact, NoneDangles, NoneReplaced,
        Numbered, NamesUnique, Values, A!Values, Slots, A!Slots

LEMMA CreateKeeps ==
    ASSUME Inv, NEW u \in Users, NEW n \in Arities, Create(u, n)
    PROVE  Inv'
<1>1. TypeOK /\ UsesExact /\ NoneDangles /\ NoneReplaced /\ Numbered /\ NamesUnique
    BY DEF Inv
<1> DEFINE D == {u} \X (1 .. n)
<1>2. PICK w \in [D -> Usable] : set_operands(w)
    BY DEF Create
<1>3. n \in 0 .. MaxOps /\ MaxOps \in Nat
    BY UsersAssumption, AritiesAssumption
<1>4. D \subseteq Slots
    BY <1>3 DEF Slots, A!Slots
<1>5. /\ operand' = [p \in Slots |-> IF p \in D THEN w[p] ELSE operand[p]]
      /\ uses' = [v \in Values |-> uses[v] \cup {p \in D : w[p] = v}]
    BY <1>2 DEF set_operands, ListedUses, A!Overlaid, Slots
<1> HIDE DEF D
<1>6. TypeOK'
    <2>1. w \in [D -> Values]
        BY <1>1, UsableValues
    <2>2. operand' \in [Slots -> Values \cup {None}] /\ uses' \in [Values -> SUBSET Slots]
        BY <1>1, <1>4, <1>5, <2>1 DEF TypeOK
    <2>3. arity' \in [Users -> 0 .. MaxOps]
        BY <1>1, <1>3 DEF Create, TypeOK
    <2>4. \A p \in Slots : operand'[p] # None => p[1] \in made' /\ p[2] <= arity'[p[1]]
        <3> SUFFICES ASSUME NEW p \in Slots, operand'[p] # None
                     PROVE  p[1] \in made' /\ p[2] <= arity'[p[1]]
            OBVIOUS
        <3>1. CASE p \in D
            BY <1>1, <3>1 DEF D, Create, TypeOK
        <3>2. CASE p \notin D
            BY <1>1, <1>5, <3>2 DEF Create, TypeOK, Slots, A!Slots
        <3> QED
            BY <3>1, <3>2
    <2> QED
        BY <1>1, <2>2, <2>3, <2>4 DEF Create, nameVars, TypeOK, Values, A!Values, Slots, A!Slots
<1>7. UsesExact' /\ NoneDangles' /\ NoneReplaced'
    <2>1. \A p \in Slots : p[1] = u => operand[p] = None
        BY <1>1, EmptySlots DEF Create
    <2>2. \A p \in D : p[1] = u /\ operand[p] = None
        BY <1>4, <2>1 DEF D
    <2>3. listed' = listed \cup {u} /\ replaced' = replaced
        BY DEF Create
    <2>4. /\ \A p \in Slots : operand'[p] = IF p \in D THEN w[p] ELSE operand[p]
          /\ \A v \in Values : uses'[v] = uses[v] \cup {p \in D : w[p] = v}
        BY <1>5
    <2>5. u \notin listed => \A p \in Slots : p[1] = u => operand[p] = None
        BY <2>1
    <2> QED
        BY <1>2, <1>4, <2>2, <2>3, <2>4, <2>5, GivingKeeps, SMTT(60)
<1>8. Numbered' /\ NamesUnique'
    BY <1>1 DEF Create, nameVars, Numbered, NamesUnique
<1> QED
    BY <1>6, <1>7, <1>8 DEF Inv

LEMMA AddPairKeeps ==
    ASSUME Inv, NEW u \in Users, AddPair(u)
    PROVE  Inv'
<1>1. TypeOK /\ UsesExact /\ NoneDangles /\ NoneReplaced /\ Numbered /\ NamesUnique
    BY DEF Inv
<1> DEFINE D == {u} \X {arity[u] + 1, arity[u] + 2}
<1>2. PICK w \in [D -> Usable] : set_operands(w)
    BY DEF AddPair, AddedSlots
<1>3. /\ arity[u] \in Nat /\ arity[u] + 2 \in 0 .. MaxOps
      /\ u \in listed /\ u \in made
      /\ arity' = [arity EXCEPT ![u] = arity[u] + 2]
    BY <1>1, UsersAssumption DEF AddPair, TypeOK
<1>4. D \subseteq Slots
    BY <1>3, UsersAssumption DEF Slots, A!Slots
<1>5. /\ operand' = [p \in Slots |-> IF p \in D THEN w[p] ELSE operand[p]]
      /\ uses' = [v \in Values |-> uses[v] \cup {p \in D : w[p] = v}]
    BY <1>2 DEF set_operands, ListedUses, A!Overlaid, Slots
<1>6. \A p \in D : p[1] = u /\ p[2] > arity[u] /\ p[2] <= arity[u] + 2
    BY <1>3
<1> HIDE DEF D
<1>7. TypeOK'
    <2>1. w \in [D -> Values]
        BY <1>1, UsableValues
    <2>2. operand' \in [Slots -> Values \cup {None}] /\ uses' \in [Values -> SUBSET Slots]
        BY <1>1, <1>4, <1>5, <2>1 DEF TypeOK
    <2>3. arity' \in [Users -> 0 .. MaxOps]
        BY <1>1, <1>3 DEF TypeOK
    <2>4. \A p \in Slots : operand'[p] # None => p[1] \in made' /\ p[2] <= arity'[p[1]]
        <3> SUFFICES ASSUME NEW p \in Slots, operand'[p] # None
                     PROVE  p[1] \in made /\ p[2] <= arity'[p[1]]
            BY DEF AddPair
        <3>1. p[1] \in Users /\ p[2] \in Nat /\ arity[p[1]] \in Nat
            BY <1>1, UsersAssumption DEF TypeOK, Slots, A!Slots
        <3>2. CASE p \in D
            BY <1>1, <1>3, <1>6, <3>1, <3>2 DEF TypeOK
        <3>3. CASE p \notin D
            <4>1. p[1] \in made /\ p[2] <= arity[p[1]]
                BY <1>1, <1>5, <3>3 DEF TypeOK
            <4> QED
                BY <1>1, <1>3, <3>1, <4>1 DEF TypeOK
        <3> QED
            BY <3>2, <3>3
    <2> QED
        BY <1>1, <2>2, <2>3, <2>4
            DEF AddPair, nameVars, TypeOK, Values, A!Values, Slots, A!Slots
<1>8. UsesExact' /\ NoneDangles' /\ NoneReplaced'
    <2>1. \A p \in D : p[1] = u /\ operand[p] = None
        BY <1>1, <1>4, <1>6, EmptySlots
    <2>2. u \notin listed => \A p \in Slots : p[1] = u => operand[p] = None
        BY <1>3
    <2>3. listed' = listed \cup {u} /\ replaced' = replaced
        BY <1>3 DEF AddPair
    <2>4. /\ \A p \in Slots : operand'[p] = IF p \in D THEN w[p] ELSE operand[p]
          /\ \A v \in Values : uses'[v] = uses[v] \cup {p \in D : w[p] = v}
        BY <1>5
    <2> QED
        BY <1>2, <1>4, <2>1, <2>2, <2>3, <2>4, GivingKeeps, SMTT(60)
<1>9. Numbered' /\ NamesUnique'
    BY <1>1 DEF AddPair, nameVars, Numbered, NamesUnique
<1> QED
    BY <1>7, <1>8, <1>9 DEF Inv

(* The list of old is exact, so no operand is old afterwards; its places    *)
(* join the list of new.                                                    *)
LEMMA ReplaceKeeps ==
    ASSUME Inv, NEW old \in Users, NEW new \in Values, ReplaceAllUseWith(old, new)
    PROVE  Inv'
<1>1. TypeOK /\ UsesExact /\ NoneDangles /\ NoneReplaced /\ Numbered /\ NamesUnique
    BY DEF Inv
<1>2. /\ old \in listed /\ old \notin replaced /\ old \in Values
      /\ new \in Usable /\ new # old
      /\ replaced' = replaced \cup {old} /\ listed' = listed
    BY DEF ReplaceAllUseWith, Values, A!Values
<1>3. new # None /\ new \notin replaced /\ (new \in Users => new \in listed)
    BY <1>1, <1>2, UsableValues
<1>4. uses[old] = {p \in Slots : p[1] \in listed /\ operand[p] = old}
    BY <1>1, <1>2 DEF UsesExact
<1>5. /\ operand' = [p \in Slots |-> IF p \in uses[old] THEN new ELSE operand[p]]
      /\ uses' = [v \in Values |-> uses[v] \cup {p \in uses[old] : new = v}]
    BY <1>4 DEF ReplaceAllUseWith, set_operands, ListedUses, A!Overlaid, Slots
<1>6. None \notin Values /\ None \notin Users /\ None \notin replaced
    BY <1>1, UsersAssumption DEF TypeOK, Values, A!Values
<1>7. TypeOK'
    <2>1. operand' \in [Slots -> Values \cup {None}] /\ uses' \in [Values -> SUBSET Slots]
        BY <1>1, <1>4, <1>5 DEF TypeOK
    <2>2. \A p \in Slots : operand'[p] # None => p[1] \in made /\ p[2] <= arity[p[1]]
        BY <1>1, <1>2, <1>4, <1>5, <1>6 DEF TypeOK
    <2> QED
        BY <1>1, <1>2, <2>1, <2>2
            DEF ReplaceAllUseWith, nameVars, TypeOK, Values, A!Values, Slots, A!Slots
<1>8. UsesExact'
    <2> SUFFICES ASSUME NEW v \in Values \ replaced'
                 PROVE  uses'[v] = {p \in Slots : p[1] \in listed' /\ operand'[p] = v}
        BY DEF UsesExact, Values, A!Values, Slots, A!Slots
    <2>1. uses[v] = {p \in Slots : p[1] \in listed /\ operand[p] = v} /\ v # old
        BY <1>1, <1>2 DEF UsesExact
    <2> QED
        BY <1>2, <1>4, <1>5, <2>1
<1>9. NoneReplaced' /\ NoneDangles'
    <2> SUFFICES ASSUME NEW p \in Slots, p[1] \in listed
                 PROVE  /\ operand'[p] \notin replaced'
                        /\ operand'[p] \in Users => operand'[p] \in listed
        BY <1>2 DEF NoneReplaced, NoneDangles, Slots, A!Slots
    <2> QED
        BY <1>1, <1>2, <1>3, <1>4, <1>5 DEF NoneReplaced, NoneDangles
<1>10. Numbered' /\ NamesUnique'
    BY <1>1 DEF ReplaceAllUseWith, nameVars, Numbered, NamesUnique
<1> QED
    BY <1>7, <1>8, <1>9, <1>10 DEF Inv

(* A deleted instruction is nobody's operand: it was replaced, or its list, *)
(* exact as it is, is empty.                                                *)
LEMMA DeleteKeeps ==
    ASSUME Inv, NEW u \in Users, DeleteInstr(u)
    PROVE  Inv'
<1>1. TypeOK /\ UsesExact /\ NoneDangles /\ NoneReplaced /\ Numbered /\ NamesUnique
    BY DEF Inv
<1>2. /\ listed' = listed \ {u} /\ operand' = operand /\ replaced' = replaced
      /\ uses' = [v \in Values |-> UsesKept(v, u)]
    BY DEF DeleteInstr
<1>3. \A v \in Values : UsesKept(v, u) \subseteq uses[v]
    BY DEF UsesKept
<1>4. TypeOK'
    BY <1>1, <1>2, <1>3 DEF DeleteInstr, nameVars, TypeOK, Values, A!Values, Slots, A!Slots
<1>5. UsesExact'
    <2> SUFFICES ASSUME NEW v \in Values \ replaced
                 PROVE  UsesKept(v, u) = {p \in Slots : p[1] \in listed \ {u} /\ operand[p] = v}
        BY <1>2 DEF UsesExact, Values, A!Values, Slots, A!Slots
    <2>1. uses[v] = {p \in Slots : p[1] \in listed /\ operand[p] = v}
        BY <1>1 DEF UsesExact
    <2>2. CASE \E p \in A!SlotsOf(u) : operand[p] = v
        BY <2>1, <2>2 DEF UsesKept
    <2>3. CASE ~ \E p \in A!SlotsOf(u) : operand[p] = v
        <3>1. \A p \in Slots : p[1] = u => p \in A!SlotsOf(u)
            BY DEF Slots, A!Slots, A!SlotsOf
        <3> QED
            BY <2>1, <2>3, <3>1 DEF UsesKept
    <2> QED
        BY <2>2, <2>3
<1>6. NoneReplaced'
    BY <1>1, <1>2 DEF NoneReplaced, Slots, A!Slots
<1>7. NoneDangles'
    <2>1. \A p \in Slots : p[1] \in listed => operand[p] # u
        BY <1>1 DEF DeleteInstr, NoneReplaced, UsesExact, Values, A!Values
    <2> QED
        BY <1>1, <1>2, <2>1 DEF NoneDangles, Slots, A!Slots
<1>8. Numbered' /\ NamesUnique'
    BY <1>1 DEF DeleteInstr, nameVars, Numbered, NamesUnique
<1> QED
    BY <1>4, <1>5, <1>6, <1>7, <1>8 DEF Inv

(* Numbers given now lie between the counter before and after.              *)
LEMMA NamingKeeps ==
    ASSUME Inv, SetInstrName
    PROVE  Inv'
<1>1. TypeOK /\ UsesExact /\ NoneDangles /\ NoneReplaced /\ Numbered /\ NamesUnique
    BY DEF Inv
<1> DEFINE fresh == listed \ named
<1> DEFINE n == Cardinality(fresh)
<1>2. n \in Nat
    <2>1. IsFiniteSet(fresh)
        BY <1>1, UsersAssumption, FS_Subset DEF TypeOK
    <2> QED
        BY <2>1, FS_CardinalityType
<1>3. PICK f \in [fresh -> 0 .. n] :
          /\ \A u, w \in fresh : u # w => f[u] # f[w]
          /\ \A u \in fresh : f[u] < n
          /\ number' = [u \in Users |-> IF u \in fresh THEN SeqNum(f[u]) ELSE number[u]]
    BY DEF SetInstrName
<1>4. named' = named \cup listed /\ seq_cnt' = seq_cnt + n
    BY DEF SetInstrName
<1>5. seq_cnt \in Nat /\ fresh \subseteq Users /\ named \subseteq Users
    BY <1>1 DEF TypeOK
<1> HIDE DEF fresh, n
<1>6. /\ \A u \in fresh : /\ f[u] \in Nat /\ f[u] < n
                          /\ number'[u] = seq_cnt + f[u]
      /\ \A u \in Users \ fresh : number'[u] = number[u]
      /\ \A u, w \in fresh : u # w => f[u] # f[w]
    BY <1>2, <1>3, <1>5 DEF SeqNum
<1>7. named' = named \cup fresh /\ named \cap fresh = {}
    BY <1>4 DEF fresh
<1>8. number' \in [Users -> Nat] /\ seq_cnt' \in Nat
    <2>1. \A u \in Users : number'[u] \in Nat
        BY <1>1, <1>2, <1>5, <1>6 DEF TypeOK
    <2> QED
        BY <1>2, <1>3, <1>4, <1>5, <2>1
<1>9. TypeOK' /\ UsesExact' /\ NoneDangles' /\ NoneReplaced'
    BY <1>1, <1>4, <1>8 DEF SetInstrName, TypeOK, UsesExact, NoneDangles, NoneReplaced,
        Values, A!Values, Slots, A!Slots
<1>10. \A u \in named : number[u] \in Nat /\ number[u] < seq_cnt
    BY <1>1, <1>5 DEF TypeOK, Numbered
<1>11. Numbered'
    BY <1>2, <1>4, <1>5, <1>6, <1>7, <1>10 DEF Numbered
<1>12. NamesUnique'
    <2> SUFFICES ASSUME NEW u \in named', NEW w \in named', u # w
                 PROVE  number'[u] # number'[w]
        BY DEF NamesUnique
    <2>1. CASE u \in named /\ w \in named
        BY <1>1, <1>5, <1>6, <1>7, <2>1 DEF NamesUnique
    <2>2. CASE u \in fresh /\ w \in fresh
        BY <1>5, <1>6, <2>2
    <2>3. CASE u \in named /\ w \in fresh
        BY <1>5, <1>6, <1>7, <1>10, <2>3
    <2>4. CASE u \in fresh /\ w \in named
        BY <1>5, <1>6, <1>7, <1>10, <2>4
    <2> QED
        BY <1>7, <2>1, <2>2, <2>3, <2>4
<1> QED
    BY <1>9, <1>11, <1>12 DEF Inv

LEMMA NextKeeps == Inv /\ [Next]_vars => Inv'
<1> SUFFICES ASSUME Inv, [Next]_vars PROVE Inv'
    OBVIOUS
<1>1. CASE \E u \in Users : \E n \in Arities : Create(u, n)
    BY <1>1, CreateKeeps
<1>2. CASE \E u \in Users : AddPair(u)
    BY <1>2, AddPairKeeps
<1>3. CASE \E u \in Users : DeleteInstr(u)
    BY <1>3, DeleteKeeps
<1>4. CASE \E old \in Users, new \in Values : ReplaceAllUseWith(old, new)
    BY <1>4, ReplaceKeeps
<1>5. CASE SetInstrName
    BY <1>5, NamingKeeps
<1>6. CASE UNCHANGED vars
    BY <1>6 DEF vars, Inv, TypeOK, UsesExact, NoneDangles, NoneReplaced, Numbered, NamesUnique
<1> QED
    BY <1>1, <1>2, <1>3, <1>4, <1>5, <1>6 DEF Next

(* The use lists, operands and names are as the invariant says, always.     *)
THEOREM UseDefInvariant == Spec => []Inv
BY InitHolds, NextKeeps, PTL DEF Spec

(* Operands are values or nullptr, and beyond num_ops_ there are none.      *)
THEOREM UseDefTyped == Spec => []TypeOK
BY UseDefInvariant, PTL DEF Inv

(* The list of a value that was not replaced names exactly the places that  *)
(* hold it: what replace_all_use_with relies on.                            *)
THEOREM UseListsExact == Spec => []UsesExact
BY UseDefInvariant, PTL DEF Inv

(* delete_instr never leaves an instruction with a deleted operand, under   *)
(* the conditions its callers meet.                                         *)
THEOREM NoDeletedOperand == Spec => []NoneDangles
BY UseDefInvariant, PTL DEF Inv

(* set_instr_name never gives two instructions of a function one number.    *)
THEOREM NamesStayUnique == Spec => []NamesUnique
BY UseDefInvariant, PTL DEF Inv

-----------------------------------------------------------------------------
(* Every step is, for the operands of the instructions in lists, one of the *)
(* abstract module or none: replacing through the list of uses replaces     *)
(* everywhere.                                                              *)
LEMMA ExtendMaps ==
    ASSUME Inv, NEW u \in Users, NEW D, D \subseteq A!SlotsOf(u),
           NEW w, w \in [D -> Values],
           operand' = [p \in Slots |-> IF p \in D THEN w[p] ELSE operand[p]],
           \A p \in D : operand[p] = None,
           u \notin listed => \A p \in Slots : p[1] = u => operand[p] = None,
           listed' = listed \cup {u}
    PROVE  A!Extend(u)
<1>1. D \subseteq Slots
    BY DEF A!SlotsOf, Slots, A!Slots
<1>2. D \in SUBSET {p \in A!SlotsOf(u) : Shown[p] = None}
    BY <1>1 DEF Shown, Slots, A!Slots
<1>3. \A p \in D : p[1] = u
    BY DEF A!SlotsOf
<1>4. Shown' = A!Overlaid(w, Shown)
    <2>1. \A p \in Slots : (IF p[1] \in listed' THEN operand'[p] ELSE None)
                           = IF p \in D THEN w[p]
                             ELSE IF p[1] \in listed THEN operand[p] ELSE None
        BY <1>3
    <2> QED
        BY <2>1 DEF Shown, A!Overlaid, Slots, A!Slots
<1> QED
    BY <1>2, <1>4 DEF A!Extend, Values

LEMMA CreateMaps ==
    ASSUME Inv, NEW u \in Users, NEW n \in Arities, Create(u, n)
    PROVE  A!Next
<1>1. TypeOK
    BY DEF Inv
<1> DEFINE D == {u} \X (1 .. n)
<1>2. PICK w \in [D -> Usable] : set_operands(w)
    BY DEF Create
<1>3. D \subseteq A!SlotsOf(u)
    BY UsersAssumption, AritiesAssumption DEF A!SlotsOf
<1>4. operand' = [p \in Slots |-> IF p \in D THEN w[p] ELSE operand[p]]
    BY <1>2 DEF set_operands, A!Overlaid, Slots
<1>5. \A p \in Slots : p[1] = u => operand[p] = None
    BY <1>1, EmptySlots DEF Create
<1>6. \A p \in D : p \in Slots /\ p[1] = u
    BY <1>3 DEF A!SlotsOf, Slots, A!Slots
<1> HIDE DEF D
<1>7. w \in [D -> Values]
    BY <1>1, UsableValues
<1>8. listed' = listed \cup {u}
    BY DEF Create
<1>9. A!Extend(u)
    BY <1>3, <1>4, <1>5, <1>6, <1>7, <1>8, ExtendMaps, SMTT(60)
<1> QED
    BY <1>9 DEF A!Next

LEMMA AddPairMaps ==
    ASSUME Inv, NEW u \in Users, AddPair(u)
    PROVE  A!Next
<1>1. TypeOK
    BY DEF Inv
<1> DEFINE D == {u} \X {arity[u] + 1, arity[u] + 2}
<1>2. PICK w \in [D -> Usable] : set_operands(w)
    BY DEF AddPair, AddedSlots
<1>3. arity[u] \in Nat /\ arity[u] + 2 <= MaxOps /\ u \in listed
    BY <1>1, UsersAssumption DEF AddPair, TypeOK
<1>4. D \subseteq A!SlotsOf(u)
    BY <1>3, UsersAssumption DEF A!SlotsOf
<1>5. operand' = [p \in Slots |-> IF p \in D THEN w[p] ELSE operand[p]]
    BY <1>2 DEF set_operands, A!Overlaid, Slots
<1>6. \A p \in D : p \in Slots /\ p[2] > arity[p[1]]
    BY <1>3, <1>4 DEF A!SlotsOf, Slots, A!Slots
<1> HIDE DEF D
<1>7. \A p \in D : operand[p] = None
    BY <1>1, <1>6, EmptySlots
<1>8. w \in [D -> Values]
    BY <1>1, UsableValues
<1>9. listed' = listed \cup {u}
    BY <1>3 DEF AddPair
<1>10. A!Extend(u)
    BY <1>3, <1>4, <1>5, <1>7, <1>8, <1>9, ExtendMaps, SMTT(60)
<1> QED
    BY <1>10 DEF A!Next

LEMMA ReplaceMaps ==
    ASSUME Inv, NEW old \in Users, NEW new \in Values, ReplaceAllUseWith(old, new)
    PROVE  A!Next
<1>1. /\ old \in listed /\ old \notin replaced /\ old \in Values /\ listed' = listed
    BY DEF ReplaceAllUseWith, Values, A!Values
<1>2. uses[old] = {p \in Slots : p[1] \in listed /\ operand[p] = old}
    BY <1>1 DEF Inv, UsesExact
<1>3. operand' = [p \in Slots |-> IF p \in uses[old] THEN new ELSE operand[p]]
    BY <1>2 DEF ReplaceAllUseWith, set_operands, A!Overlaid, Slots
<1>4. old # None
    BY UsersAssumption DEF Values, A!Values
<1>5. Shown' = [p \in Slots |-> IF Shown[p] = old THEN new ELSE Shown[p]]
    <2>1. \A p \in Slots : (IF p[1] \in listed THEN operand'[p] ELSE None)
              = LET q == IF p[1] \in listed THEN operand[p] ELSE None
                IN  IF q = old THEN new ELSE q
        BY <1>2, <1>3, <1>4
    <2> QED
        BY <1>1, <2>1 DEF Shown, Slots, A!Slots
<1> QED
    BY <1>1, <1>5 DEF A!Next, A!Substitute, Values, Slots

LEMMA DeleteMaps ==
    ASSUME NEW u \in Users, DeleteInstr(u)
    PROVE  A!Next
<1>1. listed' = listed \ {u} /\ operand' = operand
    BY DEF DeleteInstr
<1>2. Shown' = [p \in Slots |-> IF p[1] = u THEN None ELSE Shown[p]]
    BY <1>1 DEF Shown, Slots, A!Slots
<1> QED
    BY <1>1, <1>2 DEF A!Next, A!Remove, Slots

LEMMA StepMaps == Inv /\ [Next]_vars => [A!Next]_(A!opVars)
<1> SUFFICES ASSUME Inv, [Next]_vars PROVE [A!Next]_(A!opVars)
    OBVIOUS
<1>1. CASE \E u \in Users : \E n \in Arities : Create(u, n)
    BY <1>1, CreateMaps
<1>2. CASE \E u \in Users : AddPair(u)
    BY <1>2, AddPairMaps
<1>3. CASE \E u \in Users : DeleteInstr(u)
    BY <1>3, DeleteMaps
<1>4. CASE \E old \in Users, new \in Values : ReplaceAllUseWith(old, new)
    BY <1>4, ReplaceMaps
<1>5. CASE SetInstrName \/ UNCHANGED vars
    BY <1>5 DEF SetInstrName, vars, A!opVars, Shown
<1> QED
    BY <1>1, <1>2, <1>3, <1>4, <1>5 DEF Next

(* The code's way of replacing operands, through lists that are never       *)
(* cleared, does what the abstract module says: it refines it.              *)
THEOREM UseListsImplementOperands == Spec => ImplementsOperands
<1>1. Init => A!Init
    BY DEF Init, A!Init, Shown, Slots, A!Slots
<1> QED
    BY <1>1, StepMaps, UseDefInvariant, PTL DEF Spec, ImplementsOperands, A!Spec
=============================================================================
