--------------------------- MODULE CodeGenProofs ---------------------------
(***************************************************************************)
(* Proofs about CodeGen, for every set of operands, number of registers    *)
(* and bound on the instructions: its types, and the two facts that other  *)
(* reasoning about the generated code starts from.  Good(s) says that the  *)
(* allocator is in order; each operation of register.c is shown to keep it *)
(* so, then each handler of asm.c, then each step of the passes.           *)
(***************************************************************************)
EXTENDS CodeGen, WellFoundedInduction, TLAPS

(* A set of numbers has a least one: the scans of get_reg and ensure stop  *)
(* at it.                                                                  *)
LEMMA NatMin ==
    ASSUME NEW S \in SUBSET Nat, S # {}
    PROVE  \E x \in S : \A y \in S : x <= y
<1>1. IsWellFoundedOn(OpToRel(<, Nat), Nat)
  BY NatLessThanWellFounded
<1>2. PICK x \in S : \A y \in S : ~(<<y, x>> \in OpToRel(<, Nat))
  BY <1>1, WFMin
<1>3. \A y \in S : ~(y < x)
  BY <1>2 DEF OpToRel
<1> QED
  BY <1>3

(* Registers are numbers, and none of them is get_reg's "no register".     *)
LEMMA RegNat == Reg \subseteq Nat \ {NoReg} /\ SReg \subseteq Reg /\ TReg \subseteq Reg
BY RegAssumption DEF Reg, SReg, TReg, NoReg

(* Least, the register a scan from the first one finds, is in the set.     *)
LEMMA LeastIn ==
    ASSUME NEW S \in SUBSET Nat, S # {}
    PROVE  Least(S) \in S /\ \A y \in S : Least(S) <= y
BY NatMin DEF Least

(* ensure's scan finds a register bound to o when there is one.            *)
LEMMA RegOfBound ==
    ASSUME NEW s \in State, NEW o \in Operand, NEW r \in Reg, s.ope_in_reg[r] = o
    PROVE  RegOf(s, o) \in Reg /\ s.ope_in_reg[RegOf(s, o)] = o
<1> DEFINE S == {q \in Reg : s.ope_in_reg[q] = o}
<1>1. S \in SUBSET Nat /\ S # {}
  BY RegNat
<1>2. Least(S) \in S
  BY <1>1, LeastIn
<1> QED
  BY <1>2 DEF RegOf

(* It finds none exactly when o is bound to none.                          *)
LEMMA RegOfUnbound ==
    ASSUME NEW s \in State, NEW o \in Operand
    PROVE  /\ RegOf(s, o) = NoReg <=> \A r \in Reg : s.ope_in_reg[r] # o
           /\ RegOf(s, o) # NoReg => RegOf(s, o) \in Reg /\ s.ope_in_reg[RegOf(s, o)] = o
<1>1. CASE \E r \in Reg : s.ope_in_reg[r] = o
  BY <1>1, RegOfBound, RegNat
<1>2. CASE \A r \in Reg : s.ope_in_reg[r] # o
  BY <1>2 DEF RegOf, Least
<1> QED
  BY <1>1, <1>2

(***************************************************************************)
(* The allocator.  Steady: variables are alive and never out of next uses, *)
(* so get_reg stores them and finds a victim among them.  Coherent(s, x):  *)
(* ope_in_reg tells the truth about every operand but possibly x.  Safe(s, *)
(* x): no variable but possibly x has lost its value.                      *)
(***************************************************************************)
Steady(s) == \A v \in Vars : s.liveness[v] /\ s.next_use[v] # NO_USE

Coherent(s, x) ==
    /\ \A r \in Reg : s.ope_in_reg[r] # NULL =>
           /\ r \in Group(s.ope_in_reg[r])
           /\ s.ope_in_reg[r] \in (Vars \cup Consts) \ {x} => s.holds[r] = s.ope_in_reg[r]
    /\ \A r, q \in Reg : s.ope_in_reg[r] # NULL /\ s.ope_in_reg[r] = s.ope_in_reg[q] => r = q

Safe(s, x) ==
    \A v \in Vars \ {x} : s.saved[v] \/ \E r \in Reg : s.ope_in_reg[r] = v /\ s.dirty[r]

AllSaved(s) == \A v \in Vars : s.saved[v]

SavedGrows(s, t) == \A v \in Vars : s.saved[v] => t.saved[v]

Good(s) == s \in State /\ Steady(s) /\ Coherent(s, NULL) /\ Safe(s, NULL)

(* get_reg returns a register of the group it is given, or none.           *)
LEMMA ChoiceType ==
    ASSUME NEW s \in State, NEW R \in {SReg, TReg}
    PROVE  Choice(s, R) \in R \cup {NoReg}
<1>1. Free(s, R) \in SUBSET Nat /\ Farthest(s, R) \in SUBSET Nat
  BY RegNat DEF Free, Farthest
<1>2. CASE Free(s, R) # {}
  <2>1. Least(Free(s, R)) \in Free(s, R)
    BY <1>1, <1>2, LeastIn
  <2> QED
    BY <1>2, <2>1 DEF Choice, Free
<1>3. CASE Free(s, R) = {} /\ Farthest(s, R) # {}
  <2>1. Least(Farthest(s, R)) \in Farthest(s, R)
    BY <1>1, <1>3, LeastIn
  <2> QED
    BY <1>3, <2>1 DEF Choice, Farthest
<1>4. CASE Free(s, R) = {} /\ Farthest(s, R) = {}
  BY <1>4 DEF Choice, Least
<1> QED
  BY <1>2, <1>3, <1>4

(* Among registers bound to variables get_reg always has a choice: their   *)
(* next uses are above the -1 it starts from (register.c:83).              *)
LEMMA ChoiceOfSaveRegister ==
    ASSUME NEW s \in State, Steady(s), \A r \in SReg : s.ope_in_reg[r] \in Vars \cup {NULL}
    PROVE  Choice(s, SReg) \in SReg
<1>1. CASE Free(s, SReg) # {}
  BY <1>1, ChoiceType, RegNat, LeastIn DEF Choice, Free
<1>2. CASE Free(s, SReg) = {}
  <2> DEFINE Dist(r) == MAX_LINE - UseAt(s, r)
             D == {Dist(r) : r \in SReg}
  <2>1. \A r \in SReg : s.ope_in_reg[r] \in Vars
    BY <1>2 DEF Free
  <2>2. \A r \in SReg : UseAt(s, r) \in 0 .. MAX_LINE
    <3> TAKE r \in SReg
    <3>1. s.ope_in_reg[r] \in Vars /\ s.ope_in_reg[r] \in Operand
      BY <2>1 DEF Operand
    <3>2. s.next_use[s.ope_in_reg[r]] \in NextUse
      BY <3>1 DEF State
    <3> QED
      BY <3>1, <3>2 DEF UseAt, NextUse, Steady
  <2>3. SReg # {}
    BY RegAssumption DEF SReg
  <2>4. D \in SUBSET Nat /\ D # {}
    BY <2>2, <2>3, IRAssumption
  <2>5. PICK d \in D : \A e \in D : d <= e
    BY <2>4, NatMin
  <2>6. PICK r \in SReg : d = Dist(r)
    BY <2>5
  <2>7. \A q \in SReg : Dist(r) <= Dist(q)
    BY <2>5, <2>6
  <2>8. \A q \in SReg : UseAt(s, q) <= UseAt(s, r)
    BY <2>2, <2>7, IRAssumption
  <2>9. r \in Farthest(s, SReg)
    BY <2>2, <2>8 DEF Farthest, NO_USE
  <2>10. Farthest(s, SReg) \in SUBSET Nat /\ Farthest(s, SReg) # {}
    BY <2>9, RegNat DEF Farthest
  <2>11. Least(Farthest(s, SReg)) \in Farthest(s, SReg)
    BY <2>10, LeastIn
  <2> QED
    BY <1>2, <2>11 DEF Choice, Farthest
<1> QED
  BY <1>1, <1>2

(* allocate looks in one of the two groups.                                *)
LEMMA GroupType == \A o : Group(o) \in {SReg, TReg} /\ Group(o) \subseteq Reg
BY RegNat DEF Group

(* remove_value: o is bound nowhere, and at most o's value is lost by it.  *)
LEMMA RemoveValue ==
    ASSUME NEW s, Good(s), NEW o \in Operand
    PROVE  LET t == remove_value(s, o) IN
           /\ t \in State /\ Steady(t) /\ Coherent(t, NULL) /\ Safe(t, o)
           /\ \A r \in Reg : t.ope_in_reg[r] # o
           /\ t.saved = s.saved
<1> DEFINE t == remove_value(s, o)
<1>1. s \in State
  BY DEF Good
<1>2. t \in State /\ t.saved = s.saved /\ t.holds = s.holds /\ t.dirty = s.dirty
      /\ t.next_use = s.next_use /\ t.liveness = s.liveness
  BY <1>1 DEF remove_value, State
<1>3. \A r \in Reg : t.ope_in_reg[r] = IF s.ope_in_reg[r] = o THEN NULL ELSE s.ope_in_reg[r]
  BY <1>1 DEF remove_value, State
<1>4. o # NULL
  BY IRAssumption DEF Operand
<1>5. \A r \in Reg : t.ope_in_reg[r] # o
  BY <1>3, <1>4
<1>6. Steady(t)
  BY <1>2 DEF Good, Steady
<1>7. Coherent(t, NULL)
  BY <1>2, <1>3 DEF Good, Coherent
<1>8. Safe(t, o)
  <2>1. \A v \in Vars \ {o}, r \in Reg : s.ope_in_reg[r] = v => t.ope_in_reg[r] = v
    BY <1>3
  <2> QED
    BY <1>2, <2>1, IRAssumption DEF Good, Safe
<1> QED
  BY <1>2, <1>5, <1>6, <1>7, <1>8

(* get_reg on a full group: the victim's value is stored if it is a        *)
(* variable, so only its binding is lost.                                  *)
LEMMA EvictRegister ==
    ASSUME NEW s \in State, Steady(s), Coherent(s, NULL), NEW o, Safe(s, o), NEW r \in Reg
    PROVE  LET t == Evict(s, r) IN
           /\ t \in State /\ Steady(t) /\ Safe(t, o) /\ SavedGrows(s, t)
           /\ t.ope_in_reg = [s.ope_in_reg EXCEPT ![r] = NULL]
           /\ t.holds = s.holds /\ t.dirty = s.dirty
<1> DEFINE vic == s.ope_in_reg[r]
           t == Evict(s, r)
<1>1. CASE vic = NULL
  <2>1. t = s
    BY <1>1 DEF Evict
  <2>2. s.ope_in_reg = [s.ope_in_reg EXCEPT ![r] = NULL]
    BY <1>1 DEF State
  <2> QED
    BY <2>1, <2>2 DEF SavedGrows
<1>2. CASE vic # NULL
  <2>1. vic \in Operand
    BY <1>2 DEF State
  <2>2. vic \in Vars => Wanted(s, vic) /\ s.holds[r] = vic
    BY <1>2, IRAssumption DEF Steady, Coherent, Wanted
  <2>3. t = IF Wanted(s, vic)
            THEN [s EXCEPT !.saved[vic] = (s.holds[r] = vic), !.ope_in_reg[r] = NULL]
            ELSE [s EXCEPT !.ope_in_reg[r] = NULL]
    BY <1>2 DEF Evict, sw
  <2>4. t \in State /\ t.ope_in_reg = [s.ope_in_reg EXCEPT ![r] = NULL]
        /\ t.holds = s.holds /\ t.dirty = s.dirty
        /\ t.next_use = s.next_use /\ t.liveness = s.liveness
    <3>1. CASE Wanted(s, vic)
      <4> DEFINE f == [s.saved EXCEPT ![vic] = (s.holds[r] = vic)]
                 g == [s.ope_in_reg EXCEPT ![r] = NULL]
      <4>1. t = [s EXCEPT !.saved = f, !.ope_in_reg = g]
        BY <2>3, <3>1
      <4>2. f \in [Operand -> BOOLEAN]
        BY <2>1 DEF State
      <4>3. g \in [Reg -> Operand \cup {NULL}]
        BY DEF State
      <4> HIDE DEF f
      <4> QED
        BY <4>1, <4>2, <4>3 DEF State
    <3>2. CASE ~Wanted(s, vic)
      BY <2>3, <3>2 DEF State
    <3> QED
      BY <3>1, <3>2
  <2>5. \A v \in Vars : t.saved[v] = (v = vic \/ s.saved[v])
    <3> TAKE v \in Vars
    <3>1. v \in Operand
      BY DEF Operand
    <3>2. CASE v = vic
      BY <2>2, <2>3, <3>1, <3>2 DEF State
    <3>3. CASE v # vic
      BY <2>1, <2>3, <3>1, <3>3 DEF State
    <3> QED
      BY <3>2, <3>3
  <2>6. Steady(t)
    BY <2>4 DEF Steady
  <2>7. ASSUME NEW v \in Vars \ {o}
        PROVE  t.saved[v] \/ \E q \in Reg : t.ope_in_reg[q] = v /\ t.dirty[q]
    <3>1. CASE s.saved[v] \/ v = vic
      BY <2>5, <3>1
    <3>2. CASE ~s.saved[v] /\ v # vic
      <4>1. PICK q \in Reg : s.ope_in_reg[q] = v /\ s.dirty[q]
        BY <3>2 DEF Safe
      <4>2. q # r
        BY <3>2, <4>1
      <4> QED
        BY <2>4, <4>1, <4>2 DEF State
    <3> QED
      BY <3>1, <3>2
  <2>8. SavedGrows(s, t)
    BY <2>5 DEF SavedGrows
  <2> QED
    BY <2>4, <2>6, <2>7, <2>8 DEF Safe
<1> QED
  BY <1>1, <1>2

(* allocate: o is bound to one register of its group, whose contents are   *)
(* still to come; everything else is as coherent and safe as before.       *)
LEMMA Allocate ==
    ASSUME NEW s, Good(s), NEW o \in Operand
    PROVE  LET t == allocate(s, o) IN
           /\ t \in State /\ Steady(t) /\ Coherent(t, o) /\ Safe(t, o) /\ SavedGrows(s, t)
           /\ o \in Vars => RegOf(t, o) \in Reg
<1> DEFINE s1 == remove_value(s, o)
           r == Choice(s1, Group(o))
           t == allocate(s, o)
<1>1. /\ s1 \in State /\ Steady(s1) /\ Coherent(s1, NULL) /\ Safe(s1, o)
      /\ \A q \in Reg : s1.ope_in_reg[q] # o
      /\ s1.saved = s.saved
  BY RemoveValue
<1> HIDE DEF s1
<1>2. t = Bind(s1, r, o)
  BY DEF allocate, s1
<1>3. r \in Group(o) \cup {NoReg}
  BY <1>1, ChoiceType, GroupType
<1>4. o \in Vars => r # NoReg
  <2>1. \A q \in SReg : s1.ope_in_reg[q] \in Vars \cup {NULL}
    <3> TAKE q \in SReg
    <3>1. q \in Reg /\ q \notin TReg
      BY RegNat, RegAssumption DEF SReg, TReg
    <3> QED
      BY <1>1, <3>1 DEF Coherent, Group
  <2> QED
    BY <1>1, <2>1, ChoiceOfSaveRegister, RegNat DEF Group
<1> HIDE DEF r
<1>5. CASE r = NoReg
  <2>1. t = [s1 EXCEPT !.fault = TRUE]
    BY <1>2, <1>5 DEF Bind
  <2>2. t \in State /\ t.ope_in_reg = s1.ope_in_reg /\ t.saved = s1.saved /\ t.holds = s1.holds
        /\ t.dirty = s1.dirty /\ t.next_use = s1.next_use /\ t.liveness = s1.liveness
    BY <1>1, <2>1 DEF State
  <2> QED
    BY <1>1, <1>4, <1>5, <2>2 DEF Steady, Coherent, Safe, SavedGrows
<1>6. CASE r \in Group(o)
  <2> DEFINE e == Evict(s1, r)
  <2>0. r \in Reg /\ r # NoReg
    BY <1>6, GroupType, RegNat
  <2>1. /\ e \in State /\ Steady(e) /\ Safe(e, o) /\ SavedGrows(s1, e)
        /\ e.ope_in_reg = [s1.ope_in_reg EXCEPT ![r] = NULL]
        /\ e.holds = s1.holds /\ e.dirty = s1.dirty
    BY <1>1, <2>0, EvictRegister
  <2> HIDE DEF e
  <2>2. t = [e EXCEPT !.ope_in_reg[r] = o]
    BY <1>2, <2>0 DEF Bind, e
  <2>3. t \in State /\ t.saved = e.saved /\ t.holds = s1.holds /\ t.dirty = e.dirty
        /\ t.next_use = e.next_use /\ t.liveness = e.liveness
    BY <2>0, <2>1, <2>2 DEF State
  <2>4. t.ope_in_reg = [s1.ope_in_reg EXCEPT ![r] = o]
    BY <1>1, <2>0, <2>1, <2>2 DEF State
  <2>5. \A q \in Reg : t.ope_in_reg[q] = IF q = r THEN o ELSE s1.ope_in_reg[q]
    BY <1>1, <2>4 DEF State
  <2>6. Coherent(t, o)
    BY <1>1, <1>6, <2>3, <2>5 DEF Coherent
  <2>7. Safe(t, o)
    <3>1. \A q \in Reg : e.ope_in_reg[q] = IF q = r THEN NULL ELSE s1.ope_in_reg[q]
      BY <1>1, <2>1 DEF State
    <3>2. \A v \in Vars, q \in Reg : e.ope_in_reg[q] = v => t.ope_in_reg[q] = v
      BY <2>5, <3>1, IRAssumption
    <3> QED
      BY <2>1, <2>3, <3>2 DEF Safe
  <2>8. Steady(t) /\ SavedGrows(s, t)
    BY <1>1, <2>1, <2>3 DEF Steady, SavedGrows
  <2>9. RegOf(t, o) \in Reg
    BY <2>0, <2>3, <2>5, RegOfBound
  <2> QED
    BY <2>3, <2>6, <2>7, <2>8, <2>9
<1> QED
  BY <1>3, <1>5, <1>6

(* The lw or li of ensure makes the new binding true.                      *)
LEMMA FillGood ==
    ASSUME NEW s \in State, NEW o \in Operand, Steady(s), Coherent(s, o), Safe(s, o),
           o \in Vars => s.saved[o]
    PROVE  Good(Fill(s, RegOf(s, o), o)) /\ Fill(s, RegOf(s, o), o).saved = s.saved
<1> DEFINE r == RegOf(s, o)
           x == IF o \in Consts \/ s.saved[o] THEN o ELSE NULL
           u == Fill(s, r, o)
<1>1. u = [s EXCEPT !.holds[r] = x]
  BY DEF Fill, li, lw
<1>2. u \in State /\ u.ope_in_reg = s.ope_in_reg /\ u.dirty = s.dirty /\ u.saved = s.saved
      /\ u.next_use = s.next_use /\ u.liveness = s.liveness
      /\ u.holds = [s.holds EXCEPT ![r] = x]
  <2> DEFINE h == [s.holds EXCEPT ![r] = x]
  <2>1. h \in [Reg -> Operand \cup {NULL}]
    BY DEF State
  <2>2. u = [s EXCEPT !.holds = h]
    BY <1>1
  <2> HIDE DEF h
  <2>3. u \in State /\ u.ope_in_reg = s.ope_in_reg /\ u.dirty = s.dirty /\ u.saved = s.saved
        /\ u.next_use = s.next_use /\ u.liveness = s.liveness /\ u.holds = h
    BY <2>1, <2>2 DEF State
  <2> QED
    BY <2>3 DEF h
<1>3. \A q \in Reg : u.holds[q] = IF q = r THEN x ELSE s.holds[q]
  BY <1>2 DEF State
<1>4. \A q \in Reg : s.ope_in_reg[q] = o => q = r
  <2>1. o # NULL
    BY IRAssumption DEF Operand
  <2> QED
    BY <2>1, RegOfBound DEF Coherent
<1> HIDE DEF u
<1>5. Coherent(u, NULL)
  <2>1. ASSUME NEW q \in Reg, s.ope_in_reg[q] \in Vars \cup Consts
        PROVE  u.holds[q] = s.ope_in_reg[q]
    <3>0. s.ope_in_reg[q] # NULL
      BY <2>1, IRAssumption
    <3>1. CASE s.ope_in_reg[q] = o
      BY <1>3, <1>4, <2>1, <3>1
    <3>2. CASE s.ope_in_reg[q] # o
      <4>1. s.holds[q] = s.ope_in_reg[q]
        BY <2>1, <3>0, <3>2 DEF Coherent
      <4>2. q # r
        BY <3>2, RegOfUnbound, RegNat
      <4> QED
        BY <1>3, <4>1, <4>2
    <3> QED
      BY <3>1, <3>2
  <2> QED
    BY <1>2, <2>1 DEF Coherent
<1>6. Safe(u, NULL)
  <2>1. ASSUME NEW v \in Vars
        PROVE  u.saved[v] \/ \E q \in Reg : u.ope_in_reg[q] = v /\ u.dirty[q]
    <3>1. CASE v = o
      BY <1>2, <3>1
    <3>2. CASE v # o
      BY <1>2, <3>2 DEF Safe
    <3> QED
      BY <3>1, <3>2
  <2> QED
    BY <2>1 DEF Safe
<1>7. Steady(u)
  BY <1>2 DEF Steady
<1> QED
  BY <1>2, <1>5, <1>6, <1>7 DEF Good, u

(* ensure keeps the allocator good and unsaves no variable.                *)
LEMMA EnsureGood ==
    ASSUME NEW s, Good(s), NEW o \in Operand
    PROVE  Good(ensure(s, o)) /\ SavedGrows(s, ensure(s, o))
<1>1. CASE RegOf(s, o) # NoReg
  BY <1>1 DEF ensure, SavedGrows
<1>2. CASE RegOf(s, o) = NoReg
  <2> DEFINE t == allocate(s, o)
  <2>1. t \in State /\ Steady(t) /\ Coherent(t, o) /\ Safe(t, o) /\ SavedGrows(s, t)
    BY Allocate
  <2>2. ensure(s, o) = Fill(t, RegOf(t, o), o)
    BY <1>2 DEF ensure
  <2> HIDE DEF t
  <2>3. o \in Vars => t.saved[o]
    <3>1. s \in State
      BY DEF Good
    <3>2. \A r \in Reg : s.ope_in_reg[r] # o
      BY <1>2, <3>1, RegOfUnbound
    <3> QED
      BY <2>1, <3>2, IRAssumption DEF Good, Safe, SavedGrows
  <2> QED
    BY <2>1, <2>2, <2>3, FillGood DEF SavedGrows
<1> QED
  BY <1>1, <1>2

(* Reading a register changes none of the tables.                          *)
LEMMA ReadKeeps ==
    ASSUME NEW s \in State, NEW r, NEW a \in Operand
    PROVE  LET t == Read(s, r, a) IN
           /\ t \in State /\ t.ope_in_reg = s.ope_in_reg /\ t.dirty = s.dirty /\ t.saved = s.saved
           /\ t.next_use = s.next_use /\ t.liveness = s.liveness /\ t.holds = s.holds
BY DEF Read, State

(* Reading a register keeps the allocator good.                            *)
LEMMA ReadGood ==
    ASSUME NEW s, Good(s), NEW r, NEW a \in Operand
    PROVE  Good(Read(s, r, a)) /\ SavedGrows(s, Read(s, r, a))
<1>1. s \in State
  BY DEF Good
<1> DEFINE t == Read(s, r, a)
<1>2. /\ t \in State /\ t.ope_in_reg = s.ope_in_reg /\ t.dirty = s.dirty /\ t.saved = s.saved
      /\ t.next_use = s.next_use /\ t.liveness = s.liveness /\ t.holds = s.holds
  BY <1>1, ReadKeeps
<1> HIDE DEF t
<1>3. Steady(t) /\ Coherent(t, NULL)
  BY <1>2 DEF Good, Steady, Coherent
<1>4. Safe(t, NULL) /\ SavedGrows(s, t)
  BY <1>2 DEF Good, Safe, SavedGrows
<1> QED
  BY <1>2, <1>3, <1>4 DEF Good, t

(* The state between allocate(o) and the instruction that defines o.       *)
Allocated(s, o) ==
    /\ s \in State /\ Steady(s) /\ Coherent(s, o) /\ Safe(s, o)
    /\ o \in Vars => RegOf(s, o) \in Reg

(* A new value of o makes every copy of the old one stale, and touches no  *)
(* other operand.                                                          *)
LEMMA ForgetKeeps ==
    ASSUME NEW s \in State, NEW o \in Operand
    PROVE  LET t == Forget(s, o) IN
           /\ t \in State /\ t.ope_in_reg = s.ope_in_reg /\ t.dirty = s.dirty
           /\ t.next_use = s.next_use /\ t.liveness = s.liveness
           /\ \A q \in Reg : t.holds[q] = IF s.holds[q] = o THEN NULL ELSE s.holds[q]
           /\ \A p \in Operand \ {o} : t.saved[p] = s.saved[p]
<1> DEFINE h == [q \in Reg |-> IF s.holds[q] = o THEN NULL ELSE s.holds[q]]
           f == [s.saved EXCEPT ![o] = FALSE]
           t == Forget(s, o)
<1>1. t = [s EXCEPT !.holds = h, !.saved = f]
  BY DEF Forget
<1>2. h \in [Reg -> Operand \cup {NULL}] /\ f \in [Operand -> BOOLEAN]
  BY DEF State
<1>3. /\ \A q \in Reg : h[q] = IF s.holds[q] = o THEN NULL ELSE s.holds[q]
      /\ \A p \in Operand \ {o} : f[p] = s.saved[p]
  BY DEF State
<1> HIDE DEF h, f
<1>4. t \in State /\ t.ope_in_reg = s.ope_in_reg /\ t.dirty = s.dirty
      /\ t.next_use = s.next_use /\ t.liveness = s.liveness /\ t.holds = h /\ t.saved = f
  BY <1>1, <1>2 DEF State
<1> QED
  BY <1>3, <1>4

(* After allocate, writing the destination and marking it dirty makes the  *)
(* allocator good again.                                                   *)
LEMMA DefineGood ==
    ASSUME NEW o \in Operand, NEW s, Allocated(s, o)
    PROVE  Good(Define(s, RegOf(s, o), o))
<1> DEFINE r == RegOf(s, o)
           t == Forget(s, o)
           u == Define(s, r, o)
<1>1. s \in State
  BY DEF Allocated
<1>2. /\ t \in State /\ t.ope_in_reg = s.ope_in_reg /\ t.dirty = s.dirty
      /\ t.next_use = s.next_use /\ t.liveness = s.liveness
      /\ \A q \in Reg : t.holds[q] = IF s.holds[q] = o THEN NULL ELSE s.holds[q]
      /\ \A p \in Operand \ {o} : t.saved[p] = s.saved[p]
  BY <1>1, ForgetKeeps
<1>3. u = [t EXCEPT !.holds[r] = o, !.dirty[r] = TRUE]
  BY DEF Define
<1>4. o # NULL
  BY IRAssumption DEF Operand
<1>5. /\ r \in Reg => s.ope_in_reg[r] = o
      /\ \A q \in Reg : s.ope_in_reg[q] = o => q = r
  <2>1. r \in Reg => s.ope_in_reg[r] = o
    BY <1>1, RegOfUnbound, RegNat
  <2>2. ASSUME NEW q \in Reg, s.ope_in_reg[q] = o
        PROVE  q = r
    BY <1>1, <1>4, <2>2, RegOfBound DEF Allocated, Coherent
  <2> QED
    BY <2>1, <2>2
<1> HIDE DEF t, r
<1>6. u \in State /\ u.ope_in_reg = s.ope_in_reg /\ u.saved = t.saved
      /\ u.next_use = s.next_use /\ u.liveness = s.liveness
      /\ u.holds = [t.holds EXCEPT ![r] = o] /\ u.dirty = [t.dirty EXCEPT ![r] = TRUE]
  <2> DEFINE h == [t.holds EXCEPT ![r] = o]
             d == [t.dirty EXCEPT ![r] = TRUE]
  <2>1. h \in [Reg -> Operand \cup {NULL}] /\ d \in [Reg -> BOOLEAN]
    BY <1>2 DEF State
  <2>2. u = [t EXCEPT !.holds = h, !.dirty = d]
    BY <1>3
  <2> HIDE DEF h, d
  <2>3. u \in State /\ u.ope_in_reg = t.ope_in_reg /\ u.saved = t.saved
        /\ u.next_use = t.next_use /\ u.liveness = t.liveness /\ u.holds = h /\ u.dirty = d
    BY <1>2, <2>1, <2>2 DEF State
  <2> QED
    BY <1>2, <2>3 DEF h, d
<1>7. \A q \in Reg : u.holds[q] = IF q = r THEN o ELSE t.holds[q]
  BY <1>2, <1>6 DEF State
<1>8. \A q \in Reg : s.dirty[q] => u.dirty[q]
  BY <1>2, <1>6 DEF State
<1> HIDE DEF u
<1>9. Coherent(u, NULL)
  <2>1. ASSUME NEW q \in Reg, s.ope_in_reg[q] \in Vars \cup Consts
        PROVE  u.holds[q] = s.ope_in_reg[q]
    <3>0. s.ope_in_reg[q] # NULL
      BY <2>1, IRAssumption
    <3>1. CASE s.ope_in_reg[q] = o
      BY <1>5, <1>7, <3>1
    <3>2. CASE s.ope_in_reg[q] # o
      <4>1. s.holds[q] = s.ope_in_reg[q]
        BY <2>1, <3>0, <3>2 DEF Allocated, Coherent
      <4> QED
        BY <1>2, <1>5, <1>7, <3>2, <4>1
    <3> QED
      BY <3>1, <3>2
  <2> QED
    BY <1>6, <2>1 DEF Allocated, Coherent
<1>10. Safe(u, NULL)
  <2>1. ASSUME NEW v \in Vars
        PROVE  u.saved[v] \/ \E q \in Reg : u.ope_in_reg[q] = v /\ u.dirty[q]
    <3>1. CASE v = o
      <4>1. r \in Reg
        BY <3>1 DEF Allocated, r
      <4>2. u.dirty[r]
        BY <1>2, <1>6, <4>1 DEF State
      <4> QED
        BY <1>5, <1>6, <3>1, <4>1, <4>2
    <3>2. CASE v # o
      <4>1. v \in Operand
        BY DEF Operand
      <4>2. s.saved[v] \/ \E q \in Reg : s.ope_in_reg[q] = v /\ s.dirty[q]
        BY <3>2 DEF Allocated, Safe
      <4> QED
        BY <1>2, <1>6, <1>8, <3>2, <4>1, <4>2
    <3> QED
      BY <3>1, <3>2
  <2> QED
    BY <2>1 DEF Safe
<1>11. Steady(u)
  BY <1>6 DEF Allocated, Steady
<1> QED
  BY <1>6, <1>9, <1>10, <1>11 DEF Good, u, r

(* The sources may be read between allocate and the write.                 *)
LEMMA ReadAllocated ==
    ASSUME NEW o \in Operand, NEW s, Allocated(s, o), NEW r, NEW a \in Operand
    PROVE  Allocated(Read(s, r, a), o) /\ RegOf(Read(s, r, a), o) = RegOf(s, o)
<1> DEFINE t == Read(s, r, a)
<1>1. s \in State
  BY DEF Allocated
<1>2. /\ t \in State /\ t.ope_in_reg = s.ope_in_reg /\ t.dirty = s.dirty /\ t.saved = s.saved
      /\ t.next_use = s.next_use /\ t.liveness = s.liveness /\ t.holds = s.holds
  BY <1>1, ReadKeeps
<1> HIDE DEF t
<1>3. RegOf(t, o) = RegOf(s, o)
  BY <1>2 DEF RegOf
<1>4. Steady(t) /\ Coherent(t, o)
  BY <1>2 DEF Allocated, Steady, Coherent
<1>5. Safe(t, o)
  BY <1>2 DEF Allocated, Safe
<1> QED
  BY <1>2, <1>3, <1>4, <1>5 DEF Allocated, t

(***************************************************************************)
(* The handlers keep the allocator good, and those that only use operands  *)
(* leave every saved variable saved.                                       *)
(***************************************************************************)
LEMMA Compute0Good ==
    ASSUME NEW s, Good(s), NEW d \in Operand
    PROVE  Good(Compute0(s, d))
<1>1. Allocated(allocate(s, d), d)
  BY Allocate DEF Allocated
<1> QED
  BY <1>1, DefineGood DEF Compute0

(* gen_asm_assign, gen_asm_addi, gen_asm_load keep the allocator good.     *)
LEMMA Compute1Good ==
    ASSUME NEW s, Good(s), NEW a \in Operand, NEW d \in Operand
    PROVE  Good(Compute1(s, a, d))
<1> DEFINE s1 == ensure(s, a)
           x  == RegOf(s1, a)
           s2 == allocate(s1, d)
<1>1. Good(s1)
  BY EnsureGood
<1>2. Allocated(s2, d)
  BY <1>1, Allocate DEF Allocated
<1>3. Compute1(s, a, d) = Define(Read(s2, x, a), RegOf(s2, d), d)
  BY DEF Compute1
<1> HIDE DEF s2, x
<1> QED
  BY <1>2, <1>3, ReadAllocated, DefineGood

(* gen_asm_mul, gen_asm_div and the last case of gen_asm_add and           *)
(* gen_asm_sub keep the allocator good.                                    *)
LEMMA Compute2Good ==
    ASSUME NEW s, Good(s), NEW a \in Operand, NEW b \in Operand, NEW d \in Operand
    PROVE  Good(Compute2(s, a, b, d))
<1> DEFINE s1 == ensure(s, a)
           x  == RegOf(s1, a)
           s2 == ensure(s1, b)
           y  == RegOf(s2, b)
           s3 == allocate(s2, d)
<1>1. Good(s1)
  BY EnsureGood
<1>2. Good(s2)
  BY <1>1, EnsureGood
<1>3. Allocated(s3, d)
  BY <1>2, Allocate DEF Allocated
<1>4. Compute2(s, a, b, d) = Define(Read(Read(s3, x, a), y, b), RegOf(s3, d), d)
  BY DEF Compute2
<1> HIDE DEF s3, x, y
<1>5. Allocated(Read(s3, x, a), d) /\ RegOf(Read(s3, x, a), d) = RegOf(s3, d)
  BY <1>3, ReadAllocated
<1>6. /\ Allocated(Read(Read(s3, x, a), y, b), d)
      /\ RegOf(Read(Read(s3, x, a), y, b), d) = RegOf(s3, d)
  BY <1>5, ReadAllocated
<1> QED
  BY <1>4, <1>6, DefineGood

(* gen_asm_write, gen_asm_return and the loop of gen_asm_call keep the     *)
(* allocator good and unsave no variable.                                  *)
LEMMA Use1Good ==
    ASSUME NEW s, Good(s), NEW a \in Operand
    PROVE  Good(Use1(s, a)) /\ SavedGrows(s, Use1(s, a))
<1>1. Good(ensure(s, a)) /\ SavedGrows(s, ensure(s, a))
  BY EnsureGood
<1>2. /\ Good(Read(ensure(s, a), RegOf(ensure(s, a), a), a))
      /\ SavedGrows(ensure(s, a), Read(ensure(s, a), RegOf(ensure(s, a), a), a))
  BY <1>1, ReadGood
<1> QED
  BY <1>1, <1>2 DEF Use1, SavedGrows

(* gen_asm_store and gen_asm_br keep the allocator good and unsave no      *)
(* variable, which matters for the branch at the end of a block.           *)
LEMMA Use2Good ==
    ASSUME NEW s, Good(s), NEW a \in Operand, NEW b \in Operand
    PROVE  Good(Use2(s, a, b)) /\ SavedGrows(s, Use2(s, a, b))
<1> DEFINE s1 == ensure(s, a)
           x  == RegOf(s1, a)
           s2 == ensure(s1, b)
           y  == RegOf(s2, b)
           s3 == Read(s2, x, a)
           s4 == Read(s3, y, b)
<1>1. Good(s1) /\ SavedGrows(s, s1)
  BY EnsureGood
<1>2. Good(s2) /\ SavedGrows(s1, s2)
  BY <1>1, EnsureGood
<1> HIDE DEF s1, s2, x, y
<1>3. Good(s3) /\ SavedGrows(s2, s3)
  BY <1>2, ReadGood
<1> HIDE DEF s3
<1>4. Good(s4) /\ SavedGrows(s3, s4)
  BY <1>3, ReadGood
<1>5. Use2(s, a, b) = s4
  BY DEF Use2, s1, s2, s3, x, y
<1> HIDE DEF s4
<1> QED
  BY <1>1, <1>2, <1>3, <1>4, <1>5 DEF SavedGrows

(* push_all saves every variable: one that is not in its slot is in a      *)
(* dirty register, and alive.                                              *)
LEMMA PushAllGood ==
    ASSUME NEW s, Good(s)
    PROVE  Good(push_all(s)) /\ AllSaved(push_all(s))
<1> DEFINE P(o) == {r \in Reg : s.ope_in_reg[r] = o /\ Pushed(s, r)}
           f == [o \in Operand |-> IF P(o) = {} THEN s.saved[o] ELSE \A r \in P(o) : s.holds[r] = o]
           t == push_all(s)
<1>1. s \in State
  BY DEF Good
<1>2. t = [s EXCEPT !.saved = f]
  BY DEF push_all
<1>3. f \in [Operand -> BOOLEAN]
  BY <1>1 DEF State
<1>4. ASSUME NEW v \in Vars
      PROVE  f[v] = TRUE
  <2>1. v \in Operand /\ v # NULL
    BY IRAssumption DEF Operand
  <2>2. \A r \in Reg : s.ope_in_reg[r] = v => s.holds[r] = v
    BY <2>1 DEF Good, Coherent
  <2>3. CASE P(v) = {}
    <3>1. \A r \in Reg : s.ope_in_reg[r] = v => ~s.dirty[r]
      BY <2>1, <2>3 DEF Pushed, Wanted, Good, Steady
    <3>2. s.saved[v]
      BY <3>1, IRAssumption DEF Good, Safe
    <3>3. s.saved[v] = TRUE
      BY <1>1, <2>1, <3>2 DEF State
    <3> QED
      BY <2>1, <2>3, <3>3
  <2>4. CASE P(v) # {}
    BY <2>1, <2>2, <2>4
  <2> QED
    BY <2>3, <2>4
<1> HIDE DEF f
<1>5. t \in State /\ t.ope_in_reg = s.ope_in_reg /\ t.dirty = s.dirty /\ t.saved = f
      /\ t.next_use = s.next_use /\ t.liveness = s.liveness /\ t.holds = s.holds
  BY <1>1, <1>2, <1>3 DEF State
<1> HIDE DEF t
<1>6. AllSaved(t)
  BY <1>4, <1>5 DEF AllSaved
<1>7. Steady(t) /\ Coherent(t, NULL) /\ Safe(t, NULL)
  BY <1>5, <1>6 DEF Good, Steady, Coherent, Safe, AllSaved
<1> QED
  BY <1>5, <1>6, <1>7 DEF Good, t

Clean(s) == \A r \in Reg : s.ope_in_reg[r] = NULL

(* Emptying the registers, in whichever order with running other code, is  *)
(* harmless when every variable is saved.                                  *)
LEMMA ClearGood ==
    ASSUME NEW s, Good(s), AllSaved(s),
           NEW t \in {Clobber(clear_reg_state(s)), clear_reg_state(Clobber(s))}
    PROVE  Good(t) /\ Clean(t) /\ AllSaved(t) /\ t.next_use = s.next_use /\ t.liveness = s.liveness
<1> DEFINE none == [r \in Reg |-> NULL]
           no == [r \in Reg |-> FALSE]
<1>1. s \in State
  BY DEF Good
<1>2. t = [s EXCEPT !.ope_in_reg = none, !.dirty = no, !.holds = none]
  BY <1>1 DEF Clobber, clear_reg_state, State
<1>3. none \in [Reg -> Operand \cup {NULL}] /\ no \in [Reg -> BOOLEAN]
  OBVIOUS
<1>4. \A r \in Reg : none[r] = NULL
  OBVIOUS
<1> HIDE DEF none, no
<1>5. t \in State /\ t.ope_in_reg = none /\ t.saved = s.saved
      /\ t.next_use = s.next_use /\ t.liveness = s.liveness
  BY <1>1, <1>2, <1>3 DEF State
<1>6. Clean(t) /\ AllSaved(t)
  BY <1>4, <1>5 DEF Clean, AllSaved
<1>7. Steady(t) /\ Coherent(t, NULL) /\ Safe(t, NULL)
  BY <1>5, <1>6, IRAssumption DEF Good, Steady, Coherent, Safe, Clean, AllSaved
<1> QED
  BY <1>5, <1>6, <1>7 DEF Good

(* The next-use information of an operand, as optimize_liveness left it.   *)
Sound(o, inf) ==
    /\ inf \in [liveness : BOOLEAN, next_use : NextUse]
    /\ o \in Vars => inf.liveness /\ inf.next_use # NO_USE

(* print_instr's updates keep the allocator good as long as the analysis   *)
(* was sound.                                                              *)
LEMMA UpdateGood ==
    ASSUME NEW s, Good(s), NEW o \in Operand \cup {NULL}, NEW inf, Sound(o, inf)
    PROVE  Good(Update(s, o, inf)) /\ Update(s, o, inf).ope_in_reg = s.ope_in_reg
<1>1. CASE o = NULL
  BY <1>1 DEF Update
<1>2. CASE o # NULL
  <2> DEFINE l == [s.liveness EXCEPT ![o] = inf.liveness]
             n == [s.next_use EXCEPT ![o] = inf.next_use]
             t == Update(s, o, inf)
  <2>1. s \in State /\ o \in Operand
    BY <1>2 DEF Good
  <2>2. t = [s EXCEPT !.liveness = l, !.next_use = n]
    BY <1>2 DEF Update
  <2>3. l \in [Operand -> BOOLEAN] /\ n \in [Operand -> NextUse]
    BY <2>1 DEF State, Sound
  <2>4. \A v \in Vars : l[v] /\ n[v] # NO_USE
    <3> TAKE v \in Vars
    <3>1. v \in Operand /\ s.liveness[v] /\ s.next_use[v] # NO_USE
      BY DEF Good, Steady, Operand
    <3> QED
      BY <2>1, <3>1 DEF State, Sound
  <2> HIDE DEF l, n
  <2>5. t \in State /\ t.ope_in_reg = s.ope_in_reg /\ t.dirty = s.dirty /\ t.saved = s.saved
        /\ t.next_use = n /\ t.liveness = l /\ t.holds = s.holds
    BY <2>1, <2>2, <2>3 DEF State
  <2> HIDE DEF t
  <2>6. Steady(t)
    BY <2>4, <2>5 DEF Steady
  <2>7. Coherent(t, NULL)
    BY <2>5 DEF Good, Coherent
  <2>8. Safe(t, NULL)
    BY <2>5 DEF Good, Safe
  <2> QED
    BY <2>5, <2>6, <2>7, <2>8 DEF Good, t
<1> QED
  BY <1>1, <1>2

(* A step of the analysis changes the information of temporaries only.     *)
LEMMA TmpGood ==
    ASSUME NEW s, Good(s), NEW o, NEW i \in 1 .. MAX_LINE
    PROVE  /\ Good(Define_Tmp(s, o)) /\ Define_Tmp(s, o).ope_in_reg = s.ope_in_reg
           /\ Good(Use_Tmp(s, o, i)) /\ Use_Tmp(s, o, i).ope_in_reg = s.ope_in_reg
<1>1. CASE ~is_tmp(o)
  BY <1>1 DEF Define_Tmp, Use_Tmp
<1>2. CASE is_tmp(o)
  <2> DEFINE dead == [liveness |-> FALSE, next_use |-> NO_USE]
             used == [liveness |-> TRUE, next_use |-> Line(i)]
  <2>1. o \in Operand /\ o # NULL /\ o \notin Vars
    BY <1>2, IRAssumption DEF is_tmp, Operand
  <2>2. Define_Tmp(s, o) = Update(s, o, dead) /\ Use_Tmp(s, o, i) = Update(s, o, used)
    BY <1>2, <2>1 DEF Define_Tmp, Use_Tmp, Update
  <2>3. Line(i) \in NextUse /\ NO_USE \in NextUse
    BY IRAssumption DEF Line, NextUse
  <2>4. Sound(o, dead) /\ Sound(o, used)
    BY <2>1, <2>3 DEF Sound
  <2> HIDE DEF dead, used
  <2> QED
    BY <2>1, <2>2, <2>4, UpdateGood
<1> QED
  BY <1>1, <1>2

(* The end of gen_asm_call: with every variable saved, the registers are   *)
(* emptied and the result gets one.                                        *)
LEMMA ResultGood ==
    ASSUME NEW s, Good(s), AllSaved(s), NEW d \in Vars \cup Temps
    PROVE  Good(Result(s, d))
<1> DEFINE c  == clear_reg_state(Clobber(s))
           s1 == allocate(c, d)
           r  == RegOf(s1, d)
<1>0. d \in Operand
  BY DEF Operand
<1>1. Good(c)
  BY ClearGood
<1>2. Allocated(s1, d)
  BY <1>0, <1>1, Allocate DEF Allocated
<1>3. Result(s, d) = IF Wanted(s, d) THEN Define(s1, r, d)
                     ELSE [Forget(s1, d) EXCEPT !.dirty[r] = TRUE]
  BY DEF Result
<1> HIDE DEF s1
<1>4. CASE Wanted(s, d)
  BY <1>0, <1>2, <1>3, <1>4, DefineGood
<1>5. CASE ~Wanted(s, d)
  <2> DEFINE t == Forget(s1, d)
             b == [t.dirty EXCEPT ![r] = TRUE]
             u == Result(s, d)
  <2>1. d \in Temps
    BY <1>5 DEF Good, Steady, Wanted
  <2>2. /\ t \in State /\ t.ope_in_reg = s1.ope_in_reg /\ t.dirty = s1.dirty
        /\ t.next_use = s1.next_use /\ t.liveness = s1.liveness
        /\ \A q \in Reg : t.holds[q] = IF s1.holds[q] = d THEN NULL ELSE s1.holds[q]
        /\ \A p \in Operand \ {d} : t.saved[p] = s1.saved[p]
    BY <1>0, <1>2, ForgetKeeps DEF Allocated
  <2> HIDE DEF t
  <2>3. u = [t EXCEPT !.dirty = b]
    BY <1>3, <1>5 DEF t
  <2>4. b \in [Reg -> BOOLEAN] /\ \A q \in Reg : s1.dirty[q] => b[q]
    BY <2>2 DEF State
  <2> HIDE DEF b, r
  <2>5. u \in State /\ u.ope_in_reg = s1.ope_in_reg /\ u.dirty = b /\ u.saved = t.saved
        /\ u.next_use = s1.next_use /\ u.liveness = s1.liveness /\ u.holds = t.holds
    BY <2>2, <2>3, <2>4 DEF State
  <2> HIDE DEF u
  <2>6. Steady(u)
    BY <1>2, <2>5 DEF Allocated, Steady
  <2>7. Coherent(u, NULL)
    <3>1. ASSUME NEW q \in Reg, s1.ope_in_reg[q] \in Vars \cup Consts
          PROVE  u.holds[q] = s1.ope_in_reg[q]
      <4>1. s1.ope_in_reg[q] # d /\ s1.ope_in_reg[q] # NULL
        BY <2>1, <3>1, IRAssumption
      <4>2. s1.holds[q] = s1.ope_in_reg[q]
        BY <1>2, <3>1, <4>1 DEF Allocated, Coherent
      <4> QED
        BY <2>2, <2>5, <4>1, <4>2
    <3> QED
      BY <1>2, <2>5, <3>1 DEF Allocated, Coherent
  <2>8. Safe(u, NULL)
    <3>1. ASSUME NEW v \in Vars
          PROVE  u.saved[v] \/ \E q \in Reg : u.ope_in_reg[q] = v /\ u.dirty[q]
      <4>1. v \in Operand \ {d}
        BY <2>1, IRAssumption DEF Operand
      <4>2. s1.saved[v] \/ \E q \in Reg : s1.ope_in_reg[q] = v /\ s1.dirty[q]
        BY <1>2, <4>1 DEF Allocated, Safe
      <4> QED
        BY <2>2, <2>4, <2>5, <4>1, <4>2
    <3> QED
      BY <3>1 DEF Safe
  <2> QED
    BY <2>5, <2>6, <2>7, <2>8 DEF Good, u
<1> QED
  BY <1>4, <1>5

(* A block that returns hands on to blocks whose predecessors saved the    *)
(* variables.                                                              *)
LEMMA LeaveGood ==
    ASSUME NEW s, Good(s), Curr.type = "RET"
    PROVE  Good(Leave(s)) /\ AllSaved(Leave(s))
<1> DEFINE f == [o \in Operand |-> o \in Vars \/ s.saved[o]]
           t == Leave(s)
<1>1. s \in State
  BY DEF Good
<1>2. t = [s EXCEPT !.saved = f]
  BY DEF Leave
<1>3. f \in [Operand -> BOOLEAN] /\ \A v \in Vars : f[v]
  BY DEF Operand
<1> HIDE DEF f
<1>4. t \in State /\ t.ope_in_reg = s.ope_in_reg /\ t.dirty = s.dirty /\ t.saved = f
      /\ t.next_use = s.next_use /\ t.liveness = s.liveness /\ t.holds = s.holds
  BY <1>1, <1>2, <1>3 DEF State
<1> HIDE DEF t
<1>5. AllSaved(t) /\ Steady(t)
  BY <1>3, <1>4 DEF AllSaved, Good, Steady
<1>6. Coherent(t, NULL) /\ Safe(t, NULL)
  BY <1>4, <1>5 DEF Good, Coherent, Safe, AllSaved
<1> QED
  BY <1>4, <1>5, <1>6 DEF Good, t

(***************************************************************************)
(* The inductive invariant: the allocator is good, the information of the  *)
(* instructions analysed so far is sound, and the registers are unbound    *)
(* wherever a block begins.                                                *)
(***************************************************************************)
Analysed(i) ==
    \/ phase \in {"gen", "args", "done"}
    \/ phase = "init" /\ i < start
    \/ phase = "iterate" /\ (i < start \/ (cur < i /\ i < end))

InfoSound ==
    \A i \in 1 .. nr_instr : Analysed(i) =>
        /\ Sound(instr_buffer[i].rd, info[i].rd)
        /\ Sound(instr_buffer[i].rs, info[i].rs)
        /\ Sound(instr_buffer[i].rt, info[i].rt)

Control ==
    /\ phase = "translate" => start = 1 /\ cur = 1
    /\ phase \in {"init", "iterate"} => start \in 1 .. nr_instr
    /\ phase = "iterate" => cur \in start .. end - 1 /\ end \in start + 1 .. nr_instr + 1
    /\ phase \in {"gen", "args"} => cur \in 1 .. nr_instr
    /\ phase = "args" => arg \in 1 .. cur /\ Curr.type = "CALL" /\ AllSaved(cg)

Unbound ==
    \/ phase \notin {"gen", "args"}
    \/ phase = "gen" /\ is_leader(instr_buffer, cur)
    => Clean(cg)

IInv == TypeOK /\ Good(cg) /\ InfoSound /\ Control /\ Unbound

(* Which operands an instruction of each type has.                         *)
LEMMA Shapes ==
    ASSUME NEW ir \in Emitted
    PROVE  /\ ir.rd \in Operand \cup {NULL}
           /\ ir.rs \in Operand \cup {NULL}
           /\ ir.rt \in Operand \cup {NULL}
           /\ ir.type \in {"ASSIGN", "DEREF_R"} => ir.rd \in Operand /\ ir.rs \in Operand
           /\ ir.type \in {"ADD", "SUB", "MUL"} =>
                  ir.rd \in Operand /\ ir.rs \in Operand /\ ir.rt \in Operand
           /\ ir.type \in {"ADDR", "READ"} => ir.rd \in Operand
           /\ ir.type \in {"DEREF_L", "BR"} => ir.rs \in Operand /\ ir.rt \in Operand
           /\ ir.type \in {"WRITE", "RET", "ARG"} => ir.rs \in Operand
           /\ ir.type = "CALL" => ir.rd \in Vars \cup Temps
BY DEF Emitted, Of, Operand, NoCode

(* What print_instr does after a handler keeps the allocator good, and     *)
(* empties it after the last instruction of a block.                       *)
LEMMA AfterGood ==
    ASSUME IInv, phase \in {"gen", "args"}, NEW s, Good(s),
           Last /\ can_jump(Curr) => AllSaved(s)
    PROVE  Good(After(s)) /\ (Last => Clean(After(s)))
<1>1. cur \in 1 .. nr_instr /\ Curr \in Emitted
  BY DEF IInv, TypeOK, Control, Curr, nr_instr
<1>2. CASE ~Last
  <2>1. Sound(Curr.rs, info[cur].rs) /\ Sound(Curr.rt, info[cur].rt)
    BY <1>1 DEF IInv, InfoSound, Analysed, Curr
  <2>2. Good(Update(s, Curr.rs, info[cur].rs))
    BY <1>1, <2>1, Shapes, UpdateGood
  <2>3. Good(Update(Update(s, Curr.rs, info[cur].rs), Curr.rt, info[cur].rt))
    BY <1>1, <2>1, <2>2, Shapes, UpdateGood
  <2> QED
    BY <1>2, <2>3 DEF After
<1>3. CASE Last
  <2> DEFINE p == IF can_jump(Curr) \/ Curr.type = "RET" THEN s ELSE push_all(s)
  <2>1. Good(p) /\ (Curr.type # "RET" => AllSaved(p))
    BY <1>3, PushAllGood
  <2> HIDE DEF p
  <2>2. Good(Leave(p)) /\ AllSaved(Leave(p))
    BY <2>1, LeaveGood DEF Leave
  <2>3. After(s) = Clobber(clear_reg_state(Leave(p)))
    BY <1>3 DEF After, p
  <2> QED
    BY <2>2, <2>3, ClearGood
<1> QED
  BY <1>2, <1>3

(* A handler that leaves the allocator good preserves the invariant, with  *)
(* all that print_instr does after it.                                     *)
LEMMA EmitStep ==
    ASSUME IInv, phase \in {"gen", "args"}, NEW s, Good(s),
           Last /\ can_jump(Curr) => AllSaved(s),
           Emit(s), nr_arg' \in Nat, arg' \in Nat, todo' \in Nat
    PROVE  IInv'
<1>1. Good(After(s)) /\ (Last => Clean(After(s)))
  BY AfterGood
<1>2. /\ cg' = After(s)
      /\ instr_buffer' = instr_buffer /\ info' = info /\ start' = start /\ end' = end
      /\ cur < nr_instr => cur' = cur + 1 /\ phase' = "gen"
      /\ ~(cur < nr_instr) => cur' = cur /\ phase' = "done"
  BY DEF Emit, Advance
<1>3. cur \in 1 .. nr_instr /\ nr_instr \in Nat
  BY DEF IInv, TypeOK, Control, nr_instr
<1>4. TypeOK'
  BY <1>1, <1>2, <1>3 DEF IInv, TypeOK, nr_instr, Phase, Good
<1>5. Good(cg)'
  BY <1>1, <1>2
<1>6. InfoSound'
  BY <1>2 DEF IInv, InfoSound, Analysed, nr_instr
<1>7. Control'
  BY <1>2, <1>3 DEF IInv, Control, nr_instr
<1>8. Unbound'
  <2>1. CASE cur < nr_instr /\ is_leader(instr_buffer, cur + 1)
    BY <1>1, <1>2, <2>1 DEF Last, IsLast, Unbound, Clean
  <2>2. CASE cur < nr_instr /\ ~is_leader(instr_buffer, cur + 1)
    BY <1>2, <2>2 DEF Unbound
  <2>3. CASE cur = nr_instr
    BY <1>1, <1>2, <2>3 DEF Last, IsLast, Unbound, Clean, nr_instr
  <2> QED
    BY <1>3, <2>1, <2>2, <2>3
<1> QED
  BY <1>4, <1>5, <1>6, <1>7, <1>8 DEF IInv

(* What print_instr does before a handler keeps the allocator good; before *)
(* a jump every variable is saved.                                         *)
LEMMA BeforeGood ==
    ASSUME IInv, phase = "gen"
    PROVE  Good(Before(cg)) /\ (Last /\ can_jump(Curr) => AllSaved(Before(cg)))
<1>1. cur \in 1 .. nr_instr /\ Curr \in Emitted /\ Good(cg)
  BY DEF IInv, TypeOK, Control, Curr, nr_instr
<1>2. CASE ~Last
  <2>1. Sound(Curr.rd, info[cur].rd)
    BY <1>1 DEF IInv, InfoSound, Analysed, Curr
  <2> QED
    BY <1>1, <1>2, <2>1, Shapes, UpdateGood DEF Before
<1>3. CASE Last
  BY <1>1, <1>3, PushAllGood DEF Before
<1> QED
  BY <1>2, <1>3

(* Every handler but gen_asm_call preserves the invariant.                 *)
LEMMA GenStep ==
    ASSUME IInv,
           \/ GenNoCode \/ GenAssign \/ GenAdd \/ GenSub \/ GenMul \/ GenAddr
           \/ GenStore \/ GenBranch \/ GenWrite \/ GenArg
    PROVE  IInv'
<1> DEFINE b == Before(cg)
           Jumps(s) == Last /\ can_jump(Curr) => AllSaved(s)
<1>1. phase = "gen"
  BY DEF GenNoCode, GenAssign, GenAdd, GenSub, GenMul, GenAddr, GenStore, GenBranch, GenWrite,
         GenArg, Gen
<1>2. Curr \in Emitted /\ nr_arg \in Nat /\ arg \in Nat /\ todo \in Nat
  BY <1>1 DEF IInv, TypeOK, Control, Curr, nr_instr
<1>3. Good(b) /\ Jumps(b)
  BY <1>1, BeforeGood
<1> HIDE DEF b
<1>4. CASE GenNoCode
  BY <1>1, <1>2, <1>3, <1>4, EmitStep DEF GenNoCode, NoCall, b
<1>5. CASE GenAssign
  <2>1. Good(Compute1(b, Curr.rs, Curr.rd)) /\ ~can_jump(Curr)
    BY <1>2, <1>3, <1>5, Shapes, Compute1Good DEF GenAssign, Gen, can_jump
  <2> QED
    BY <1>1, <1>2, <1>5, <2>1, EmitStep DEF GenAssign, NoCall, b
<1>6. CASE GenAdd
  <2>1. Good(gen_asm_add(b, Curr)) /\ ~can_jump(Curr)
    BY <1>2, <1>3, <1>6, Shapes, Compute1Good, Compute2Good DEF GenAdd, Gen, can_jump, gen_asm_add
  <2> QED
    BY <1>1, <1>2, <1>6, <2>1, EmitStep DEF GenAdd, NoCall, b
<1>7. CASE GenSub
  <2>1. Good(gen_asm_sub(b, Curr)) /\ ~can_jump(Curr)
    BY <1>2, <1>3, <1>7, Shapes, Compute1Good, Compute2Good DEF GenSub, Gen, can_jump, gen_asm_sub
  <2> QED
    BY <1>1, <1>2, <1>7, <2>1, EmitStep DEF GenSub, NoCall, b
<1>8. CASE GenMul
  <2>1. Good(Compute2(b, Curr.rs, Curr.rt, Curr.rd)) /\ ~can_jump(Curr)
    BY <1>2, <1>3, <1>8, Shapes, Compute2Good DEF GenMul, Gen, can_jump
  <2> QED
    BY <1>1, <1>2, <1>8, <2>1, EmitStep DEF GenMul, NoCall, b
<1>9. CASE GenAddr
  <2>1. Good(Compute0(b, Curr.rd)) /\ ~can_jump(Curr)
    BY <1>2, <1>3, <1>9, Shapes, Compute0Good DEF GenAddr, Gen, can_jump
  <2> QED
    BY <1>1, <1>2, <1>9, <2>1, EmitStep DEF GenAddr, NoCall, b
<1>10. CASE GenStore
  <2>1. Good(Use2(b, Curr.rt, Curr.rs)) /\ ~can_jump(Curr)
    BY <1>2, <1>3, <1>10, Shapes, Use2Good DEF GenStore, Gen, can_jump
  <2> QED
    BY <1>1, <1>2, <1>10, <2>1, EmitStep DEF GenStore, NoCall, b
<1>11. CASE GenBranch
  <2>1. Good(Use2(b, Curr.rs, Curr.rt)) /\ SavedGrows(b, Use2(b, Curr.rs, Curr.rt))
    BY <1>2, <1>3, <1>11, Shapes, Use2Good DEF GenBranch, Gen
  <2>2. Jumps(Use2(b, Curr.rs, Curr.rt))
    BY <1>3, <2>1 DEF SavedGrows, AllSaved
  <2> QED
    BY <1>1, <1>2, <1>11, <2>1, <2>2, EmitStep DEF GenBranch, NoCall, b
<1>12. CASE GenWrite
  <2>1. Good(Use1(b, Curr.rs)) /\ ~can_jump(Curr)
    BY <1>2, <1>3, <1>12, Shapes, Use1Good DEF GenWrite, Gen, can_jump
  <2> QED
    BY <1>1, <1>2, <1>12, <2>1, EmitStep DEF GenWrite, NoCall, b
<1>13. CASE GenArg
  BY <1>1, <1>2, <1>3, <1>13, EmitStep DEF GenArg, b
<1> QED
  BY <1>4, <1>5, <1>6, <1>7, <1>8, <1>9, <1>10, <1>11, <1>12, <1>13

(* gen_asm_call preserves the invariant at each turn of its loop.          *)
LEMMA CallStep ==
    ASSUME IInv, GenCall \/ StoreArg \/ Call
    PROVE  IInv'
<1>1. phase \in {"gen", "args"} /\ Curr.type = "CALL"
  BY DEF GenCall, StoreArg, Call, Gen, IInv, Control
<1>2. Curr \in Emitted /\ Curr.rd \in Vars \cup Temps
  <2>1. cur \in 1 .. nr_instr
    BY <1>1 DEF IInv, Control
  <2>2. Curr \in Emitted
    BY <2>1 DEF IInv, TypeOK, Curr, nr_instr
  <2> QED
    BY <1>1, <2>2, Shapes
<1>3. CASE GenCall
  <2>1. Good(push_all(Before(cg))) /\ AllSaved(push_all(Before(cg)))
    BY <1>3, BeforeGood, PushAllGood DEF GenCall, Gen
  <2>2. Good(cg') /\ AllSaved(cg')
    BY <1>3, <2>1 DEF GenCall
  <2>3. TypeOK'
    BY <1>3, <2>2 DEF GenCall, IInv, TypeOK, Phase, nr_instr, Good
  <2>4. InfoSound'
    BY <1>3 DEF GenCall, Gen, IInv, InfoSound, Analysed, nr_instr
  <2>5. Control'
    BY <1>1, <1>3, <2>2 DEF GenCall, Gen, IInv, Control, nr_instr, Curr, AllSaved
  <2>6. Unbound'
    BY <1>3 DEF GenCall, Unbound
  <2> QED
    BY <2>2, <2>3, <2>4, <2>5, <2>6 DEF IInv
<1>4. CASE StoreArg
  <2>1. PICK a \in 1 .. arg - 1 :
             instr_buffer[a].type = "ARG" /\ cg' = Use1(cg, instr_buffer[a].rs) /\ arg' = a
    BY <1>4 DEF StoreArg
  <2>2. a \in 1 .. nr_instr
    BY <1>4 DEF StoreArg, IInv, Control, TypeOK
  <2>3. instr_buffer[a].rs \in Operand
    BY <2>1, <2>2, Shapes DEF IInv, TypeOK, nr_instr
  <2>4. Good(cg') /\ AllSaved(cg')
    BY <1>4, <2>1, <2>3, Use1Good DEF StoreArg, IInv, Control, SavedGrows, AllSaved
  <2>5. TypeOK'
    BY <1>4, <2>1, <2>4 DEF StoreArg, IInv, TypeOK, Phase, nr_instr, Good
  <2>6. InfoSound'
    BY <1>4 DEF StoreArg, IInv, InfoSound, Analysed, nr_instr
  <2>7. Control'
    <3>1. /\ phase = "args" /\ phase' = "args" /\ cur' = cur
          /\ nr_instr' = nr_instr /\ Curr' = Curr
      BY <1>4 DEF StoreArg, nr_instr, Curr
    <3>2. cur \in 1 .. nr_instr /\ arg \in 1 .. cur
      BY <3>1 DEF IInv, Control
    <3>3. arg' \in 1 .. cur
      BY <2>1, <3>2
    <3>4. AllSaved(cg)'
      BY <2>4 DEF AllSaved
    <3> QED
      BY <1>1, <3>1, <3>2, <3>3, <3>4 DEF Control
  <2>8. Unbound'
    BY <1>4 DEF StoreArg, Unbound
  <2> QED
    BY <2>4, <2>5, <2>6, <2>7, <2>8 DEF IInv
<1>5. CASE Call
  <2>1. Good(Result(cg, Curr.rd)) /\ ~can_jump(Curr)
    BY <1>1, <1>2, <1>5, ResultGood DEF Call, IInv, Control, can_jump
  <2> QED
    BY <1>1, <1>5, <2>1, EmitStep DEF Call, IInv, TypeOK
<1> QED
  BY <1>3, <1>4, <1>5

(* So does translation, which does not touch the allocator.                *)
LEMMA TranslateStep ==
    ASSUME IInv,
           (\E ir \in Emitted : new_instr(ir)) \/ Overflow \/ EndTranslate
    PROVE  IInv'
<1>1. phase = "translate" /\ cg' = cg /\ start' = start /\ cur' = cur
      /\ phase' \in {"translate", "init", "aborted"}
  BY DEF new_instr, Overflow, EndTranslate
<1>2. Good(cg)' /\ Clean(cg)'
  BY <1>1 DEF IInv, Unbound, Good, Steady, Coherent, Safe, Clean
<1>3. TypeOK'
  <2>1. CASE \E ir \in Emitted : new_instr(ir)
    <3>1. PICK ir \in Emitted : new_instr(ir)
      BY <2>1
    <3>2. NoInfo \in Info
      BY IRAssumption DEF NoInfo, Info, Zero, OptimizeInfo, NextUse
    <3>3. instr_buffer' \in Seq(Emitted) /\ Len(instr_buffer') = Len(instr_buffer) + 1
      BY <3>1 DEF new_instr, IInv, TypeOK
    <3>4. info' \in Seq(Info) /\ Len(info') = Len(info) + 1
      BY <3>1, <3>2 DEF new_instr, IInv, TypeOK
    <3>5. Len(instr_buffer) + 1 <= MAX_LINE
      BY <3>1, IRAssumption DEF new_instr, IInv, TypeOK, nr_instr
    <3> QED
      BY <3>1, <3>3, <3>4, <3>5 DEF new_instr, IInv, TypeOK, nr_instr
  <2>2. CASE Overflow \/ EndTranslate
    BY <2>2 DEF Overflow, EndTranslate, IInv, TypeOK, nr_instr, Phase
  <2> QED
    BY <2>1, <2>2
<1>4. start = 1 /\ cur = 1
  BY <1>1 DEF IInv, Control
<1>5. InfoSound'
  BY <1>1, <1>4 DEF InfoSound, Analysed
<1>6. Control'
  <2>1. CASE phase' = "init"
    <3>1. instr_buffer' = instr_buffer /\ instr_buffer # <<>>
      BY <1>1, <2>1 DEF new_instr, Overflow, EndTranslate
    <3>2. nr_instr' \in Nat \ {0}
      BY <3>1 DEF IInv, TypeOK, nr_instr
    <3> QED
      BY <1>1, <1>4, <2>1, <3>2 DEF Control
  <2>2. CASE phase' # "init"
    BY <1>1, <1>4, <2>2 DEF Control
  <2> QED
    BY <2>1, <2>2
<1> QED
  BY <1>2, <1>3, <1>5, <1>6 DEF IInv, Unbound

(* The first loop of optimize_liveness preserves the invariant: it makes   *)
(* variables alive.                                                        *)
LEMMA LivenessInitStep ==
    ASSUME IInv, LivenessInit
    PROVE  IInv'
<1>1. PICK e \in start + 1 .. nr_instr + 1 :
           /\ end' = e /\ cur' = e - 1
           /\ LET M == Mentioned(start, e - 1)
              IN  cg' = [cg EXCEPT
                    !.liveness = [o \in Operand |-> IF o \in M THEN o \in Vars ELSE cg.liveness[o]],
                    !.next_use = [o \in Operand |-> IF o \in M THEN MAX_LINE ELSE cg.next_use[o]]]
  BY DEF LivenessInit
<1>2. start \in 1 .. nr_instr /\ nr_instr \in Nat /\ phase = "init" /\ phase' = "iterate"
      /\ instr_buffer' = instr_buffer /\ info' = info /\ start' = start
      /\ nr_arg' = nr_arg /\ arg' = arg /\ todo' = todo
  BY DEF LivenessInit, IInv, TypeOK, Control, nr_instr
<1>3. Good(cg') /\ Clean(cg')
  <2> DEFINE M == Mentioned(start, e - 1)
             l == [o \in Operand |-> IF o \in M THEN o \in Vars ELSE cg.liveness[o]]
             n == [o \in Operand |-> IF o \in M THEN MAX_LINE ELSE cg.next_use[o]]
  <2>1. cg \in State /\ Clean(cg)
    BY <1>2 DEF IInv, TypeOK, Unbound
  <2>2. cg' = [cg EXCEPT !.liveness = l, !.next_use = n]
    BY <1>1
  <2>3. MAX_LINE \in NextUse /\ MAX_LINE # NO_USE
    BY IRAssumption DEF NextUse, NO_USE
  <2> HIDE DEF M
  <2>4. l \in [Operand -> BOOLEAN] /\ n \in [Operand -> NextUse]
    <3>1. cg.liveness \in [Operand -> BOOLEAN] /\ cg.next_use \in [Operand -> NextUse]
      BY <2>1 DEF State
    <3>2. ASSUME NEW o \in Operand
          PROVE  (IF o \in M THEN o \in Vars ELSE cg.liveness[o]) \in BOOLEAN
      <4>1. CASE o \in M
        BY <4>1
      <4>2. CASE o \notin M
        BY <3>1, <4>2
      <4> QED
        BY <4>1, <4>2
    <3>3. l \in [Operand -> BOOLEAN]
      BY <3>2, Zenon
    <3>4. n \in [Operand -> NextUse]
      BY <2>3, <3>1
    <3> QED
      BY <3>3, <3>4
  <2>5. \A v \in Vars : l[v] /\ n[v] # NO_USE
    <3> TAKE v \in Vars
    <3>1. v \in Operand /\ cg.liveness[v] /\ cg.next_use[v] # NO_USE
      BY DEF IInv, Good, Steady, Operand
    <3> QED
      BY <2>3, <3>1
  <2> HIDE DEF l, n
  <2>6. cg' \in State /\ cg'.ope_in_reg = cg.ope_in_reg /\ cg'.dirty = cg.dirty
        /\ cg'.saved = cg.saved /\ cg'.holds = cg.holds
        /\ cg'.liveness = l /\ cg'.next_use = n
    BY <2>1, <2>2, <2>4 DEF State
  <2>7. Steady(cg')
    BY <2>5, <2>6 DEF Steady
  <2>8. Coherent(cg', NULL) /\ Clean(cg')
    BY <2>1, <2>6 DEF IInv, Good, Coherent, Clean
  <2>9. Safe(cg', NULL)
    BY <2>6 DEF IInv, Good, Safe
  <2> QED
    BY <2>6, <2>7, <2>8, <2>9 DEF Good
<1>4. TypeOK'
  BY <1>1, <1>2, <1>3 DEF IInv, TypeOK, Good, Phase, nr_instr
<1>5. InfoSound'
  BY <1>1, <1>2 DEF IInv, InfoSound, Analysed, nr_instr
<1>6. Control'
  BY <1>1, <1>2 DEF Control, nr_instr
<1> QED
  BY <1>3, <1>4, <1>5, <1>6 DEF IInv, Unbound

(* What optimize_liveness records of a good state is sound.                *)
LEMMA StatusSound ==
    ASSUME NEW s, Good(s), NEW o \in Operand \cup {NULL}
    PROVE  Sound(o, Status(s, o))
<1>1. CASE o = NULL
  BY <1>1, IRAssumption DEF Sound, Status, Zero, NextUse
<1>2. CASE o # NULL
  BY <1>2 DEF Sound, Status, Good, State, Steady
<1> QED
  BY <1>1, <1>2

(* The second loop of optimize_liveness preserves the invariant.           *)
LEMMA LivenessIterateStep ==
    ASSUME IInv, LivenessIterate
    PROVE  IInv'
<1> DEFINE now == [rd |-> Status(cg, Curr.rd), rs |-> Status(cg, Curr.rs), rt |-> Status(cg, Curr.rt)]
<1>1. /\ phase = "iterate" /\ start \in 1 .. nr_instr /\ nr_instr \in Nat
      /\ cur \in start .. end - 1 /\ end \in start + 1 .. nr_instr + 1
      /\ cur \in 1 .. nr_instr
  BY DEF LivenessIterate, IInv, TypeOK, Control, nr_instr
<1>2. /\ info' = [info EXCEPT ![cur] = now]
      /\ instr_buffer' = instr_buffer /\ end' = end
      /\ nr_arg' = nr_arg /\ arg' = arg /\ todo' = todo
  BY DEF LivenessIterate, NextIteration
<1>3. \/ cur > start /\ cur' = cur - 1 /\ phase' = phase /\ start' = start
      \/ cur = start /\ end <= nr_instr /\ phase' = "init" /\ start' = end /\ cur' = end
      \/ cur = start /\ end = nr_instr + 1 /\ phase' = "gen" /\ start' = 1 /\ cur' = 1
  BY <1>1 DEF LivenessIterate, NextIteration
<1>4. Curr \in Emitted /\ cur \in 1 .. MAX_LINE
  BY <1>1, IRAssumption DEF IInv, TypeOK, nr_instr, Curr
<1>5. /\ Sound(Curr.rd, Status(cg, Curr.rd)) /\ Sound(Curr.rs, Status(cg, Curr.rs))
      /\ Sound(Curr.rt, Status(cg, Curr.rt))
  BY <1>4, Shapes, StatusSound DEF IInv
<1>6. now \in Info
  BY <1>5 DEF Info, OptimizeInfo, Sound
<1>7. Good(cg') /\ Clean(cg')
  <2> DEFINE s1 == Define_Tmp(cg, Curr.rd)
             s2 == Use_Tmp(s1, Curr.rs, cur)
  <2>1. Good(s1) /\ s1.ope_in_reg = cg.ope_in_reg
    BY <1>4, TmpGood DEF IInv
  <2>2. Good(s2) /\ s2.ope_in_reg = cg.ope_in_reg
    BY <1>4, <2>1, TmpGood
  <2>3. cg' = Use_Tmp(s2, Curr.rt, cur)
    BY DEF LivenessIterate, NextIteration
  <2> HIDE DEF s2
  <2>4. Good(cg') /\ cg'.ope_in_reg = cg.ope_in_reg
    BY <1>4, <2>2, <2>3, TmpGood
  <2> QED
    BY <1>1, <2>4 DEF IInv, Unbound, Clean
<1>8. info' \in Seq(Info) /\ Len(info') = Len(info) /\ Len(info) = nr_instr
      /\ \A i \in 1 .. nr_instr : info'[i] = IF i = cur THEN now ELSE info[i]
  <2>1. info \in Seq(Info) /\ Len(info) = nr_instr
    BY DEF IInv, TypeOK
  <2> HIDE DEF now
  <2> QED
    BY <1>1, <1>2, <1>6, <2>1
<1>9. TypeOK'
  <2>1. phase' \in Phase /\ cur' \in Nat /\ start' \in Nat
    BY <1>1, <1>3 DEF Phase
  <2>2. instr_buffer' \in Seq(Emitted) /\ nr_instr' = nr_instr /\ nr_instr <= MAX_LINE
    BY <1>2 DEF IInv, TypeOK, nr_instr
  <2>3. end' \in Nat /\ nr_arg' \in Nat /\ arg' \in Nat /\ todo' \in Nat
    BY <1>2 DEF IInv, TypeOK
  <2>4. cg' \in State
    BY <1>7 DEF Good
  <2>5. info' \in Seq(Info) /\ Len(info') = nr_instr'
    BY <1>8, <2>2
  <2> QED
    BY <2>1, <2>2, <2>3, <2>4, <2>5 DEF TypeOK
<1>10. InfoSound'
  <2>1. ASSUME NEW i \in 1 .. nr_instr, Analysed(i)', i # cur
        PROVE  Analysed(i)
    BY <1>1, <1>2, <1>3, <2>1 DEF Analysed
  <2> HIDE DEF now
  <2>2. ASSUME NEW i \in 1 .. nr_instr, Analysed(i)'
        PROVE  /\ Sound(instr_buffer[i].rd, info'[i].rd)
               /\ Sound(instr_buffer[i].rs, info'[i].rs)
               /\ Sound(instr_buffer[i].rt, info'[i].rt)
    <3>1. CASE i = cur
      BY <1>5, <1>8, <3>1 DEF Curr, now
    <3>2. CASE i # cur
      BY <1>8, <2>1, <2>2, <3>2 DEF IInv, InfoSound
    <3> QED
      BY <3>1, <3>2
  <2> QED
    BY <1>2, <2>2 DEF InfoSound, nr_instr
<1>11. Control'
  BY <1>1, <1>2, <1>3 DEF Control, nr_instr
<1> QED
  BY <1>7, <1>9, <1>10, <1>11 DEF IInv, Unbound

(* The invariant holds before anything is translated.                      *)
LEMMA Initially == Init => IInv
<1> SUFFICES ASSUME Init PROVE IInv
  OBVIOUS
<1>1. cg \in State
  <2>1. 0 \in NextUse
    BY IRAssumption DEF NextUse
  <2>2. /\ [r \in Reg |-> NULL] \in [Reg -> Operand \cup {NULL}]
        /\ [r \in Reg |-> FALSE] \in [Reg -> BOOLEAN]
    OBVIOUS
  <2>3. [o \in Operand |-> 0] \in [Operand -> NextUse]
    BY <2>1
  <2>4. [o \in Operand |-> o \in Vars] \in [Operand -> BOOLEAN]
    OBVIOUS
  <2> QED
    BY <2>2, <2>3, <2>4, Zenon DEF Init, State
<1>2. Clean(cg)
  BY DEF Init, Clean
<1>3. AllSaved(cg) /\ Steady(cg)
  <2>1. /\ cg.saved = [o \in Operand |-> o \in Vars]
        /\ cg.liveness = [o \in Operand |-> o \in Vars]
        /\ cg.next_use = [o \in Operand |-> 0]
    BY DEF Init
  <2> SUFFICES ASSUME NEW v \in Vars
               PROVE  cg.saved[v] /\ cg.liveness[v] /\ cg.next_use[v] # NO_USE
    BY DEF AllSaved, Steady
  <2>2. v \in Operand
    BY DEF Operand
  <2>3. cg.saved[v] /\ cg.liveness[v] /\ cg.next_use[v] = 0
    BY <2>1, <2>2, Zenon
  <2> QED
    BY <2>3 DEF NO_USE
<1>4. Good(cg)
  BY <1>1, <1>2, <1>3 DEF Good, Coherent, Safe, Clean, AllSaved
<1>5. TypeOK
  BY <1>1, IRAssumption DEF Init, TypeOK, Phase, nr_instr
<1> QED
  BY <1>2, <1>4, <1>5 DEF IInv, InfoSound, Control, Unbound, Init, Analysed

(* Every step preserves the invariant.                                     *)
LEMMA Inductive == IInv /\ [Next]_vars => IInv'
<1> SUFFICES ASSUME IInv, [Next]_vars PROVE IInv'
  OBVIOUS
<1>1. CASE UNCHANGED vars
  BY <1>1 DEF vars, IInv, TypeOK, nr_instr, Good, Steady, Coherent, Safe, InfoSound, Analysed,
              Control, Curr, AllSaved, Unbound, Clean
<1>2. CASE Next
  <2>1. CASE \E ir \in Emitted : ir.type \in Kinds /\ new_instr(ir)
    BY <2>1, TranslateStep
  <2>2. CASE Done
    BY <1>1, <2>2 DEF Done
  <2> QED
    BY <1>2, <2>1, <2>2, TranslateStep, LivenessInitStep, LivenessIterateStep, GenStep, CallStep
       DEF Next
<1> QED
  BY <1>1, <1>2

(* The inductive invariant of code generation: the allocator is good, the  *)
(* recorded liveness sound, the passes in order, and between blocks no     *)
(* register is bound.  It holds for every number of registers and operands *)
(* and every function that translation can emit.                           *)
THEOREM Invariance == Spec => []IInv
BY Initially, Inductive, PTL DEF Spec

(* The compiler's tables and the information they exchange stay within     *)
(* their types, for every function translation can emit.                   *)
THEOREM TypeCorrect == Spec => []TypeOK
<1>1. IInv => TypeOK
  BY DEF IInv
<1> QED
  BY <1>1, Invariance, PTL

(* print_instr: whatever the function, the number of registers and the     *)
(* path, every variable is in its stack slot when a basic block begins.    *)
THEOREM BlockEntry == Spec => []VarsSavedAtBlockEntry
<1>1. IInv => VarsSavedAtBlockEntry
  BY IRAssumption DEF IInv, Unbound, Good, Safe, Clean, VarsSavedAtBlockEntry
<1> QED
  BY <1>1, Invariance, PTL

(* register.c: ope_in_reg never lies about a variable or a constant, keeps *)
(* every operand in its group and binds it once.                           *)
THEOREM Coherence == Spec => []RegistersCoherent
<1>1. IInv => RegistersCoherent
  BY IRAssumption DEF IInv, Good, Coherent, RegistersCoherent
<1> QED
  BY <1>1, Invariance, PTL
=============================================================================
