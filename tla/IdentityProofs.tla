--------------------------- MODULE IdentityProofs ---------------------------
(***************************************************************************)
(* One identity, for any number of programs killed anywhere.  The argument *)
(* is about who may be on the way to the file: as long as no two have      *)
(* found it missing at the same time, whoever is about to create it is     *)
(* alone and there is none, whoever fills it is alone and it is empty, and *)
(* nobody goes by a key that is not in it.                                 *)
(***************************************************************************)
EXTENDS Identity, TLAPS

\* Who is about to create the file is alone, and there is none.
CreatesAlone ==
    \A p \in Programs : at[p] = "create" =>
        /\ ~exists
        /\ \A q \in Programs \ {p} : at[q] # "create"

\* Who fills the file is alone, and it is empty.
FillsAlone ==
    \A p \in Programs : at[p] = "fill" =>
        /\ exists /\ stored = NoKey
        /\ \A q \in Programs \ {p} : at[q] # "fill"

\* What is in use is what is stored.
InUseIsStored ==
    /\ stored # NoKey => exists
    /\ \A p \in Programs : /\ at[p] = "chmod" => stored = p
                           /\ identity[p] \in {NoKey, stored}
    /\ known \subseteq {stored}

IndInv == TypeOK /\ (~raced => CreatesAlone /\ FillsAlone /\ InUseIsStored)
-----------------------------------------------------------------------------
LEMMA InitInv == Init => IndInv
  BY DEF Init, IndInv, TypeOK, CreatesAlone, FillsAlone, InUseIsStored

LEMMA TypeStep == TypeOK /\ [Next]_vars => TypeOK'
  <1> SUFFICES ASSUME TypeOK, [Next]_vars PROVE TypeOK'
    OBVIOUS
  <1> USE IdentityAssumption DEF TypeOK, Goto
  <1>1. ASSUME NEW p \in Programs, LoadOrCreate(p) PROVE TypeOK'
    BY <1>1 DEF LoadOrCreate, Exists
  <1>2. ASSUME NEW p \in Programs, Load(p) PROVE TypeOK'
    BY <1>2 DEF Load, Loads
  <1>3. ASSUME NEW p \in Programs, LoadFails(p) PROVE TypeOK'
    BY <1>3 DEF LoadFails
  <1>4. ASSUME NEW p \in Programs, OpenKeyFile(p) PROVE TypeOK'
    BY <1>4 DEF OpenKeyFile
  <1>5. ASSUME NEW p \in Programs, Fill(p) PROVE TypeOK'
    BY <1>5 DEF Fill
  <1>6. ASSUME NEW p \in Programs, Chmod(p) PROVE TypeOK'
    BY <1>6 DEF Chmod
  <1>7. ASSUME NEW p \in Programs, SaveFails(p) PROVE TypeOK'
    BY <1>7 DEF SaveFails
  <1>8. ASSUME NEW p \in Programs, Register(p) PROVE TypeOK'
    BY <1>8 DEF Register
  <1>9. ASSUME NEW p \in Programs, Ends(p) PROVE TypeOK'
    BY <1>9 DEF Ends
  <1>10. CASE UNCHANGED vars
    BY <1>10 DEF vars
  <1> QED
    BY <1>1, <1>2, <1>3, <1>4, <1>5, <1>6, <1>7, <1>8, <1>9, <1>10 DEF Next, Step

LEMMA Inductive == IndInv /\ [Next]_vars => IndInv'
  <1> SUFFICES ASSUME IndInv, [Next]_vars, ~raced'
               PROVE  (CreatesAlone /\ FillsAlone /\ InUseIsStored)'
    BY TypeStep DEF IndInv
  <1>0. TypeOK /\ ~raced
    BY DEF IndInv, TypeOK, Next, Step, vars, LoadOrCreate, Load, LoadFails, OpenKeyFile,
           Fill, Chmod, SaveFails, Register, Ends
  <1>i. CreatesAlone /\ FillsAlone /\ InUseIsStored
    BY <1>0 DEF IndInv
  <1> USE <1>0, <1>i, IdentityAssumption DEF TypeOK, Goto
  <1>1. ASSUME NEW p \in Programs, LoadOrCreate(p)
        PROVE  (CreatesAlone /\ FillsAlone /\ InUseIsStored)'
    BY <1>1 DEF LoadOrCreate, Exists, CreatesAlone, FillsAlone, InUseIsStored
  <1>2. ASSUME NEW p \in Programs, Load(p)
        PROVE  (CreatesAlone /\ FillsAlone /\ InUseIsStored)'
    BY <1>2 DEF Load, CreatesAlone, FillsAlone, InUseIsStored
  <1>3. ASSUME NEW p \in Programs, LoadFails(p) \/ SaveFails(p) \/ Ends(p)
        PROVE  (CreatesAlone /\ FillsAlone /\ InUseIsStored)'
    BY <1>3 DEF LoadFails, SaveFails, Ends, CreatesAlone, FillsAlone, InUseIsStored
  <1>4. ASSUME NEW p \in Programs, OpenKeyFile(p)
        PROVE  (CreatesAlone /\ FillsAlone /\ InUseIsStored)'
    <2>1. ~exists /\ stored = NoKey
      BY <1>4 DEF OpenKeyFile, CreatesAlone, InUseIsStored
    <2> QED
      BY <1>4, <2>1 DEF OpenKeyFile, CreatesAlone, FillsAlone, InUseIsStored
  <1>5. ASSUME NEW p \in Programs, Fill(p)
        PROVE  (CreatesAlone /\ FillsAlone /\ InUseIsStored)'
    <2>1. exists /\ stored = NoKey /\ known = {}
      BY <1>5 DEF Fill, FillsAlone, InUseIsStored
    <2> QED
      BY <1>5, <2>1 DEF Fill, CreatesAlone, FillsAlone, InUseIsStored
  <1>6. ASSUME NEW p \in Programs, Chmod(p)
        PROVE  (CreatesAlone /\ FillsAlone /\ InUseIsStored)'
    BY <1>6 DEF Chmod, CreatesAlone, FillsAlone, InUseIsStored
  <1>7. ASSUME NEW p \in Programs, Register(p)
        PROVE  (CreatesAlone /\ FillsAlone /\ InUseIsStored)'
    BY <1>7 DEF Register, CreatesAlone, FillsAlone, InUseIsStored
  <1>8. CASE UNCHANGED vars
    BY <1>8 DEF vars, CreatesAlone, FillsAlone, InUseIsStored
  <1> QED
    BY <1>1, <1>2, <1>3, <1>4, <1>5, <1>6, <1>7, <1>8 DEF Next, Step
-----------------------------------------------------------------------------
\* A program that is ready goes by a key (_load, _save).
THEOREM TypeCorrect == Spec => []TypeOK
  BY InitInv, TypeStep, PTL DEF Spec, IndInv

\* Every program and the gateway go by the key on disk, unless two programs
\* created it at the same time (load_or_create).
THEOREM StableIdentity == Spec => []OneIdentity
  <1>1. IndInv => OneIdentity
    BY DEF IndInv, InUseIsStored, OneIdentity
  <1> QED
    BY <1>1, InitInv, Inductive, PTL DEF Spec

\* A stored key is neither emptied nor replaced, with the same exception
\* (load_or_create, _save).
THEOREM KeptKey == Spec => KeyIsKept
  <1>1. IndInv /\ IndInv' /\ [Next]_vars
          => [~raced' /\ stored # NoKey => stored' = stored]_vars
    <2> SUFFICES ASSUME IndInv, Next, ~raced', stored # NoKey PROVE stored' = stored
      BY DEF vars
    <2>1. ~raced
      BY DEF IndInv, TypeOK, Next, Step, LoadOrCreate, Load, LoadFails, OpenKeyFile, Fill,
             Chmod, SaveFails, Register, Ends
    <2>2. \A p \in Programs : ~OpenKeyFile(p) /\ ~Fill(p)
      BY <2>1 DEF IndInv, CreatesAlone, FillsAlone, InUseIsStored, OpenKeyFile, Fill
    <2> QED
      BY <2>2 DEF Next, Step, LoadOrCreate, Load, LoadFails, Chmod, SaveFails, Register, Ends
  <1> QED
    BY <1>1, InitInv, Inductive, PTL DEF Spec, KeyIsKept
=============================================================================
