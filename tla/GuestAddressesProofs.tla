------------------------ MODULE GuestAddressesProofs ------------------------
(***************************************************************************)
(* Proofs about GuestAddresses, for any number of ethernets, of adapters   *)
(* of the guest, of addresses that an adapter may have and of adverse      *)
(* events.                                                                 *)
(***************************************************************************)
EXTENDS GuestAddresses, FiniteSetTheorems, FunctionTheorems, TLAPS

-----------------------------------------------------------------------------
(* What extractAddresses returns.                                            *)

\* Text that is no address makes it fail, or is skipped.
LEMMA ExtractedType ==
    ASSUME TypeOK, ~ParseFails
    PROVE  Extracted \subseteq Addresses
<1> SUFFICES ASSUME NEW x \in Extracted PROVE x \in Addresses
  OBVIOUS
<1>1. PICK i \in Nics : x \in {<<i, a>> : a \in {b \in nic[i] : ~Skipped(i, b)}}
  BY DEF Extracted
<1>2. PICK a \in nic[i] : ~Skipped(i, a) /\ x = <<i, a>>
  BY <1>1
<1>3. a \in Reports /\ a # Odd
  BY <1>2 DEF TypeOK, ParseFails
<1> QED
  BY <1>2, <1>3 DEF Addresses, Reports

\* As many addresses as ethernets, of different adapters that are all ethernets,
\* cannot leave an ethernet out: there are fewer others than addresses.
LEMMA EnoughIsAccounted ==
    ASSUME TypeOK, ~ParseFails, Enough
    PROVE  Accounted(Extracted)
<1> SUFFICES ASSUME \A x, y \in Extracted : x[1] = y[1] => x = y,
                    \A x \in Extracted : ~(x[1] > nEthernets),
                    NEW i \in 1..nEthernets, \A x \in Extracted : x[1] # i
             PROVE  FALSE
  BY DEF Accounted
<1> DEFINE Others == (1..nEthernets) \ {i}
           f == [x \in Extracted |-> x[1]]
<1>0. nEthernets \in Nat
  BY GuestAssumption DEF TypeOK
<1>1. IsFiniteSet(Others) /\ Cardinality(Others) = nEthernets - 1
  <2>1. IsFiniteSet(1..nEthernets) /\ Cardinality(1..nEthernets) = nEthernets
    BY <1>0, FS_Interval
  <2> QED
    BY <1>0, <2>1, FS_RemoveElement
<1>2. \A x \in Extracted : x[1] \in 1..NNics
  BY ExtractedType DEF Addresses, Nics
<1> HIDE DEF Extracted
<1>3. ASSUME NEW x \in Extracted PROVE x[1] \in Others
  <2>1. x[1] \in 1..NNics /\ ~(x[1] > nEthernets) /\ x[1] # i
    BY <1>2, <1>3
  <2> QED
    BY <1>0, <2>1, GuestAssumption
<1>4. f \in [Extracted -> Others]
  BY <1>3
<1>5. \A x, y \in Extracted : f[x] = f[y] => x = y
  OBVIOUS
<1> HIDE DEF f, Others
<1>6. f \in Injection(Extracted, Others)
  BY <1>4, <1>5, Fun_IsInj
<1>7. Cardinality(Extracted) <= Cardinality(Others) /\ IsFiniteSet(Extracted)
  BY <1>1, <1>6, FS_Injection
<1>8. Cardinality(Extracted) \in Nat
  BY <1>7, FS_CardinalityType
<1> QED
  BY <1>0, <1>1, <1>7, <1>8 DEF Enough

-----------------------------------------------------------------------------
(* Types.                                                                    *)

LEMMA UpsetType ==
    ASSUME TypeOK, NEW kind, NoUpset \/ Upset(kind)
    PROVE  nUpsets' \in 0..MaxUpsets
BY GuestAssumption DEF TypeOK, NoUpset, Upset

LEMMA TypeInit == Init => TypeOK
<1> SUFFICES ASSUME Init PROVE TypeOK
  OBVIOUS
<1>1. nic \in [Nics -> SUBSET Reports]
  BY DEF Init
<1>2. listed \subseteq Addresses /\ mine \subseteq Addresses
  BY DEF Init
<1>3. 0 \in 0..MaxUpsets
  BY GuestAssumption
<1> QED
  BY <1>1, <1>2, <1>3 DEF Init, TypeOK

LEMMA TypeStep == TypeOK /\ [Next]_vars => TypeOK'
<1> SUFFICES ASSUME TypeOK, [Next]_vars PROVE TypeOK'
  OBVIOUS
<1>1. CASE GetNicInfo
  <2>1. nUpsets' \in 0..MaxUpsets
    BY <1>1, UpsetType DEF GetNicInfo
  <2>2. mine' \subseteq Addresses /\ pc' \in {"idle", "patch"}
    BY <1>1, ExtractedType DEF GetNicInfo, specVars, TypeOK
  <2> QED
    BY <1>1, <2>1, <2>2 DEF GetNicInfo, specVars, TypeOK
<1>2. CASE Patch
  <2>1. nUpsets' \in 0..MaxUpsets
    BY <1>2, UpsetType DEF Patch
  <2> QED
    BY <1>2, <2>1 DEF Patch, specVars, TypeOK
<1>3. CASE Crash
  <2>1. nUpsets' \in 0..MaxUpsets
    BY <1>3, UpsetType DEF Crash
  <2> QED
    BY <1>3, <2>1 DEF Crash, specVars, TypeOK
<1>4. ASSUME NEW i \in Nics, NEW a \in Reports, Gets(i, a) \/ Loses(i, a)
      PROVE  TypeOK'
  <2>1. nUpsets' \in 0..MaxUpsets
    BY <1>4, UpsetType DEF Gets, Loses
  <2>2. nic' \in [Nics -> SUBSET Reports]
    BY <1>4 DEF Gets, Loses, TypeOK
  <2> QED
    BY <1>4, <2>1, <2>2 DEF Gets, Loses, specVars, TypeOK
<1>5. CASE UNCHANGED vars
  BY <1>5 DEF vars, specVars, TypeOK
<1> QED
  BY <1>1, <1>2, <1>3, <1>4, <1>5 DEF Next, Handler

\* reconcileAddresses keeps to its types; in particular no odd text is recorded.
THEOREM GuestTyped == Spec => []TypeOK
BY TypeInit, TypeStep, PTL DEF Spec

-----------------------------------------------------------------------------
(* What a machine that is ready has on record.                               *)

\* A visit that will patch has a list that is accounted for, however the guest's
\* addresses change until then; so has a machine that is ready.
ListedInv == (pc = "patch" => Accounted(mine)) /\ (ready => Accounted(listed))

LEMMA ListedStep ==
    ASSUME TypeOK, ListedInv, [Next]_vars
    PROVE  ListedInv'
<1>1. CASE GetNicInfo
  <2>1. \/ mine' = Extracted /\ pc' = "patch" /\ Enough /\ ~ParseFails
        \/ pc' = "idle"
    BY <1>1 DEF GetNicInfo
  <2>2. UNCHANGED <<nEthernets, listed, ready>>
    BY <1>1 DEF GetNicInfo, specVars
  <2>3. pc' = "patch" => mine' = Extracted /\ Accounted(Extracted)
    BY <2>1, EnoughIsAccounted
  <2> HIDE DEF Extracted
  <2> QED
    BY <2>2, <2>3 DEF ListedInv, Accounted
<1>2. CASE Patch
  BY <1>2 DEF Patch, specVars, ListedInv, Accounted
<1>3. CASE Crash
  BY <1>3 DEF Crash, specVars, ListedInv, Accounted
<1>4. ASSUME NEW i \in Nics, NEW a \in Reports, Gets(i, a) \/ Loses(i, a)
      PROVE  ListedInv'
  BY <1>4 DEF Gets, Loses, specVars, ListedInv, Accounted
<1>5. CASE UNCHANGED vars
  BY <1>5 DEF vars, specVars, ListedInv, Accounted
<1> QED
  BY <1>1, <1>2, <1>3, <1>4, <1>5 DEF Next, Handler

\* A ready machine has an address of every ethernet on record, or a second one of
\* some adapter, or one of an adapter that spec does not know: the count that
\* reconcileAddresses compares goes wrong in no other way, for any addresses the
\* adapters may have and in whatever order they come and go.
THEOREM AllEthernetsListed == Spec => []EveryEthernetListed
<1>1. Init => ListedInv
  BY DEF Init, ListedInv
<1>2. TypeOK /\ ListedInv /\ [Next]_vars => ListedInv'
  BY ListedStep
<1>3. ListedInv => EveryEthernetListed
  BY DEF ListedInv, EveryEthernetListed
<1> QED
  BY <1>1, <1>2, <1>3, GuestTyped, PTL DEF Spec
=============================================================================
