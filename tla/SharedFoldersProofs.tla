------------------------- MODULE SharedFoldersProofs -------------------------
(***************************************************************************)
(* Proofs about SharedFolders, for every set of ids and paths, every list  *)
(* of wanted folders and any number of adverse events.                     *)
(***************************************************************************)
EXTENDS SharedFolders, WellFoundedInduction, TLAPS

-----------------------------------------------------------------------------
(* The map that a list of folders stands for.                                *)

\* A set of indices that is not empty has a largest member.
LEMMA Largest ==
    ASSUME NEW n \in Nat, NEW S \in SUBSET (1..n), S # {}
    PROVE  \E i \in S : \A j \in S : j <= i
<1> DEFINE R == OpToRel(<, Nat)
           T == {n - i : i \in S}
<1>1. \A i \in S : n - i \in Nat /\ i \in Nat
  OBVIOUS
<1>2. T \subseteq Nat /\ T # {}
  BY <1>1
<1>3. IsWellFoundedOn(R, Nat)
  BY NatLessThanWellFounded
<1> HIDE DEF T, R
<1>4. \E x \in T : \A y \in T : ~(<<y, x>> \in R)
  BY <1>2, <1>3, WFMin
<1>5. PICK x \in T : \A y \in T : ~(<<y, x>> \in R)
  BY <1>4
<1>6. \A y \in T : <<y, x>> \in R <=> y < x
  BY <1>2, <1>5 DEF R, OpToRel
<1>7. \A y \in T : ~(y < x) /\ y \in Nat /\ x \in Nat
  BY <1>2, <1>5, <1>6
<1>8. PICK i \in S : x = n - i
  BY <1>5 DEF T
<1>9. \A j \in S : n - j \in T
  BY DEF T
<1>10. \A j \in S : n - i <= n - j
  BY <1>1, <1>7, <1>8, <1>9
<1> QED
  BY <1>1, <1>8, <1>10

Lists == Seq(Ids \X Paths)

\* The entry of an id in the map is the last one in the list.
LEMMA LastEntry ==
    ASSUME NEW list \in Lists, NEW f \in Ids, NEW i \in DOMAIN list, list[i][1] = f
    PROVE  \E k \in DOMAIN list :
              /\ list[k][1] = f /\ \A j \in (k+1)..Len(list) : list[j][1] # f
              /\ AsMap(list)[f] = list[k][2]
<1> DEFINE S == {k \in DOMAIN list : list[k][1] = f}
           Last(k) == list[k][1] = f /\ \A j \in (k+1)..Len(list) : list[j][1] # f
<1>1. DOMAIN list = 1..Len(list) /\ Len(list) \in Nat
  BY DEF Lists
<1>2. PICK k \in S : \A j \in S : j <= k
  <2>1. S \in SUBSET (1..Len(list)) /\ S # {}
    BY <1>1
  <2> HIDE DEF S
  <2> QED
    BY <2>1, <1>1, Largest
<1>3. k \in DOMAIN list /\ Last(k)
  BY <1>1, <1>2
<1>4. AsMap(list)[f] = list[CHOOSE m \in DOMAIN list : Last(m)][2]
  BY DEF AsMap
<1> HIDE DEF S, Last
<1>5. (CHOOSE m \in DOMAIN list : Last(m)) \in DOMAIN list /\ Last(CHOOSE m \in DOMAIN list : Last(m))
  BY <1>3
<1> QED
  BY <1>4, <1>5 DEF Last

\* An id that is listed is in the map, with one of its paths.
LEMMA Entry ==
    ASSUME NEW list \in Lists, NEW i \in DOMAIN list
    PROVE  /\ list[i][1] \in Ids /\ list[i][2] \in Paths
           /\ AsMap(list)[list[i][1]] \in Paths
<1>1. \A k \in DOMAIN list : list[k][1] \in Ids /\ list[k][2] \in Paths
  BY DEF Lists
<1>2. PICK k \in DOMAIN list : AsMap(list)[list[i][1]] = list[k][2]
  BY <1>1, LastEntry
<1> QED
  BY <1>1, <1>2

LEMMA AsMapType ==
    ASSUME NEW list \in Lists
    PROVE  AsMap(list) \in Folders
<1>1. ASSUME NEW f \in Ids
      PROVE  AsMap(list)[f] \in Paths \cup {Nil}
  <2>1. CASE \E i \in DOMAIN list : list[i][1] = f
    BY <2>1, Entry
  <2>2. CASE ~\E i \in DOMAIN list : list[i][1] = f
    BY <2>2 DEF AsMap
  <2> QED
    BY <2>1, <2>2
<1>2. AsMap(list) = [f \in Ids |-> AsMap(list)[f]]
  BY DEF AsMap
<1> QED
  BY <1>1, <1>2 DEF Folders

\* In a list without repeated ids every entry counts.
LEMMA DistinctEntry ==
    ASSUME NEW list \in Lists, NEW i \in DOMAIN list, Distinct(list)
    PROVE  AsMap(list)[list[i][1]] = list[i][2]
<1>1. list[i][1] \in Ids
  BY Entry
<1>2. PICK k \in DOMAIN list : list[k][1] = list[i][1] /\ AsMap(list)[list[i][1]] = list[k][2]
  BY <1>1, LastEntry
<1> QED
  BY <1>2 DEF Distinct

\* Only the empty list stands for no folders at all.
LEMMA NoFolders ==
    ASSUME NEW list \in Lists, AsMap(list) = None
    PROVE  list = <<>>
<1>1. SUFFICES ASSUME list # <<>> PROVE FALSE
  OBVIOUS
<1>2. 1 \in DOMAIN list
  BY <1>1 DEF Lists
<1>3. list[1][1] \in Ids /\ AsMap(list)[list[1][1]] \in Paths
  BY <1>2, Entry
<1>4. None[list[1][1]] = Nil
  BY <1>3 DEF None
<1> QED
  BY <1>3, <1>4, FoldersAssumption

-----------------------------------------------------------------------------
(* Types.                                                                    *)

LEMMA WantedType ==
    ASSUME TypeOK
    PROVE  wanted \in Lists /\ AsMap(wanted) \in Folders /\ DOMAIN wanted = 1..Len(wanted)
<1>1. wanted \in Lists
  BY FoldersAssumption DEF TypeOK, Lists
<1> QED
  BY <1>1, AsMapType DEF Lists

LEMMA NoneType == None \in Folders
BY DEF None, Folders

LEMMA OverType ==
    ASSUME TypeOK, Over, wanted' = wanted
    PROVE  /\ myStatus' \in Folders /\ pc' \in {"idle", "write", "patch"}
           /\ stale' \subseteq {f \in Ids : AsMap(wanted)'[f] = Nil}
           /\ index' \in 1..(Len(wanted') + 1)
<1>1. Len(wanted) \in Nat
  BY WantedType DEF Lists
<1> QED
  BY <1>1, NoneType DEF Over, TypeOK

LEMMA TypeInit == Init => TypeOK
<1> SUFFICES ASSUME Init PROVE TypeOK
  OBVIOUS
<1>1. Len(wanted) \in Nat
  BY FoldersAssumption DEF Init
<1> QED
  BY <1>1, NoneType, FoldersAssumption DEF Init, TypeOK

LEMMA UpsetType ==
    ASSUME TypeOK, NEW kind, NoUpset \/ Upset(kind)
    PROVE  nUpsets' \in 0..MaxUpsets
BY FoldersAssumption DEF TypeOK, NoUpset, Upset

LEMMA TypeStep == TypeOK /\ [Next]_vars => TypeOK'
<1> SUFFICES ASSUME TypeOK, [Next]_vars PROVE TypeOK'
  OBVIOUS
<1> USE DEF TypeOK
<1>0. /\ wanted \in Lists /\ AsMap(wanted) \in Folders /\ DOMAIN wanted = 1..Len(wanted)
      /\ Len(wanted) \in Nat
  BY WantedType DEF Lists
<1>1. CASE GetAllSharedFolders
  <2>1. stale' = Stale(vm) \/ stale' = stale
    BY <1>1 DEF GetAllSharedFolders
  <2>2. wanted' = wanted
    BY <1>1 DEF GetAllSharedFolders
  <2>3. stale' \subseteq {f \in Ids : AsMap(wanted')[f] = Nil}
    BY <2>1, <2>2 DEF Stale
  <2>4. nUpsets' \in 0..MaxUpsets
    BY <1>1, UpsetType DEF GetAllSharedFolders
  <2>5. {status', myStatus', vm'} \subseteq Folders /\ pc' \in {"idle", "write", "patch"}
    BY <1>1 DEF GetAllSharedFolders
  <2> QED
    BY <1>1, <2>2, <2>3, <2>4, <2>5 DEF GetAllSharedFolders
<1>2. CASE DeleteSharedFolder
  <2>1. PICK f \in stale :
          LET v == [vm EXCEPT ![f] = Nil] IN
          \/ vm' = v /\ stale' = stale \ {f} /\ NoUpset /\ UNCHANGED <<pc, index>>
          \/ Fails(v)
    BY <1>2 DEF DeleteSharedFolder
  <2>2. [vm EXCEPT ![f] = Nil] \in Folders
    BY <2>1 DEF Folders
  <2>3. vm' \in Folders /\ stale' \subseteq stale /\ index' = index /\ pc' \in {"write", "patch"}
    BY <1>2, <2>1, <2>2 DEF Fails, DeleteSharedFolder
  <2>4. nUpsets' \in 0..MaxUpsets
    BY <2>1, UpsetType DEF Fails
  <2> QED
    BY <1>2, <2>3, <2>4 DEF DeleteSharedFolder
<1>3. CASE CreateSharedFolder
  <2> DEFINE v == [vm EXCEPT ![wanted[index][1]] = wanted[index][2]]
  <2>1. wanted[index][2] \in Paths /\ wanted[index][1] \in Ids
    BY <1>0, <1>3, Entry DEF CreateSharedFolder
  <2>2. v \in Folders
    BY <2>1 DEF Folders
  <2>3. \/ vm' = v /\ index' = index + 1 /\ NoUpset /\ UNCHANGED <<pc, stale>>
        \/ Fails(v)
    BY <1>3 DEF CreateSharedFolder
  <2> HIDE DEF v
  <2>4. vm' \in Folders /\ stale' = stale /\ pc' \in {"write", "patch"}
    BY <1>3, <2>2, <2>3 DEF Fails, CreateSharedFolder
  <2>5. nUpsets' \in 0..MaxUpsets
    BY <2>3, UpsetType DEF Fails
  <2>6. index' \in 1..(Len(wanted) + 1)
    BY <1>0, <1>3, <2>3 DEF Fails, CreateSharedFolder
  <2> QED
    BY <1>3, <2>4, <2>5, <2>6 DEF CreateSharedFolder
<1>4. CASE Written
  BY <1>4 DEF Written
<1>5. CASE Patch
  <2>1. nUpsets' \in 0..MaxUpsets
    BY <1>5, UpsetType DEF Patch
  <2>2. wanted' = wanted /\ vm' = vm /\ status' \in {status, myStatus} /\ Over
    BY <1>5 DEF Patch
  <2> QED
    BY <2>1, <2>2, OverType
<1>6. CASE Crash
  <2>1. nUpsets' \in 0..MaxUpsets
    BY <1>6, UpsetType DEF Crash
  <2>2. wanted' = wanted /\ vm' = vm /\ status' = status /\ Over
    BY <1>6 DEF Crash
  <2> QED
    BY <2>1, <2>2, OverType
<1>7. CASE UNCHANGED vars
  BY <1>7 DEF vars
<1> QED
  BY <1>1, <1>2, <1>3, <1>4, <1>5, <1>6, <1>7 DEF Next, Handler

\* reconcileSharedFolders keeps to its types; in particular a folder that spec
\* wants is never due to be deleted, in any visit.
THEOREM FoldersTyped == Spec => []TypeOK
BY TypeInit, TypeStep, PTL DEF Spec

-----------------------------------------------------------------------------
(* What deleting and creating do to a folder that is wanted.                 *)

LEMMA DeleteKeeps ==
    ASSUME TypeOK, DeleteSharedFolder, NEW f \in Ids, AsMap(wanted)[f] # Nil
    PROVE  vm'[f] = vm[f]
<1>1. PICK s \in stale : vm' = [vm EXCEPT ![s] = Nil] \/ vm' = vm
  BY DEF DeleteSharedFolder, Fails
<1>2. s # f
  BY DEF TypeOK
<1> QED
  BY <1>1, <1>2 DEF TypeOK, Folders

LEMMA CreateKeeps ==
    ASSUME TypeOK, CreateSharedFolder, NEW f \in Ids, vm[f] # Nil
    PROVE  /\ vm'[f] # Nil
           /\ Distinct(wanted) /\ vm[f] = AsMap(wanted)[f] => vm'[f] = vm[f]
<1> DEFINE e == wanted[index]
<1>1. index \in DOMAIN wanted /\ wanted \in Lists
  BY WantedType DEF CreateSharedFolder
<1>2. e[1] \in Ids /\ e[2] \in Paths
  BY <1>1, Entry
<1>3. vm' = [vm EXCEPT ![e[1]] = e[2]] \/ vm' = vm
  BY DEF CreateSharedFolder, Fails
<1>4. vm \in Folders
  BY DEF TypeOK
<1>5. Distinct(wanted) => AsMap(wanted)[e[1]] = e[2]
  BY <1>1, DistinctEntry
<1> HIDE DEF e
<1>6. CASE e[1] = f
  BY <1>2, <1>3, <1>4, <1>5, <1>6, FoldersAssumption DEF Folders
<1>7. CASE e[1] # f
  BY <1>2, <1>3, <1>4, <1>7 DEF Folders
<1> QED
  BY <1>6, <1>7

\* However often a failing visit starts over, no call takes a folder away that
\* spec wants, and without repeated ids none spoils one that is right.
THEOREM WantedFoldersStay == Spec => WantedStays
<1> DEFINE Stays == \A f \in Ids : AsMap(wanted)[f] # Nil /\ vm[f] # Nil =>
                      /\ vm'[f] # Nil
                      /\ Distinct(wanted) /\ vm[f] = AsMap(wanted)[f] => vm'[f] = vm[f]
<1>1. TypeOK /\ [Next]_vars => [Stays]_vars
  <2> SUFFICES ASSUME TypeOK, Next PROVE Stays
    OBVIOUS
  <2>1. CASE DeleteSharedFolder
    BY <2>1, DeleteKeeps
  <2>2. CASE CreateSharedFolder
    BY <2>2, CreateKeeps
  <2>3. CASE GetAllSharedFolders \/ Written \/ Patch \/ Crash
    BY <2>3 DEF GetAllSharedFolders, Written, Patch, Crash
  <2> QED
    BY <2>1, <2>2, <2>3 DEF Next, Handler
<1>2. Spec => []TypeOK
  BY FoldersTyped
<1> QED
  BY <1>1, <1>2, PTL DEF Spec, WantedStays

-----------------------------------------------------------------------------
(* The handler is one that reconcileNormal can rely on.                      *)

\* What a visit has read is not what spec wants while it writes, and when it is,
\* the visit has written nothing since.
ReadFirst ==
    /\ pc # "idle" => AsMap(wanted) # status
    /\ pc = "write" => AsMap(wanted) # myStatus
    /\ pc = "patch" /\ AsMap(wanted) = myStatus => vm = myStatus

\* What status records as done is done on the VM.
Applied == wanted = <<>> \/ vm = AsMap(wanted)

RecordedTrue == AsMap(wanted) = status => Applied

LEMMA ReadFirstStep ==
    ASSUME TypeOK, ReadFirst, [Next]_vars
    PROVE  ReadFirst'
<1>1. CASE GetAllSharedFolders
  BY <1>1 DEF GetAllSharedFolders, SharedFoldersEqual, ReadFirst
<1>2. CASE DeleteSharedFolder
  BY <1>2 DEF DeleteSharedFolder, Fails, ReadFirst
<1>3. CASE CreateSharedFolder
  BY <1>3 DEF CreateSharedFolder, Fails, ReadFirst
<1>4. CASE Written
  BY <1>4 DEF Written, ReadFirst
<1>5. CASE Patch \/ Crash
  BY <1>5 DEF Patch, Crash, Over, ReadFirst
<1>6. CASE UNCHANGED vars
  BY <1>6 DEF vars, ReadFirst
<1> QED
  BY <1>1, <1>2, <1>3, <1>4, <1>5, <1>6 DEF Next, Handler

LEMMA RecordedStep ==
    ASSUME TypeOK, ReadFirst, RecordedTrue, [Next]_vars
    PROVE  RecordedTrue'
<1>1. CASE Patch
  BY <1>1 DEF Patch, Over, ReadFirst, RecordedTrue, Applied
<1>2. CASE GetAllSharedFolders \/ Written \/ Crash \/ UNCHANGED vars
  BY <1>2 DEF GetAllSharedFolders, Written, Crash, vars, RecordedTrue, Applied
<1>3. CASE DeleteSharedFolder \/ CreateSharedFolder
  BY <1>3 DEF DeleteSharedFolder, CreateSharedFolder, Fails, ReadFirst, RecordedTrue
<1> QED
  BY <1>1, <1>2, <1>3 DEF Next, Handler

FoldersInv == TypeOK /\ ReadFirst /\ RecordedTrue

LEMMA FoldersInvariant == Spec => []FoldersInv
<1>1. Init => FoldersInv
  <2> SUFFICES ASSUME Init PROVE FoldersInv
    OBVIOUS
  <2>1. TypeOK
    BY TypeInit
  <2>2. ReadFirst
    BY DEF Init, ReadFirst
  <2>3. RecordedTrue
    BY <2>1, WantedType, NoFolders DEF Init, RecordedTrue, Applied
  <2> QED
    BY <2>1, <2>2, <2>3 DEF FoldersInv
<1>2. FoldersInv /\ [Next]_vars => FoldersInv'
  BY TypeStep, ReadFirstStep, RecordedStep DEF FoldersInv
<1> QED
  BY <1>1, <1>2, PTL DEF Spec

\* A step of the handler is a call or a record of the abstract handler, or none.
LEMMA FolderPartStep ==
    ASSUME FoldersInv, FoldersInv', [Next]_vars
    PROVE  [Part!Next]_(Part!vars)
<1> USE DEF FoldersInv, Part!vars, SharedFoldersEqual
<1>1. CASE UNCHANGED <<wanted, vm, status>>
  BY <1>1 DEF AsMap
<1>2. CASE Patch
  <2>1. wanted' = wanted /\ vm' = vm /\ AsMap(wanted) # status
    BY <1>2 DEF Patch, ReadFirst
  <2>2. CASE AsMap(wanted)' = status'
    BY <2>1, <2>2 DEF Part!Next, Part!Record, RecordedTrue, Applied
  <2>3. CASE AsMap(wanted)' # status'
    BY <2>1, <2>3 DEF Part!Next, Part!Write
  <2> QED
    BY <2>2, <2>3
<1>3. CASE DeleteSharedFolder \/ CreateSharedFolder
  <2>1. AsMap(wanted) # status /\ wanted' = wanted /\ status' = status
    BY <1>3 DEF DeleteSharedFolder, CreateSharedFolder, ReadFirst
  <2>2. AsMap(wanted)' # status'
    BY <2>1
  <2> QED
    BY <2>1, <2>2 DEF Part!Next, Part!Write
<1>4. CASE GetAllSharedFolders \/ Written \/ Crash \/ UNCHANGED vars
  BY <1>4, <1>1 DEF GetAllSharedFolders, Written, Crash, vars
<1> QED
  BY <1>2, <1>3, <1>4 DEF Next, Handler

\* reconcileSharedFolders implements ConfigPart: once status equals spec the VM
\* has exactly the folders that spec wants, and keeps them.
THEOREM FoldersArePart == Spec => ImplementsConfigPart
<1>1. Init => Part!Init
  <2> SUFFICES ASSUME Init PROVE Part!Init
    OBVIOUS
  <2>1. AsMap(wanted) = status => Applied
    BY TypeInit, WantedType, NoFolders DEF Init, Applied
  <2> QED
    BY <2>1 DEF Part!Init, SharedFoldersEqual, Applied
<1>2. FoldersInv /\ FoldersInv' /\ [Next]_vars => [Part!Next]_(Part!vars)
  BY FolderPartStep
<1>3. Spec => []FoldersInv
  BY FoldersInvariant
<1> QED
  BY <1>1, <1>2, <1>3, PTL DEF Spec, ImplementsConfigPart, Part!Spec

=============================================================================
