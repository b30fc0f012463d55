--------------------------- MODULE AddressingProofs ---------------------------
(***************************************************************************)
(* Proofs about Addressing, for any machines and ethernets, whether their  *)
(* claims coincide or not, any pool, any guestinfo parameters with the     *)
(* metadata among them and any number of adverse events.                   *)
(***************************************************************************)
EXTENDS Addressing, FiniteSetTheorems, WellFoundedInduction, TLAPS

-----------------------------------------------------------------------------
(* The names, and what is rendered.                                          *)

\* A set of indices that is not empty has a largest member.
LEMMA Largest ==
    ASSUME NEW n \in Nat, NEW S \in SUBSET (1..n), S # {}
    PROVE  \E i \in S : \A j \in S : j <= i
<1> DEFINE R == OpToRel(<, Nat)
           T == {n - i : i \in S}
<1>1. \A i \in S : n - i \in Nat /\ i \in Nat
  OBVIOUS
<1>2. T \subseteq Nat /\ T # {}
  BY <1>1
<1>3. IsWellFoundedOn(R, Nat)
  BY NatLessThanWellFounded
<1> HIDE DEF T, R
<1>4. \E x \in T : \A y \in T : ~(<<y, x>> \in R)
  BY <1>2, <1>3, WFMin
<1>5. PICK x \in T : \A y \in T : ~(<<y, x>> \in R)
  BY <1>4
<1>6. \A y \in T : <<y, x>> \in R <=> y < x
  BY <1>2, <1>5 DEF R, OpToRel
<1>7. \A y \in T : ~(y < x) /\ y \in Nat /\ x \in Nat
  BY <1>2, <1>5, <1>6
<1>8. PICK i \in S : x = n - i
  BY <1>5 DEF T
<1>9. \A j \in S : n - j \in T
  BY DEF T
<1>10. \A j \in S : n - i <= n - j
  BY <1>1, <1>7, <1>8, <1>9
<1> QED
  BY <1>1, <1>8, <1>10

LEMMA EthernetType ==
    ASSUME NEW m \in Machines, NEW i \in DOMAIN Ethernets[m]
    PROVE  /\ Ethernets[m][i].name \in Names(m)
           /\ Ethernets[m][i].ipam \in BOOLEAN /\ Ethernets[m][i].nodeIP \in BOOLEAN
           /\ ClaimName(m, Ethernets[m][i].name) \in Claims
<1> DEFINE R == [name : Names(m), ipam : BOOLEAN, nodeIP : BOOLEAN]
<1>1. Ethernets[m] \in Seq(R)
  BY AddressingAssumption
<1>2. Ethernets[m][i] \in R
  <2> HIDE DEF R
  <2> QED
    BY <1>1
<1> QED
  BY <1>2 DEF Claims

LEMMA EthernetIndices ==
    ASSUME NEW m \in Machines
    PROVE  DOMAIN Ethernets[m] = 1..Len(Ethernets[m]) /\ Len(Ethernets[m]) \in Nat
BY AddressingAssumption

LEMMA ClaimType ==
    ASSUME NEW m \in Machines, NEW name \in Names(m)
    PROVE  ClaimName(m, name) \in Claims
BY DEF Claims

LEMMA OneClaim ==
    ASSUME NEW m \in Machines, NEW n \in Machines, NEW d \in Names(m), NEW e \in Names(n),
           OwnClaim(m, d), ClaimName(m, d) = ClaimName(n, e)
    PROVE  m = n /\ d = e
BY DEF OwnClaim

\* The node's address is one of those that were found, or missing.
LEMMA NodeIPType ==
    ASSUME NEW m \in Machines, NEW at \in Lookup(m)
    PROVE  NodeIP(m, at) \in IPs \cup {Nil}
<1> DEFINE is == {i \in DOMAIN Ethernets[m] :
                    Ethernets[m][i].nodeIP /\ at[Ethernets[m][i].name] # Nil}
           last == CHOOSE i \in is : \A j \in is : j <= i
<1>1. CASE is = {}
  BY <1>1 DEF NodeIP
<1>2. CASE is # {}
  <2>1. is \in SUBSET (1..Len(Ethernets[m])) /\ Len(Ethernets[m]) \in Nat
    BY EthernetIndices
  <2>2. is \subseteq DOMAIN Ethernets[m]
    OBVIOUS
  <2>3. NodeIP(m, at) = at[Ethernets[m][last].name]
    BY <1>2 DEF NodeIP
  <2> HIDE DEF is
  <2>4. \E i \in is : \A j \in is : j <= i
    BY <1>2, <2>1, Largest
  <2>5. last \in is
    BY <2>4
  <2>6. Ethernets[m][last].name \in Names(m)
    BY <2>2, <2>5, EthernetType
  <2> QED
    BY <2>3, <2>6 DEF Lookup
<1> QED
  BY <1>1, <1>2

\* The last ethernet that is marked as the node's, if it has an address, gives it.
LEMMA NodeIPLast ==
    ASSUME NEW m \in Machines, NEW at \in Lookup(m), NEW i \in DOMAIN Ethernets[m],
           Ethernets[m][i].nodeIP, at[Ethernets[m][i].name] # Nil,
           \A j \in (i+1)..Len(Ethernets[m]) : ~Ethernets[m][j].nodeIP
    PROVE  NodeIP(m, at) = at[Ethernets[m][i].name]
<1> DEFINE is == {k \in DOMAIN Ethernets[m] :
                    Ethernets[m][k].nodeIP /\ at[Ethernets[m][k].name] # Nil}
           last == CHOOSE k \in is : \A j \in is : j <= k
<1>1. i \in is /\ is \subseteq 1..Len(Ethernets[m]) /\ Len(Ethernets[m]) \in Nat
  BY EthernetIndices
<1>2. \A j \in is : j <= i
  BY <1>1
<1>3. NodeIP(m, at) = at[Ethernets[m][last].name]
  BY <1>1 DEF NodeIP
<1> HIDE DEF is
<1>4. last \in is /\ i <= last
  BY <1>1, <1>2
<1>5. last = i
  BY <1>1, <1>2, <1>4
<1> QED
  BY <1>3, <1>5

LEMMA MetadataType ==
    ASSUME NEW m \in Machines, NEW at \in Lookup(m)
    PROVE  /\ Metadata(m, at) \in Rendered(m) /\ Metadata(m, at) # Nil
           /\ Metadata(m, at).addresses = at
           /\ Metadata(m, at).nodeIP = NodeIP(m, at)
<1>1. Metadata(m, at) \in Rendered(m)
  BY NodeIPType DEF Metadata, Rendered
<1> QED
  BY <1>1, AddressingAssumption DEF Metadata

-----------------------------------------------------------------------------
(* Types.                                                                    *)

\* Where a visit is, and on what: a machine under way is live, waits only for an
\* ethernet with an ipamRef, and gets bootstrap data only once.
VisitInv ==
    /\ pc # "idle" => cur \in Machines /\ machine[cur] = "live"
    /\ pc = "wait" => index \in DOMAIN Ethernets[cur] /\ Ethernet.ipam
    /\ pc \in {"lookup", "write", "patch"} => cur \notin provided
    /\ pc = "patch" => todo = {}

LEMMA CurType ==
    ASSUME TypeOK, VisitInv, pc # "idle"
    PROVE  /\ cur \in Machines /\ cur # Nil /\ machine[cur] = "live" /\ found \in Lookup(cur)
           /\ index \in DOMAIN Ethernets[cur] =>
                 /\ Ethernet.name \in Names(cur) /\ Ethernet.ipam \in BOOLEAN
                 /\ Name \in Claims
<1>1. cur \in Machines /\ cur # Nil
  BY AddressingAssumption DEF VisitInv
<1>2. found \in Lookup(cur)
  BY <1>1 DEF TypeOK
<1> QED
  BY <1>1, <1>2, EthernetType DEF VisitInv, Ethernet, Name

LEMMA OverType ==
    ASSUME Over
    PROVE  /\ pc' = "idle" /\ cur' \in Machines \cup {Nil} /\ index' \in Nat /\ todo' \subseteq Params
           /\ found' \in (IF cur' = Nil THEN {<<>>} ELSE Lookup(cur')) /\ pc' # "wait"
BY DEF Over

\* One parameter is written to the VM that the visit is about, and nothing else.
LEMMA WrittenIs ==
    ASSUME TypeOK, VisitInv, pc # "idle", NEW p \in Params
    PROVE  /\ DOMAIN Written(p) = Machines
           /\ \A m \in Machines \ {cur} : Written(p)[m] = guest[m]
           /\ Written(p)[cur].written = guest[cur].written \cup {p}
           /\ Written(p)[cur].metadata =
                 IF p = "metadata" THEN Metadata(cur, found) ELSE guest[cur].metadata
           /\ Written(p)[cur] \in [written : SUBSET Params, metadata : {Nil} \cup Rendered(cur)]
<1>1. cur \in Machines /\ found \in Lookup(cur)
  BY CurType
<1>2. guest[cur] \in [written : SUBSET Params, metadata : {Nil} \cup Rendered(cur)] /\ DOMAIN guest = Machines
  BY <1>1 DEF TypeOK
<1>3. Metadata(cur, found) \in Rendered(cur)
  BY <1>1, MetadataType
<1>4. DOMAIN Written(p) = Machines /\ (\A m \in Machines \ {cur} : Written(p)[m] = guest[m])
  BY <1>2 DEF Written
<1>5. Written(p)[cur] =
        [written  |-> guest[cur].written \cup {p},
         metadata |-> IF p = "metadata" THEN Metadata(cur, found) ELSE guest[cur].metadata]
  BY <1>1, <1>2 DEF Written
<1> HIDE DEF Written
<1>6. CASE p # "metadata"
  BY <1>2, <1>4, <1>5, <1>6
<1>7. CASE p = "metadata"
  BY <1>2, <1>3, <1>4, <1>5, <1>7
<1> QED
  BY <1>6, <1>7

LEMMA UpsetType ==
    ASSUME TypeOK, NEW kind, NoUpset \/ Upset(kind)
    PROVE  upsets' \subseteq Upsets
BY DEF TypeOK, NoUpset, Upset

TypeInv == TypeOK /\ VisitInv

LEMMA TypeInit == Init => TypeInv
<1> SUFFICES ASSUME Init PROVE TypeInv
  OBVIOUS
<1>1. \A m \in Machines : guest[m] \in [written : SUBSET Params, metadata : {Nil} \cup Rendered(m)]
  BY DEF Init, Empty
<1>2. claim \in [Claims -> Machines \cup {Nil}] /\ address \in [Claims -> IPs \cup {Nil}]
  BY DEF Init
<1>3. machine \in [Machines -> {"live", "vmGone", "gone"}] /\ DOMAIN guest = Machines
  BY DEF Init
<1> QED
  BY <1>1, <1>2, <1>3 DEF Init, TypeInv, TypeOK, VisitInv

\* A step that leaves the machines, their VMs and provided alone.
LEMMA VisitType ==
    ASSUME TypeOK, NEW m \in Machines, Visit(m)
    PROVE  TypeInv'
<1>1. cur' = m /\ pc' = "claim" /\ index' = 1 /\ todo' = {} /\ found' \in Lookup(m)
  BY DEF Visit, Lookup
<1>2. m # Nil
  BY AddressingAssumption
<1> QED
  BY <1>1, <1>2 DEF Visit, TypeInv, TypeOK, VisitInv

LEMMA GotoType ==
    ASSUME TypeInv, pc # "idle", NEW step, NEW i \in Nat, Goto(step, i)
    PROVE  /\ index' \in Nat /\ todo' \subseteq Params /\ cur' = cur /\ found' = found
           /\ found' \in (IF cur' = Nil THEN {<<>>} ELSE Lookup(cur'))
           /\ cur' \in Machines /\ cur' # Nil
BY CurType DEF TypeInv, TypeOK, Goto

LEMMA MakeClaimType ==
    ASSUME TypeInv, MakeClaim
    PROVE  TypeInv'
<1>1. pc = "claim" /\ UNCHANGED <<machine, address, provided, guest>>
  BY DEF MakeClaim
<1>2. /\ cur \in Machines /\ cur # Nil /\ machine[cur] = "live"
      /\ index \in DOMAIN Ethernets[cur] => Name \in Claims /\ Ethernet.ipam \in BOOLEAN
      /\ index \in Nat
  BY <1>1, CurType DEF TypeInv, TypeOK
<1>3. upsets' \subseteq Upsets
  BY UpsetType DEF MakeClaim, CallFails, TypeInv
<1>4. claim' \in [Claims -> Machines \cup {Nil}]
  <2>1. CASE UNCHANGED claim
    BY <2>1 DEF TypeInv, TypeOK
  <2>2. CASE index \in DOMAIN Ethernets[cur] /\ claim' = [claim EXCEPT ![Name] = IF @ = Nil THEN Owner ELSE @]
    <3>1. (IF claim[Name] = Nil THEN Owner ELSE claim[Name]) \in Machines \cup {Nil}
      BY <1>2, <2>2 DEF TypeInv, TypeOK, Owner
    <3> QED
      BY <1>2, <2>2, <3>1 DEF TypeInv, TypeOK
  <2> QED
    BY <2>1, <2>2 DEF MakeClaim
<1>5. \/ Over
      \/ cur \notin provided /\ Goto("lookup", 1)
      \/ Goto("claim", index + 1)
      \/ index \in DOMAIN Ethernets[cur] /\ Ethernet.ipam /\ Goto("wait", index)
  BY DEF MakeClaim, CallFails
<1>6. CASE Over
  BY <1>1, <1>3, <1>4, <1>6, OverType DEF TypeInv, TypeOK, VisitInv
<1>7. CASE cur \notin provided /\ Goto("lookup", 1)
  <2>1. pc' = "lookup"
    BY <1>7 DEF Goto
  <2> QED
    BY <1>1, <1>2, <1>3, <1>4, <1>7, <2>1, GotoType DEF TypeInv, TypeOK, VisitInv
<1>8. CASE Goto("claim", index + 1)
  <2>1. pc' = "claim"
    BY <1>8 DEF Goto
  <2> QED
    BY <1>1, <1>2, <1>3, <1>4, <1>8, <2>1, GotoType DEF TypeInv, TypeOK, VisitInv
<1>9. CASE index \in DOMAIN Ethernets[cur] /\ Ethernet.ipam /\ Goto("wait", index)
  <2>1. pc' = "wait" /\ cur' = cur /\ index' = index
    BY <1>9 DEF Goto
  <2> QED
    BY <1>1, <1>2, <1>3, <1>4, <1>9, <2>1, GotoType DEF TypeInv, TypeOK, VisitInv, Ethernet
<1> QED
  BY <1>5, <1>6, <1>7, <1>8, <1>9

LEMMA AwaitAddressType ==
    ASSUME TypeInv, AwaitAddress
    PROVE  TypeInv'
<1>1. pc = "wait" /\ UNCHANGED <<machine, claim, address, provided, guest>>
  BY DEF AwaitAddress
<1>2. cur \in Machines /\ cur # Nil /\ machine[cur] = "live" /\ index \in Nat
  BY <1>1, CurType DEF TypeInv, TypeOK
<1>3. upsets' \subseteq Upsets
  BY UpsetType DEF AwaitAddress, CallFails, TypeInv
<1>4. CASE Over
  BY <1>1, <1>3, <1>4, OverType DEF TypeInv, TypeOK, VisitInv
<1>5. CASE Goto("claim", index + 1)
  <2>1. pc' = "claim"
    BY <1>5 DEF Goto
  <2> QED
    BY <1>1, <1>2, <1>3, <1>5, <2>1, GotoType DEF TypeInv, TypeOK, VisitInv
<1> QED
  BY <1>4, <1>5 DEF AwaitAddress, CallFails

LEMMA FindIpamAddressType ==
    ASSUME TypeInv, FindIpamAddress
    PROVE  TypeInv'
<1>1. pc = "lookup" /\ UNCHANGED <<machine, claim, address, provided, guest>>
  BY DEF FindIpamAddress
<1>2. /\ cur \in Machines /\ cur # Nil /\ machine[cur] = "live" /\ index \in Nat
      /\ found \in Lookup(cur) /\ cur \notin provided
      /\ index \in DOMAIN Ethernets[cur] => Name \in Claims /\ Ethernet.name \in Names(cur)
  BY <1>1, CurType DEF TypeInv, TypeOK, VisitInv
<1>3. upsets' \subseteq Upsets
  BY UpsetType DEF FindIpamAddress, CallFails, TypeInv
<1>4. CASE Over
  BY <1>1, <1>3, <1>4, OverType DEF TypeInv, TypeOK, VisitInv
<1>5. CASE /\ index \in DOMAIN Ethernets[cur] /\ NoUpset
           /\ found' = [found EXCEPT ![Ethernet.name] = address[Name]]
           /\ index' = index + 1 /\ UNCHANGED <<pc, cur, todo>>
  <2>1. address[Name] \in IPs \cup {Nil}
    BY <1>2, <1>5 DEF TypeInv, TypeOK
  <2>2. found' \in Lookup(cur)
    BY <1>2, <1>5, <2>1 DEF Lookup
  <2> QED
    BY <1>1, <1>2, <1>3, <1>5, <2>2 DEF TypeInv, TypeOK, VisitInv
<1>6. CASE pc' = "write" /\ todo' = Params /\ UNCHANGED <<cur, index, found>>
  BY <1>1, <1>2, <1>3, <1>6 DEF TypeInv, TypeOK, VisitInv
<1> QED
  BY <1>4, <1>5, <1>6 DEF FindIpamAddress, CallFails

LEMMA WriteParamType ==
    ASSUME TypeInv, WriteParam
    PROVE  TypeInv'
<1>1. pc = "write" /\ UNCHANGED <<machine, claim, address, provided>>
  BY DEF WriteParam
<1>2. /\ cur \in Machines /\ cur # Nil /\ machine[cur] = "live" /\ index \in Nat
      /\ found \in Lookup(cur) /\ cur \notin provided /\ todo \subseteq Params
  BY <1>1, CurType DEF TypeInv, TypeOK, VisitInv
<1>3. upsets' \subseteq Upsets
  BY UpsetType DEF WriteParam, CallFails, TypeInv
<1>4. PICK p \in todo :
        \/ /\ guest' = Written(p)
           /\ \/ /\ NoUpset /\ todo' = todo \ {p}
                 /\ pc' = (IF todo' = {} THEN "patch" ELSE "write")
                 /\ UNCHANGED <<cur, index, found>>
              \/ Upset("lostReply") /\ Over
        \/ CallFails /\ UNCHANGED guest
  BY DEF WriteParam
<1>5. /\ DOMAIN guest' = Machines
      /\ \A m \in Machines : guest'[m] \in [written : SUBSET Params, metadata : {Nil} \cup Rendered(m)]
  <2>1. CASE guest' = guest
    BY <2>1 DEF TypeInv, TypeOK
  <2>2. CASE guest' = Written(p)
    <3>1. \A m \in Machines : guest[m] \in [written : SUBSET Params, metadata : {Nil} \cup Rendered(m)]
      BY DEF TypeInv, TypeOK
    <3>2. /\ DOMAIN Written(p) = Machines
          /\ \A m \in Machines \ {cur} : Written(p)[m] = guest[m]
          /\ Written(p)[cur] \in [written : SUBSET Params, metadata : {Nil} \cup Rendered(cur)]
      BY <1>1, <1>2, <1>4, WrittenIs DEF TypeInv
    <3> HIDE DEF Written
    <3>3. ASSUME NEW m \in Machines
          PROVE  guest'[m] \in [written : SUBSET Params, metadata : {Nil} \cup Rendered(m)]
      BY <2>2, <3>1, <3>2
    <3> QED
      BY <2>2, <3>2, <3>3
  <2> QED
    BY <1>4, <2>1, <2>2
<1>6. CASE Over
  BY <1>1, <1>3, <1>5, <1>6, OverType DEF TypeInv, TypeOK, VisitInv
<1>7. CASE /\ todo' = todo \ {p} /\ pc' = (IF todo' = {} THEN "patch" ELSE "write")
           /\ UNCHANGED <<cur, index, found>>
  BY <1>1, <1>2, <1>3, <1>5, <1>7 DEF TypeInv, TypeOK, VisitInv
<1> QED
  BY <1>4, <1>6, <1>7 DEF CallFails

LEMMA TypeStep == TypeInv /\ [Next]_vars => TypeInv'
<1> SUFFICES ASSUME TypeInv, [Next]_vars PROVE TypeInv'
  OBVIOUS
<1>1. CASE Step
  <2>1. CASE Patch
    <3>1. upsets' \subseteq Upsets
      BY <2>1, UpsetType DEF Patch, TypeInv
    <3>2. cur \in Machines
      BY <2>1, CurType DEF Patch, TypeInv
    <3>3. provided' \subseteq Machines
      BY <2>1, <3>2 DEF Patch, Provided, TypeInv, TypeOK
    <3> QED
      BY <2>1, <3>1, <3>3, OverType DEF Patch, TypeInv, TypeOK, VisitInv
  <2> QED
    BY <1>1, <2>1, MakeClaimType, AwaitAddressType, FindIpamAddressType, WriteParamType DEF Step
<1>2. CASE Crash
  <2>1. upsets' \subseteq Upsets
    BY <1>2, UpsetType DEF Crash, TypeInv
  <2> QED
    BY <1>2, <2>1, OverType DEF Crash, TypeInv, TypeOK, VisitInv
<1>3. ASSUME NEW m \in Machines, Visit(m) PROVE TypeInv'
  BY <1>3, VisitType DEF TypeInv
<1>4. ASSUME NEW m \in Machines, DeleteVM(m) PROVE TypeInv'
  <2>1. Empty \in [written : SUBSET Params, metadata : {Nil} \cup Rendered(m)]
    BY DEF Empty
  <2>2. DOMAIN guest' = Machines
    BY <1>4 DEF DeleteVM, TypeInv, TypeOK
  <2>3. ASSUME NEW n \in Machines
        PROVE  guest'[n] \in [written : SUBSET Params, metadata : {Nil} \cup Rendered(n)]
    <3>1. guest'[n] = IF n = m THEN Empty ELSE guest[n]
      BY <1>4 DEF DeleteVM, TypeInv, TypeOK
    <3> QED
      BY <2>1, <3>1 DEF TypeInv, TypeOK
  <2> QED
    BY <1>4, <2>2, <2>3 DEF DeleteVM, visitVars, TypeInv, TypeOK, VisitInv
<1>5. ASSUME NEW m \in Machines, ObjectGone(m) PROVE TypeInv'
  BY <1>5 DEF ObjectGone, visitVars, TypeInv, TypeOK, VisitInv
<1>6. ASSUME NEW c \in Claims, Bind(c) PROVE TypeInv'
  BY <1>6 DEF Bind, visitVars, TypeInv, TypeOK, VisitInv, Ethernet
<1>7. ASSUME NEW c \in Claims, Withdraw(c) PROVE TypeInv'
  <2>1. upsets' \subseteq Upsets
    BY <1>7, UpsetType DEF Withdraw, TypeInv
  <2> QED
    BY <1>7, <2>1 DEF Withdraw, visitVars, TypeInv, TypeOK, VisitInv, Ethernet
<1>8. ASSUME NEW c \in Claims, Collect(c) PROVE TypeInv'
  BY <1>8 DEF Collect, visitVars, TypeInv, TypeOK, VisitInv, Ethernet
<1>9. CASE UNCHANGED vars
  BY <1>9 DEF vars, visitVars, TypeInv, TypeOK, VisitInv, Ethernet
<1> QED
  BY <1>1, <1>2, <1>3, <1>4, <1>5, <1>6, <1>7, <1>8, <1>9 DEF Next

LEMMA TypeInvariant == Spec => []TypeInv
BY TypeInit, TypeStep, PTL DEF Spec

\* The handlers, the provider and the garbage collector keep to their types: in
\* particular every claim that exists is owned by a machine.
THEOREM AddressingTyped == Spec => []TypeOK
<1>1. TypeInv => TypeOK
  BY DEF TypeInv
<1> QED
  BY <1>1, TypeInvariant, PTL

-----------------------------------------------------------------------------
(* Who holds an address.                                                     *)

\* A claim that only one machine can ask for belongs to it.
OwnerInv ==
    \A m \in Machines : \A name \in Names(m) :
        OwnClaim(m, name) => claim[ClaimName(m, name)] \in {m, Nil}

\* An address is given once.
UniqueInv ==
    \A c, d \in Claims : address[c] = address[d] /\ address[c] # Nil => c = d

\* A machine that is no longer live has no VM.
EmptyInv == \A m \in Machines : machine[m] # "live" => guest[m] = Empty

LEMMA OwnerStep ==
    ASSUME TypeInv, OwnerInv, [Next]_vars
    PROVE  OwnerInv'
<1> SUFFICES ASSUME NEW m \in Machines, NEW name \in Names(m), OwnClaim(m, name)
             PROVE  claim'[ClaimName(m, name)] \in {m, Nil}
  BY DEF OwnerInv
<1>0. /\ claim[ClaimName(m, name)] \in {m, Nil} /\ ClaimName(m, name) \in Claims
      /\ claim \in [Claims -> Machines \cup {Nil}]
  BY ClaimType DEF OwnerInv, TypeInv, TypeOK
<1>1. CASE MakeClaim
  <2>1. CASE claim' = claim
    BY <1>0, <2>1
  <2>2. CASE index \in DOMAIN Ethernets[cur] /\ claim' = [claim EXCEPT ![Name] = IF @ = Nil THEN Owner ELSE @]
    <3>1. cur \in Machines /\ Ethernet.name \in Names(cur) /\ Name \in Claims
      BY <1>1, <2>2, CurType DEF MakeClaim, TypeInv
    <3>2. CASE ClaimName(m, name) = Name
      <4>1. m = cur
        BY <3>1, <3>2, OneClaim DEF Name
      <4> QED
        BY <1>0, <2>2, <3>1, <3>2, <4>1 DEF Owner
    <3>3. CASE ClaimName(m, name) # Name
      BY <1>0, <2>2, <3>3
    <3> QED
      BY <3>2, <3>3
  <2> QED
    BY <1>1, <2>1, <2>2 DEF MakeClaim
<1>2. ASSUME NEW c \in Claims, Collect(c) PROVE claim'[ClaimName(m, name)] \in {m, Nil}
  BY <1>0, <1>2 DEF Collect
<1>3. CASE AwaitAddress \/ FindIpamAddress \/ WriteParam \/ Patch \/ Crash \/ UNCHANGED vars
  BY <1>0, <1>3 DEF AwaitAddress, FindIpamAddress, WriteParam, Patch, Crash, vars
<1>4. ASSUME NEW n \in Machines, Visit(n) \/ DeleteVM(n) \/ ObjectGone(n)
      PROVE  claim'[ClaimName(m, name)] \in {m, Nil}
  BY <1>0, <1>4 DEF Visit, DeleteVM, ObjectGone
<1>5. ASSUME NEW c \in Claims, Bind(c) \/ Withdraw(c)
      PROVE  claim'[ClaimName(m, name)] \in {m, Nil}
  BY <1>0, <1>5 DEF Bind, Withdraw
<1> QED
  BY <1>1, <1>2, <1>3, <1>4, <1>5 DEF Next, Step

\* The worker and the deletions of machines leave the addresses alone.
LEMMA AddressSteps ==
    ASSUME [Next]_vars
    PROVE  \/ address' = address
           \/ \E c \in Claims : Bind(c) \/ Withdraw(c) \/ Collect(c)
<1>1. CASE Step \/ Crash \/ UNCHANGED vars
  BY <1>1 DEF Step, MakeClaim, AwaitAddress, FindIpamAddress, WriteParam, Patch, Crash, vars
<1>2. ASSUME NEW n \in Machines, Visit(n) \/ DeleteVM(n) \/ ObjectGone(n)
      PROVE  address' = address
  BY <1>2 DEF Visit, DeleteVM, ObjectGone
<1> QED
  BY <1>1, <1>2 DEF Next

LEMMA UniqueStep ==
    ASSUME TypeInv, UniqueInv, [Next]_vars
    PROVE  UniqueInv'
<1>0. address \in [Claims -> IPs \cup {Nil}]
  BY DEF TypeInv, TypeOK
<1>1. CASE address' = address
  BY <1>1 DEF UniqueInv
<1>2. ASSUME NEW e \in Claims, Bind(e) PROVE UniqueInv'
  <2>1. PICK ip \in IPs : /\ \A d \in Claims : address[d] # ip
                          /\ address' = [address EXCEPT ![e] = ip]
    BY <1>2 DEF Bind
  <2> QED
    BY <1>0, <2>1 DEF UniqueInv
<1>3. ASSUME NEW e \in Claims, Withdraw(e) \/ Collect(e) PROVE UniqueInv'
  <2>1. address' = [address EXCEPT ![e] = Nil]
    BY <1>3 DEF Withdraw, Collect
  <2> QED
    BY <1>0, <2>1 DEF UniqueInv
<1> QED
  BY <1>1, <1>2, <1>3, AddressSteps

\* What a step may do to the VM of a machine: nothing, destroy it, or write one
\* parameter when the visit is about that machine.
LEMMA GuestSteps ==
    ASSUME TypeInv, [Next]_vars, NEW m \in Machines
    PROVE  \/ guest'[m] = guest[m]
           \/ guest'[m] = Empty /\ machine'[m] = "vmGone"
           \/ /\ m = cur /\ WriteParam /\ machine[m] = "live" /\ m \notin provided
              /\ \E p \in todo :
                    /\ pc' # "idle" => todo' = todo \ {p} /\ found' = found /\ cur' = cur
                    /\ guest'[m].written = guest[m].written \cup {p}
                    /\ guest'[m].metadata =
                          IF p = "metadata" THEN Metadata(m, found) ELSE guest[m].metadata
<1>1. CASE WriteParam
  <2>1. pc = "write" /\ cur \in Machines /\ machine[cur] = "live" /\ cur \notin provided
    BY <1>1, CurType DEF WriteParam, TypeInv, VisitInv
  <2>2. todo \subseteq Params
    BY DEF TypeInv, TypeOK
  <2>3. PICK p \in todo :
          \/ /\ guest' = Written(p)
             /\ \/ /\ NoUpset /\ todo' = todo \ {p}
                   /\ pc' = (IF todo' = {} THEN "patch" ELSE "write")
                   /\ UNCHANGED <<cur, index, found>>
                \/ Upset("lostReply") /\ Over
          \/ CallFails /\ UNCHANGED guest
    BY <1>1 DEF WriteParam
  <2>4. CASE guest' = guest
    BY <2>4
  <2>5. CASE guest' = Written(p)
    <3>1. /\ \A n \in Machines \ {cur} : Written(p)[n] = guest[n]
          /\ Written(p)[cur].written = guest[cur].written \cup {p}
          /\ Written(p)[cur].metadata =
                IF p = "metadata" THEN Metadata(cur, found) ELSE guest[cur].metadata
      BY <2>1, <2>2, <2>3, WrittenIs DEF TypeInv
    <3>2. \/ guest' = guest
          \/ pc' # "idle" => todo' = todo \ {p} /\ found' = found /\ cur' = cur
      BY <2>3 DEF Over, CallFails
    <3> HIDE DEF Written
    <3>3. CASE m = cur
      BY <1>1, <2>1, <2>5, <3>1, <3>2, <3>3
    <3>4. CASE m # cur
      BY <2>5, <3>1, <3>4
    <3> QED
      BY <3>3, <3>4
  <2> QED
    BY <2>3, <2>4, <2>5
<1>2. ASSUME NEW n \in Machines, DeleteVM(n)
      PROVE  guest'[m] = guest[m] \/ (guest'[m] = Empty /\ machine'[m] = "vmGone")
  BY <1>2 DEF DeleteVM, TypeInv, TypeOK
<1>3. CASE MakeClaim \/ AwaitAddress \/ FindIpamAddress \/ Patch \/ Crash \/ UNCHANGED vars
  BY <1>3 DEF MakeClaim, AwaitAddress, FindIpamAddress, Patch, Crash, vars
<1>4. ASSUME NEW n \in Machines, Visit(n) \/ ObjectGone(n) PROVE guest' = guest
  BY <1>4 DEF Visit, ObjectGone
<1>5. ASSUME NEW c \in Claims, Bind(c) \/ Withdraw(c) \/ Collect(c) PROVE guest' = guest
  BY <1>5 DEF Bind, Withdraw, Collect
<1> QED
  BY <1>1, <1>2, <1>3, <1>4, <1>5 DEF Next, Step

\* A machine only leaves the live ones, and its object goes after its VM.
LEMMA MachineSteps ==
    ASSUME TypeInv, [Next]_vars, NEW m \in Machines
    PROVE  \/ machine'[m] = machine[m]
           \/ machine[m] = "live" /\ machine'[m] = "vmGone" /\ guest'[m] = Empty
           \/ machine[m] = "vmGone" /\ machine'[m] = "gone" /\ guest' = guest
<1>1. ASSUME NEW n \in Machines, DeleteVM(n) PROVE
           \/ machine'[m] = machine[m]
           \/ machine[m] = "live" /\ machine'[m] = "vmGone" /\ guest'[m] = Empty
  BY <1>1 DEF DeleteVM, TypeInv, TypeOK
<1>2. ASSUME NEW n \in Machines, ObjectGone(n) PROVE
           \/ machine'[m] = machine[m]
           \/ machine[m] = "vmGone" /\ machine'[m] = "gone" /\ guest' = guest
  BY <1>2 DEF ObjectGone, Finalized, TypeInv, TypeOK
<1>3. CASE Step \/ Crash \/ UNCHANGED vars
  BY <1>3 DEF Step, MakeClaim, AwaitAddress, FindIpamAddress, WriteParam, Patch, Crash, vars
<1>4. ASSUME NEW n \in Machines, Visit(n) PROVE machine' = machine
  BY <1>4 DEF Visit
<1>5. ASSUME NEW c \in Claims, Bind(c) \/ Withdraw(c) \/ Collect(c) PROVE machine' = machine
  BY <1>5 DEF Bind, Withdraw, Collect
<1> QED
  BY <1>1, <1>2, <1>3, <1>4, <1>5 DEF Next

LEMMA EmptyStep ==
    ASSUME TypeInv, EmptyInv, [Next]_vars
    PROVE  EmptyInv'
<1> SUFFICES ASSUME NEW m \in Machines, machine'[m] # "live" PROVE guest'[m] = Empty
  BY DEF EmptyInv
<1>1. CASE machine[m] = "live"
  BY <1>1, MachineSteps
<1>2. CASE machine[m] # "live"
  BY <1>2, GuestSteps DEF EmptyInv
<1> QED
  BY <1>1, <1>2

\* Addresses that were not taken back stay with a machine until it is gone, where
\* the claim is its own.
LEMMA AddressStays ==
    ASSUME TypeInv, OwnerInv, [Next]_vars, "withdraw" \notin upsets',
           NEW m \in Machines, NEW name \in Names(m), OwnClaim(m, name), machine[m] # "gone",
           address[ClaimName(m, name)] # Nil
    PROVE  address'[ClaimName(m, name)] = address[ClaimName(m, name)]
<1>1. ClaimName(m, name) \in Claims /\ address \in [Claims -> IPs \cup {Nil}]
  BY ClaimType DEF TypeInv, TypeOK
<1>2. ASSUME NEW c \in Claims, Bind(c)
      PROVE  address'[ClaimName(m, name)] = address[ClaimName(m, name)]
  BY <1>1, <1>2 DEF Bind
<1>3. ASSUME NEW c \in Claims, Withdraw(c) PROVE FALSE
  BY <1>3 DEF Withdraw, Upset
<1>4. ASSUME NEW c \in Claims, Collect(c)
      PROVE  address'[ClaimName(m, name)] = address[ClaimName(m, name)]
  <2>1. claim[ClaimName(m, name)] \in {m, Nil}
    BY DEF OwnerInv
  <2>2. c # ClaimName(m, name)
    BY <1>4, <2>1, AddressingAssumption DEF Collect
  <2> QED
    BY <1>1, <1>4, <2>2 DEF Collect
<1> QED
  BY <1>2, <1>3, <1>4, AddressSteps

LEMMA CalmBefore ==
    ASSUME [Next]_vars, "withdraw" \notin upsets'
    PROVE  "withdraw" \notin upsets
<1>1. ASSUME NoUpset \/ (\E kind \in UpsetKinds : Upset(kind)) PROVE "withdraw" \notin upsets
  BY <1>1 DEF NoUpset, Upset
<1>2. CASE Step \/ Crash
  <2>1. NoUpset \/ (\E kind \in UpsetKinds : Upset(kind))
    BY <1>2 DEF Step, MakeClaim, AwaitAddress, FindIpamAddress, WriteParam, Patch, Crash, CallFails, UpsetKinds
  <2> QED
    BY <1>1, <2>1
<1>3. ASSUME NEW m \in Machines, Visit(m) \/ DeleteVM(m) \/ ObjectGone(m) PROVE "withdraw" \notin upsets
  BY <1>3 DEF Visit, DeleteVM, ObjectGone
<1>4. ASSUME NEW c \in Claims, Bind(c) \/ Withdraw(c) \/ Collect(c) PROVE "withdraw" \notin upsets
  BY <1>4 DEF Bind, Withdraw, Collect, Upset
<1>5. CASE UNCHANGED vars
  BY <1>5 DEF vars
<1> QED
  BY <1>2, <1>3, <1>4, <1>5 DEF Next

-----------------------------------------------------------------------------
(* What visits know of addresses, and what they write.                       *)

\* While no address is taken back, those in the metadata of a VM, and those that
\* a visit has found, are the ones that the machine's own claims have.
HeldInv ==
    "withdraw" \notin upsets =>
        /\ \A m \in Machines : \A name \in Names(m) :
              OwnClaim(m, name) /\ guest[m].metadata # Nil /\ guest[m].metadata.addresses[name] # Nil =>
                  address[ClaimName(m, name)] = guest[m].metadata.addresses[name]
        /\ pc # "idle" => \A name \in Names(cur) :
              OwnClaim(cur, name) /\ found[name] # Nil => address[ClaimName(cur, name)] = found[name]

Ipam(j) ==
    /\ j \in DOMAIN Ethernets[cur] /\ Ethernets[cur][j].ipam
    /\ OwnClaim(cur, Ethernets[cur][j].name)

\* A visit has waited for the addresses of the ethernets it is past ...
AnsweredInv ==
    pc # "idle" =>
        /\ index \in Nat \ {0}
        /\ "withdraw" \notin upsets =>
              \A j \in DOMAIN Ethernets[cur] :
                  Ipam(j) /\ (pc \in {"claim", "wait"} => j < index)
                      => address[ClaimName(cur, Ethernets[cur][j].name)] # Nil

\* ... and later finds them.
FoundInv ==
    "withdraw" \notin upsets /\ pc \in {"lookup", "write", "patch"} =>
        \A j \in DOMAIN Ethernets[cur] :
            Ipam(j) /\ (pc = "lookup" => j < index) => found[Ethernets[cur][j].name] # Nil

LEMMA FoundSteps ==
    ASSUME TypeInv, [Next]_vars, pc' # "idle"
    PROVE  \/ /\ pc = "idle" /\ pc' = "claim" /\ index' = 1 /\ address' = address /\ cur' \in Machines
              /\ found' = [name \in Names(cur') |-> Nil]
           \/ pc # "idle" /\ cur' = cur /\ found' = found
           \/ /\ FindIpamAddress /\ cur' = cur /\ address' = address /\ pc' = "lookup"
              /\ index \in DOMAIN Ethernets[cur] /\ index' = index + 1
              /\ found' = [found EXCEPT ![Ethernet.name] = address[Name]]
<1>1. ASSUME NEW m \in Machines, Visit(m)
      PROVE  /\ pc = "idle" /\ pc' = "claim" /\ index' = 1 /\ address' = address /\ cur' \in Machines
             /\ found' = [name \in Names(cur') |-> Nil]
  BY <1>1 DEF Visit
<1>2. CASE FindIpamAddress
  BY <1>2 DEF FindIpamAddress, CallFails, Over
<1>3. CASE MakeClaim \/ AwaitAddress \/ WriteParam
  BY <1>3 DEF MakeClaim, AwaitAddress, WriteParam, CallFails, Over, Goto
<1>4. CASE Patch \/ Crash
  BY <1>4 DEF Patch, Crash, Over
<1>5. ASSUME NEW m \in Machines, DeleteVM(m) \/ ObjectGone(m) PROVE FALSE
  BY <1>5 DEF DeleteVM, ObjectGone, visitVars
<1>6. ASSUME NEW c \in Claims, Bind(c) \/ Withdraw(c) \/ Collect(c) PROVE UNCHANGED visitVars
  BY <1>6 DEF Bind, Withdraw, Collect
<1>7. UNCHANGED vars => UNCHANGED visitVars
  BY DEF vars
<1>8. UNCHANGED visitVars => pc # "idle" /\ cur' = cur /\ found' = found
  BY DEF visitVars
<1> QED
  BY <1>1, <1>2, <1>3, <1>4, <1>5, <1>6, <1>7, <1>8 DEF Next, Step

LEMMA HeldStep ==
    ASSUME TypeInv, OwnerInv, EmptyInv, HeldInv, [Next]_vars
    PROVE  HeldInv'
<1> SUFFICES ASSUME "withdraw" \notin upsets' PROVE HeldInv'
  BY DEF HeldInv
<1>0. "withdraw" \notin upsets
  BY CalmBefore
<1>1. ASSUME NEW m \in Machines, NEW name \in Names(m), OwnClaim(m, name),
             guest'[m].metadata # Nil, guest'[m].metadata.addresses[name] # Nil
      PROVE  address'[ClaimName(m, name)] = guest'[m].metadata.addresses[name]
  <2>1. CASE guest'[m].metadata = guest[m].metadata
    <3>1. guest[m].metadata # Nil /\ guest[m].metadata.addresses[name] # Nil
      BY <1>1, <2>1
    <3>2. address[ClaimName(m, name)] = guest[m].metadata.addresses[name]
      BY <1>0, <1>1, <3>1 DEF HeldInv
    <3>3. machine[m] # "gone"
      BY <3>1 DEF EmptyInv, Empty
    <3>4. address'[ClaimName(m, name)] = address[ClaimName(m, name)]
      BY <1>1, <3>1, <3>2, <3>3, AddressStays
    <3> QED
      BY <2>1, <3>2, <3>4
  <2>2. CASE guest'[m] = Empty
    BY <1>1, <2>2 DEF Empty
  <2>3. CASE m = cur /\ WriteParam /\ guest'[m].metadata = Metadata(m, found)
    <3>1. pc # "idle" /\ address' = address
      BY <2>3 DEF WriteParam
    <3>2. found \in Lookup(m)
      BY <2>3, <3>1, CurType DEF TypeInv
    <3>3. guest'[m].metadata.addresses = found
      BY <2>3, <3>2, MetadataType
    <3>4. found[name] # Nil
      BY <1>1, <3>3
    <3> QED
      BY <1>0, <1>1, <2>3, <3>1, <3>3, <3>4 DEF HeldInv
  <2> QED
    BY <2>1, <2>2, <2>3, GuestSteps
<1>2. ASSUME pc' # "idle", NEW name \in Names(cur'), OwnClaim(cur', name), found'[name] # Nil
      PROVE  address'[ClaimName(cur', name)] = found'[name]
  <2>1. CASE found' = [n \in Names(cur') |-> Nil]
    BY <1>2, <2>1
  <2>2. CASE pc # "idle" /\ cur' = cur /\ found' = found
    <3>1. cur \in Machines /\ machine[cur] = "live"
      BY <2>2, CurType DEF TypeInv
    <3>2. address[ClaimName(cur, name)] = found[name] /\ found[name] # Nil /\ name \in Names(cur)
      BY <1>0, <1>2, <2>2 DEF HeldInv
    <3>3. address'[ClaimName(cur, name)] = address[ClaimName(cur, name)]
      BY <1>2, <2>2, <3>1, <3>2, AddressStays
    <3> QED
      BY <2>2, <3>2, <3>3
  <2>3. CASE /\ FindIpamAddress /\ cur' = cur /\ address' = address /\ index \in DOMAIN Ethernets[cur]
             /\ found' = [found EXCEPT ![Ethernet.name] = address[Name]]
    <3>1. pc # "idle"
      BY <2>3 DEF FindIpamAddress
    <3>2. found \in Lookup(cur) /\ Ethernet.name \in Names(cur)
      BY <2>3, <3>1, CurType DEF TypeInv
    <3>3. CASE name = Ethernet.name
      BY <2>3, <3>2, <3>3 DEF Lookup, Name
    <3>4. CASE name # Ethernet.name
      <4>1. found'[name] = found[name]
        BY <1>2, <2>3, <3>2, <3>4 DEF Lookup
      <4> QED
        BY <1>0, <1>2, <2>3, <3>1, <4>1 DEF HeldInv
    <3> QED
      BY <3>3, <3>4
  <2> QED
    BY <1>2, <2>1, <2>2, <2>3, FoundSteps
<1> QED
  BY <1>1, <1>2 DEF HeldInv

LEMMA AnsweredStep ==
    ASSUME TypeInv, OwnerInv, AnsweredInv, [Next]_vars
    PROVE  AnsweredInv'
<1> SUFFICES ASSUME pc' # "idle" PROVE AnsweredInv'
  BY DEF AnsweredInv
<1>1. ASSUME NEW m \in Machines, Visit(m) PROVE AnsweredInv'
  <2>1. pc' = "claim" /\ index' = 1
    BY <1>1 DEF Visit
  <2>2. \A j \in DOMAIN Ethernets[cur'] : ~(j < 1)
    BY <1>1, EthernetIndices DEF Visit
  <2> QED
    BY <2>1, <2>2 DEF AnsweredInv
<1>2. ASSUME pc # "idle"
      PROVE  /\ index \in Nat \ {0} /\ cur \in Machines /\ machine[cur] = "live"
             /\ DOMAIN Ethernets[cur] = 1..Len(Ethernets[cur]) /\ Len(Ethernets[cur]) \in Nat
  BY <1>2, CurType, EthernetIndices DEF TypeInv, AnsweredInv
<1>3. ASSUME pc # "idle", "withdraw" \notin upsets', NEW j \in DOMAIN Ethernets[cur], Ipam(j),
             pc \in {"claim", "wait"} => j < index
      PROVE  address'[ClaimName(cur, Ethernets[cur][j].name)] # Nil
  <2>1. address[ClaimName(cur, Ethernets[cur][j].name)] # Nil
    BY <1>3, CalmBefore DEF AnsweredInv
  <2> QED
    BY <1>2, <1>3, <2>1, EthernetType, AddressStays DEF Ipam
<1>4. CASE MakeClaim
  <2>1. pc = "claim" /\ cur' = cur
    BY <1>4 DEF MakeClaim, CallFails, Over, Goto
  <2>2. \/ index \notin DOMAIN Ethernets[cur] /\ pc' = "lookup" /\ index' = 1
        \/ index \in DOMAIN Ethernets[cur] /\ ~Ipam(index) /\ pc' = "claim" /\ index' = index + 1
        \/ pc' = "wait" /\ index' = index
    BY <1>4 DEF MakeClaim, CallFails, Over, Goto, Ethernet, Ipam
  <2>3. index' \in Nat \ {0}
    BY <1>2, <2>1, <2>2
  <2>4. ASSUME NEW j \in DOMAIN Ethernets[cur], Ipam(j), pc' \in {"claim", "wait"} => j < index'
        PROVE  j < index
    BY <1>2, <2>1, <2>2, <2>4
  <2>5. \A j : Ipam(j)' <=> Ipam(j)
    BY <2>1 DEF Ipam
  <2> QED
    BY <1>3, <2>1, <2>3, <2>4, <2>5 DEF AnsweredInv
<1>5. CASE AwaitAddress
  <2>1. pc = "wait" /\ cur' = cur /\ address[Name] # Nil /\ pc' = "claim" /\ index' = index + 1
    BY <1>5 DEF AwaitAddress, Answered, CallFails, Over, Goto
  <2>2. index' \in Nat \ {0}
    BY <1>2, <2>1
  <2>3. \A j : Ipam(j)' <=> Ipam(j)
    BY <2>1 DEF Ipam
  <2>4. ASSUME "withdraw" \notin upsets', NEW j \in DOMAIN Ethernets[cur], Ipam(j), j < index'
        PROVE  address'[ClaimName(cur, Ethernets[cur][j].name)] # Nil
    <3>1. CASE j = index
      BY <1>5, <2>1, <3>1 DEF AwaitAddress, Name, Ethernet
    <3>2. CASE j # index
      BY <1>2, <1>3, <2>1, <2>4, <3>2
    <3> QED
      BY <3>1, <3>2
  <2> QED
    BY <2>1, <2>2, <2>3, <2>4 DEF AnsweredInv
<1>6. CASE FindIpamAddress \/ WriteParam
  <2>1. pc \in {"lookup", "write"} /\ pc' \in {"lookup", "write", "patch"} /\ cur' = cur
        /\ index' \in {index, index + 1}
    BY <1>6 DEF FindIpamAddress, WriteParam, CallFails, Over
  <2>2. index' \in Nat \ {0}
    BY <1>2, <2>1
  <2>3. \A j : Ipam(j)' <=> Ipam(j)
    BY <2>1 DEF Ipam
  <2> QED
    BY <1>3, <2>1, <2>2, <2>3 DEF AnsweredInv
<1>7. CASE Patch \/ Crash
  BY <1>7 DEF Patch, Crash, Over
<1>8. ASSUME NEW m \in Machines, DeleteVM(m) \/ ObjectGone(m) PROVE FALSE
  BY <1>8 DEF DeleteVM, ObjectGone, visitVars
<1>9. ASSUME UNCHANGED visitVars PROVE AnsweredInv'
  <2>1. UNCHANGED <<pc, cur, index>> /\ pc # "idle"
    BY <1>9 DEF visitVars
  <2>2. \A j : Ipam(j)' <=> Ipam(j)
    BY <2>1 DEF Ipam
  <2> QED
    BY <1>2, <1>3, <2>1, <2>2 DEF AnsweredInv
<1>10. ASSUME NEW c \in Claims, Bind(c) \/ Withdraw(c) \/ Collect(c) PROVE UNCHANGED visitVars
  BY <1>10 DEF Bind, Withdraw, Collect
<1>11. UNCHANGED vars => UNCHANGED visitVars
  BY DEF vars
<1> QED
  BY <1>1, <1>4, <1>5, <1>6, <1>7, <1>8, <1>9, <1>10, <1>11 DEF Next, Step

LEMMA FoundStep ==
    ASSUME TypeInv, AnsweredInv, FoundInv, [Next]_vars
    PROVE  FoundInv'
<1> SUFFICES ASSUME "withdraw" \notin upsets', pc' \in {"lookup", "write", "patch"}
             PROVE  FoundInv'
  BY DEF FoundInv
<1>0. "withdraw" \notin upsets
  BY CalmBefore
<1>1. CASE MakeClaim
  <2>1. pc' = "lookup" /\ index' = 1 /\ cur' = cur
    BY <1>1 DEF MakeClaim, CallFails, Over, Goto
  <2>2. pc # "idle"
    BY <1>1 DEF MakeClaim
  <2>3. \A j \in DOMAIN Ethernets[cur] : ~(j < 1)
    BY <2>2, CurType, EthernetIndices DEF TypeInv
  <2> QED
    BY <2>1, <2>3 DEF FoundInv
<1>2. CASE FindIpamAddress
  <2>1. pc = "lookup" /\ cur' = cur
    BY <1>2 DEF FindIpamAddress, CallFails, Over
  <2>2. /\ index \in Nat \ {0} /\ cur \in Machines /\ found \in Lookup(cur)
        /\ DOMAIN Ethernets[cur] = 1..Len(Ethernets[cur]) /\ Len(Ethernets[cur]) \in Nat
    BY <2>1, CurType, EthernetIndices DEF TypeInv, AnsweredInv
  <2>3. \A j : Ipam(j)' <=> Ipam(j)
    BY <2>1 DEF Ipam
  <2>4. \A j \in DOMAIN Ethernets[cur] : Ipam(j) /\ j < index => found[Ethernets[cur][j].name] # Nil
    BY <1>0, <2>1 DEF FoundInv
  <2>5. CASE /\ index \in DOMAIN Ethernets[cur] /\ index' = index + 1
             /\ found' = [found EXCEPT ![Ethernet.name] = address[Name]]
    <3>1. ASSUME NEW j \in DOMAIN Ethernets[cur], Ipam(j), j < index'
          PROVE  found'[Ethernets[cur][j].name] # Nil
      <4>1. Ethernets[cur][j].name \in Names(cur) /\ Ethernet.name \in Names(cur)
        BY <2>2, <2>5, EthernetType DEF Ethernet
      <4>2. CASE Ethernets[cur][j].name = Ethernet.name
        <5>1. found'[Ethernets[cur][j].name] = address[ClaimName(cur, Ethernets[cur][j].name)]
          BY <2>2, <2>5, <4>1, <4>2 DEF Lookup, Name
        <5> QED
          BY <1>0, <2>1, <3>1, <5>1 DEF AnsweredInv
      <4>3. CASE Ethernets[cur][j].name # Ethernet.name
        <5>1. found'[Ethernets[cur][j].name] = found[Ethernets[cur][j].name]
          BY <2>2, <2>5, <4>1, <4>3 DEF Lookup
        <5>2. j # index
          BY <4>3 DEF Ethernet
        <5> QED
          BY <2>2, <2>4, <2>5, <3>1, <5>1, <5>2
      <4> QED
        BY <4>2, <4>3
    <3>2. pc' = "lookup"
      BY <1>2, <2>1, <2>5 DEF FindIpamAddress, CallFails, Over
    <3> QED
      BY <2>1, <2>3, <3>1, <3>2 DEF FoundInv
  <2>6. CASE index \notin DOMAIN Ethernets[cur] /\ pc' = "write" /\ found' = found
    <3>1. \A j \in DOMAIN Ethernets[cur] : j < index
      BY <2>2, <2>6
    <3> QED
      BY <2>1, <2>3, <2>4, <2>6, <3>1 DEF FoundInv
  <2> QED
    BY <1>2, <2>5, <2>6 DEF FindIpamAddress, CallFails, Over
<1>3. CASE WriteParam
  <2>1. pc = "write" /\ pc' \in {"write", "patch"} /\ cur' = cur /\ found' = found
    BY <1>3 DEF WriteParam, CallFails, Over
  <2> QED
    BY <1>0, <2>1 DEF FoundInv, Ipam
<1>4. CASE AwaitAddress \/ Patch \/ Crash
  BY <1>4 DEF AwaitAddress, Patch, Crash, CallFails, Over, Goto
<1>5. ASSUME NEW m \in Machines, Visit(m) \/ DeleteVM(m) \/ ObjectGone(m) PROVE FALSE
  BY <1>5 DEF Visit, DeleteVM, ObjectGone, visitVars
<1>6. ASSUME UNCHANGED visitVars PROVE FoundInv'
  BY <1>0, <1>6 DEF FoundInv, Ipam, visitVars
<1>7. ASSUME NEW c \in Claims, Bind(c) \/ Withdraw(c) \/ Collect(c) PROVE UNCHANGED visitVars
  BY <1>7 DEF Bind, Withdraw, Collect
<1>8. UNCHANGED vars => UNCHANGED visitVars
  BY DEF vars
<1> QED
  BY <1>1, <1>2, <1>3, <1>4, <1>5, <1>6, <1>7, <1>8 DEF Next, Step

\* The parameters that are no longer to be written have been written, all of
\* them with what this visit has found.
WrittenInv ==
    pc \in {"write", "patch"} =>
        /\ Params \ todo \subseteq guest[cur].written
        /\ "metadata" \notin todo => guest[cur].metadata = Metadata(cur, found)

LEMMA WrittenStep ==
    ASSUME TypeInv, WrittenInv, [Next]_vars
    PROVE  WrittenInv'
<1> SUFFICES ASSUME pc' \in {"write", "patch"} PROVE WrittenInv'
  BY DEF WrittenInv
<1>1. CASE FindIpamAddress
  BY <1>1, AddressingAssumption DEF FindIpamAddress, CallFails, Over, WrittenInv
<1>2. CASE WriteParam
  <2>1. pc = "write" /\ cur \in Machines
    BY <1>2, CurType DEF WriteParam, TypeInv
  <2>2. /\ Params \ todo \subseteq guest[cur].written
        /\ "metadata" \notin todo => guest[cur].metadata = Metadata(cur, found)
    BY <2>1 DEF WrittenInv
  <2>3. PICK p \in todo : /\ guest' = Written(p) /\ todo' = todo \ {p} /\ UNCHANGED <<cur, index, found>>
    BY <1>2 DEF WriteParam, CallFails, Over
  <2>4. /\ guest'[cur].written = guest[cur].written \cup {p}
        /\ guest'[cur].metadata = IF p = "metadata" THEN Metadata(cur, found) ELSE guest[cur].metadata
    <3>1. p \in Params
      BY DEF TypeInv, TypeOK
    <3> QED
      BY <2>1, <2>3, <3>1, WrittenIs DEF TypeInv
  <2>5. Params \ todo' \subseteq guest'[cur].written
    BY <2>2, <2>3, <2>4
  <2>6. "metadata" \notin todo' => guest'[cur].metadata = Metadata(cur, found)
    BY <2>2, <2>3, <2>4
  <2> QED
    BY <2>3, <2>5, <2>6 DEF WrittenInv, Metadata, NodeIP
<1>3. CASE MakeClaim \/ AwaitAddress \/ Patch \/ Crash
  BY <1>3 DEF MakeClaim, AwaitAddress, Patch, Crash, CallFails, Over, Goto
<1>4. ASSUME NEW m \in Machines, Visit(m) \/ DeleteVM(m) \/ ObjectGone(m) PROVE FALSE
  BY <1>4 DEF Visit, DeleteVM, ObjectGone, visitVars
<1>5. ASSUME UNCHANGED visitVars, guest' = guest PROVE WrittenInv'
  BY <1>5 DEF WrittenInv, visitVars, Metadata, NodeIP
<1>6. ASSUME NEW c \in Claims, Bind(c) \/ Withdraw(c) \/ Collect(c)
      PROVE  UNCHANGED visitVars /\ guest' = guest
  BY <1>6 DEF Bind, Withdraw, Collect
<1>7. UNCHANGED vars => UNCHANGED visitVars /\ guest' = guest
  BY DEF vars
<1> QED
  BY <1>1, <1>2, <1>3, <1>4, <1>5, <1>6, <1>7 DEF Next, Step

\* The node's address in a VM's metadata is that of the addresses next to it.
NodeInv ==
    \A m \in Machines : guest[m].metadata # Nil =>
        /\ guest[m].metadata.addresses \in Lookup(m)
        /\ guest[m].metadata.nodeIP = NodeIP(m, guest[m].metadata.addresses)

LEMMA NodeStep ==
    ASSUME TypeInv, NodeInv, [Next]_vars
    PROVE  NodeInv'
<1> SUFFICES ASSUME NEW m \in Machines, guest'[m].metadata # Nil
             PROVE  /\ guest'[m].metadata.addresses \in Lookup(m)
                    /\ guest'[m].metadata.nodeIP = NodeIP(m, guest'[m].metadata.addresses)
  BY DEF NodeInv, NodeIP
<1>1. CASE guest'[m].metadata = guest[m].metadata
  BY <1>1 DEF NodeInv
<1>2. CASE guest'[m] = Empty
  BY <1>2 DEF Empty
<1>3. CASE m = cur /\ WriteParam /\ guest'[m].metadata = Metadata(m, found)
  <2>1. found \in Lookup(m)
    BY <1>3, CurType DEF WriteParam, TypeInv
  <2> QED
    BY <1>3, <2>1, MetadataType
<1> QED
  BY <1>1, <1>2, <1>3, GuestSteps

\* What ProvidedComplete promises an address to.
Asked(m, j) == Ethernets[m][j].ipam /\ OwnClaim(m, Ethernets[m][j].name)

\* A machine that is recorded as provided has everything, as long as it is live.
DeliveredInv ==
    "withdraw" \notin upsets =>
        \A m \in provided : machine[m] = "live" =>
            /\ guest[m].written = Params /\ guest[m].metadata # Nil
            /\ \A j \in DOMAIN Ethernets[m] : Asked(m, j) =>
                  guest[m].metadata.addresses[Ethernets[m][j].name] # Nil

LEMMA DeliveredStep ==
    ASSUME TypeInv, FoundInv, WrittenInv, DeliveredInv, [Next]_vars
    PROVE  DeliveredInv'
<1> SUFFICES ASSUME "withdraw" \notin upsets', NEW m \in provided', machine'[m] = "live"
             PROVE  /\ guest'[m].written = Params /\ guest'[m].metadata # Nil
                    /\ \A j \in DOMAIN Ethernets[m] : Asked(m, j) =>
                          guest'[m].metadata.addresses[Ethernets[m][j].name] # Nil
  BY DEF DeliveredInv
<1>0. "withdraw" \notin upsets
  BY CalmBefore
<1>1. CASE Patch /\ m = cur /\ m \notin provided
  <2>1. /\ pc = "patch" /\ guest' = guest /\ cur \in Machines /\ found \in Lookup(cur)
        /\ todo = {}
    BY <1>1, CurType DEF Patch, TypeInv, VisitInv
  <2>2. guest[cur].written = Params /\ guest[cur].metadata = Metadata(cur, found)
    <3>1. Params \subseteq guest[cur].written /\ guest[cur].metadata = Metadata(cur, found)
      BY <2>1 DEF WrittenInv
    <3>2. guest[cur].written \subseteq Params
      BY <2>1 DEF TypeInv, TypeOK
    <3> QED
      BY <3>1, <3>2
  <2>3. Metadata(cur, found) # Nil /\ Metadata(cur, found).addresses = found
    BY <2>1, MetadataType
  <2>4. \A j \in DOMAIN Ethernets[cur] : Asked(cur, j) => found[Ethernets[cur][j].name] # Nil
    BY <1>0, <2>1 DEF FoundInv, Ipam, Asked
  <2> QED
    BY <1>1, <2>1, <2>2, <2>3, <2>4
<1>2. CASE m \in provided
  <2>1. m \in Machines
    BY <1>2 DEF TypeInv, TypeOK
  <2>2. machine[m] = "live"
    BY <2>1, MachineSteps
  <2>3. guest'[m] = guest[m]
    BY <1>2, <2>1, GuestSteps
  <2> QED
    BY <1>0, <1>2, <2>2, <2>3 DEF DeliveredInv
<1>3. m \in provided \/ (Patch /\ m = cur)
  <2>1. CASE Patch
    BY <2>1 DEF Patch, Provided
  <2>2. CASE MakeClaim \/ AwaitAddress \/ FindIpamAddress \/ WriteParam \/ Crash \/ UNCHANGED vars
    BY <2>2 DEF MakeClaim, AwaitAddress, FindIpamAddress, WriteParam, Crash, vars
  <2>3. ASSUME NEW n \in Machines, Visit(n) \/ DeleteVM(n) \/ ObjectGone(n) PROVE provided' \subseteq provided
    BY <2>3 DEF Visit, DeleteVM, ObjectGone
  <2>4. ASSUME NEW c \in Claims, Bind(c) \/ Withdraw(c) \/ Collect(c) PROVE provided' = provided
    BY <2>4 DEF Bind, Withdraw, Collect
  <2> QED
    BY <2>1, <2>2, <2>3, <2>4 DEF Next, Step
<1> QED
  BY <1>1, <1>2, <1>3

-----------------------------------------------------------------------------
(* The theorems.                                                             *)

AddressingInv ==
    /\ TypeInv /\ OwnerInv /\ UniqueInv /\ EmptyInv /\ HeldInv /\ AnsweredInv
    /\ FoundInv /\ WrittenInv /\ NodeInv /\ DeliveredInv

LEMMA AddressingInvariant == Spec => []AddressingInv
<1>1. Init => AddressingInv
  <2> SUFFICES ASSUME Init PROVE AddressingInv
    OBVIOUS
  <2>1. TypeInv
    BY TypeInit
  <2>2. OwnerInv /\ UniqueInv /\ EmptyInv
    BY ClaimType DEF Init, OwnerInv, UniqueInv, EmptyInv
  <2>3. \A m \in Machines : guest[m].metadata = Nil
    BY DEF Init, Empty
  <2>4. HeldInv /\ NodeInv
    BY <2>3 DEF Init, HeldInv, NodeInv
  <2>5. AnsweredInv /\ FoundInv /\ WrittenInv /\ DeliveredInv
    BY DEF Init, AnsweredInv, FoundInv, WrittenInv, DeliveredInv
  <2> QED
    BY <2>1, <2>2, <2>4, <2>5 DEF AddressingInv
<1>2. AddressingInv /\ [Next]_vars => AddressingInv'
  BY TypeStep, OwnerStep, UniqueStep, EmptyStep, HeldStep, AnsweredStep, FoundStep, WrittenStep,
     NodeStep, DeliveredStep DEF AddressingInv
<1> QED
  BY <1>1, <1>2, PTL DEF Spec

\* Of a set without two different members there is at most one.
LEMMA AtMostOne ==
    ASSUME NEW S, \A x, y \in S : x = y
    PROVE  Cardinality(S) <= 1
<1>1. CASE S = {}
  BY <1>1, FS_EmptySet
<1>2. CASE S # {}
  <2>1. PICK x \in S : TRUE
    BY <1>2
  <2>2. S = {x}
    BY <2>1
  <2> QED
    BY <2>2, FS_Singleton
<1> QED
  BY <1>1, <1>2

\* Of the ethernets whose claims have names of their own no two have one address
\* in their VMs' metadata, whatever fails, in whatever order machines, claims and
\* addresses come and go, and whatever other claims coincide.
THEOREM AddressesNotShared == Spec => []NoSharedAddress
<1>1. AddressingInv => NoSharedAddress
  <2> DEFINE Own(ip) == {u \in Used(ip) : OwnClaim(u[1], u[2])}
  <2> SUFFICES ASSUME AddressingInv, "withdraw" \notin upsets, NEW ip \in IPs
               PROVE  Cardinality(Own(ip)) <= 1
    BY DEF NoSharedAddress
  <2>1. ASSUME NEW x \in Own(ip)
        PROVE  \E m \in Machines : \E name \in Names(m) :
                  x = <<m, name>> /\ OwnClaim(m, name) /\ address[ClaimName(m, name)] = ip
    <3>1. PICK m \in Machines : /\ guest[m].metadata # Nil
                                /\ x \in {<<m, name>> : name \in {n \in Names(m) :
                                                          guest[m].metadata.addresses[n] = ip}}
      BY DEF Used
    <3>2. PICK name \in Names(m) : x = <<m, name>> /\ guest[m].metadata.addresses[name] = ip
      BY <3>1
    <3>3. OwnClaim(m, name)
      BY <3>2
    <3> QED
      BY <3>1, <3>2, <3>3, AddressingAssumption DEF AddressingInv, HeldInv
  <2>2. ASSUME NEW x \in Own(ip), NEW y \in Own(ip) PROVE x = y
    <3>1. PICK m \in Machines : \E d \in Names(m) :
             x = <<m, d>> /\ OwnClaim(m, d) /\ address[ClaimName(m, d)] = ip
      BY <2>1
    <3>2. PICK d \in Names(m) : x = <<m, d>> /\ OwnClaim(m, d) /\ address[ClaimName(m, d)] = ip
      BY <3>1
    <3>3. PICK n \in Machines : \E e \in Names(n) : y = <<n, e>> /\ address[ClaimName(n, e)] = ip
      BY <2>1
    <3>4. PICK e \in Names(n) : y = <<n, e>> /\ address[ClaimName(n, e)] = ip
      BY <3>3
    <3>5. ClaimName(m, d) = ClaimName(n, e)
      BY <3>2, <3>4, ClaimType, AddressingAssumption DEF AddressingInv, UniqueInv
    <3> QED
      BY <3>2, <3>4, <3>5, OneClaim
  <2> HIDE DEF Own
  <2> QED
    BY <2>2, AtMostOne
<1> QED
  BY <1>1, AddressingInvariant, PTL

\* A machine that is recorded as having its bootstrap data has all of it, with the
\* address of its claim on every ethernet that asks for one under a name of its
\* own, and with the right one as the node's, while no address is taken back.
THEOREM ProvidedIsComplete == Spec => []ProvidedComplete
<1>1. AddressingInv => ProvidedComplete
  <2> SUFFICES ASSUME AddressingInv, "withdraw" \notin upsets,
                      NEW m \in provided, machine[m] = "live"
               PROVE  /\ guest[m].written = Params
                      /\ guest[m].metadata # Nil
                      /\ \A i \in DOMAIN Ethernets[m] :
                          LET e == Ethernets[m][i]
                              given == guest[m].metadata.addresses[e.name]
                              asked == e.ipam /\ OwnClaim(m, e.name)
                          IN  /\ asked => given # Nil /\ given = address[ClaimName(m, e.name)]
                              /\ asked /\ e.nodeIP
                                 /\ (\A j \in (i+1)..Len(Ethernets[m]) : ~Ethernets[m][j].nodeIP)
                                   => guest[m].metadata.nodeIP = given
    BY DEF ProvidedComplete
  <2>1. m \in Machines
    BY DEF AddressingInv, TypeInv, TypeOK
  <2>2. /\ guest[m].written = Params /\ guest[m].metadata # Nil
        /\ \A j \in DOMAIN Ethernets[m] : Asked(m, j) =>
              guest[m].metadata.addresses[Ethernets[m][j].name] # Nil
    BY DEF AddressingInv, DeliveredInv
  <2>3. ASSUME NEW i \in DOMAIN Ethernets[m], Asked(m, i)
        PROVE  /\ guest[m].metadata.addresses[Ethernets[m][i].name] # Nil
               /\ guest[m].metadata.addresses[Ethernets[m][i].name] =
                      address[ClaimName(m, Ethernets[m][i].name)]
    BY <2>1, <2>2, <2>3, EthernetType DEF AddressingInv, HeldInv, Asked
  <2>4. ASSUME NEW i \in DOMAIN Ethernets[m], Asked(m, i), Ethernets[m][i].nodeIP,
               \A j \in (i+1)..Len(Ethernets[m]) : ~Ethernets[m][j].nodeIP
        PROVE  guest[m].metadata.nodeIP = guest[m].metadata.addresses[Ethernets[m][i].name]
    BY <2>1, <2>2, <2>3, <2>4, NodeIPLast DEF AddressingInv, NodeInv
  <2> QED
    BY <2>2, <2>3, <2>4 DEF Asked
<1> QED
  BY <1>1, AddressingInvariant, PTL
=============================================================================
