------------------------ MODULE NetworkAdaptersProofs ------------------------
(***************************************************************************)
(* Proofs about NetworkAdapters, for any adapters, any list of wanted      *)
(* ones, any template and any number of adverse events.                    *)
(***************************************************************************)
EXTENDS NetworkAdapters, FiniteSetTheorems, FunctionTheorems, TLAPS

-----------------------------------------------------------------------------
(* The adapters of a VM, as functions of its parameters.                     *)

Eths == Seq([Params -> Adapters \cup {Nil}])

ListedIn(e) == {n \in DOMAIN e : e[n]["present"] # Nil}

LooksIn(e, n) == IF e[n]["connectionType"] = e[n]["vnet"] THEN e[n]["vnet"] ELSE Nil

LikeIn(e, a) == {n \in ListedIn(e) : LooksIn(e, n) = a}

\* f is e after parameter p of adapter n was written for a; n is the last one.
Wrote(e, f, n, a, p) ==
    /\ f \in Eths /\ Len(f) = n
    /\ \A k \in 1..(n-1) : f[k] = IF k \in DOMAIN e THEN e[k] ELSE Blank
    /\ \A q \in Params \ {p} : f[n][q] = IF n \in DOMAIN e THEN e[n][q] ELSE Nil
    /\ f[n][p] = a

\* Adapter s+i is the last one or a new one, and what it has is wanted[i]'s.
Free(e, w, s, i) ==
    /\ Len(e) <= s + i
    /\ s + i \in DOMAIN e => \A p \in Params : e[s+i][p] \in {Nil, w[i]}

LEMMA EthIndices ==
    ASSUME NEW e \in Eths
    PROVE  /\ Len(e) \in Nat /\ DOMAIN e = 1..Len(e)
           /\ \A n \in DOMAIN e : \A p \in Params : e[n][p] \in Adapters \cup {Nil}
           /\ IsFiniteSet(ListedIn(e)) /\ Cardinality(ListedIn(e)) \in Nat
<1> DEFINE R == [Params -> Adapters \cup {Nil}]
<1>1. Len(e) \in Nat /\ DOMAIN e = 1..Len(e) /\ (\A n \in DOMAIN e : e[n] \in R)
  <2> HIDE DEF R
  <2> QED
    BY DEF Eths, R
<1>2. IsFiniteSet(1..Len(e))
  BY <1>1, FS_Interval
<1>3. ListedIn(e) \in SUBSET (1..Len(e))
  BY <1>1 DEF ListedIn
<1>4. IsFiniteSet(ListedIn(e))
  BY <1>2, <1>3, FS_Subset
<1> QED
  BY <1>1, <1>4, FS_CardinalityType

\* Writing a parameter of an adapter that is free for a.
LEMMA WriteEffect ==
    ASSUME NEW e \in Eths, NEW f, NEW n \in Nat \ {0}, NEW a \in Adapters, NEW p \in Params,
           Len(e) <= n, n \in DOMAIN e => \A q \in Params : e[n][q] \in {Nil, a},
           Wrote(e, f, n, a, p)
    PROVE  /\ \A q \in Params : f[n][q] \in {Nil, a}
           /\ ListedIn(f) = ListedIn(e) \cup (IF p = "present" THEN {n} ELSE {})
           /\ \A b \in Adapters \ {a} : LikeIn(f, b) = LikeIn(e, b)
           /\ LikeIn(e, a) \subseteq LikeIn(f, a)
           /\ LikeIn(f, a) \subseteq LikeIn(e, a) \cup {n}
<1>1. /\ Len(e) \in Nat /\ DOMAIN e = 1..Len(e) /\ DOMAIN f = 1..n
      /\ \A k \in 1..(n-1) : f[k] = IF k \in DOMAIN e THEN e[k] ELSE Blank
  BY EthIndices DEF Wrote
<1>2. \A q \in Params : f[n][q] \in {Nil, a}
  BY DEF Wrote
<1>3. a # Nil
  BY AdaptersAssumption
<1>4. \A k \in 1..(n-1) : k \notin DOMAIN e => f[k]["present"] = Nil
  BY <1>1 DEF Blank, Params
<1>5. n \in ListedIn(f) <=> (n \in ListedIn(e) \/ p = "present")
  <2>1. CASE p = "present"
    BY <1>1, <1>3, <2>1 DEF ListedIn, Wrote
  <2>2. CASE p # "present"
    BY <1>1, <2>2 DEF ListedIn, Wrote, Params
  <2> QED
    BY <2>1, <2>2
<1>6. \A k \in 1..(n-1) : /\ k \in ListedIn(f) <=> k \in ListedIn(e)
                          /\ k \in ListedIn(e) => LooksIn(f, k) = LooksIn(e, k)
  BY <1>1, <1>4 DEF ListedIn, LooksIn
<1>7. \A k : k \in ListedIn(e) \/ k \in ListedIn(f) => k = n \/ k \in 1..(n-1)
  BY <1>1 DEF ListedIn
<1>8. ListedIn(f) = ListedIn(e) \cup (IF p = "present" THEN {n} ELSE {})
  BY <1>5, <1>6, <1>7
<1>9. LooksIn(f, n) \in {Nil, a} /\ (n \in DOMAIN e => LooksIn(e, n) \in {Nil, a})
  BY <1>2 DEF LooksIn, Params
<1>10. n \in DOMAIN e /\ LooksIn(e, n) = a => LooksIn(f, n) = a
  BY <1>3 DEF LooksIn, Params, Wrote
<1>11. \A b \in Adapters \ {a} : LikeIn(f, b) = LikeIn(e, b)
  <2> SUFFICES ASSUME NEW b \in Adapters \ {a}, NEW k
               PROVE  k \in LikeIn(f, b) <=> k \in LikeIn(e, b)
    OBVIOUS
  <2>1. b # Nil
    BY AdaptersAssumption
  <2>2. n \notin LikeIn(f, b) /\ n \notin LikeIn(e, b)
    BY <1>9, <2>1 DEF LikeIn, ListedIn
  <2> QED
    BY <1>6, <1>7, <2>2 DEF LikeIn
<1>12. LikeIn(e, a) \subseteq LikeIn(f, a)
  <2> SUFFICES ASSUME NEW k \in LikeIn(e, a) PROVE k \in LikeIn(f, a)
    OBVIOUS
  <2>1. k \in ListedIn(f)
    BY <1>8 DEF LikeIn
  <2>2. k \in DOMAIN e /\ LooksIn(e, k) = a
    BY DEF LikeIn, ListedIn
  <2> QED
    BY <1>6, <1>7, <1>10, <2>1, <2>2 DEF LikeIn
<1>13. LikeIn(f, a) \subseteq LikeIn(e, a) \cup {n}
  BY <1>6, <1>7 DEF LikeIn
<1> QED
  BY <1>2, <1>8, <1>11, <1>12, <1>13

-----------------------------------------------------------------------------
(* Where the next adapters go.                                               *)

\* In a visit that counted s adapters and recorded rec, and that is at index k:
\* each adapter still to be added has a free place, which is counted among those
\* that this visit has added as soon as it is listed.
UnderwayIn(e, w, rec, s, k) ==
    /\ s <= Cardinality(ListedIn(e))
    /\ \A i \in DOMAIN w : i >= k /\ w[i] \notin rec =>
          /\ Free(e, w, s, i)
          /\ s + i \in ListedIn(e) => s < Cardinality(ListedIn(e))

\* Between visits: the place that the next visit will compute for an adapter that
\* is missing is free and not listed.
AtRestIn(e, w) ==
    \A i \in DOMAIN w : LikeIn(e, w[i]) = {} =>
        /\ Free(e, w, Cardinality(ListedIn(e)), i)
        /\ Cardinality(ListedIn(e)) + i \notin ListedIn(e)

Lists == Seq(Adapters)

\* Whenever a visit ends, what it leaves is in order for the next one.
LEMMA UnderwayRests ==
    ASSUME NEW e \in Eths, NEW w \in Lists, NEW rec, NEW s \in Nat, NEW k \in Nat,
           UnderwayIn(e, w, rec, s, k),
           \A a \in rec : LikeIn(e, a) # {},
           \A i \in DOMAIN w : i < k => LikeIn(e, w[i]) # {}
    PROVE  AtRestIn(e, w)
<1> DEFINE c == Cardinality(ListedIn(e))
<1>1. c \in Nat /\ Len(e) \in Nat /\ DOMAIN e = 1..Len(e)
  BY EthIndices
<1>2. s <= c
  BY DEF UnderwayIn
<1>3. ListedIn(e) \subseteq DOMAIN e
  BY DEF ListedIn
<1> SUFFICES ASSUME NEW i \in DOMAIN w, LikeIn(e, w[i]) = {}
             PROVE  Free(e, w, c, i) /\ c + i \notin ListedIn(e)
  BY DEF AtRestIn
<1>4. i \in Nat /\ i >= k /\ w[i] \notin rec
  BY DEF Lists
<1>5. Free(e, w, s, i) /\ (s + i \in ListedIn(e) => s < c)
  BY <1>4 DEF UnderwayIn
<1> HIDE DEF c
<1>6. CASE s = c
  BY <1>5, <1>6
<1>7. CASE s < c
  BY <1>1, <1>3, <1>4, <1>5, <1>7 DEF Free
<1> QED
  BY <1>1, <1>2, <1>6, <1>7

LEMMA RestStarts ==
    ASSUME NEW e \in Eths, NEW w \in Lists, AtRestIn(e, w), NEW rec,
           \A a \in Adapters : a \notin rec => LikeIn(e, a) = {}
    PROVE  UnderwayIn(e, w, rec, Cardinality(ListedIn(e)), 1)
<1>1. \A i \in DOMAIN w : w[i] \in Adapters
  BY DEF Lists
<1>2. Cardinality(ListedIn(e)) \in Nat
  BY EthIndices
<1> QED
  BY <1>1, <1>2 DEF UnderwayIn, AtRestIn

LEMMA UnderwayAfterWrite ==
    ASSUME NEW e \in Eths, NEW f, NEW w \in Lists, NEW rec, NEW s \in Nat, NEW k \in DOMAIN w,
           NEW p \in Params,
           UnderwayIn(e, w, rec, s, k), w[k] \notin rec, Wrote(e, f, s + k, w[k], p)
    PROVE  UnderwayIn(f, w, rec, s, k)
<1>1. k \in Nat \ {0} /\ w[k] \in Adapters /\ s + k \in Nat \ {0} /\ (\A i \in DOMAIN w : i \in Nat)
  BY DEF Lists
<1>2. Free(e, w, s, k) /\ (s + k \in ListedIn(e) => s < Cardinality(ListedIn(e)))
  BY <1>1 DEF UnderwayIn
<1>3. /\ \A q \in Params : f[s + k][q] \in {Nil, w[k]}
      /\ ListedIn(f) = ListedIn(e) \cup (IF p = "present" THEN {s + k} ELSE {})
  BY <1>1, <1>2, WriteEffect DEF Free
<1>4. f \in Eths /\ Len(f) = s + k /\ DOMAIN f = 1..(s + k)
  BY EthIndices DEF Wrote
<1>5. /\ IsFiniteSet(ListedIn(e)) /\ Cardinality(ListedIn(e)) \in Nat
      /\ Cardinality(ListedIn(f)) \in Nat /\ s <= Cardinality(ListedIn(e))
  BY <1>4, EthIndices DEF UnderwayIn
<1>6. /\ Cardinality(ListedIn(e)) <= Cardinality(ListedIn(f))
      /\ s + k \in ListedIn(f) => s < Cardinality(ListedIn(f))
  <2>1. CASE ListedIn(f) = ListedIn(e)
    BY <1>2, <1>5, <2>1
  <2>2. CASE s + k \notin ListedIn(e) /\ ListedIn(f) = ListedIn(e) \cup {s + k}
    <3>1. Cardinality(ListedIn(f)) = Cardinality(ListedIn(e)) + 1
      BY <1>5, <2>2, FS_AddElement
    <3> QED
      BY <1>5, <3>1
  <2> QED
    BY <1>3, <2>1, <2>2
<1>7. ASSUME NEW i \in DOMAIN w, i >= k
      PROVE  Free(f, w, s, i) /\ (s + i \in ListedIn(f) => s < Cardinality(ListedIn(f)))
  <2>1. CASE i = k
    BY <1>3, <1>4, <1>6, <2>1 DEF Free
  <2>2. CASE i > k
    <3>1. s + i \notin DOMAIN f /\ Len(f) <= s + i
      BY <1>1, <1>4, <2>2
    <3> QED
      BY <3>1 DEF Free, ListedIn
  <2> QED
    BY <1>1, <1>7, <2>1, <2>2
<1> QED
  BY <1>5, <1>6, <1>7 DEF UnderwayIn

-----------------------------------------------------------------------------
(* The inductive invariant: the places, what is there, and what was added.   *)

VisitInv ==
    /\ pc = "add" => wanted # Nil /\ index \in Nat \ {0}
    /\ pc # "idle" /\ wanted # Nil => ~ContainsAll(status)

RoomInv ==
    wanted # Nil => IF pc = "add" THEN UnderwayIn(eth, wanted, myStatus, start, index)
                                  ELSE AtRestIn(eth, wanted)

\* The parameters that are no longer to do are on the VM.
TodoInv ==
    pc = "add" /\ Missing =>
        \A p \in Params \ todo : Target \in DOMAIN eth /\ eth[Target][p] = wanted[index]

\* The VM has what is recorded, and what the visit has been past.
HaveInv ==
    /\ \A a \in status \cup myStatus : LikeIn(eth, a) # {}
    /\ pc = "add" => \A i \in DOMAIN wanted : i < index => LikeIn(eth, wanted[i]) # {}

\* Of an adapter that this visit found missing, the VM has what the visit added.
AddedInv ==
    pc = "add" => \A a \in Adapters \ myStatus : \A n \in LikeIn(eth, a) :
        \E i \in DOMAIN wanted : n = start + i /\ i <= index /\ wanted[i] = a

Distinct == \A i, j \in DOMAIN wanted : wanted[i] = wanted[j] => i = j

\* An adapter that is missing, at rest, or was, when this visit began, is asked
\* for after all those that were added before.
OrderInv ==
    wanted # Nil /\ Distinct =>
        \A i, j \in DOMAIN wanted : \A m \in LikeIn(eth, wanted[i]) :
            nTemplate < m /\ (IF pc = "add" THEN wanted[i] \in myStatus /\ wanted[j] \notin myStatus
                                            ELSE LikeIn(eth, wanted[j]) = {})
                => i < j

AdaptersInv ==
    /\ TypeOK /\ VisitInv /\ RoomInv /\ TodoInv /\ HaveInv
    /\ AddedInv /\ NoneAddedTwice /\ OrderInv /\ AddedInOrder

-----------------------------------------------------------------------------
(* Types, and what one write does.                                           *)

LEMMA WantedType ==
    ASSUME TypeOK, wanted # Nil
    PROVE  wanted \in Lists /\ \A i \in DOMAIN wanted : i \in Nat \ {0} /\ wanted[i] \in Adapters
<1>1. wanted \in Lists
  BY AdaptersAssumption DEF TypeOK, Lists
<1> QED
  BY <1>1 DEF Lists

LEMMA WriteForm ==
    ASSUME TypeOK, VisitInv, RoomInv, pc = "add", Missing, NEW p \in Params
    PROVE  /\ Target \in Nat \ {0} /\ index \in DOMAIN wanted /\ wanted[index] \in Adapters
           /\ Free(eth, wanted, start, index)
           /\ Wrote(eth, WithParam(Target, p), Target, wanted[index], p)
<1>1. index \in DOMAIN wanted /\ wanted[index] \in Adapters /\ index \in Nat \ {0} /\ wanted # Nil
  BY WantedType DEF VisitInv, Missing
<1>2. Free(eth, wanted, start, index)
  BY <1>1 DEF RoomInv, UnderwayIn, Missing
<1>3. Target \in Nat \ {0} /\ Len(eth) <= Target
  BY <1>1, <1>2 DEF Target, TypeOK, Free
<1>4. eth \in Eths
  BY DEF TypeOK, Eths
<1> DEFINE n == Target
           R == [Params -> Adapters \cup {Nil}]
           f == WithParam(n, p)
           a == wanted[index]
<1>5. Len(eth) \in Nat /\ DOMAIN eth = 1..Len(eth) /\ \A k \in DOMAIN eth : eth[k] \in R
  <2> HIDE DEF R
  <2> QED
    BY <1>4 DEF Eths, R
<1>6. Blank \in R
  BY DEF Blank
<1>7. /\ DOMAIN Grown(n) = 1..n
      /\ \A k \in 1..n : Grown(n)[k] = (IF k \in DOMAIN eth THEN eth[k] ELSE Blank) /\ Grown(n)[k] \in R
  <2> HIDE DEF R
  <2>1. (IF n > Len(eth) THEN n ELSE Len(eth)) = n
    <3>1. n \in Nat /\ Len(eth) \in Nat /\ Len(eth) <= n
      BY <1>3, <1>5
    <3> HIDE DEF n
    <3> QED
      BY <3>1
  <2> QED
    BY <1>5, <1>6, <2>1 DEF Grown
<1>8. f = [Grown(n) EXCEPT ![n] = [Grown(n)[n] EXCEPT ![p] = a]]
  BY DEF WithParam
<1>9. a \in Adapters \cup {Nil} /\ n \in 1..n
  BY <1>1, <1>3
<1>10. [Grown(n)[n] EXCEPT ![p] = a] \in R
  BY <1>7, <1>9
<1> DEFINE g == [Grown(n)[n] EXCEPT ![p] = a]
<1>11. /\ DOMAIN f = 1..n /\ f[n] = g
       /\ \A k \in 1..(n-1) : f[k] = Grown(n)[k]
       /\ \A k \in 1..n : f[k] \in R
       /\ f = [k \in 1..n |-> f[k]]
  <2> HIDE DEF n, R, g
  <2>1. f = [Grown(n) EXCEPT ![n] = g]
    BY <1>8 DEF g
  <2>2. n \in Nat
    BY <1>3 DEF n
  <2>3. DOMAIN f = 1..n /\ f[n] = g /\ \A k \in 1..n : k # n => f[k] = Grown(n)[k]
    <3> HIDE DEF f
    <3> QED
      BY <1>7, <1>9, <2>1
  <2>4. f = [k \in 1..n |-> f[k]]
    BY <2>1, <1>7
  <2> QED
    BY <1>7, <1>10, <2>2, <2>3, <2>4 DEF g
<1>12. f \in Eths /\ Len(f) = n
  <2> HIDE DEF R, f, n
  <2>1. n \in Nat
    BY <1>3 DEF n
  <2> QED
    BY <1>11, <2>1 DEF Eths, R
<1>13. \A k \in 1..(n-1) : f[k] = IF k \in DOMAIN eth THEN eth[k] ELSE Blank
  <2> HIDE DEF f, n, R
  <2>1. n \in Nat
    BY <1>3 DEF n
  <2> QED
    BY <1>7, <1>11, <2>1
<1>14. \A q \in Params \ {p} : g[q] = IF n \in DOMAIN eth THEN eth[n][q] ELSE Nil
  BY <1>7, <1>9 DEF Blank
<1>15. g[p] = a
  BY <1>7, <1>9
<1> HIDE DEF f, g, n, a
<1>16. Wrote(eth, f, n, a, p)
  BY <1>11, <1>12, <1>13, <1>14, <1>15 DEF Wrote
<1> QED
  BY <1>1, <1>2, <1>3, <1>16 DEF f, n, a

LEMMA WriteStep ==
    ASSUME TypeOK, VisitInv, RoomInv, WriteParam
    PROVE  /\ pc = "add" /\ Missing /\ eth \in Eths /\ eth' \in Eths
           /\ UNCHANGED <<status, myStatus, start, index, given>>
           /\ \/ /\ eth' = eth /\ pc' = "patch" /\ todo' = todo
                 /\ nUpsets < MaxUpsets /\ nUpsets' = nUpsets + 1
              \/ \E p \in todo :
                    /\ Wrote(eth, eth', Target, wanted[index], p)
                    /\ \/ pc' = pc /\ todo' = todo \ {p} /\ UNCHANGED nUpsets
                       \/ /\ pc' = "patch" /\ todo' = todo
                          /\ nUpsets < MaxUpsets /\ nUpsets' = nUpsets + 1
<1>1. pc = "add" /\ Missing /\ UNCHANGED <<status, myStatus, start, index, given>>
  BY DEF WriteParam
<1>2. PICK p \in todo :
        \/ /\ eth' = WithParam(Target, p)
           /\ \/ NoUpset /\ todo' = todo \ {p} /\ UNCHANGED pc
              \/ Upset("lostReply") /\ pc' = "patch" /\ UNCHANGED todo
        \/ Upset("call") /\ pc' = "patch" /\ UNCHANGED <<eth, todo>>
  BY DEF WriteParam
<1>3. eth \in Eths /\ p \in Params
  BY DEF TypeOK, Eths
<1>4. Wrote(eth, WithParam(Target, p), Target, wanted[index], p)
  BY <1>1, <1>3, WriteForm
<1>5. CASE Upset("call") /\ pc' = "patch" /\ UNCHANGED <<eth, todo>>
  BY <1>1, <1>3, <1>5 DEF Upset
<1>6. CASE eth' = WithParam(Target, p) /\ NoUpset /\ todo' = todo \ {p} /\ UNCHANGED pc
  BY <1>1, <1>3, <1>4, <1>6 DEF NoUpset, Wrote
<1>7. CASE eth' = WithParam(Target, p) /\ Upset("lostReply") /\ pc' = "patch" /\ UNCHANGED todo
  BY <1>1, <1>3, <1>4, <1>7 DEF Upset, Wrote
<1> QED
  BY <1>2, <1>5, <1>6, <1>7

\* A write, if it did anything, can only have added an adapter like the one that
\* is missing, at its place.
LEMMA WriteAdds ==
    ASSUME TypeOK, VisitInv, RoomInv, WriteParam
    PROVE  /\ \A b \in Adapters : LikeIn(eth, b) \subseteq LikeIn(eth', b)
           /\ LikeIn(eth', wanted[index]) \subseteq LikeIn(eth, wanted[index]) \cup {Target}
           /\ \A b \in Adapters \ {wanted[index]} : LikeIn(eth', b) = LikeIn(eth, b)
           /\ Len(eth) <= Target /\ (eth' # eth => Len(eth') = Target)
<1>1. pc = "add" /\ Missing /\ eth \in Eths /\ eth' \in Eths
  BY WriteStep
<1>2. "present" \in Params
  BY DEF Params
<1>3. /\ Target \in Nat \ {0} /\ index \in DOMAIN wanted /\ wanted[index] \in Adapters
      /\ Free(eth, wanted, start, index)
  BY <1>1, <1>2, WriteForm
<1>4. CASE eth' = eth
  BY <1>3, <1>4 DEF Free, Target
<1>5. ASSUME NEW p \in Params, Wrote(eth, eth', Target, wanted[index], p)
      PROVE  /\ \A b \in Adapters \ {wanted[index]} : LikeIn(eth', b) = LikeIn(eth, b)
             /\ LikeIn(eth, wanted[index]) \subseteq LikeIn(eth', wanted[index])
             /\ LikeIn(eth', wanted[index]) \subseteq LikeIn(eth, wanted[index]) \cup {Target}
             /\ Len(eth) <= Target /\ Len(eth') = Target
  <2> DEFINE n == Target
             a == wanted[index]
  <2>1. Len(eth) <= n /\ (n \in DOMAIN eth => \A q \in Params : eth[n][q] \in {Nil, a})
    BY <1>3 DEF Free, Target
  <2>2. n \in Nat \ {0} /\ a \in Adapters /\ Wrote(eth, eth', n, a, p)
    BY <1>3, <1>5
  <2> HIDE DEF n, a
  <2>3. /\ \A b \in Adapters \ {a} : LikeIn(eth', b) = LikeIn(eth, b)
        /\ LikeIn(eth, a) \subseteq LikeIn(eth', a)
        /\ LikeIn(eth', a) \subseteq LikeIn(eth, a) \cup {n}
    <3>1. n = start + index /\ start \in Nat /\ index \in Nat
      BY DEF n, Target, TypeOK
    <3> QED
      BY <1>1, <2>1, <2>2, <3>1, WriteEffect
  <2> QED
    BY <2>1, <2>2, <2>3 DEF n, a, Wrote
<1>6. eth' = eth \/ \E p \in Params : Wrote(eth, eth', Target, wanted[index], p)
  BY WriteStep DEF TypeOK
<1> QED
  BY <1>4, <1>5, <1>6

LEMMA TypeInit == Init => TypeOK
<1> SUFFICES ASSUME Init PROVE TypeOK
  OBVIOUS
<1> DEFINE R == [Params -> Adapters \cup {Nil}]
<1>1. PICK f \in [1..nTemplate -> Adapters] : eth = [n \in 1..nTemplate |-> Complete(f[n])]
  BY DEF Init
<1>2. nTemplate \in Nat
  BY AdaptersAssumption DEF Init
<1>3. \A n \in 1..nTemplate : Complete(f[n]) \in R
  BY DEF Complete
<1>4. eth \in Seq(R)
  <2> HIDE DEF R
  <2> QED
    BY <1>1, <1>2, <1>3
<1> QED
  BY <1>4, AdaptersAssumption DEF Init, TypeOK

LEMMA RecordingType ==
    ASSUME TypeOK
    PROVE  Recording \subseteq Adapters
<1>1. eth \in Eths
  BY DEF TypeOK, Eths
<1>2. \A n \in Listed : eth[n]["vnet"] \in Adapters \cup {Nil}
  BY <1>1, EthIndices DEF Listed, Params
<1>3. \A n \in Listed : Looks(n) \in Adapters \cup {Nil}
  BY <1>2 DEF Looks
<1> QED
  BY <1>3 DEF Recording

LEMMA TypeStep ==
    ASSUME TypeOK, VisitInv, RoomInv, [Next]_vars
    PROVE  TypeOK'
<1>1. MaxUpsets \in Nat /\ MaxOnVM \in Nat /\ nUpsets \in Nat
  BY AdaptersAssumption DEF TypeOK
<1>2. CASE GetAllNICDevices
  <2>1. Cardinality(Listed) \in Nat
    <3>1. eth \in Eths
      BY DEF TypeOK, Eths
    <3> QED
      BY <3>1, EthIndices DEF Listed, ListedIn
  <2> QED
    BY <1>1, <1>2, <2>1, RecordingType DEF GetAllNICDevices, TypeOK, Upset, NoUpset, visitVars, given
<1>3. CASE WriteParam
  <2>1. /\ eth' \in Eths
        /\ UNCHANGED <<status, myStatus, start, index, given>>
        /\ todo' \subseteq todo /\ pc' \in {pc, "patch"}
        /\ nUpsets' = nUpsets \/ (nUpsets < MaxUpsets /\ nUpsets' = nUpsets + 1)
    BY <1>3, WriteStep
  <2> QED
    BY <1>1, <2>1 DEF TypeOK, given, Eths
<1>4. CASE NextAdapter
  BY <1>4 DEF NextAdapter, TypeOK, given
<1>5. CASE Patch
  BY <1>1, <1>5 DEF Patch, Over, TypeOK, Upset, NoUpset, given
<1>6. CASE Crash
  BY <1>1, <1>6 DEF Crash, Over, TypeOK, Upset, given
<1>7. CASE UNCHANGED vars
  BY <1>7 DEF vars, visitVars, given, TypeOK
<1> QED
  BY <1>2, <1>3, <1>4, <1>5, <1>6, <1>7 DEF Next, Handler

LEMMA VisitStep ==
    ASSUME TypeOK, VisitInv, RoomInv, [Next]_vars
    PROVE  VisitInv'
<1>1. CASE GetAllNICDevices
  BY <1>1 DEF GetAllNICDevices, VisitInv, visitVars, given, Reconciled, ContainsAll
<1>2. CASE WriteParam
  BY <1>2, WriteStep DEF VisitInv, given, ContainsAll
<1>3. CASE NextAdapter
  BY <1>3 DEF NextAdapter, VisitInv, given, ContainsAll, TypeOK
<1>4. CASE Patch \/ Crash
  BY <1>4 DEF Patch, Crash, Over, VisitInv
<1>5. CASE UNCHANGED vars
  BY <1>5 DEF vars, visitVars, given, VisitInv, ContainsAll
<1> QED
  BY <1>1, <1>2, <1>3, <1>4, <1>5 DEF Next, Handler

-----------------------------------------------------------------------------
(* What the steps do to what the visit has done and to what it will do.      *)

\* An adapter whose parameters are all on the VM is found there.
LEMMA DoneIsThere ==
    ASSUME TypeOK, VisitInv, TodoInv, pc = "add", Missing, todo = {}
    PROVE  Target \in LikeIn(eth, wanted[index]) /\ \A p \in Params : eth[Target][p] = wanted[index]
<1>1. wanted[index] \in Adapters /\ wanted[index] # Nil
  BY WantedType, AdaptersAssumption DEF VisitInv, Missing
<1>2. Target \in DOMAIN eth /\ \A p \in Params : eth[Target][p] = wanted[index]
  BY DEF TodoInv, Params
<1> QED
  BY <1>1, <1>2 DEF LikeIn, ListedIn, LooksIn, Params

LEMMA RecordingThere == \A a : a \in Recording <=> a # Nil /\ LikeIn(eth, a) # {}
BY DEF Recording, LikeIn, ListedIn, LooksIn, Listed, Looks

LEMMA HaveStep ==
    ASSUME TypeOK, VisitInv, RoomInv, TodoInv, HaveInv, [Next]_vars
    PROVE  HaveInv'
<1>1. CASE GetAllNICDevices
  <2>1. UNCHANGED <<status, eth, given>> /\ myStatus' \in {myStatus, Recording}
    BY <1>1 DEF GetAllNICDevices, visitVars
  <2>2. \A a \in (status \cup myStatus)' : LikeIn(eth', a) # {}
    BY <2>1, RecordingThere DEF HaveInv
  <2>3. pc' = "add" => wanted # Nil /\ index' = 1
    BY <1>1 DEF GetAllNICDevices
  <2>4. pc' = "add" => \A i \in DOMAIN wanted : ~(i < index')
    BY <2>3, WantedType
  <2> QED
    BY <2>1, <2>2, <2>4 DEF HaveInv, given
<1>2. CASE WriteParam
  <2>1. /\ pc = "add" /\ UNCHANGED <<status, myStatus, index, given>>
        /\ \A b \in Adapters : LikeIn(eth, b) \subseteq LikeIn(eth', b)
    BY <1>2, WriteStep, WriteAdds
  <2>2. status \cup myStatus \subseteq Adapters /\ \A i \in DOMAIN wanted : wanted[i] \in Adapters
    BY <2>1, WantedType DEF TypeOK, VisitInv
  <2>3. \A a \in status \cup myStatus : LikeIn(eth', a) # {}
    BY <2>1, <2>2 DEF HaveInv
  <2>4. \A i \in DOMAIN wanted : i < index => LikeIn(eth', wanted[i]) # {}
    BY <2>1, <2>2 DEF HaveInv
  <2> QED
    BY <2>1, <2>3, <2>4 DEF HaveInv, given
<1>3. CASE NextAdapter
  <2>1. /\ pc = "add" /\ (Missing => todo = {}) /\ UNCHANGED <<status, myStatus, eth, given>>
        /\ index' = index \/ (index \in DOMAIN wanted /\ index' = index + 1)
        /\ pc' = "add" => index \in DOMAIN wanted
    BY <1>3 DEF NextAdapter
  <2>2. index \in DOMAIN wanted => LikeIn(eth, wanted[index]) # {}
    BY <2>1, DoneIsThere DEF Missing, HaveInv
  <2>3. \A i \in DOMAIN wanted : i < index' => LikeIn(eth, wanted[i]) # {}
    BY <2>1, <2>2, WantedType DEF HaveInv, VisitInv
  <2> QED
    BY <2>1, <2>3 DEF HaveInv, given
<1>4. CASE Patch \/ Crash
  BY <1>4 DEF Patch, Crash, Over, HaveInv
<1>5. CASE UNCHANGED vars
  BY <1>5 DEF vars, visitVars, given, HaveInv
<1> QED
  BY <1>1, <1>2, <1>3, <1>4, <1>5 DEF Next, Handler

LEMMA TodoStep ==
    ASSUME TypeOK, VisitInv, RoomInv, TodoInv, [Next]_vars
    PROVE  TodoInv'
<1>1. CASE GetAllNICDevices
  BY <1>1 DEF GetAllNICDevices, TodoInv
<1>2. CASE WriteParam
  <2>1. SUFFICES ASSUME pc' = "add" PROVE TodoInv'
    BY DEF TodoInv
  <2>2. pc = "add" /\ Missing /\ UNCHANGED <<myStatus, start, index, wanted>>
    BY <1>2, WriteStep DEF given
  <2>3. PICK p \in todo : Wrote(eth, eth', Target, wanted[index], p) /\ todo' = todo \ {p}
    BY <1>2, <2>1, WriteStep
  <2>4. p \in Params
    BY DEF TypeOK
  <2>5. Target \in Nat \ {0} /\ DOMAIN eth' = 1..Target
    BY <2>2, <2>3, <2>4, WriteForm, EthIndices DEF Wrote
  <2>6. \A q \in Params \ todo' : eth'[Target][q] = wanted[index]
    <3>1. \A q \in Params \ todo : Target \in DOMAIN eth /\ eth[Target][q] = wanted[index]
      BY <2>2 DEF TodoInv
    <3>2. \A q \in Params \ {p} : eth'[Target][q] = IF Target \in DOMAIN eth THEN eth[Target][q] ELSE Nil
      BY <2>3 DEF Wrote
    <3>3. eth'[Target][p] = wanted[index]
      BY <2>3 DEF Wrote
    <3> QED
      BY <2>3, <3>1, <3>2, <3>3
  <2>7. Target' = Target /\ Target \in 1..Target /\ wanted'[index'] = wanted[index]
    BY <2>2, <2>5 DEF Target
  <2> QED
    BY <2>5, <2>6, <2>7 DEF TodoInv
<1>3. CASE NextAdapter
  BY <1>3 DEF NextAdapter, TodoInv, Missing, given
<1>4. CASE Patch \/ Crash
  BY <1>4 DEF Patch, Crash, Over, TodoInv
<1>5. CASE UNCHANGED vars
  BY <1>5 DEF vars, visitVars, given, TodoInv, Missing, Target
<1> QED
  BY <1>1, <1>2, <1>3, <1>4, <1>5 DEF Next, Handler

LEMMA AtRest ==
    ASSUME TypeOK, RoomInv, HaveInv, wanted # Nil
    PROVE  AtRestIn(eth, wanted)
<1>1. CASE pc # "add"
  BY <1>1 DEF RoomInv
<1>2. CASE pc = "add"
  <2>1. eth \in Eths /\ wanted \in Lists /\ start \in Nat /\ index \in Nat
    BY WantedType DEF TypeOK, Eths
  <2>2. /\ UnderwayIn(eth, wanted, myStatus, start, index)
        /\ \A a \in myStatus : LikeIn(eth, a) # {}
        /\ \A i \in DOMAIN wanted : i < index => LikeIn(eth, wanted[i]) # {}
    BY <1>2 DEF RoomInv, HaveInv
  <2> QED
    BY <2>1, <2>2, UnderwayRests
<1> QED
  BY <1>1, <1>2

LEMMA RoomStep ==
    ASSUME TypeOK, VisitInv, RoomInv, TodoInv, HaveInv, HaveInv', TypeOK', [Next]_vars
    PROVE  RoomInv'
<1> SUFFICES ASSUME wanted' # Nil PROVE RoomInv'
  BY DEF RoomInv
<1>1. CASE GetAllNICDevices
  <2>1. UNCHANGED <<eth, wanted>> /\ wanted # Nil
    BY <1>1 DEF GetAllNICDevices, given
  <2>2. AtRestIn(eth, wanted)
    BY <2>1, AtRest
  <2>3. CASE pc' = "add"
    <3>1. /\ myStatus' = Recording /\ start' = Cardinality(ListedIn(eth)) /\ index' = 1
      BY <1>1, <2>3 DEF GetAllNICDevices, Listed, ListedIn
    <3>2. \A a \in Adapters : a \notin Recording => LikeIn(eth, a) = {}
      BY RecordingThere, AdaptersAssumption
    <3>3. eth \in Eths /\ wanted \in Lists
      BY <2>1, WantedType DEF TypeOK, Eths
    <3>4. UnderwayIn(eth, wanted, Recording, Cardinality(ListedIn(eth)), 1)
      BY <2>2, <3>2, <3>3, RestStarts
    <3> QED
      BY <2>1, <2>3, <3>1, <3>4 DEF RoomInv
  <2>4. CASE pc' # "add"
    BY <2>1, <2>2, <2>4 DEF RoomInv
  <2> QED
    BY <2>3, <2>4
<1>2. CASE WriteParam
  <2>1. /\ pc = "add" /\ Missing /\ eth \in Eths /\ eth' \in Eths
        /\ UNCHANGED <<myStatus, start, index, wanted>>
        /\ eth' = eth \/ \E p \in Params : Wrote(eth, eth', Target, wanted[index], p)
    BY <1>2, WriteStep DEF given, TypeOK
  <2>2. UnderwayIn(eth, wanted, myStatus, start, index) /\ wanted \in Lists
    BY <2>1, WantedType DEF RoomInv
  <2>3. UnderwayIn(eth', wanted, myStatus, start, index)
    <3>1. CASE eth' = eth
      BY <2>2, <3>1
    <3>2. ASSUME NEW p \in Params, Wrote(eth, eth', Target, wanted[index], p)
          PROVE  UnderwayIn(eth', wanted, myStatus, start, index)
      <4>1. Wrote(eth, eth', start + index, wanted[index], p)
        BY <3>2 DEF Target
      <4>2. index \in DOMAIN wanted /\ wanted[index] \notin myStatus /\ start \in Nat
        BY <2>1 DEF Missing, TypeOK
      <4> QED
        BY <2>1, <2>2, <4>1, <4>2, UnderwayAfterWrite
    <3> QED
      BY <2>1, <3>1, <3>2
  <2>4. CASE pc' = "add"
    BY <2>1, <2>3, <2>4 DEF RoomInv
  <2>5. CASE pc' # "add"
    <3>1. /\ \A a \in myStatus : LikeIn(eth', a) # {}
          /\ \A i \in DOMAIN wanted : i < index => LikeIn(eth', wanted[i]) # {}
      <4>1. \A b \in Adapters : LikeIn(eth, b) \subseteq LikeIn(eth', b)
        BY <1>2, WriteAdds
      <4>2. myStatus \subseteq Adapters /\ \A i \in DOMAIN wanted : wanted[i] \in Adapters
        BY <2>1, WantedType DEF TypeOK, VisitInv
      <4> QED
        BY <2>1, <4>1, <4>2 DEF HaveInv
    <3>2. start \in Nat /\ index \in Nat
      BY DEF TypeOK
    <3>3. AtRestIn(eth', wanted)
      BY <2>1, <2>2, <2>3, <3>1, <3>2, UnderwayRests
    <3> QED
      BY <2>1, <2>5, <3>3 DEF RoomInv
  <2> QED
    BY <2>4, <2>5
<1>3. CASE NextAdapter
  <2>1. pc = "add" /\ UNCHANGED <<eth, wanted, myStatus, start>>
    BY <1>3 DEF NextAdapter, given
  <2>2. CASE pc' # "add"
    BY <2>1, <2>2, AtRest DEF RoomInv
  <2>3. CASE pc' = "add"
    <3>1. index' = index + 1
      BY <1>3, <2>3 DEF NextAdapter
    <3>2. \A i \in DOMAIN wanted : i \in Nat /\ index \in Nat
      BY <2>1, WantedType DEF TypeOK
    <3>3. UnderwayIn(eth, wanted, myStatus, start, index)
      BY <2>1 DEF RoomInv
    <3>4. UnderwayIn(eth, wanted, myStatus, start, index + 1)
      BY <3>2, <3>3 DEF UnderwayIn
    <3> QED
      BY <2>1, <2>3, <3>1, <3>4 DEF RoomInv
  <2> QED
    BY <2>2, <2>3
<1>4. CASE Patch \/ Crash
  <2>1. pc' = "idle" /\ UNCHANGED <<eth, wanted>>
    BY <1>4 DEF Patch, Crash, Over, given
  <2> QED
    BY <2>1, AtRest DEF RoomInv
<1>5. CASE UNCHANGED vars
  BY <1>5 DEF vars, visitVars, given, RoomInv
<1> QED
  BY <1>1, <1>2, <1>3, <1>4, <1>5 DEF Next, Handler

-----------------------------------------------------------------------------
(* What was added, how often and in which order.                             *)

LEMMA AddedStep ==
    ASSUME TypeOK, VisitInv, RoomInv, AddedInv, [Next]_vars
    PROVE  AddedInv'
<1> SUFFICES ASSUME pc' = "add", NEW a \in Adapters, a \notin myStatus', NEW n \in LikeIn(eth', a)
             PROVE  \E i \in DOMAIN wanted' : n = start' + i /\ i <= index' /\ wanted'[i] = a
  BY DEF AddedInv
<1>1. CASE GetAllNICDevices
  <2>1. myStatus' = Recording /\ eth' = eth
    BY <1>1 DEF GetAllNICDevices
  <2> QED
    BY <2>1, RecordingThere, AdaptersAssumption
<1>2. CASE WriteParam
  <2>1. pc = "add" /\ Missing /\ UNCHANGED <<myStatus, start, index, wanted>>
    BY <1>2, WriteStep DEF given
  <2>2. index \in DOMAIN wanted /\ index \in Nat
    BY <2>1 DEF Missing, TypeOK
  <2>3. CASE n \in LikeIn(eth, a)
    BY <2>1, <2>3 DEF AddedInv
  <2>4. CASE n \notin LikeIn(eth, a)
    <3>1. a = wanted[index] /\ n = Target
      BY <1>2, <2>4, WriteAdds
    <3> QED
      BY <2>1, <2>2, <3>1 DEF Target
  <2> QED
    BY <2>3, <2>4
<1>3. CASE NextAdapter
  <2>1. pc = "add" /\ index' = index + 1 /\ UNCHANGED <<eth, wanted, myStatus, start>>
    BY <1>3 DEF NextAdapter, given
  <2>2. PICK i \in DOMAIN wanted : n = start + i /\ i <= index /\ wanted[i] = a
    BY <2>1 DEF AddedInv
  <2>3. i \in Nat /\ index \in Nat
    BY <2>1, WantedType DEF VisitInv, TypeOK
  <2> QED
    BY <2>1, <2>2, <2>3
<1>4. CASE Patch \/ Crash
  BY <1>4 DEF Patch, Crash, Over
<1>5. CASE UNCHANGED vars
  BY <1>5 DEF vars, visitVars, given, AddedInv
<1> QED
  BY <1>1, <1>2, <1>3, <1>4, <1>5 DEF Next, Handler

LEMMA LikeIsLikeIn == \A a : Like(a) = LikeIn(eth, a)
BY DEF Like, LikeIn, Listed, ListedIn, Looks, LooksIn

\* A visit adds no more adapters of a kind than spec asks for.
LEMMA AddedFew ==
    ASSUME TypeOK, VisitInv, pc = "add", NEW a \in Adapters,
           NEW L, \A n \in L : \E i \in DOMAIN wanted : n = start + i /\ i <= index /\ wanted[i] = a
    PROVE  Cardinality(L) <= Cardinality({i \in DOMAIN wanted : wanted[i] = a})
<1> DEFINE asked == {i \in DOMAIN wanted : wanted[i] = a}
           placed == [i \in asked |-> start + i]
<1>1. wanted \in Lists /\ start \in Nat
  BY WantedType DEF TypeOK, VisitInv
<1>2. Len(wanted) \in Nat /\ DOMAIN wanted = 1..Len(wanted)
  BY <1>1 DEF Lists
<1>3. IsFiniteSet(asked) /\ asked \in SUBSET (1..Len(wanted))
  <2>1. IsFiniteSet(1..Len(wanted))
    BY <1>2, FS_Interval
  <2>2. asked \in SUBSET (1..Len(wanted))
    BY <1>2
  <2> QED
    BY <2>1, <2>2, FS_Subset
<1> DEFINE P == {start + i : i \in asked}
<1>4. P = {placed[i] : i \in asked} /\ placed \in [asked -> P]
  OBVIOUS
<1>5. placed \in Surjection(asked, P)
  BY <1>4 DEF Surjection
<1>6. IsFiniteSet(P) /\ Cardinality(P) <= Cardinality(asked)
  <2> HIDE DEF placed, P, asked
  <2> QED
    BY <1>3, <1>5, FS_Surjection
<1>7. L \in SUBSET P
  OBVIOUS
<1>8. IsFiniteSet(L) /\ Cardinality(L) <= Cardinality(P)
  BY <1>6, <1>7, FS_Subset
<1>9. Cardinality(L) \in Nat /\ Cardinality(P) \in Nat /\ Cardinality(asked) \in Nat
  BY <1>3, <1>6, <1>8, FS_CardinalityType
<1> HIDE DEF asked, P
<1>10. Cardinality(L) <= Cardinality(asked)
  BY <1>6, <1>8, <1>9
<1> QED
  BY <1>10 DEF asked

LEMMA TwiceStep ==
    ASSUME TypeOK, VisitInv, RoomInv, AddedInv, NoneAddedTwice, [Next]_vars
    PROVE  NoneAddedTwice'
<1>1. CASE UNCHANGED <<eth, given>>
  BY <1>1, LikeIsLikeIn DEF NoneAddedTwice, given, Like, Listed, Looks
<1>2. CASE WriteParam
  <2>1. /\ pc = "add" /\ Missing /\ wanted # Nil /\ UNCHANGED <<wanted, nTemplate>>
    BY <1>2, WriteStep DEF given, VisitInv
  <2>2. index \in DOMAIN wanted /\ wanted[index] \in Adapters \ myStatus /\ index \in Nat
    BY <2>1, WantedType DEF Missing
  <2> SUFFICES ASSUME NEW a \in Adapters, {n \in LikeIn(eth', a) : n <= nTemplate} = {}
               PROVE  Cardinality(LikeIn(eth', a)) <= Cardinality({i \in DOMAIN wanted : wanted[i] = a})
    <3>1. \A a : Like(a)' = LikeIn(eth', a)
      BY DEF Like, LikeIn, Listed, ListedIn, Looks, LooksIn
    <3> QED
      BY <2>1, <3>1 DEF NoneAddedTwice
  <2>3. CASE a = wanted[index]
    <3>1. \A n \in LikeIn(eth', a) : n \in LikeIn(eth, a) \/ n = start + index
      BY <1>2, <2>3, WriteAdds DEF Target
    <3>2. \A n \in LikeIn(eth, a) : \E i \in DOMAIN wanted : n = start + i /\ i <= index /\ wanted[i] = a
      BY <2>1, <2>2, <2>3 DEF AddedInv
    <3>3. \A n \in LikeIn(eth', a) : \E i \in DOMAIN wanted : n = start + i /\ i <= index /\ wanted[i] = a
      BY <2>2, <2>3, <3>1, <3>2
    <3> QED
      BY <2>1, <3>3, AddedFew
  <2>4. CASE a # wanted[index]
    <3>1. LikeIn(eth', a) = LikeIn(eth, a)
      BY <1>2, <2>4, WriteAdds
    <3> QED
      BY <2>1, <3>1, LikeIsLikeIn DEF NoneAddedTwice
  <2> QED
    BY <2>3, <2>4
<1>3. GetAllNICDevices \/ NextAdapter \/ Patch \/ Crash \/ UNCHANGED vars => UNCHANGED <<eth, given>>
  BY DEF GetAllNICDevices, NextAdapter, Patch, Crash, vars
<1> QED
  BY <1>1, <1>2, <1>3 DEF Next, Handler

\* While a visit adds: the adapters that follow those of the template and are not
\* like the one being added are asked for before it.
LEMMA AddedBefore ==
    ASSUME TypeOK, VisitInv, AddedInv, OrderInv, Distinct, pc = "add", Missing,
           NEW i \in DOMAIN wanted, NEW m \in LikeIn(eth, wanted[i]), nTemplate < m,
           NEW j \in DOMAIN wanted, j >= index, wanted[j] \notin myStatus, m # start + j
    PROVE  i < j
<1>1. /\ wanted # Nil /\ i \in Nat /\ j \in Nat /\ index \in Nat /\ start \in Nat
      /\ wanted[i] \in Adapters
  BY WantedType DEF VisitInv, TypeOK
<1>2. CASE wanted[i] \in myStatus
  BY <1>1, <1>2 DEF OrderInv
<1>3. CASE wanted[i] \notin myStatus
  <2>1. PICK k \in DOMAIN wanted : m = start + k /\ k <= index /\ wanted[k] = wanted[i]
    BY <1>1, <1>3 DEF AddedInv
  <2>2. k = i /\ k \in Nat
    BY <1>1, <2>1, WantedType DEF Distinct
  <2> QED
    BY <1>1, <2>1, <2>2
<1> QED
  BY <1>2, <1>3

LEMMA OrderStep ==
    ASSUME TypeOK, VisitInv, RoomInv, TodoInv, HaveInv, AddedInv, OrderInv, HaveInv', [Next]_vars
    PROVE  OrderInv'
<1>1. UNCHANGED given
  BY DEF Next, Handler, GetAllNICDevices, WriteParam, NextAdapter, Patch, Crash, vars
<1> SUFFICES ASSUME wanted # Nil, Distinct, NEW i \in DOMAIN wanted, NEW j \in DOMAIN wanted,
                    NEW m \in LikeIn(eth', wanted[i]), nTemplate < m,
                    IF pc' = "add" THEN wanted[i] \in myStatus' /\ wanted[j] \notin myStatus'
                                   ELSE LikeIn(eth', wanted[j]) = {}
             PROVE  i < j
  BY <1>1 DEF OrderInv, Distinct, given
<1>2. /\ i \in Nat /\ j \in Nat /\ index \in Nat /\ start \in Nat
      /\ wanted[i] \in Adapters /\ wanted[j] \in Adapters
  BY WantedType DEF TypeOK
<1>3. CASE GetAllNICDevices
  <2>1. eth' = eth /\ pc # "add"
    BY <1>3 DEF GetAllNICDevices
  <2>2. pc' = "add" => myStatus' = Recording
    BY <1>3 DEF GetAllNICDevices
  <2>3. LikeIn(eth, wanted[j]) = {}
    BY <1>2, <2>1, <2>2, RecordingThere, AdaptersAssumption
  <2> QED
    BY <2>1, <2>3 DEF OrderInv
<1>4. CASE pc = "add" /\ ~WriteParam
  <2>1. eth' = eth /\ (pc' = "add" => myStatus' = myStatus)
    BY <1>4 DEF Next, Handler, GetAllNICDevices, NextAdapter, Patch, Crash, vars, visitVars, Over
  <2>2. CASE pc' = "add"
    BY <1>4, <2>1, <2>2 DEF OrderInv
  <2>3. CASE pc' # "add"
    <3>1. wanted[j] \notin myStatus /\ j >= index /\ LikeIn(eth, wanted[j]) = {}
      BY <1>2, <1>4, <2>1, <2>3 DEF HaveInv
    <3>2. CASE wanted[i] \in myStatus
      BY <1>4, <2>1, <3>1, <3>2 DEF OrderInv
    <3>3. CASE wanted[i] \notin myStatus
      <4>1. PICK k \in DOMAIN wanted : m = start + k /\ k <= index /\ wanted[k] = wanted[i]
        BY <1>2, <1>4, <2>1, <3>3 DEF AddedInv
      <4>2. k = i /\ i # j
        BY <2>1, <3>1, <4>1 DEF Distinct
      <4> QED
        BY <1>2, <3>1, <4>1, <4>2
    <3> QED
      BY <3>2, <3>3
  <2> QED
    BY <2>2, <2>3
<1>5. CASE WriteParam
  <2>1. pc = "add" /\ Missing /\ myStatus' = myStatus
    BY <1>5, WriteStep
  <2>2. index \in DOMAIN wanted /\ wanted[index] \notin myStatus
    BY <2>1 DEF Missing
  <2>3. CASE pc' = "add"
    <3>1. wanted[i] # wanted[index]
      BY <2>1, <2>2, <2>3
    <3>2. m \in LikeIn(eth, wanted[i])
      BY <1>2, <1>5, <3>1, WriteAdds
    <3> QED
      BY <2>1, <2>3, <3>2 DEF OrderInv
  <2>4. CASE pc' # "add"
    <3>1. LikeIn(eth, wanted[j]) = {}
      BY <1>2, <1>5, <2>4, WriteAdds
    <3>2. wanted[j] \notin myStatus /\ j >= index
      BY <1>2, <2>1, <3>1 DEF HaveInv
    <3>3. CASE m \in LikeIn(eth, wanted[i]) /\ wanted[i] \in myStatus
      BY <2>1, <3>2, <3>3 DEF OrderInv
    <3>4. CASE m \in LikeIn(eth, wanted[i]) /\ wanted[i] \notin myStatus
      <4>1. PICK k \in DOMAIN wanted : m = start + k /\ k <= index /\ wanted[k] = wanted[i]
        BY <1>2, <2>1, <3>4 DEF AddedInv
      <4>2. k = i /\ i # j
        BY <3>1, <3>4, <4>1 DEF Distinct
      <4> QED
        BY <1>2, <3>2, <4>1, <4>2
    <3>5. CASE m \notin LikeIn(eth, wanted[i])
      <4>1. wanted[i] = wanted[index] /\ m = Target
        BY <1>2, <1>5, <3>5, WriteAdds
      <4>2. i = index
        BY <2>2, <4>1 DEF Distinct
      <4>3. i # j
        BY <2>4
      <4> QED
        BY <1>2, <3>2, <4>2, <4>3
    <3> QED
      BY <3>3, <3>4, <3>5
  <2> QED
    BY <2>3, <2>4
<1>6. CASE pc # "add" /\ ~GetAllNICDevices /\ ~WriteParam
  <2>1. eth' = eth /\ pc' # "add"
    BY <1>6 DEF Next, Handler, NextAdapter, Patch, Crash, vars, Over
  <2> QED
    BY <1>6, <2>1 DEF OrderInv
<1> QED
  BY <1>3, <1>4, <1>5, <1>6

LEMMA InOrderStep ==
    ASSUME TypeOK, VisitInv, RoomInv, AddedInv, OrderInv, AddedInOrder, [Next]_vars
    PROVE  AddedInOrder'
<1>1. UNCHANGED given
  BY DEF Next, Handler, GetAllNICDevices, WriteParam, NextAdapter, Patch, Crash, vars
<1>2. \A a : Like(a)' = LikeIn(eth', a)
  BY DEF Like, LikeIn, Listed, ListedIn, Looks, LooksIn
<1> SUFFICES ASSUME wanted # Nil, Distinct, NEW i \in DOMAIN wanted, NEW j \in DOMAIN wanted,
                    NEW m \in LikeIn(eth', wanted[i]), NEW n \in LikeIn(eth', wanted[j]),
                    nTemplate < m, m < n
             PROVE  i < j
  BY <1>1, <1>2 DEF AddedInOrder, Distinct, given
<1>3. CASE m \in LikeIn(eth, wanted[i]) /\ n \in LikeIn(eth, wanted[j])
  BY <1>3, LikeIsLikeIn DEF AddedInOrder, Distinct
<1>4. eth' = eth \/ WriteParam
  BY DEF Next, Handler, GetAllNICDevices, NextAdapter, Patch, Crash, vars
<1>5. CASE WriteParam /\ eth' # eth
  <2>1. pc = "add" /\ Missing /\ eth \in Eths /\ eth' \in Eths
    BY <1>5, WriteStep
  <2>2. index \in DOMAIN wanted /\ wanted[index] \notin myStatus /\ index \in Nat /\ start \in Nat
    BY <2>1 DEF Missing, TypeOK
  <2>3. wanted[i] \in Adapters /\ wanted[j] \in Adapters /\ i \in Nat /\ j \in Nat
    BY WantedType
  <2>4. Len(eth') = start + index /\ m \in Nat /\ n \in Nat /\ n <= start + index
    <3>1. Len(eth') = Target
      BY <1>5, WriteAdds
    <3>2. m \in 1..Len(eth') /\ n \in 1..Len(eth') /\ Len(eth') \in Nat
      BY <2>1, EthIndices DEF LikeIn, ListedIn
    <3> QED
      BY <2>2, <3>1, <3>2 DEF Target
  <2>5. m \in LikeIn(eth, wanted[i])
    <3>1. m # Target
      BY <2>2, <2>4 DEF Target
    <3> QED
      BY <1>5, <2>3, <3>1, WriteAdds
  <2>6. CASE n \notin LikeIn(eth, wanted[j])
    <3>1. wanted[j] = wanted[index] /\ n = Target
      BY <1>5, <2>3, <2>6, WriteAdds
    <3>2. j = index /\ m # start + j
      BY <2>2, <2>4, <3>1 DEF Distinct, Target
    <3> QED
      BY <2>1, <2>2, <2>5, <3>2, AddedBefore
  <2> QED
    BY <1>3, <2>5, <2>6
<1> QED
  BY <1>3, <1>4, <1>5

-----------------------------------------------------------------------------
(* The invariant holds.                                                      *)

LEMMA TemplateEths ==
    ASSUME Init
    PROVE  /\ nTemplate \in Nat /\ eth \in Eths /\ Len(eth) = nTemplate /\ DOMAIN eth = 1..nTemplate
           /\ ListedIn(eth) = 1..nTemplate /\ Cardinality(ListedIn(eth)) = nTemplate
           /\ \A n \in DOMAIN eth : \A p \in Params : eth[n][p] # Nil
<1>1. PICK f \in [1..nTemplate -> Adapters] : eth = [n \in 1..nTemplate |-> Complete(f[n])]
  BY DEF Init
<1>2. nTemplate \in Nat
  BY AdaptersAssumption DEF Init
<1>3. eth \in Eths /\ Len(eth) \in Nat /\ DOMAIN eth = 1..Len(eth)
  BY TypeInit, EthIndices DEF TypeOK, Eths
<1>4. DOMAIN eth = 1..nTemplate
  BY <1>1
<1>5. Len(eth) = nTemplate
  <2>1. \A k \in Nat : Cardinality(1..k) = k
    BY FS_Interval
  <2>2. Cardinality(1..Len(eth)) = Len(eth) /\ Cardinality(1..nTemplate) = nTemplate
    BY <1>2, <1>3, <2>1
  <2> QED
    BY <1>3, <1>4, <2>2
<1>6. \A n \in DOMAIN eth : \A p \in Params : eth[n][p] # Nil
  BY <1>1, AdaptersAssumption DEF Complete
<1>7. ListedIn(eth) = 1..nTemplate
  BY <1>4, <1>6 DEF ListedIn, Params
<1>8. Cardinality(1..nTemplate) = nTemplate
  BY <1>2, FS_Interval
<1> QED
  BY <1>2, <1>3, <1>4, <1>5, <1>6, <1>7, <1>8

LEMMA InvInit == Init => AdaptersInv
<1> SUFFICES ASSUME Init PROVE AdaptersInv
  OBVIOUS
<1>1. TypeOK /\ pc = "idle" /\ status = {} /\ myStatus = {}
  BY TypeInit DEF Init
<1>2. /\ nTemplate \in Nat /\ Len(eth) = nTemplate /\ DOMAIN eth = 1..nTemplate
      /\ ListedIn(eth) = 1..nTemplate /\ Cardinality(ListedIn(eth)) = nTemplate
  BY TemplateEths
<1>3. ASSUME wanted # Nil PROVE AtRestIn(eth, wanted)
  BY <1>1, <1>2, <1>3, WantedType DEF AtRestIn, Free
<1>4. \A a : \A m \in LikeIn(eth, a) : m \in Nat /\ m <= nTemplate
  BY <1>2 DEF LikeIn
<1>5. NoneAddedTwice
  <2> SUFFICES ASSUME NEW a \in Adapters, {n \in Like(a) : n <= nTemplate} = {}
               PROVE  Cardinality(Like(a)) <=
                        Cardinality(IF wanted = Nil THEN {} ELSE {i \in DOMAIN wanted : wanted[i] = a})
    BY DEF NoneAddedTwice
  <2> DEFINE asked == IF wanted = Nil THEN {} ELSE {i \in DOMAIN wanted : wanted[i] = a}
  <2>1. Like(a) = {}
    BY <1>4, LikeIsLikeIn
  <2>2. IsFiniteSet(asked)
    <3>1. CASE wanted = Nil
      BY <3>1, FS_EmptySet
    <3>2. CASE wanted # Nil
      <4>1. Len(wanted) \in Nat /\ DOMAIN wanted = 1..Len(wanted)
        BY <1>1, <3>2, WantedType DEF Lists
      <4>2. IsFiniteSet(1..Len(wanted)) /\ asked \in SUBSET (1..Len(wanted))
        BY <4>1, FS_Interval
      <4> QED
        BY <4>2, FS_Subset
    <3> QED
      BY <3>1, <3>2
  <2>3. Cardinality(asked) \in Nat /\ Cardinality({}) = 0
    <3> HIDE DEF asked
    <3> QED
      BY <2>2, FS_CardinalityType, FS_EmptySet
  <2> HIDE DEF asked
  <2>4. Cardinality(Like(a)) <= Cardinality(asked)
    BY <2>1, <2>3
  <2> QED
    BY <2>4 DEF asked
<1>6. OrderInv /\ AddedInOrder
  BY <1>2, <1>4, LikeIsLikeIn DEF OrderInv, AddedInOrder
<1> QED
  BY <1>1, <1>3, <1>5, <1>6 DEF AdaptersInv, VisitInv, RoomInv, TodoInv, HaveInv, AddedInv

LEMMA InvStep == AdaptersInv /\ [Next]_vars => AdaptersInv'
<1> SUFFICES ASSUME AdaptersInv, [Next]_vars PROVE AdaptersInv'
  OBVIOUS
<1>1. /\ TypeOK /\ VisitInv /\ RoomInv /\ TodoInv /\ HaveInv
      /\ AddedInv /\ NoneAddedTwice /\ OrderInv /\ AddedInOrder
  BY DEF AdaptersInv
<1>2. TypeOK' /\ VisitInv' /\ TodoInv' /\ HaveInv'
  BY <1>1, TypeStep, VisitStep, TodoStep, HaveStep
<1>3. RoomInv' /\ AddedInv' /\ NoneAddedTwice' /\ OrderInv' /\ AddedInOrder'
  BY <1>1, <1>2, RoomStep, AddedStep, TwiceStep, OrderStep, InOrderStep
<1> QED
  BY <1>2, <1>3 DEF AdaptersInv

LEMMA AdaptersInvariant == Spec => []AdaptersInv
BY InvInit, InvStep, PTL DEF Spec

\* A VM never has half of its variables, nor a visit the index of no adapter.
THEOREM AdaptersTyped == Spec => []TypeOK
<1>1. AdaptersInv => TypeOK
  BY DEF AdaptersInv
<1> QED
  BY <1>1, AdaptersInvariant, PTL

\* However often calls, replies, patches and visits are lost, an adapter that the
\* template lacks is added no more often than spec lists it.
THEOREM NoAdapterTwice == Spec => []NoneAddedTwice
<1>1. AdaptersInv => NoneAddedTwice
  BY DEF AdaptersInv
<1> QED
  BY <1>1, AdaptersInvariant, PTL

\* And the ones that are added stand in the order of spec.
THEOREM AdaptersInOrder == Spec => []AddedInOrder
<1>1. AdaptersInv => AddedInOrder
  BY DEF AdaptersInv
<1> QED
  BY <1>1, AdaptersInvariant, PTL

-----------------------------------------------------------------------------
(* What is complete, and what is left half-written.                          *)

\* The index of the next write is taken from a count, yet it is never that of a
\* complete adapter with other contents, if the template's have no gaps.
THEOREM CompleteStays == Spec => CompleteUntouched
<1> DEFINE Stays == \A n \in DOMAIN eth : (\A p \in Params : eth[n][p] # Nil) => eth'[n] = eth[n]
<1>1. AdaptersInv /\ [Next]_vars => [Stays]_vars
  <2> SUFFICES ASSUME AdaptersInv, Next, NEW n \in DOMAIN eth, \A p \in Params : eth[n][p] # Nil
               PROVE  eth'[n] = eth[n]
    OBVIOUS
  <2>1. TypeOK /\ VisitInv /\ RoomInv
    BY DEF AdaptersInv
  <2>2. eth' = eth \/ WriteParam
    BY DEF Next, Handler, GetAllNICDevices, NextAdapter, Patch, Crash
  <2>3. CASE WriteParam /\ eth' # eth
    <3>1. pc = "add" /\ Missing /\ eth \in Eths /\ eth' \in Eths
      BY <2>1, <2>3, WriteStep
    <3>2. PICK p \in Params : Wrote(eth, eth', Target, wanted[index], p)
      BY <2>1, <2>3, WriteStep DEF TypeOK
    <3>3. /\ Target \in Nat /\ Len(eth) <= Target
          /\ Target \in DOMAIN eth => \A q \in Params : eth[Target][q] \in {Nil, wanted[index]}
      BY <2>1, <3>1, <3>2, WriteForm DEF Free, Target
    <3>4. n \in 1..Len(eth) /\ Len(eth) \in Nat /\ DOMAIN eth' = 1..Len(eth')
      BY <3>1, EthIndices
    <3>5. CASE n # Target
      <4>1. n \in 1..(Target - 1)
        BY <3>3, <3>4, <3>5
      <4> QED
        BY <3>2, <4>1 DEF Wrote
    <3>6. CASE n = Target
      <4>1. \A q \in Params : eth[n][q] = wanted[index]
        BY <3>3, <3>6
      <4>2. \A q \in Params : eth'[n][q] = eth[n][q]
        BY <3>2, <3>6, <4>1 DEF Wrote
      <4>3. eth[n] \in [Params -> Adapters \cup {Nil}] /\ eth'[n] \in [Params -> Adapters \cup {Nil}]
        <5> DEFINE R == [Params -> Adapters \cup {Nil}]
        <5>1. eth \in Seq(R) /\ eth' \in Seq(R) /\ n \in 1..Len(eth')
          BY <3>1, <3>2, <3>3, <3>4, <3>6 DEF Eths, Wrote
        <5> HIDE DEF R
        <5>2. eth[n] \in R /\ eth'[n] \in R
          BY <3>4, <5>1
        <5> QED
          BY <5>2 DEF R
      <4> QED
        BY <4>2, <4>3
    <3> QED
      BY <3>5, <3>6
  <2> QED
    BY <2>2, <2>3
<1> QED
  BY <1>1, AdaptersInvariant, PTL DEF Spec, CompleteUntouched

\* A step that is no adverse event leaves no new half-written adapter behind, and
\* one that is leaves at most the one being written.
LEMMA BrokenStep ==
    ASSUME AdaptersInv, [Next]_vars
    PROVE  \/ Broken' \subseteq Broken /\ nUpsets' \in {nUpsets, nUpsets + 1}
           \/ nUpsets' = nUpsets + 1 /\ \E t : Broken' \subseteq Broken \cup {t}
<1> DEFINE Half == {n \in DOMAIN eth : eth[n] # Blank /\ \E p \in Params : eth[n][p] = Nil}
<1>1. TypeOK /\ VisitInv /\ RoomInv /\ TodoInv
  BY DEF AdaptersInv
<1>2. CASE GetAllNICDevices
  <2>1. pc = "idle" /\ eth' = eth /\ nUpsets' \in {nUpsets, nUpsets + 1}
    BY <1>2 DEF GetAllNICDevices, Upset, NoUpset
  <2> QED
    BY <2>1 DEF Broken
<1>3. CASE WriteParam
  <2>1. /\ pc = "add" /\ Missing /\ eth \in Eths /\ eth' \in Eths
        /\ UNCHANGED <<status, myStatus, start, index, given>>
    BY <1>1, <1>3, WriteStep
  <2>2. Target' = Target /\ Missing'
    BY <2>1 DEF Target, Missing, given
  <2>3. Half' \subseteq Half \cup {Target}
    <3>1. CASE eth' = eth
      BY <3>1
    <3>2. ASSUME NEW p \in Params, Wrote(eth, eth', Target, wanted[index], p)
          PROVE  Half' \subseteq Half \cup {Target}
      <4>1. DOMAIN eth' = 1..Target /\ Target \in Nat /\ "device" \in Params
        BY <1>1, <2>1, <3>2, EthIndices, WriteForm DEF Wrote, Params
      <4>2. \A k \in DOMAIN eth' : k # Target => k \in 1..(Target - 1)
        BY <4>1
      <4>3. \A k \in 1..(Target - 1) : eth'[k] = IF k \in DOMAIN eth THEN eth[k] ELSE Blank
        BY <3>2 DEF Wrote
      <4> QED
        BY <4>2, <4>3
    <3> QED
      BY <1>1, <1>3, <3>1, <3>2, WriteStep DEF TypeOK
  <2>4. CASE pc' = "add"
    <3>1. nUpsets' = nUpsets
      BY <1>1, <1>3, <2>4, WriteStep
    <3>2. Broken' \subseteq Half' \ {Target} /\ Half \ {Target} \subseteq Broken
      BY <2>2, <2>4 DEF Broken
    <3> QED
      BY <2>3, <3>1, <3>2
  <2>5. CASE pc' # "add"
    <3>1. nUpsets' = nUpsets + 1
      BY <1>1, <1>3, <2>1, <2>5, WriteStep
    <3>2. Broken' \subseteq Half' /\ Half \ {Target} \subseteq Broken
      BY DEF Broken
    <3> QED
      BY <2>3, <3>1, <3>2
  <2> QED
    BY <2>4, <2>5
<1>4. CASE NextAdapter
  <2>1. /\ pc = "add" /\ (Missing => todo = {}) /\ UNCHANGED <<eth, nUpsets>>
    BY <1>4 DEF NextAdapter
  <2>2. Missing => \A p \in Params : eth[Target][p] # Nil
    BY <1>1, <2>1, DoneIsThere, WantedType, AdaptersAssumption DEF VisitInv, Missing
  <2>3. Half \subseteq Broken
    BY <2>2 DEF Broken
  <2>4. Broken' \subseteq Half
    BY <2>1 DEF Broken
  <2> QED
    BY <2>1, <2>3, <2>4
<1>5. CASE Patch
  <2>1. pc = "patch" /\ eth' = eth /\ nUpsets' \in {nUpsets, nUpsets + 1}
    BY <1>5 DEF Patch, Upset, NoUpset
  <2> QED
    BY <2>1 DEF Broken
<1>6. CASE Crash
  <2>1. eth' = eth /\ nUpsets' = nUpsets + 1
    BY <1>6 DEF Crash, Upset
  <2>2. Broken' \subseteq Half /\ Half \subseteq Broken \cup {Target}
    BY <2>1 DEF Broken
  <2> QED
    BY <2>1, <2>2
<1>7. CASE UNCHANGED vars
  BY <1>7 DEF vars, visitVars, given, Broken, Missing, Target
<1> QED
  BY <1>2, <1>3, <1>4, <1>5, <1>6, <1>7 DEF Next, Handler

LEMMA FewBroken ==
    ASSUME NEW A, NEW B, NEW t, NEW k \in Nat, IsFiniteSet(B), Cardinality(B) <= k, A \subseteq B \cup {t}
    PROVE  Cardinality(A) <= k + 1
<1>1. IsFiniteSet(B \cup {t}) /\ Cardinality(B \cup {t}) <= Cardinality(B) + 1
  <2> DEFINE c == Cardinality(B)
  <2>1. c \in Nat
    BY FS_CardinalityType
  <2>2. IsFiniteSet(B \cup {t}) /\ Cardinality(B \cup {t}) = IF t \in B THEN c ELSE c + 1
    BY FS_AddElement
  <2> HIDE DEF c
  <2>3. IsFiniteSet(B \cup {t}) /\ Cardinality(B \cup {t}) <= c + 1
    BY <2>1, <2>2
  <2> QED
    BY <2>3 DEF c
<1>2. IsFiniteSet(A) /\ Cardinality(A) <= Cardinality(B \cup {t})
  BY <1>1, FS_Subset
<1>3. Cardinality(A) \in Nat /\ Cardinality(B) \in Nat /\ Cardinality(B \cup {t}) \in Nat
  BY <1>1, <1>2, FS_CardinalityType
<1> QED
  BY <1>1, <1>2, <1>3

\* A failure leaves at most one half-written adapter behind.
THEOREM FewAreBroken == Spec => []BrokenBounded
<1>1. Init => BrokenBounded
  <2> SUFFICES ASSUME Init PROVE BrokenBounded
    OBVIOUS
  <2>1. Broken = {} /\ nUpsets = 0
    BY TemplateEths DEF Broken, Init
  <2> QED
    BY <2>1, FS_EmptySet DEF BrokenBounded
<1>2. AdaptersInv /\ BrokenBounded /\ [Next]_vars => BrokenBounded'
  <2> SUFFICES ASSUME AdaptersInv, BrokenBounded, [Next]_vars PROVE BrokenBounded'
    OBVIOUS
  <2>1. IsFiniteSet(Broken) /\ Cardinality(Broken) \in Nat /\ nUpsets \in Nat
    <3>1. eth \in Eths /\ nUpsets \in Nat
      BY AdaptersAssumption DEF AdaptersInv, TypeOK, Eths
    <3>2. Broken \in SUBSET (1..Len(eth)) /\ Len(eth) \in Nat
      BY <3>1, EthIndices DEF Broken
    <3>3. IsFiniteSet(1..Len(eth))
      BY <3>2, FS_Interval
    <3>4. IsFiniteSet(Broken)
      BY <3>2, <3>3, FS_Subset
    <3> QED
      BY <3>1, <3>4, FS_CardinalityType
  <2>2. CASE Broken' \subseteq Broken /\ nUpsets' \in {nUpsets, nUpsets + 1}
    <3>1. IsFiniteSet(Broken') /\ Cardinality(Broken') <= Cardinality(Broken)
      BY <2>1, <2>2, FS_Subset
    <3>2. Cardinality(Broken') \in Nat
      BY <3>1, FS_CardinalityType
    <3> QED
      BY <2>1, <2>2, <3>1, <3>2 DEF BrokenBounded
  <2>3. ASSUME nUpsets' = nUpsets + 1, NEW t, Broken' \subseteq Broken \cup {t}
        PROVE  BrokenBounded'
    <3>1. Cardinality(Broken) <= nUpsets
      BY DEF BrokenBounded
    <3>2. Cardinality(Broken') <= nUpsets + 1
      BY <2>1, <2>3, <3>1, FewBroken
    <3> QED
      BY <2>3, <3>2 DEF BrokenBounded
  <2> QED
    BY <2>2, <2>3, BrokenStep
<1> QED
  BY <1>1, <1>2, AdaptersInvariant, PTL DEF Spec

-----------------------------------------------------------------------------
(* The handler is one that reconcileNormal can rely on.                      *)

\* Once status contains every adapter that spec wants, the VM has them for good.
THEOREM AdaptersArePart == Spec => ImplementsConfigPart
<1> DEFINE recorded == wanted = Nil \/ ContainsAll(status)
           applied == wanted = Nil \/ \A i \in DOMAIN wanted : Like(wanted[i]) # {}
<1>1. Init => Part!Init
  <2> SUFFICES ASSUME Init PROVE Part!Init
    OBVIOUS
  <2>1. wanted = Nil \/ DOMAIN wanted = {} \/ ~ContainsAll(status)
    BY DEF Init, ContainsAll
  <2>2. recorded \in BOOLEAN /\ applied \in BOOLEAN /\ (recorded => applied)
    BY <2>1
  <2> QED
    BY <2>2 DEF Part!Init
<1>2. AdaptersInv /\ AdaptersInv' /\ [Next]_vars => [Part!Next]_(Part!vars)
  <2> SUFFICES ASSUME AdaptersInv, AdaptersInv', [Next]_vars
               PROVE  Part!Next \/ UNCHANGED <<applied, recorded>>
    BY DEF Part!vars
  <2>1. TypeOK /\ VisitInv /\ RoomInv /\ HaveInv' /\ wanted' = wanted
    BY DEF AdaptersInv, Next, Handler, GetAllNICDevices, WriteParam, NextAdapter, Patch, Crash, vars, given
  <2>2. \A a : Like(a)' = LikeIn(eth', a)
    BY DEF Like, LikeIn, Listed, ListedIn, Looks, LooksIn
  <2>3. CASE wanted = Nil
    BY <2>1, <2>3
  <2>4. CASE wanted # Nil /\ recorded
    <3>1. pc = "idle"
      BY <2>1, <2>4 DEF VisitInv, TypeOK
    <3>2. UNCHANGED vars
      BY <2>4, <3>1 DEF Next, Handler, GetAllNICDevices, WriteParam, NextAdapter, Patch, Crash, Reconciled
    <3> QED
      BY <3>2 DEF vars, given, Like, Listed, Looks, ContainsAll
  <2>5. CASE wanted # Nil /\ ~recorded
    <3>1. recorded' => applied'
      <4> SUFFICES ASSUME recorded' PROVE applied'
        OBVIOUS
      <4>1. \A i \in DOMAIN wanted : wanted[i] \in status'
        BY <2>1, <2>5 DEF ContainsAll
      <4>2. \A i \in DOMAIN wanted : LikeIn(eth', wanted[i]) # {}
        BY <2>1, <4>1 DEF HaveInv
      <4> QED
        BY <2>1, <2>2, <4>2
    <3>2. recorded' \in BOOLEAN /\ applied' \in BOOLEAN
      OBVIOUS
    <3> HIDE DEF recorded, applied
    <3>3. (~recorded /\ applied' \in BOOLEAN /\ recorded' = FALSE)
          \/ (~recorded /\ applied' = TRUE /\ recorded' = TRUE)
      BY <2>5, <3>1, <3>2
    <3> QED
      BY <3>3 DEF Part!Next, Part!Write, Part!Record, recorded, applied
  <2> QED
    BY <2>3, <2>4, <2>5
<1> QED
  BY <1>1, <1>2, AdaptersInvariant, PTL DEF Spec, ImplementsConfigPart, Part!Spec

=============================================================================
