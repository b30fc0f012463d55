------------------------------ MODULE VncProofs ------------------------------
(***************************************************************************)
(* Proofs about Vnc, for any values, any choice of the settings that spec  *)
(* gives, wants generated or that the template has, and any number of      *)
(* adverse events.                                                         *)
(***************************************************************************)
EXTENDS Vnc, TLAPS

-----------------------------------------------------------------------------
(* Types.                                                                    *)

VMs == [{"RemoteDisplay", "remotedisplay"} -> [Settings -> Values \cup {Junk, Nil}]]

LEMMA ReadingType ==
    ASSUME vm \in VMs
    PROVE  /\ Reading \in Settled
           /\ \A s \in Settings : Reading[s] # Nil => Read(s) = Reading[s]
<1>1. \A s \in Settings : Read(s) \in Values \cup {Junk, Nil}
  BY DEF VMs, Read, Prefixes
<1>2. \A s \in Settings : Reading[s] = IF Read(s) = Junk THEN Nil ELSE Read(s)
  BY DEF Reading
<1>3. Reading = [s \in Settings |-> Reading[s]]
  BY DEF Reading
<1> HIDE DEF Reading
<1>4. \A s \in Settings : Reading[s] \in Values \cup {Nil}
  BY <1>1, <1>2
<1> QED
  BY <1>2, <1>3, <1>4 DEF Settled

LEMMA UpsetType ==
    ASSUME TypeOK, NEW kind, NoUpset \/ Upset(kind)
    PROVE  nUpsets' \in 0..MaxUpsets
BY VncAssumption DEF TypeOK, NoUpset, Upset

LEMMA OverType ==
    ASSUME TypeOK, Over
    PROVE  /\ mySpec' \in Settled /\ myStatus' = Nil /\ pc' = "idle"
           /\ todo' = {} /\ goOn' = FALSE
BY DEF TypeOK, Over

LEMMA TypeInit == Init => TypeOK
<1> SUFFICES ASSUME Init PROVE TypeOK
  OBVIOUS
<1>1. spec \in Settled /\ mySpec = spec
  BY DEF Init
<1>2. 0 \in 0..MaxUpsets
  BY VncAssumption
<1> QED
  BY <1>1, <1>2 DEF Init, TypeOK

\* One parameter is written under the name that is read first.
LEMMA WriteType ==
    ASSUME TypeOK, NEW s \in Settings
    PROVE  [vm EXCEPT ![Prefixes[1]][s] = mySpec[s]] \in VMs
<1>1. mySpec[s] \in Values \cup {Nil} /\ vm \in VMs
  BY DEF TypeOK, Settled, VMs
<1>2. Prefixes[1] = "RemoteDisplay"
  BY DEF Prefixes
<1> QED
  BY <1>1, <1>2 DEF VMs

LEMMA TypeStep == TypeOK /\ [Next]_vars => TypeOK'
<1> SUFFICES ASSUME TypeOK, [Next]_vars PROVE TypeOK'
  OBVIOUS
<1> USE DEF Return
<1>0. vm \in VMs
  BY DEF TypeOK, VMs
<1>1. CASE FirstRead
  <2>1. nUpsets' \in 0..MaxUpsets
    BY <1>1, UpsetType DEF FirstRead
  <2>2. myStatus' \in Settled \cup {Nil} /\ pc' \in {"idle", "patchSpec"} /\ goOn' \in BOOLEAN
    BY <1>0, <1>1, ReadingType DEF FirstRead, TypeOK
  <2> QED
    BY <1>1, <2>1, <2>2 DEF FirstRead, TypeOK
<1>2. CASE Visit
  <2>1. nUpsets' \in 0..MaxUpsets
    BY <1>2, UpsetType DEF Visit
  <2>2. mySpec' \in Settled /\ todo' \subseteq Settings /\ pc' \in {"patchSpec", "write"}
    BY <1>2 DEF Visit, TypeOK, Generated
  <2>3. goOn' \in BOOLEAN
    BY <1>2 DEF Visit, TypeOK
  <2> QED
    BY <1>2, <2>1, <2>2, <2>3 DEF Visit, TypeOK
<1>3. CASE Write
  <2>1. PICK s \in todo :
          \/ /\ vm' = [vm EXCEPT ![Prefixes[1]][s] = mySpec[s]]
             /\ \/ NoUpset /\ todo' = todo \ {s} /\ UNCHANGED <<pc, goOn>>
                \/ Upset("lostReply") /\ WriteFails
          \/ Upset("call") /\ WriteFails /\ UNCHANGED vm
    BY <1>3 DEF Write
  <2>2. nUpsets' \in 0..MaxUpsets
    BY <2>1, UpsetType
  <2>3. vm' \in VMs
    BY <1>0, <2>1, WriteType DEF TypeOK
  <2>4. todo' \subseteq Settings /\ pc' \in {"write", "patchSpec"} /\ goOn' \in BOOLEAN
    BY <1>3, <2>1 DEF Write, WriteFails, TypeOK
  <2> QED
    BY <1>3, <2>2, <2>3, <2>4 DEF Write, TypeOK, VMs
<1>4. CASE Confirm
  <2>1. nUpsets' \in 0..MaxUpsets
    BY <1>4, UpsetType DEF Confirm
  <2>2. myStatus' \in Settled \cup {Nil} /\ pc' = "patchSpec" /\ goOn' \in BOOLEAN
    BY <1>0, <1>4, ReadingType DEF Confirm, TypeOK
  <2> QED
    BY <1>4, <2>1, <2>2 DEF Confirm, TypeOK
<1>5. CASE PatchSpec
  <2>1. nUpsets' \in 0..MaxUpsets
    BY <1>5, UpsetType DEF PatchSpec
  <2> QED
    BY <1>5, <2>1 DEF PatchSpec, TypeOK
<1>6. CASE PatchStatus
  <2>1. nUpsets' \in 0..MaxUpsets
    BY <1>6, UpsetType DEF PatchStatus
  <2> QED
    BY <1>6, <2>1, OverType DEF PatchStatus, TypeOK
<1>7. CASE Crash
  <2>1. nUpsets' \in 0..MaxUpsets
    BY <1>7, UpsetType DEF Crash
  <2> QED
    BY <1>7, <2>1, OverType DEF Crash, TypeOK
<1>8. CASE UNCHANGED vars
  BY <1>8 DEF vars, TypeOK
<1> QED
  BY <1>1, <1>2, <1>3, <1>4, <1>5, <1>6, <1>7, <1>8 DEF Next, Handler

\* reconcileVnc keeps to its types; in particular text that is no Boolean is
\* never recorded in status.
THEOREM VncTyped == Spec => []TypeOK
BY TypeInit, TypeStep, PTL DEF Spec

-----------------------------------------------------------------------------
(* What the comparison of spec with status says about the VM.                *)

\* The comparison of a spec with a status: nothing is left to be done.
DoneWith(sp, st) == st # Nil /\ ~Panics(sp, st) /\ Reconciled(sp, st)

\* A status that was read from the VM as it is speaks the truth.
LEMMA FreshReading ==
    ASSUME vm \in VMs, NEW sp \in Settled, DoneWith(sp, Reading)
    PROVE  Has(sp)
<1>1. \A s \in Settings : Reading[s] # Nil => Read(s) = Reading[s]
  BY ReadingType
<1> HIDE DEF Reading
<1> QED
  BY <1>1 DEF DoneWith, Reconciled, Has

\* A spec that is completed with values other than those of status does not
\* equal it.
LEMMA CompletedDiffers ==
    ASSUME NEW sp \in Settled, NEW st \in Settled, NEW new \in Generated(sp),
           ~Reconciled(sp, st),
           \A s \in Settings : sp[s] = Nil /\ new[s] # Nil => new[s] # st[s]
    PROVE  ~Reconciled(new, st)
<1>1. PICK s \in Settings : IF sp[s] = Nil THEN s \in Generate ELSE st[s] # sp[s]
  BY DEF Reconciled
<1>2. CASE sp[s] = Nil
  <2>1. new[s] # Nil /\ new[s] # st[s]
    BY <1>1, <1>2 DEF Generated
  <2> QED
    BY <2>1 DEF Reconciled
<1>3. CASE sp[s] # Nil
  <2>1. new[s] = sp[s] /\ st[s] # sp[s]
    BY <1>1, <1>3 DEF Generated
  <2> QED
    BY <1>3, <2>1 DEF Reconciled
<1> QED
  BY <1>2, <1>3

-----------------------------------------------------------------------------
(* The inductive invariant; all but the types only until a random value is    *)
(* the one that status holds.                                                *)

\* The copy of a visit: its spec is the stored one between visits, and its
\* status is the stored one, or what the VM holds as it is.
CopyInv ==
    /\ pc = "idle" => mySpec = spec
    /\ pc # "idle" => myStatus \in {status, Reading}

\* While settings are written, and after a visit that has written some, neither
\* the stored spec nor the copy equals the stored status; a visit that finds
\* them equal changes nothing.
UndoneInv ==
    /\ pc = "write" => ~DoneWith(spec, status) /\ ~DoneWith(mySpec, status) /\ myStatus = status
    /\ pc # "idle" /\ (DoneWith(spec, status) \/ DoneWith(mySpec, status)) =>
            mySpec = spec /\ myStatus = status

\* What status records as done is done on the VM.
TrueInv == DoneWith(spec, status) => Has(spec)

\* The settings that are no longer to be written have been written; the others
\* have a value to write.
WrittenInv ==
    pc = "write" =>
        /\ \A s \in Settings \ todo : mySpec[s] # Nil => Read(s) = mySpec[s]
        /\ \A s \in Generate : mySpec[s] # Nil
        /\ \A s \in todo : mySpec[s] # Nil

\* What GoesOnOnlyConfigured says, until then.
GoesOnInv ==
    goOn /\ pc \in {"patchSpec", "patchStatus"} =>
        /\ \A s \in Settings : mySpec[s] # Nil => Read(s) = mySpec[s]
        /\ \A s \in Generate : mySpec[s] # Nil

Truthful == CopyInv /\ UndoneInv /\ TrueInv /\ WrittenInv /\ GoesOnInv

VncInv == TypeOK /\ (~coincided => Truthful)

LEMMA SettledPairs ==
    ASSUME TypeOK
    PROVE  /\ vm \in VMs /\ spec \in Settled /\ mySpec \in Settled
           /\ status # Nil => status \in Settled
BY DEF TypeOK, VMs

\* What the VM holds only changes when a setting is written.
LEMMA SameReading ==
    ASSUME vm' = vm
    PROVE  /\ \A s : Read(s)' = Read(s)
           /\ Reading' = Reading
           /\ Has(spec)' <=> (\A s \in Settings : IF spec'[s] = Nil THEN s \notin Generate ELSE Read(s) = spec'[s])
BY DEF Read, Reading, Has

LEMMA VncInit == Init => VncInv
<1> SUFFICES ASSUME Init PROVE VncInv
  OBVIOUS
<1>1. TypeOK
  BY TypeInit
<1>2. status = Nil /\ pc = "idle" /\ mySpec = spec
  BY DEF Init
<1> QED
  BY <1>1, <1>2 DEF VncInv, Truthful, CopyInv, UndoneInv, TrueInv, WrittenInv, GoesOnInv, DoneWith

\* Steps that leave the stored object and the VM alone: the visits that read or
\* only look, and a crash.
LEMMA FirstReadStep ==
    ASSUME TypeOK, Truthful, FirstRead
    PROVE  Truthful'
<1>1. /\ status = Nil /\ pc = "idle" /\ UNCHANGED <<spec, status, mySpec, todo, vm>>
      /\ \/ pc' = "idle"
         \/ pc' = "patchSpec" /\ goOn' = FALSE /\ myStatus' = Reading
  BY DEF FirstRead, Return
<1>2. Reading' = Reading
  BY <1>1, SameReading
<1>3. mySpec = spec
  BY <1>1 DEF Truthful, CopyInv
<1> HIDE DEF Reading
<1>4. CopyInv'
  BY <1>1, <1>2, <1>3 DEF CopyInv
<1>5. UndoneInv' /\ TrueInv'
  BY <1>1 DEF UndoneInv, TrueInv, DoneWith
<1>6. WrittenInv'
  BY <1>1 DEF WrittenInv
<1>7. GoesOnInv'
  BY <1>1 DEF GoesOnInv
<1> QED
  BY <1>4, <1>5, <1>6, <1>7 DEF Truthful

LEMMA VisitStep ==
    ASSUME TypeOK, Truthful, Visit, ~coincided'
    PROVE  Truthful'
<1>1. status # Nil /\ pc = "idle" /\ UNCHANGED <<spec, status, vm>> /\ myStatus' = status
  BY DEF Visit
<1>2. mySpec = spec
  BY <1>1 DEF Truthful, CopyInv
<1>3. TrueInv' /\ (\A s : Read(s)' = Read(s))
  BY <1>1, SameReading DEF Truthful, TrueInv, Has
<1>4. CopyInv'
  BY <1>1, Zenon DEF Visit, Return, CopyInv
<1>5. CASE /\ Panics(spec, status) \/ Reconciled(spec, status)
           /\ Return(~Panics(spec, status)) /\ NoUpset /\ UNCHANGED <<mySpec, todo, coincided>>
  <2>1. UndoneInv' /\ WrittenInv'
    BY <1>1, <1>2, <1>5 DEF Return, UndoneInv, WrittenInv
  <2>2. GoesOnInv'
    <3>1. SUFFICES ASSUME goOn' PROVE /\ \A s \in Settings : mySpec'[s] # Nil => Read(s) = mySpec'[s]
                                      /\ \A s \in Generate : mySpec'[s] # Nil
      BY <1>3 DEF GoesOnInv
    <3>2. DoneWith(spec, status)
      BY <1>1, <1>5, <3>1 DEF Return, DoneWith
    <3>3. Has(spec)
      BY <3>2 DEF Truthful, TrueInv
    <3> QED
      BY <1>2, <1>5, <3>3, VncAssumption DEF Has
  <2> QED
    BY <1>3, <1>4, <2>1, <2>2 DEF Truthful
<1>6. CASE /\ ~Panics(spec, status) /\ ~Reconciled(spec, status)
           /\ mySpec' \in Generated(spec)
           /\ IF \E s \in Settings : spec[s] = Nil /\ mySpec'[s] # Nil /\ mySpec'[s] = status[s]
              THEN Upset("sameValue") /\ coincided' = TRUE
              ELSE NoUpset /\ UNCHANGED coincided
           /\ todo' = {s \in Settings : mySpec'[s] # Nil}
           /\ pc' = "write" /\ UNCHANGED goOn
  <2>1. \A s \in Settings : spec[s] = Nil /\ mySpec'[s] # Nil => mySpec'[s] # status[s]
    BY <1>6
  <2>2. ~Reconciled(mySpec', status)
    BY <1>1, <1>6, <2>1, SettledPairs, CompletedDiffers DEF Truthful
  <2>3. UndoneInv'
    BY <1>1, <1>6, <2>2 DEF UndoneInv, DoneWith
  <2>4. \A s \in Generate : mySpec'[s] # Nil
    BY <1>6, VncAssumption DEF Generated
  <2>5. WrittenInv'
    BY <1>6, <2>4 DEF WrittenInv
  <2>6. GoesOnInv'
    BY <1>6 DEF GoesOnInv
  <2> QED
    BY <1>3, <1>4, <2>3, <2>5, <2>6 DEF Truthful
<1> QED
  BY <1>5, <1>6 DEF Visit

\* One setting is written: it is read back as written, and the others are as
\* they were.
LEMMA ReadBack ==
    ASSUME TypeOK, NEW s \in Settings, mySpec[s] # Nil,
           vm' = [vm EXCEPT ![Prefixes[1]][s] = mySpec[s]]
    PROVE  /\ Read(s)' = mySpec[s]
           /\ \A r \in Settings \ {s} : Read(r)' = Read(r)
<1>1. Prefixes[1] = "RemoteDisplay" /\ Prefixes[2] = "remotedisplay"
  BY DEF Prefixes
<1>2. vm \in VMs
  BY DEF TypeOK, VMs
<1>3. vm'["RemoteDisplay"] = [vm["RemoteDisplay"] EXCEPT ![s] = mySpec[s]]
  BY <1>1, <1>2 DEF VMs
<1>4. vm'["remotedisplay"] = vm["remotedisplay"]
  BY <1>1, <1>2 DEF VMs
<1>5. vm'["RemoteDisplay"][s] = mySpec[s]
  BY <1>2, <1>3 DEF VMs
<1>6. \A r \in Settings \ {s} : vm'["RemoteDisplay"][r] = vm["RemoteDisplay"][r]
  BY <1>2, <1>3 DEF VMs
<1> QED
  BY <1>1, <1>4, <1>5, <1>6 DEF Read

LEMMA WriteStep ==
    ASSUME TypeOK, Truthful, Write
    PROVE  Truthful'
<1>1. pc = "write" /\ UNCHANGED <<spec, status, mySpec, myStatus>>
  BY DEF Write
<1>2. /\ ~DoneWith(spec, status) /\ ~DoneWith(mySpec, status) /\ myStatus = status
  BY <1>1 DEF Truthful, UndoneInv
<1>3. PICK s \in todo :
        \/ /\ vm' = [vm EXCEPT ![Prefixes[1]][s] = mySpec[s]]
           /\ \/ NoUpset /\ todo' = todo \ {s} /\ UNCHANGED <<pc, goOn>>
              \/ Upset("lostReply") /\ WriteFails
        \/ Upset("call") /\ WriteFails /\ UNCHANGED vm
  BY DEF Write
<1>4. pc' = "write" \/ (pc' = "patchSpec" /\ goOn' = FALSE)
  BY <1>1, <1>3 DEF WriteFails, Return
<1>5. CopyInv' /\ UndoneInv' /\ TrueInv'
  BY <1>1, <1>2, <1>4 DEF CopyInv, UndoneInv, TrueInv
<1>6. WrittenInv'
  <2>1. SUFFICES ASSUME pc' = "write" PROVE WrittenInv'
    BY DEF WrittenInv
  <2>2. /\ vm' = [vm EXCEPT ![Prefixes[1]][s] = mySpec[s]]
        /\ todo' = todo \ {s}
    BY <1>3, <2>1 DEF WriteFails, Return
  <2>3. s \in Settings /\ todo \subseteq Settings
    BY <1>3 DEF Truthful, TypeOK
  <2>4. /\ \A r \in Settings \ todo : mySpec[r] # Nil => Read(r) = mySpec[r]
        /\ \A r \in Generate : mySpec[r] # Nil
        /\ \A r \in todo : mySpec[r] # Nil
    BY <1>1 DEF Truthful, WrittenInv
  <2>5. Read(s)' = mySpec[s] /\ (\A r \in Settings \ {s} : Read(r)' = Read(r))
    BY <2>2, <2>3, <2>4, ReadBack DEF Truthful
  <2>6. \A r \in Settings \ todo' : mySpec[r] # Nil => Read(r)' = mySpec[r]
    BY <2>2, <2>4, <2>5
  <2> QED
    BY <1>1, <2>2, <2>4, <2>6 DEF WrittenInv
<1>7. GoesOnInv'
  BY <1>4 DEF GoesOnInv
<1> QED
  BY <1>5, <1>6, <1>7 DEF Truthful

LEMMA ConfirmStep ==
    ASSUME TypeOK, Truthful, Confirm
    PROVE  Truthful'
<1>1. /\ pc = "write" /\ todo = {} /\ pc' = "patchSpec"
      /\ UNCHANGED <<spec, status, mySpec, vm>>
      /\ \/ myStatus' = Reading
         \/ myStatus' = status /\ goOn' = FALSE
  BY DEF Confirm, Return, Truthful, UndoneInv
<1>2. ~DoneWith(spec, status) /\ ~DoneWith(mySpec, status)
  BY <1>1 DEF Truthful, UndoneInv
<1>3. Reading' = Reading /\ (\A s : Read(s)' = Read(s))
  BY <1>1, SameReading
<1>4. /\ \A s \in Settings : mySpec[s] # Nil => Read(s) = mySpec[s]
      /\ \A s \in Generate : mySpec[s] # Nil
  BY <1>1 DEF Truthful, WrittenInv
<1>5. UndoneInv' /\ TrueInv' /\ WrittenInv'
  BY <1>1, <1>2 DEF UndoneInv, TrueInv, WrittenInv
<1>6. GoesOnInv'
  BY <1>1, <1>3, <1>4 DEF GoesOnInv
<1> HIDE DEF Reading
<1>7. CopyInv'
  BY <1>1, <1>3 DEF CopyInv
<1> QED
  BY <1>5, <1>6, <1>7 DEF Truthful

\* The copy of spec is stored, or not.
LEMMA PatchSpecStep ==
    ASSUME TypeOK, Truthful, PatchSpec
    PROVE  Truthful'
<1>1. /\ pc = "patchSpec" /\ pc' = "patchStatus" /\ spec' \in {mySpec, spec}
      /\ UNCHANGED <<status, mySpec, myStatus, todo, goOn, vm>>
  BY DEF PatchSpec
<1>2. DoneWith(spec, status) \/ DoneWith(mySpec, status) => mySpec = spec /\ myStatus = status
  BY <1>1 DEF Truthful, UndoneInv
<1>3. Reading' = Reading /\ (\A s : Read(s)' = Read(s))
  BY <1>1, SameReading
<1>4. UndoneInv' /\ WrittenInv'
  BY <1>1, <1>2 DEF UndoneInv, WrittenInv
<1>5. GoesOnInv'
  BY <1>1, <1>3 DEF Truthful, GoesOnInv
<1>6. TrueInv'
  <2>1. DoneWith(spec', status) => spec' = spec /\ DoneWith(spec, status)
    BY <1>1, <1>2
  <2>2. DoneWith(spec', status) => spec' = spec /\ Has(spec)
    BY <2>1 DEF Truthful, TrueInv
  <2> QED
    BY <1>1, <1>3, <2>2 DEF TrueInv, Has
<1> HIDE DEF Reading
<1>7. CopyInv'
  BY <1>1, <1>3 DEF Truthful, CopyInv
<1> QED
  BY <1>4, <1>5, <1>6, <1>7 DEF Truthful

\* The copy of status is stored, or not: it is the old one or a fresh reading.
LEMMA PatchStatusStep ==
    ASSUME TypeOK, Truthful, PatchStatus
    PROVE  Truthful'
<1>1. /\ pc = "patchStatus" /\ status' \in {status, myStatus} /\ UNCHANGED <<spec, vm>>
      /\ pc' = "idle" /\ mySpec' = spec
  BY DEF PatchStatus, Over
<1>2. status' = status \/ status' = Reading
  BY <1>1 DEF Truthful, CopyInv
<1>3. \A s : Read(s)' = Read(s)
  BY <1>1, SameReading
<1>4. CopyInv' /\ UndoneInv' /\ WrittenInv' /\ GoesOnInv'
  BY <1>1 DEF CopyInv, UndoneInv, WrittenInv, GoesOnInv
<1> HIDE DEF Reading
<1>5. DoneWith(spec, status') => Has(spec)
  BY <1>2, FreshReading, SettledPairs DEF Truthful, TrueInv
<1>6. TrueInv'
  BY <1>1, <1>3, <1>5 DEF TrueInv, Has
<1> QED
  BY <1>4, <1>6 DEF Truthful

LEMMA CrashStep ==
    ASSUME TypeOK, Truthful, Crash
    PROVE  Truthful'
<1>1. UNCHANGED <<spec, status, vm>> /\ pc' = "idle" /\ mySpec' = spec
  BY DEF Crash, Over
<1>2. \A s : Read(s)' = Read(s)
  BY <1>1, SameReading
<1>3. CopyInv' /\ UndoneInv' /\ WrittenInv' /\ GoesOnInv'
  BY <1>1 DEF CopyInv, UndoneInv, WrittenInv, GoesOnInv
<1>4. TrueInv'
  BY <1>1, <1>2 DEF Truthful, TrueInv, Has
<1> QED
  BY <1>3, <1>4 DEF Truthful

\* A coincidence is never forgotten.
LEMMA StaysCoincided == coincided /\ [Next]_vars => coincided'
BY DEF Next, Handler, FirstRead, Visit, Write, Confirm, PatchSpec, PatchStatus, Crash, vars

LEMMA VncStep == VncInv /\ [Next]_vars => VncInv'
<1> SUFFICES ASSUME VncInv, [Next]_vars, ~coincided' PROVE VncInv'
  BY TypeStep DEF VncInv
<1>1. TypeOK' /\ TypeOK /\ Truthful
  BY TypeStep, StaysCoincided DEF VncInv
<1>2. ASSUME UNCHANGED vars PROVE Truthful'
  <2>1. Reading' = Reading /\ (\A s : Read(s)' = Read(s))
    BY <1>2, SameReading DEF vars
  <2>2. TrueInv' /\ WrittenInv' /\ GoesOnInv' /\ UndoneInv'
    BY <1>1, <1>2, <2>1 DEF vars, Truthful, TrueInv, Has, WrittenInv, GoesOnInv, UndoneInv
  <2> HIDE DEF Reading
  <2>3. CopyInv'
    BY <1>1, <1>2, <2>1 DEF vars, Truthful, CopyInv
  <2> QED
    BY <2>2, <2>3 DEF Truthful
<1>3. ASSUME Next PROVE Truthful'
  BY <1>1, <1>3, FirstReadStep, VisitStep, WriteStep, ConfirmStep, PatchSpecStep, PatchStatusStep, CrashStep
     DEF Next, Handler
<1> QED
  BY <1>1, <1>2, <1>3 DEF VncInv

LEMMA VncInvariant == Spec => []VncInv
BY VncInit, VncStep, PTL DEF Spec

\* Whatever fails, and however often, reconcileNormal only goes on past
\* reconcileVnc when the VM has every VNC setting of the visit's copy, until a
\* value that is generated equals the one that status holds.
THEOREM VncConfigured == Spec => []GoesOnOnlyConfigured
<1>1. VncInv => GoesOnOnlyConfigured
  BY DEF VncInv, Truthful, GoesOnInv, GoesOnOnlyConfigured
<1> QED
  BY <1>1, VncInvariant, PTL

-----------------------------------------------------------------------------
(* The handler is one that reconcileNormal can rely on.                      *)

Recorded == Done \/ coincided

Applied == Has(spec) \/ coincided

\* A step is a write or a record of the abstract handler, or none.
LEMMA VncPartStep ==
    ASSUME VncInv, VncInv', [Next]_vars
    PROVE  [Part!Next]_(Part!vars)
<1>1. Recorded' => Applied'
  BY DEF VncInv, Truthful, TrueInv, DoneWith, Done, Recorded, Applied
<1>2. ASSUME UNCHANGED <<spec, status, vm, coincided>>
      PROVE  (Recorded' <=> Recorded) /\ (Applied' <=> Applied)
  <2>1. \A s : Read(s)' = Read(s)
    BY <1>2, SameReading
  <2> QED
    BY <1>2, <2>1 DEF Done, Has, Recorded, Applied
<1>3. ASSUME coincided
      PROVE  (Recorded' <=> Recorded) /\ (Applied' <=> Applied)
  BY <1>3, StaysCoincided DEF Recorded, Applied
<1>4. ASSUME Done, ~coincided, Next PROVE UNCHANGED <<spec, status, vm, coincided>>
  <2>1. DoneWith(spec, status) /\ pc # "write" /\ status # Nil
    BY <1>4 DEF Done, DoneWith, VncInv, Truthful, UndoneInv
  <2>2. pc # "idle" => mySpec = spec /\ myStatus = status
    BY <1>4, <2>1 DEF VncInv, Truthful, UndoneInv
  <2>3. CASE PatchSpec \/ PatchStatus
    BY <2>2, <2>3 DEF PatchSpec, PatchStatus
  <2>4. CASE FirstRead \/ Visit \/ Crash
    BY <2>1, <2>4 DEF FirstRead, Visit, Crash, DoneWith
  <2>5. CASE Write \/ Confirm
    BY <2>1, <2>5 DEF Write, Confirm
  <2> QED
    BY <1>4, <2>3, <2>4, <2>5 DEF Next, Handler
<1>5. \/ (Recorded' <=> Recorded) /\ (Applied' <=> Applied)
      \/ ~Recorded /\ (Recorded' => Applied')
  BY <1>1, <1>2, <1>3, <1>4 DEF vars, Recorded
<1> QED
  <2>1. Recorded \in BOOLEAN /\ Recorded' \in BOOLEAN
    BY DEF Recorded
  <2>2. Applied \in BOOLEAN /\ Applied' \in BOOLEAN
    BY DEF Applied
  <2>3. \/ Recorded' = Recorded /\ Applied' = Applied
        \/ Recorded = FALSE /\ Recorded' = FALSE
        \/ Recorded = FALSE /\ Recorded' = TRUE /\ Applied' = TRUE
    BY <1>5, <2>1, <2>2
  <2>4. CASE Recorded' = Recorded /\ Applied' = Applied
    BY <2>4 DEF Part!vars, Recorded, Applied
  <2>5. CASE Recorded = FALSE /\ Recorded' = FALSE
    BY <2>2, <2>5 DEF Part!Next, Part!Write, Recorded, Applied
  <2>6. CASE Recorded = FALSE /\ Recorded' = TRUE /\ Applied' = TRUE
    BY <2>6 DEF Part!Next, Part!Record, Recorded, Applied
  <2> QED
    BY <2>3, <2>4, <2>5, <2>6

\* reconcileVnc implements ConfigPart: what status records as done is done on the
\* VM and stays so, with the same exception.
THEOREM VncIsPart == Spec => ImplementsConfigPart
<1>1. Init => Part!Init
  <2> SUFFICES ASSUME Init PROVE Part!Init
    OBVIOUS
  <2>1. Recorded = FALSE
    BY DEF Init, Done, Recorded
  <2>2. Applied \in BOOLEAN
    BY DEF Applied
  <2> QED
    BY <2>1, <2>2 DEF Part!Init, Recorded, Applied
<1>2. VncInv /\ VncInv' /\ [Next]_vars => [Part!Next]_(Part!vars)
  BY VncPartStep
<1> QED
  BY <1>1, <1>2, VncInvariant, PTL DEF Spec, ImplementsConfigPart, Part!Spec
=============================================================================
