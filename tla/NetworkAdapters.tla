--------------------------- MODULE NetworkAdapters ---------------------------
(***************************************************************************)
(* reconcileNetworkAdapters, call by call: the adapters that spec wants    *)
(* and the VM lacks are added by writing five parameters each, one by one  *)
(* and in the random order of a Go map, under ethernet<n>.  Which n is     *)
(* used depends on how many adapters vmrest listed in this visit, so a     *)
(* write that failed half-way changes where the retry writes.              *)
(***************************************************************************)
EXTENDS Naturals, Sequences, FiniteSets

CONSTANTS
    Adapters,   \* wanted adapters, told apart by type and vmnet
    Wishes,     \* the values of spec.network.adapters to try
    Nil,        \* no list of adapters in spec, or a parameter the VM lacks
    MaxOnVM,    \* bound: adapters of the template VM
    Upsets,     \* the kinds of adverse events that may happen
    MaxUpsets   \* bound: how many of them may happen in one behaviour

\* "device" stands for virtualDev and addressType, which are never read back.
Params == {"connectionType", "vnet", "present", "device"}

UpsetKinds == {"call", "lostReply", "patch", "crash"}

ASSUME AdaptersAssumption ==
    /\ Nil \notin Adapters
    /\ Wishes \subseteq Seq(Adapters) \cup {Nil}
    /\ MaxOnVM \in Nat
    /\ Upsets \subseteq UpsetKinds /\ MaxUpsets \in Nat

VARIABLES
    wanted,      \* spec.network.adapters
    status,      \* status.networkAdapters as stored; empty and nil are the same
    myStatus,    \* the private copy of the visit
    pc,          \* where reconcileNetworkAdapters is
    start,       \* startIndex
    index,       \* the wanted adapter being looked at, from 1
    todo,        \* its parameters that are still to be written
    eth,         \* the VM: eth[n] holds the parameters of ethernet<n-1>, each
                 \* as the adapter it was written for
    nTemplate,   \* history: the adapters the VM came with
    nUpsets      \* history: the number of adverse events

visitVars == <<myStatus, start, index, todo>>
given == <<wanted, nTemplate>>
vars == <<given, status, pc, visitVars, eth, nUpsets>>

Blank == [p \in Params |-> Nil]

Complete(a) == [p \in Params |-> a]

\* The type invariant.
TypeOK ==
    /\ wanted \in Wishes
    /\ status \subseteq Adapters /\ myStatus \subseteq Adapters
    /\ pc \in {"idle", "add", "patch"}
    /\ start \in Nat /\ index \in Nat /\ todo \subseteq Params
    /\ eth \in Seq([Params -> Adapters \cup {Nil}])
    /\ nTemplate \in 0..MaxOnVM /\ nUpsets \in 0..MaxUpsets

\* The template VM has complete adapters ethernet0, ethernet1 and so on.
Init ==
    /\ wanted \in Wishes
    /\ nTemplate \in 0..MaxOnVM
    /\ \E f \in [1..nTemplate -> Adapters] : eth = [n \in 1..nTemplate |-> Complete(f[n])]
    /\ status = {} /\ myStatus = {}
    /\ pc = "idle" /\ start = 0 /\ index = 0 /\ todo = {} /\ nUpsets = 0

-----------------------------------------------------------------------------
Upset(kind) == kind \in Upsets /\ nUpsets < MaxUpsets /\ nUpsets' = nUpsets + 1

NoUpset == UNCHANGED nUpsets

\* vmrest lists the adapters that are present, however little else they have.
Listed == {n \in DOMAIN eth : eth[n]["present"] # Nil}

\* What an adapter is listed as; without type and vmnet it is like none wanted.
Looks(n) == IF eth[n]["connectionType"] = eth[n]["vnet"] THEN eth[n]["vnet"] ELSE Nil

\* Faulty variant: the first adapter decides.
ContainsAll_First(recorded) == Len(wanted) > 0 => wanted[1] \in recorded

ContainsAll(recorded) == \A i \in DOMAIN wanted : wanted[i] \in recorded

\* Nothing to do: without a list, as soon as any adapter is recorded.
Reconciled(recorded) == IF wanted = Nil THEN recorded # {} ELSE ContainsAll(recorded)

\* Faulty variant: an adapter without type or vmnet is recorded with nil fields.
Recording_Nil == {Looks(n) : n \in Listed}

\* What is recorded of the listed adapters, as far as contains can tell.
Recording == {Looks(n) : n \in Listed} \ {Nil}

\* The visit begins with GetAllNICDevices; what it lists is recorded before
\* anything is written.
GetAllNICDevices ==
    /\ pc = "idle" /\ ~Reconciled(status)
    /\ \/ /\ NoUpset
          /\ myStatus' = Recording
          /\ start' = Cardinality(Listed) /\ index' = 1 /\ todo' = Params
          /\ pc' = IF wanted = Nil THEN "patch" ELSE "add"
       \/ Upset("call") /\ UNCHANGED <<pc, visitVars>>
    /\ UNCHANGED <<status, eth, given>>

\* Faulty variants: the adapters that are there are not counted; the last one
\* wanted comes first.
Target_FromZero == index

Target_Reversed == start + Len(wanted) + 1 - index

\* The number of ethernet<startIndex+index>, with both counted from one.
Target == start + index

\* Faulty variant: compared with what was recorded before this visit.
Missing_Recorded == index \in DOMAIN wanted /\ wanted[index] \notin status

Missing == index \in DOMAIN wanted /\ wanted[index] \notin myStatus

\* Growing eth up to ethernet<n-1>; the ones in between stay unused.
Grown(n) == [k \in 1..(IF n > Len(eth) THEN n ELSE Len(eth)) |->
                IF k \in DOMAIN eth THEN eth[k] ELSE Blank]

\* Faulty variants: a parameter is left out.
WithParam_NoDevice(n, p) ==
    IF p = "device" THEN Grown(n) ELSE [Grown(n) EXCEPT ![n][p] = wanted[index]]

WithParam_NoMarker(n, p) ==
    IF p = "present" THEN Grown(n) ELSE [Grown(n) EXCEPT ![n][p] = wanted[index]]

WithParam(n, p) == [Grown(n) EXCEPT ![n][p] = wanted[index]]

\* ConfigVMParams for one parameter of a missing adapter.
WriteParam ==
    /\ pc = "add" /\ Missing /\ todo # {}
    /\ \E p \in todo :
        \/ /\ eth' = WithParam(Target, p)
           /\ \/ NoUpset /\ todo' = todo \ {p} /\ UNCHANGED pc
              \/ Upset("lostReply") /\ pc' = "patch" /\ UNCHANGED todo
        \/ Upset("call") /\ pc' = "patch" /\ UNCHANGED <<eth, todo>>
    /\ UNCHANGED <<status, myStatus, start, index, given>>

\* The loop goes on after a complete adapter, and past one that is there; after
\* the last one the visit ends with a requeue after a millisecond.
NextAdapter ==
    /\ pc = "add" /\ (Missing => todo = {})
    /\ IF index \in DOMAIN wanted
       THEN index' = index + 1 /\ todo' = Params /\ UNCHANGED pc
       ELSE pc' = "patch" /\ UNCHANGED <<index, todo>>
    /\ UNCHANGED <<status, myStatus, start, eth, given, nUpsets>>

\* The visit is over and its variables are gone.
Over == pc' = "idle" /\ myStatus' = {} /\ start' = 0 /\ index' = 0 /\ todo' = {}

\* The deferred patch.
Patch ==
    /\ pc = "patch" /\ Over
    /\ \/ status' = myStatus /\ NoUpset
       \/ Upset("patch") /\ UNCHANGED status
    /\ UNCHANGED <<eth, given>>

Crash ==
    /\ pc # "idle" /\ Upset("crash") /\ Over
    /\ UNCHANGED <<status, eth, given>>

Handler == GetAllNICDevices \/ WriteParam \/ NextAdapter \/ Patch

Next == Handler \/ Crash

Spec == Init /\ [][Next]_vars

\* Errors are retried and the handler's own returns ask for a requeue.
FairSpec == Spec /\ WF_vars(Handler)
-----------------------------------------------------------------------------
Like(a) == {n \in Listed : Looks(n) = a}

\* A complete adapter is never written to again, although indices are computed
\* from a count of the adapters that are listed: neither the template's nor one
\* that an earlier, failed visit has finished.  Init has only templates whose
\* adapters are numbered without gaps: past a gap the count is an index in use.
CompleteUntouched ==
    [][ \A n \in DOMAIN eth : (\A p \in Params : eth[n][p] # Nil) => eth'[n] = eth[n] ]_vars

\* A retry never adds an adapter that is there already, recorded or not.
NoneAddedTwice ==
    \A a \in Adapters :
        LET asked == IF wanted = Nil THEN {} ELSE {i \in DOMAIN wanted : wanted[i] = a}
            had == {n \in Like(a) : n <= nTemplate}
        IN  had # {} \/ Cardinality(Like(a)) <= Cardinality(asked)

\* Adapters that are added follow those of the template and appear in the order
\* of spec, also when a visit failed in between: status addresses are matched
\* with spec.network.ethernets by position.
AddedInOrder ==
    wanted # Nil /\ (\A i, j \in DOMAIN wanted : wanted[i] = wanted[j] => i = j) =>
        \A i, j \in DOMAIN wanted : \A m \in Like(wanted[i]), n \in Like(wanted[j]) :
            nTemplate < m /\ m < n => i < j

\* Adapters that have some of their parameters and are not being written.
Broken ==
    {n \in DOMAIN eth : /\ eth[n] # Blank
                        /\ \E p \in Params : eth[n][p] = Nil
                        /\ ~(pc = "add" /\ Missing /\ n = Target)}

\* A failure leaves at most one half-written adapter behind, and without one
\* every adapter is complete.
BrokenBounded == Cardinality(Broken) <= nUpsets

Part == INSTANCE ConfigPart WITH
    recorded <- (wanted = Nil \/ ContainsAll(status)),
    applied <- (wanted = Nil \/ \A i \in DOMAIN wanted : Like(wanted[i]) # {})

\* Once status contains every wanted adapter the VM has them, and keeps them.
ImplementsConfigPart == Part!Spec

\* The adapters that spec asks for are added and recorded.
AdaptersSettle == Part!Settles
=============================================================================
