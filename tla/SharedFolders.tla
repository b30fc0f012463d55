---------------------------- MODULE SharedFolders ----------------------------
(***************************************************************************)
(* reconcileSharedFolders and sharedFoldersEqual, call by call: folders    *)
(* that spec does not want are deleted, in the random order of a Go map;   *)
(* then every folder that spec lists is created, those that exist included *)
(* (vmrest then replaces the path, as the code's log line says).  Any call *)
(* may fail, and the next visit starts over from what the VM then has.     *)
(***************************************************************************)
EXTENDS Naturals, Sequences

CONSTANTS
    Ids,        \* folder ids
    Paths,      \* paths on the host
    Nil,        \* no folder of that id
    Wishes,     \* the values of spec.sharedFolders to try
    Upsets,     \* the kinds of adverse events that may happen
    MaxUpsets   \* bound: how many of them may happen in one behaviour

UpsetKinds == {"call", "lostReply", "patch", "crash"}

ASSUME FoldersAssumption ==
    /\ Nil \notin Paths
    /\ Wishes \subseteq Seq(Ids \X Paths)
    /\ Upsets \subseteq UpsetKinds /\ MaxUpsets \in Nat

VARIABLES
    wanted,    \* spec.sharedFolders: pairs of id and path
    status,    \* status.sharedFolders as stored, as a map
    myStatus,  \* the private copy of the visit
    pc,        \* where reconcileSharedFolders is
    stale,     \* ids that are still to be deleted
    index,     \* the next wanted folder to create
    vm,        \* the folders of the VM
    nUpsets    \* history: the number of adverse events

vars == <<wanted, status, myStatus, pc, stale, index, vm, nUpsets>>

Folders == [Ids -> Paths \cup {Nil}]

None == [f \in Ids |-> Nil]

\* Faulty variant: of two entries with the same id the first one wins.
AsMap_First(list) ==
    [f \in Ids |->
        IF \E i \in DOMAIN list : list[i][1] = f
        THEN list[CHOOSE i \in DOMAIN list : list[i][1] = f /\ \A j \in 1..(i-1) : list[j][1] # f][2]
        ELSE Nil]

\* A list of folders as the map that the code makes of it: the last one wins.
AsMap(list) ==
    [f \in Ids |->
        IF \E i \in DOMAIN list : list[i][1] = f
        THEN list[CHOOSE i \in DOMAIN list :
                    list[i][1] = f /\ \A j \in (i+1)..Len(list) : list[j][1] # f][2]
        ELSE Nil]

\* Faulty variant: a folder that is not wanted is not noticed.
SharedFoldersEqual_Subset(list, found) ==
    \A f \in Ids : AsMap(list)[f] # Nil => AsMap(list)[f] = found[f]

\* Same ids with the same paths.
SharedFoldersEqual(list, found) == AsMap(list) = found

\* Faulty variant: a folder that may have another path is deleted first.
Stale_All(found) == {f \in Ids : found[f] # Nil}

Stale(found) == {f \in Ids : found[f] # Nil /\ AsMap(wanted)[f] = Nil}

\* The type invariant; a folder that is wanted is never due to be deleted.
TypeOK ==
    /\ wanted \in Wishes
    /\ {status, myStatus, vm} \subseteq Folders
    /\ pc \in {"idle", "write", "patch"}
    /\ stale \subseteq {f \in Ids : AsMap(wanted)[f] = Nil}
    /\ index \in 1..(Len(wanted) + 1)
    /\ nUpsets \in 0..MaxUpsets

Init ==
    /\ wanted \in Wishes /\ vm \in Folders
    /\ status = None /\ myStatus = None
    /\ pc = "idle" /\ stale = {} /\ index = 1 /\ nUpsets = 0

-----------------------------------------------------------------------------
Upset(kind) == kind \in Upsets /\ nUpsets < MaxUpsets /\ nUpsets' = nUpsets + 1

NoUpset == UNCHANGED nUpsets

\* The visit begins with GetAllSharedFolders, whose answer is recorded; when it
\* is what spec wants, reconcileNormal goes on.
GetAllSharedFolders ==
    /\ pc = "idle" /\ ~SharedFoldersEqual(wanted, status)
    /\ \/ /\ NoUpset
          /\ myStatus' = vm /\ stale' = Stale(vm)
          /\ pc' = IF SharedFoldersEqual(wanted, vm) THEN "patch" ELSE "write"
       \/ Upset("call") /\ UNCHANGED <<myStatus, stale, pc>>
    /\ UNCHANGED <<wanted, status, index, vm>>

\* A call fails, before or after it took effect, and the visit is over.
Fails(v) ==
    /\ \/ Upset("lostReply") /\ vm' = v
       \/ Upset("call") /\ UNCHANGED vm
    /\ pc' = "patch"
    /\ UNCHANGED <<stale, index>>

DeleteSharedFolder ==
    /\ pc = "write"
    /\ \E f \in stale :
        LET v == [vm EXCEPT ![f] = Nil] IN
        \/ vm' = v /\ stale' = stale \ {f} /\ NoUpset /\ UNCHANGED <<pc, index>>
        \/ Fails(v)
    /\ UNCHANGED <<wanted, status, myStatus>>

CreateSharedFolder ==
    /\ pc = "write" /\ stale = {} /\ index \in DOMAIN wanted
    /\ LET v == [vm EXCEPT ![wanted[index][1]] = wanted[index][2]] IN
        \/ vm' = v /\ index' = index + 1 /\ NoUpset /\ UNCHANGED <<pc, stale>>
        \/ Fails(v)
    /\ UNCHANGED <<wanted, status, myStatus>>

\* Everything is written: requeue after a millisecond, to read it back.
Written ==
    /\ pc = "write" /\ stale = {} /\ index \notin DOMAIN wanted
    /\ pc' = "patch"
    /\ UNCHANGED <<wanted, status, myStatus, stale, index, vm, nUpsets>>

\* The visit is over and its variables are gone.
Over == pc' = "idle" /\ myStatus' = None /\ stale' = {} /\ index' = 1

\* The deferred patch.
Patch ==
    /\ pc = "patch" /\ Over
    /\ \/ status' = myStatus /\ NoUpset
       \/ Upset("patch") /\ UNCHANGED status
    /\ UNCHANGED <<wanted, vm>>

Crash ==
    /\ pc # "idle" /\ Upset("crash") /\ Over
    /\ UNCHANGED <<wanted, status, vm>>

Handler == GetAllSharedFolders \/ DeleteSharedFolder \/ CreateSharedFolder \/ Written \/ Patch

Next == Handler \/ Crash

Spec == Init /\ [][Next]_vars

\* Errors are retried and the handler's own returns ask for a requeue.
FairSpec == Spec /\ WF_vars(Handler)
-----------------------------------------------------------------------------
Distinct(list) == \A i, j \in DOMAIN list : list[i][1] = list[j][1] => i = j

\* Deleting and re-creating never takes a folder away that spec wants, and a
\* folder that is right stays right however often a failing visit starts over
\* (with an id listed twice its path changes to and fro in every retry).
WantedStays ==
    [][ \A f \in Ids : AsMap(wanted)[f] # Nil /\ vm[f] # Nil =>
            /\ vm'[f] # Nil
            /\ Distinct(wanted) /\ vm[f] = AsMap(wanted)[f] => vm'[f] = vm[f] ]_vars

Part == INSTANCE ConfigPart WITH
    recorded <- SharedFoldersEqual(wanted, status),
    applied <- (wanted = <<>> \/ vm = AsMap(wanted))

\* Once status equals spec the VM has exactly the wanted folders, and keeps
\* them.  (An empty spec equals the empty status from the start, so folders of
\* the template are only removed when spec wants others.)
ImplementsConfigPart == Part!Spec

\* Retries get there, also with an id that is listed twice.
FoldersSettle == Part!Settles
=============================================================================
