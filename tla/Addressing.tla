------------------------------ MODULE Addressing ------------------------------
(***************************************************************************)
(* How machines get their static addresses: reconcileNetworkAddresses      *)
(* claims one per ethernet with an ipamRef and waits for the IPAM          *)
(* provider, reconcileBootstrapData looks the addresses up again, renders  *)
(* them into the metadata of the VM and writes the guestinfo parameters    *)
(* one by one, in the random order of a Go map.                            *)
(*                                                                         *)
(* Several machines draw on one pool.  The controller has one worker, so   *)
(* visits do not overlap, but the provider, garbage collection, deletions  *)
(* and failing calls come between any two calls of a visit.                *)
(***************************************************************************)
EXTENDS Naturals, Sequences, FiniteSets

CONSTANTS
    Machines,   \* machine names, as sequences of tokens
    Ethernets,  \* spec.network.ethernets of each machine
    IPs,        \* the pool
    Params,     \* the guestinfo parameters; the program has userdata, metadata
                \* and an encoding for each, in runs they may be fewer
    Nil,        \* no address, no claim, no metadata
    Upsets,     \* the kinds of adverse events that may happen, each once
    MaxUpsets   \* bound: how many of them may happen in one behaviour

UpsetKinds ==
    { "call",       \* a call of the API server or of vmrest fails without effect
      "lostReply",  \* a call takes effect but the controller sees an error
      "patch",      \* the deferred patch fails
      "crash",      \* the manager stops and is started again
      "withdraw" }  \* an address is taken back although its claim exists

Names(m) == {Ethernets[m][i].name : i \in DOMAIN Ethernets[m]}

\* Faulty variant: the machine is left out of the name.
ClaimName_Ethernet(m, name) == name

\* claimName is the machine's name, a dash and the ethernet's name.
ClaimName(m, name) == m \o <<"-">> \o name

Lookup(m) == [Names(m) -> IPs \cup {Nil}]

\* The metadata that can be rendered for a machine.
Rendered(m) == [addresses : Lookup(m), nodeIP : IPs \cup {Nil}]

Claims == UNION {{ClaimName(m, name) : name \in Names(m)} : m \in Machines}

ASSUME AddressingAssumption ==
    /\ \A m \in Machines : Ethernets[m] \in
            Seq([name : Names(m), ipam : BOOLEAN, nodeIP : BOOLEAN])
    /\ "metadata" \in Params
    /\ Nil \notin IPs /\ Nil \notin Machines
    /\ \A m \in Machines : Nil \notin Rendered(m)
    /\ Upsets \subseteq UpsetKinds /\ MaxUpsets \in Nat

VARIABLES
    machine,    \* the VM and the object of each machine: live, vmGone or gone
    claim,      \* IPAddressClaims: the machine that owns each one
    address,    \* IPAddresses: what the provider gave to each claim
    provided,   \* machines whose status says bootstrapDataProvided
    guest,      \* the guestinfo parameters of each VM, and what its metadata says
    pc, cur,    \* where the worker is, and on which machine
    index,      \* the ethernet the visit is at
    found,      \* the addresses reconcileBootstrapData has looked up
    todo,       \* the parameters still to be written
    upsets      \* history: the kinds of adverse events so far

visitVars == <<pc, cur, index, found, todo>>
vars == <<machine, claim, address, provided, guest, visitVars, upsets>>

\* Faulty variant: the last address found is the node's.
NodeIP_Any(m, at) ==
    LET is == {i \in DOMAIN Ethernets[m] : at[Ethernets[m][i].name] # Nil} IN
    IF is = {} THEN Nil
    ELSE at[Ethernets[m][CHOOSE i \in is : \A j \in is : j <= i].name]

\* The address of the last ethernet marked ipamAsNodeIP that has one.
NodeIP(m, at) ==
    LET is == {i \in DOMAIN Ethernets[m] :
                 Ethernets[m][i].nodeIP /\ at[Ethernets[m][i].name] # Nil} IN
    IF is = {} THEN Nil
    ELSE at[Ethernets[m][CHOOSE i \in is : \A j \in is : j <= i].name]

\* What the rendered template says: ethernets without an address have no
\* addresses entry (and their routes no gateway), node-ip may be missing.
Metadata(m, at) == [addresses |-> at, nodeIP |-> NodeIP(m, at)]

Empty == [written |-> {}, metadata |-> Nil]

\* The type invariant.
TypeOK ==
    /\ machine \in [Machines -> {"live", "vmGone", "gone"}]
    /\ claim \in [Claims -> Machines \cup {Nil}]
    /\ address \in [Claims -> IPs \cup {Nil}]
    /\ provided \subseteq Machines
    /\ DOMAIN guest = Machines
    /\ \A m \in Machines : guest[m] \in [written : SUBSET Params, metadata : {Nil} \cup Rendered(m)]
    /\ pc \in {"idle", "claim", "wait", "lookup", "write", "patch"}
    /\ cur \in Machines \cup {Nil} /\ index \in Nat /\ todo \subseteq Params
    /\ found \in (IF cur = Nil THEN {<<>>} ELSE Lookup(cur))
    /\ upsets \subseteq Upsets

Init ==
    /\ machine = [m \in Machines |-> "live"]
    /\ claim = [c \in Claims |-> Nil] /\ address = [c \in Claims |-> Nil]
    /\ provided = {}
    /\ guest = [m \in Machines |-> Empty]
    /\ pc = "idle" /\ cur = Nil /\ index = 0 /\ found = <<>> /\ todo = {}
    /\ upsets = {}

-----------------------------------------------------------------------------
Upset(kind) ==
    /\ kind \in Upsets \ upsets /\ Cardinality(upsets) < MaxUpsets
    /\ upsets' = upsets \cup {kind}

NoUpset == UNCHANGED upsets

\* The visit is over, with whatever result: the key comes back.
Over == pc' = "idle" /\ cur' = Nil /\ index' = 0 /\ found' = <<>> /\ todo' = {}

Goto(step, i) == pc' = step /\ index' = i /\ UNCHANGED <<cur, found, todo>>

CallFails == Upset("call") /\ Over

Ethernet == Ethernets[cur][index]

Name == ClaimName(cur, Ethernet.name)

Visit(m) ==
    /\ pc = "idle" /\ machine[m] = "live"
    /\ pc' = "claim" /\ cur' = m /\ index' = 1
    /\ found' = [name \in Names(m) |-> Nil] /\ todo' = {}
    /\ UNCHANGED <<machine, claim, address, provided, guest, upsets>>

\* Faulty variant: a claim without a controller reference.
Owner_None == "nobody"

\* NewControllerRef(vdMachine)
Owner == cur

\* The claim of the next ethernet is looked up and made if it is missing; one
\* that is there is used, whoever owns it.
\* After the last one other handlers may end the visit; only a machine without
\* bootstrap data goes on to reconcileBootstrapData.
MakeClaim ==
    /\ pc = "claim"
    /\ \/ /\ index \notin DOMAIN Ethernets[cur]
          /\ Over \/ (cur \notin provided /\ Goto("lookup", 1))
          /\ NoUpset /\ UNCHANGED claim
       \/ /\ index \in DOMAIN Ethernets[cur] /\ ~Ethernet.ipam
          /\ Goto("claim", index + 1) /\ NoUpset /\ UNCHANGED claim
       \/ /\ index \in DOMAIN Ethernets[cur] /\ Ethernet.ipam
          /\ \/ /\ claim' = [claim EXCEPT ![Name] = IF @ = Nil THEN Owner ELSE @]
                /\ (Goto("wait", index) /\ NoUpset) \/ (Upset("lostReply") /\ Over)
             \/ CallFails /\ UNCHANGED claim
    /\ UNCHANGED <<machine, address, provided, guest>>

\* Faulty variant: an address that is not there yet is not waited for.
Answered_Always == TRUE

Answered == address[Name] # Nil

\* The address of the claim is looked up; without one the visit is over and
\* another one follows after a second.
AwaitAddress ==
    /\ pc = "wait"
    /\ \/ Answered /\ Goto("claim", index + 1) /\ NoUpset
       \/ ~Answered /\ Over /\ NoUpset
       \/ CallFails
    /\ UNCHANGED <<machine, claim, address, provided, guest>>

\* findIpamAddress for the next ethernet, with or without an ipamRef; an address
\* that is missing is left out.  After the last one the metadata is rendered.
FindIpamAddress ==
    /\ pc = "lookup"
    /\ \/ /\ index \in DOMAIN Ethernets[cur] /\ NoUpset
          /\ found' = [found EXCEPT ![Ethernet.name] = address[Name]]
          /\ index' = index + 1 /\ UNCHANGED <<pc, cur, todo>>
       \/ /\ index \notin DOMAIN Ethernets[cur] /\ NoUpset
          /\ pc' = "write" /\ todo' = Params /\ UNCHANGED <<cur, index, found>>
       \/ CallFails
    /\ UNCHANGED <<machine, claim, address, provided, guest>>

Written(p) ==
    [guest EXCEPT ![cur] =
        [written  |-> @.written \cup {p},
         metadata |-> IF p = "metadata" THEN Metadata(cur, found) ELSE @.metadata]]

\* ConfigVMParams for one parameter.
WriteParam ==
    /\ pc = "write"
    /\ \E p \in todo :
        \/ /\ guest' = Written(p)
           /\ \/ /\ NoUpset /\ todo' = todo \ {p}
                 /\ pc' = (IF todo' = {} THEN "patch" ELSE "write")
                 /\ UNCHANGED <<cur, index, found>>
              \/ Upset("lostReply") /\ Over
        \/ CallFails /\ UNCHANGED guest
    /\ UNCHANGED <<machine, claim, address, provided>>

\* Faulty variant: bootstrapDataProvided is never set.
Provided_Never == provided

Provided == provided \cup {cur}

\* The deferred patch stores bootstrapDataProvided.
Patch ==
    /\ pc = "patch" /\ Over
    /\ \/ provided' = Provided /\ NoUpset
       \/ Upset("patch") /\ UNCHANGED provided
    /\ UNCHANGED <<machine, claim, address, guest>>

Crash ==
    /\ pc # "idle" /\ Upset("crash") /\ Over
    /\ UNCHANGED <<machine, claim, address, provided, guest>>

-----------------------------------------------------------------------------
(* The provider, deletion and garbage collection.                            *)

\* The provider gives a free address to a claim.
Bind(c) ==
    /\ claim[c] # Nil /\ address[c] = Nil
    /\ \E ip \in IPs :
        /\ \A d \in Claims : address[d] # ip
        /\ address' = [address EXCEPT ![c] = ip]
    /\ UNCHANGED <<machine, claim, provided, guest, visitVars, upsets>>

Withdraw(c) ==
    /\ address[c] # Nil /\ Upset("withdraw")
    /\ address' = [address EXCEPT ![c] = Nil]
    /\ UNCHANGED <<machine, claim, provided, guest, visitVars>>

\* A visit to a deleted machine destroys the VM.
DeleteVM(m) ==
    /\ pc = "idle" /\ machine[m] = "live"
    /\ machine' = [machine EXCEPT ![m] = "vmGone"]
    /\ guest' = [guest EXCEPT ![m] = Empty]
    /\ UNCHANGED <<claim, address, provided, visitVars, upsets>>

\* Faulty variant: the object does not wait for its VM.
Finalized_Always(m) == machine[m] # "gone"

Finalized(m) == machine[m] = "vmGone"

\* The object goes once its finalizer is removed, after the VM.
ObjectGone(m) ==
    /\ pc = "idle" /\ Finalized(m)
    /\ machine' = [machine EXCEPT ![m] = "gone"] /\ provided' = provided \ {m}
    /\ UNCHANGED <<claim, address, guest, visitVars, upsets>>

\* Garbage collection of a claim whose owner is gone; its address is free again.
Collect(c) ==
    /\ claim[c] \in Machines /\ machine[claim[c]] = "gone"
    /\ claim' = [claim EXCEPT ![c] = Nil] /\ address' = [address EXCEPT ![c] = Nil]
    /\ UNCHANGED <<machine, provided, guest, visitVars, upsets>>

Step == MakeClaim \/ AwaitAddress \/ FindIpamAddress \/ WriteParam \/ Patch

Next ==
    \/ Step \/ Crash
    \/ \E m \in Machines : Visit(m) \/ DeleteVM(m) \/ ObjectGone(m)
    \/ \E c \in Claims : Bind(c) \/ Withdraw(c) \/ Collect(c)

Spec == Init /\ [][Next]_vars

\* The worker finishes its visits, every key comes back (errors are retried,
\* waiting asks for a requeue), the provider answers, garbage is collected, and
\* handlers after the claims do not end visits for ever.
FairSpec ==
    /\ Spec /\ WF_vars(Step)
    /\ \A m \in Machines :
          SF_vars(Visit(m)) /\ SF_vars(cur = m /\ MakeClaim /\ pc' = "lookup")
    /\ WF_vars(\E c \in Claims : Bind(c)) /\ WF_vars(\E c \in Claims : Collect(c))
-----------------------------------------------------------------------------
\* No other ethernet's claim has the name of this one's.  Machines and ethernets
\* may have dashes in their names, and nothing in the code keeps two claims of
\* different machines from coinciding.
OwnClaim(m, name) ==
    \A n \in Machines : \A e \in Names(n) :
        ClaimName(n, e) = ClaimName(m, name) => n = m /\ e = name

\* The addresses that VMs use, or will use when they start, each as the machine
\* and the ethernet it was rendered for.
Used(ip) ==
    UNION {{<<m, name>> : name \in {n \in Names(m) : guest[m].metadata.addresses[n] = ip}} :
           m \in {n \in Machines : guest[n].metadata # Nil}}

\* Of the ethernets with a claim of their own no two use one address, be they of
\* two VMs or of one: their claims belong to their machines alone, and go only
\* after the VM.  It promises nothing for claims whose names coincide: there two
\* VMs do get one address, and when the machine that owns the claim goes first,
\* the pool gives the address away under the VM of the other, to any ethernet.
\* It also needs that no address is taken back from a claim that exists.
NoSharedAddress ==
    "withdraw" \notin upsets =>
        \A ip \in IPs : Cardinality({u \in Used(ip) : OwnClaim(u[1], u[2])}) <= 1

\* Bootstrap data is recorded as provided only when the VM has all of it, with
\* the address its claim holds on every ethernet that asks for one, and with the
\* right one as the node's; retries after a partial write do not mix visits.
\* An address that disappears between being waited for and being rendered is left
\* out without an error.  The two ways for that are excluded here: it is taken
\* back (withdraw), or the claim is another machine's, which goes (OwnClaim).
ProvidedComplete ==
    "withdraw" \notin upsets =>
        \A m \in provided : machine[m] = "live" =>
            /\ guest[m].written = Params
            /\ guest[m].metadata # Nil
            /\ \A i \in DOMAIN Ethernets[m] :
                LET e == Ethernets[m][i]
                    given == guest[m].metadata.addresses[e.name]
                    asked == e.ipam /\ OwnClaim(m, e.name)
                IN  /\ asked => given # Nil /\ given = address[ClaimName(m, e.name)]
                    /\ asked /\ e.nodeIP /\ (\A j \in (i+1)..Len(Ethernets[m]) : ~Ethernets[m][j].nodeIP)
                         => guest[m].metadata.nodeIP = given

\* Every machine gets its bootstrap data, unless it is deleted first, when the pool
\* holds an address for every claim.
BootstrapDelivered ==
    <>(\A m \in Machines : m \in provided \/ machine[m] # "live")

\* The addresses of a machine that is gone return to the pool, but for those of
\* claims that another machine owns.
AddressesReturned ==
    \A m \in Machines :
        machine[m] = "gone" ~> \A name \in Names(m) :
                                  OwnClaim(m, name) => address[ClaimName(m, name)] = Nil
=============================================================================
