---------------------------- MODULE GuestAddresses ----------------------------
(***************************************************************************)
(* reconcileAddresses and extractAddresses: once a VM runs, the addresses  *)
(* its guest reports are read every ten seconds until there are as many as *)
(* spec.network has ethernets; then they are recorded, the machine is      *)
(* ready, and they are never read again.  Meanwhile the guest's adapters   *)
(* come up one after the other, over IPv6 before or after IPv4, and any of *)
(* them may have several addresses of either kind.                         *)
(***************************************************************************)
EXTENDS Naturals, FiniteSets

CONSTANTS
    MaxEthernets, \* bound: the length of spec.network.ethernets
    NNics,        \* how many adapters the guest reports on
    IPv4, IPv6,   \* the addresses that each of them may have, of either kind
    Odd,          \* text that net.ParseCIDR refuses
    Upsets,       \* the kinds of adverse events that may happen
    MaxUpsets     \* bound: how many of them may happen in one behaviour

UpsetKinds ==
    { "call",    \* GetNicInfo fails, with status 500 or otherwise
      "patch",   \* the deferred patch fails
      "crash",   \* the manager stops and is started again
      "lose",    \* an adapter loses an address
      "odd" }    \* an adapter reports odd text

ASSUME GuestAssumption ==
    /\ MaxEthernets \in Nat /\ NNics \in Nat
    /\ IPv4 \cap IPv6 = {} /\ Odd \notin IPv4 \cup IPv6
    /\ Upsets \subseteq UpsetKinds /\ MaxUpsets \in Nat

VARIABLES
    nEthernets, \* the length of spec.network.ethernets
    dhcp6Off,   \* those of them with dhcp6: false
    nic,        \* what each adapter of the guest reports
    listed,     \* status.addresses as stored: pairs of adapter and address
    ready,      \* status.ready and status.initialization.provisioned, as stored
    mine,       \* status.addresses of the visit's copy
    pc,         \* where reconcileAddresses is
    nUpsets     \* history: the number of adverse events

specVars == <<nEthernets, dhcp6Off>>
vars == <<specVars, nic, listed, ready, mine, pc, nUpsets>>

Nics == 1..NNics

Reports == IPv4 \cup IPv6 \cup {Odd}

Addresses == Nics \X (IPv4 \cup IPv6)

\* The type invariant.
TypeOK ==
    /\ nEthernets \in 0..MaxEthernets /\ dhcp6Off \subseteq 1..nEthernets
    /\ nic \in [Nics -> SUBSET Reports]
    /\ listed \subseteq Addresses /\ mine \subseteq Addresses
    /\ ready \in BOOLEAN /\ pc \in {"idle", "patch"}
    /\ nUpsets \in 0..MaxUpsets

Init ==
    /\ nEthernets \in 0..MaxEthernets /\ dhcp6Off \in SUBSET (1..nEthernets)
    /\ nic = [i \in Nics |-> {}] /\ listed = {} /\ ready = FALSE /\ mine = {}
    /\ pc = "idle" /\ nUpsets = 0

-----------------------------------------------------------------------------
Upset(kind) == kind \in Upsets /\ nUpsets < MaxUpsets /\ nUpsets' = nUpsets + 1

NoUpset == UNCHANGED nUpsets

\* With dhcp6: false everything but IPv4 is skipped, before the parse error is
\* looked at; adapters beyond the last ethernet have no such setting.
Skipped(i, a) == i \in dhcp6Off /\ a \notin IPv4

\* extractAddresses gives up on the first text that is neither skipped nor parsed.
ParseFails == \E i \in Nics : Odd \in nic[i] /\ ~Skipped(i, Odd)

\* Faulty variant: dhcp6 is only looked at when the text cannot be parsed.
Extracted_All == UNION {{<<i, a>> : a \in nic[i]} : i \in Nics}

\* Every address of every adapter, but for the skipped ones.
Extracted == UNION {{<<i, a>> : a \in {b \in nic[i] : ~Skipped(i, b)}} : i \in Nics}

\* Faulty variants: any address will do; one more than there are ethernets.
Enough_One == Extracted # {}

Enough_More == Cardinality(Extracted) > nEthernets

\* The guest reports adapters at all, and as many addresses as ethernets,
\* whichever adapters have them.
Enough == NNics > 0 /\ Cardinality(Extracted) >= nEthernets

\* GetNicInfo and what follows; without enough addresses, or on an error, the
\* visit ends and another one follows.
GetNicInfo ==
    /\ pc = "idle" /\ listed = {}
    /\ \/ ~ParseFails /\ Enough /\ mine' = Extracted /\ pc' = "patch" /\ NoUpset
       \/ (ParseFails \/ ~Enough) /\ NoUpset /\ UNCHANGED <<mine, pc>>
       \/ Upset("call") /\ UNCHANGED <<mine, pc>>
    /\ UNCHANGED <<specVars, nic, listed, ready>>

\* The deferred patch stores the addresses, ready and provisioned.
Patch ==
    /\ pc = "patch" /\ pc' = "idle" /\ mine' = {}
    /\ \/ listed' = mine /\ ready' = TRUE /\ NoUpset
       \/ Upset("patch") /\ UNCHANGED <<listed, ready>>
    /\ UNCHANGED <<specVars, nic>>

Crash ==
    /\ pc # "idle" /\ Upset("crash")
    /\ pc' = "idle" /\ mine' = {}
    /\ UNCHANGED <<specVars, nic, listed, ready>>

\* An adapter gets an address, or loses one.
Gets(i, a) ==
    /\ a \notin nic[i]
    /\ nic' = [nic EXCEPT ![i] = @ \cup {a}]
    /\ IF a = Odd THEN Upset("odd") ELSE NoUpset
    /\ UNCHANGED <<specVars, listed, ready, mine, pc>>

Loses(i, a) ==
    /\ a \in nic[i]
    /\ nic' = [nic EXCEPT ![i] = @ \ {a}]
    /\ IF a = Odd THEN NoUpset ELSE Upset("lose")
    /\ UNCHANGED <<specVars, listed, ready, mine, pc>>

Handler == GetNicInfo \/ Patch

Next ==
    \/ Handler \/ Crash
    \/ \E i \in Nics, a \in Reports : Gets(i, a) \/ Loses(i, a)

Spec == Init /\ [][Next]_vars

\* Visits go on; every adapter gets an IPv4 address, though not every one that it
\* may have, and odd text is not there for ever.
FairSpec ==
    /\ Spec /\ WF_vars(Handler)
    /\ \A i \in Nics : /\ WF_vars(nic[i] \cap IPv4 = {} /\ \E a \in IPv4 : Gets(i, a))
                      /\ WF_vars(Loses(i, Odd))
-----------------------------------------------------------------------------
\* A list with an address of every ethernet, or with what fills the count in the
\* place of a missing one: two addresses of one adapter, or one of an adapter that
\* spec does not know.
Accounted(list) ==
    \/ \A i \in 1..nEthernets : \E x \in list : x[1] = i
    \/ \E x, y \in list : x # y /\ x[1] = y[1]
    \/ \E x \in list : x[1] > nEthernets

\* When a machine is ready, and its addresses are frozen, an ethernet without an
\* address among them has one on the list in its place: a second one of some
\* adapter (a virtual IP, IPv6, DHCP beside a static address) or one of an adapter
\* that spec does not know.  For extractAddresses lists every address of every
\* adapter, and reconcileAddresses only counts them.  Where that happens the
\* ethernet's address is never listed; nowhere else is one missing, however the
\* guest's addresses come and go between visits.
EveryEthernetListed == ready => Accounted(listed)

\* The machine becomes ready and has addresses.
AddressesRecorded == <>(ready /\ listed # {})
=============================================================================
