----------------------------- MODULE Discovery -----------------------------
(***************************************************************************)
(* From the nodes in /dev to one receiver and the devices paired with it:  *)
(* Discover, the probe of each candidate, Configure and EnumeratePaired of *)
(* internal/receiver/receiver.go, as OpenAndEnumerate (one snapshot) and   *)
(* OpenSession (internal/receiver/lifecycle.go) call them.                 *)
(*                                                                         *)
(* Nodes are opened with the daemon's own opener.  hidraw.Open wraps the   *)
(* error of os.OpenFile, and os.IsPermission does not look through a wrap: *)
(* a node the daemon may not open is passed over like any other, and the   *)
(* return for it in Discover is never taken.                               *)
(***************************************************************************)
EXTENDS Naturals, Sequences, SequencesExt

CONSTANTS
  Scan,        \* the nodes, in the order DeviceScanner's glob returns them: each once
  NoNode,      \* no node
  MaxSlot,     \* the receiver's last slot, 6 in the code
  MaxFaults,   \* bound on exchanges and system calls that fail
  MaxChanges   \* bound on devices paired or unpaired by the user meanwhile

ASSUME DiscoveryAssumption ==
  /\ Scan \in Seq(Range(Scan)) /\ IsInjective(Scan)
  /\ NoNode \notin Range(Scan)
  /\ MaxSlot \in Nat \ {0}
  /\ {MaxFaults, MaxChanges} \subseteq Nat

Node == Range(Scan)
Slot == 1..MaxSlot
Kind == {"bolt", "unifying"}

\* What a node is: a receiver, another HID++ device, a device without a HID++
\* report, one the daemon may not open, one that does not exist, or no more when
\* it was scanned.
Nature == Kind \cup {"other", "foreign", "denied", "absent"}

VARIABLES
  nature,    \* of each node
  hint,      \* the receiver its USB product ID stands for, "none" for no known one
  paired,    \* slots of each node's receiver that have a device
  options,   \* the caller: its path (or NoNode), its kind (or "any"), "snapshot" or "session"
  open,      \* nodes the process has open
  todo,      \* nodes not opened yet
  pc,        \* "scan", "inspect", "connection", "identity", "configure",
             \* "pairing", "name", "return", and at the end "failed" or the caller's
  at,        \* the node being probed, then the one selected
  tries,     \* kinds the probe has not tried yet
  kind,      \* what the probe found each node to be
  found,     \* receivers Discover is to return
  slot,      \* slot being read
  devices,   \* slots listed so far
  always,    \* history: slots paired ever since the enumeration began
  ever,      \* history: slots paired at some time since
  faults,    \* failures so far
  changes    \* changes of the pairing so far

worldVars == <<nature, hint, options>>
probeVars == <<open, todo, at, tries, kind, found>>
listVars == <<slot, devices>>
pairVars == <<paired, always, ever>>

vars == <<worldVars, probeVars, listVars, pairVars, pc, faults, changes>>

\* What Discover goes through: the caller's path, or what the scan has found.
Candidates == IF options.path # NoNode THEN <<options.path>> ELSE Scan

Init ==
  /\ nature \in [Node -> Nature]
  /\ hint \in [Node -> Kind \cup {"none"}]
  /\ paired \in [Node -> SUBSET Slot]
  /\ \A n \in Node : nature[n] \notin Kind => hint[n] = "none" /\ paired[n] = {}
  /\ options \in [path : Node \cup {NoNode}, kind : Kind \cup {"any"},
                  caller : {"snapshot", "session"}]
  /\ open = {}
  /\ todo = Candidates
  /\ pc = "scan"
  /\ at = NoNode
  /\ tries = << >>
  /\ kind = [n \in Node |-> "unknown"]
  /\ found = << >>
  /\ slot = 1
  /\ devices = {}
  /\ always = {}
  /\ ever = {}
  /\ faults = 0
  /\ changes = 0

Fault ==
  /\ faults < MaxFaults
  /\ faults' = faults + 1

-----------------------------------------------------------------------------
(* Discover: opening a node *)

\* A candidate is given up: the explicit path's error is returned, any other is
\* passed over.
GiveUp ==
  /\ pc' = IF options.path # NoNode THEN "failed" ELSE "scan"
  /\ at' = NoNode
  /\ tries' = << >>
  /\ UNCHANGED <<todo, kind, found>>

StillOpen(n) == open    \* mutant: a candidate given up is not closed

Discarded(n) == open \ {n}

\* The candidate's transport is closed with it.
Discard ==
  /\ open' = Discarded(at)
  /\ GiveUp

Open ==
  /\ pc = "scan"
  /\ todo # << >>
  /\ at' = Head(todo)
  /\ todo' = Tail(todo)
  /\ nature[at'] \notin {"denied", "absent"}
  /\ open' = open \cup {at'}
  /\ pc' = "inspect"
  /\ UNCHANGED <<worldVars, listVars, pairVars, tries, kind, found, faults, changes>>

\* It cannot be opened: for what it is, or because it has just gone.
OpenFails ==
  /\ pc = "scan"
  /\ todo # << >>
  /\ \/ nature[Head(todo)] \in {"denied", "absent"} /\ UNCHANGED faults
     \/ nature[Head(todo)] \notin {"denied", "absent"} /\ Fault
  /\ pc' = IF options.path # NoNode THEN "failed" ELSE "scan"
  /\ todo' = Tail(todo)
  /\ UNCHANGED <<worldVars, listVars, pairVars, open, at, tries, kind, found, changes>>

\* systemOpener: nothing is written to a device without a HID++ report.
Inspect ==
  /\ pc = "inspect"
  /\ nature[at] # "foreign"
  /\ pc' = "connection"
  /\ UNCHANGED <<worldVars, probeVars, listVars, pairVars, faults, changes>>

InspectFails ==
  /\ pc = "inspect"
  /\ IF nature[at] = "foreign" THEN UNCHANGED faults ELSE Fault
  /\ Discard
  /\ UNCHANGED <<worldVars, listVars, pairVars, changes>>

-----------------------------------------------------------------------------
(* Probe *)

OrderByProduct(n) ==    \* mutant: a known product ID settles the kind
  IF hint[n] = "none" THEN <<"bolt", "unifying">> ELSE <<hint[n]>>

\* Both kinds are tried; the product ID only says which one first.
ProbeOrder(n) ==
  IF hint[n] = "unifying" THEN <<"unifying", "bolt">> ELSE <<"bolt", "unifying">>

ProbeConnection ==
  /\ pc = "connection"
  /\ tries' = ProbeOrder(at)
  /\ pc' = "identity"
  /\ UNCHANGED <<worldVars, listVars, pairVars, open, todo, at, kind, found, faults, changes>>

ConnectionFails ==
  /\ pc = "connection"
  /\ IF nature[at] \notin Kind THEN UNCHANGED faults ELSE Fault
  /\ Discard
  /\ UNCHANGED <<worldVars, listVars, pairVars, changes>>

Wanted(k) == options.kind \in {"any", k}

\* The receiver identifies itself as the kind being tried.
Identify ==
  /\ pc = "identity"
  /\ tries # << >>
  /\ nature[at] = Head(tries)
  /\ kind' = [kind EXCEPT ![at] = Head(tries)]
  /\ IF Wanted(Head(tries))
       THEN /\ found' = Append(found, at)
            /\ pc' = "scan"
            /\ tries' = << >>
            /\ UNCHANGED <<open, at, todo>>
       ELSE /\ open' = Discarded(at)
            /\ pc' = IF options.path # NoNode THEN "failed" ELSE "scan"
            /\ at' = NoNode
            /\ tries' = << >>
            /\ UNCHANGED <<todo, found>>
  /\ UNCHANGED <<worldVars, listVars, pairVars, faults, changes>>

\* It does not, or no answer comes: the other kind is tried.
TryNext ==
  /\ pc = "identity"
  /\ tries # << >>
  /\ IF nature[at] = Head(tries) THEN Fault ELSE UNCHANGED faults
  /\ tries' = Tail(tries)
  /\ UNCHANGED <<worldVars, listVars, pairVars, open, todo, at, kind, found, pc, changes>>

\* The transport fails or the answer is malformed, or neither kind is left.
IdentityFails ==
  /\ pc = "identity"
  /\ IF tries = << >> THEN UNCHANGED faults ELSE Fault
  /\ Discard
  /\ UNCHANGED <<worldVars, listVars, pairVars, changes>>

-----------------------------------------------------------------------------
(* The callers: one receiver is kept *)

Others == Range(Tail(found))

\* The error is ErrNoReceiver, or the last one of a transport that failed.
NoReceiver ==
  /\ pc = "scan"
  /\ todo = << >>
  /\ found = << >>
  /\ pc' = "failed"
  /\ UNCHANGED <<worldVars, probeVars, listVars, pairVars, faults, changes>>

Select ==
  /\ pc = "scan"
  /\ todo = << >>
  /\ found # << >>
  /\ at' = Head(found)
  /\ open' = open \ Others
  /\ pc' = "configure"
  /\ UNCHANGED <<worldVars, listVars, pairVars, todo, tries, kind, found, faults, changes>>

\* The two writes of Configure.
Configure ==
  /\ pc = "configure"
  /\ pc' = "pairing"
  /\ always' = paired[at]
  /\ ever' = paired[at]
  /\ UNCHANGED <<worldVars, probeVars, listVars, paired, faults, changes>>

\* Any error from here on closes the receiver, and the caller gets no list.
Abandon ==
  /\ open' = open \ {at}
  /\ pc' = "failed"
  /\ UNCHANGED <<worldVars, todo, at, tries, kind, found, listVars, pairVars, changes>>

ConfigureFails == pc = "configure" /\ Fault /\ Abandon

-----------------------------------------------------------------------------
(* EnumeratePaired *)

Beyond(s) ==
  IF s = MaxSlot
    THEN pc' = "return" /\ UNCHANGED slot
    ELSE pc' = "pairing" /\ slot' = s + 1

\* A receiver answers for a device when it is asked in its own dialect.
Holds(s) == kind[at] = nature[at] /\ s \in paired[at]

\* An error code for a slot without a device, or zeroes instead of one.
EmptySlot ==
  /\ pc = "pairing"
  /\ ~Holds(slot)
  /\ Beyond(slot)
  /\ UNCHANGED <<worldVars, probeVars, pairVars, devices, faults, changes>>

ReadPairing ==
  /\ pc = "pairing"
  /\ Holds(slot)
  /\ pc' = "name"
  /\ UNCHANGED <<worldVars, probeVars, pairVars, listVars, faults, changes>>

PairingSkipped ==    \* mutant: a slot that cannot be read is taken to be empty
  /\ pc = "pairing"
  /\ Fault
  /\ Beyond(slot)
  /\ UNCHANGED <<worldVars, probeVars, pairVars, devices, changes>>

PairingFails == pc = "pairing" /\ Fault /\ Abandon

\* The name, or an error code that says there is none; the device is listed.
ReadName ==
  /\ pc = "name"
  /\ devices' = devices \cup {slot}
  /\ Beyond(slot)
  /\ UNCHANGED <<worldVars, probeVars, pairVars, faults, changes>>

NameFails == pc = "name" /\ Fault /\ Abandon

\* A snapshot closes its receiver, a session keeps it.
Return ==
  /\ pc = "return"
  /\ pc' = options.caller
  /\ open' = IF options.caller = "snapshot" THEN open \ {at} ELSE open
  /\ UNCHANGED <<worldVars, todo, at, tries, kind, found, listVars, pairVars, faults, changes>>

CloseFails == pc = "return" /\ options.caller = "snapshot" /\ Fault /\ Abandon

-----------------------------------------------------------------------------
(* The user pairs and unpairs devices meanwhile *)

Change ==
  /\ pc \in {"pairing", "name"}
  /\ changes < MaxChanges
  /\ changes' = changes + 1
  /\ \E s \in Slot :
       /\ paired' = [paired EXCEPT ![at] = IF s \in @ THEN @ \ {s} ELSE @ \cup {s}]
       /\ always' = always \ {s}
       /\ ever' = ever \cup {s}
  /\ UNCHANGED <<worldVars, probeVars, listVars, pc, faults>>

Next ==
  \/ Open \/ OpenFails \/ Inspect \/ InspectFails
  \/ ProbeConnection \/ ConnectionFails \/ Identify \/ TryNext \/ IdentityFails
  \/ NoReceiver \/ Select \/ Configure \/ ConfigureFails
  \/ EmptySlot \/ ReadPairing \/ PairingFails \/ ReadName \/ NameFails
  \/ Return \/ CloseFails
  \/ Change

Spec == Init /\ [][Next]_vars

-----------------------------------------------------------------------------
(* Properties *)

\* However discovery ends, the receiver of the session returned is open and
\* nothing else is: every candidate given up, whatever it failed at, and every
\* receiver not selected has been closed ("It closes every opened receiver
\* before returning", receiver.go:824-826).
OpenedIsOwned ==
  /\ pc \in {"failed", "snapshot"} => open = {}
  /\ pc = "session" => open = {at}

\* The list of a discovery that succeeds is that of a receiver of the kind
\* asked for, read in that receiver's dialect: it has every slot that was
\* paired all the while and no slot that never was.  One slot that could not
\* be read leaves no shorter list, it leaves none (EnumeratePaired,
\* receiver.go:398-431).
EnumerationIsExact ==
  pc \in {"snapshot", "session"} =>
    /\ nature[at] \in Kind
    /\ Wanted(nature[at])
    /\ always \subseteq devices
    /\ devices \subseteq ever

\* Of the nodes usable to the caller the first is selected, and discovery
\* fails, as long as no exchange does, only when there is none.
Usable(n) == nature[n] \in Kind /\ Wanted(nature[n])

FirstIsSelected ==
  (faults = 0 /\ pc \in {"failed", "snapshot", "session"}) =>
    LET usable == {i \in DOMAIN Candidates : Usable(Candidates[i])}
    IN IF usable = {}
         THEN pc = "failed"
         ELSE /\ pc # "failed"
              /\ \E i \in usable : at = Candidates[i] /\ \A j \in usable : i <= j
=============================================================================
