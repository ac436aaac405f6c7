------------------------------ MODULE UsbProofs ------------------------------
(***************************************************************************)
(* Proofs that the USB transport's calls release what they acquire, and    *)
(* that the probing takes the first interface that answers, for any        *)
(* devices, descriptors, options, answers and number of calls; and that    *)
(* the transport hands over the modem's bytes once and in order, for       *)
(* buffers of any size.                                                    *)
(***************************************************************************)
EXTENDS UsbLink, UsbStream, WellFoundedInduction, TLAPS

\* The resources as one record; what the closes do to it when nothing depends
\* on what is closed.
Res(c, D, C, I) == [context |-> c, devices |-> D, configs |-> C, interfaces |-> I]

\* gousb.NewContext opens the context.
LEMMA OpensContext ==
  ASSUME NEW c, NEW D, NEW C, NEW I
  PROVE  OpenContext(Res(c, D, C, I)) = Res("open", D, C, I)
  BY DEF OpenContext, Res

\* All devices that match are opened.
LEMMA OpensDevices ==
  ASSUME NEW c, NEW C, NEW I, NEW E
  PROVE  OpenDevices(Res(c, {}, C, I), E) = Res(c, E, C, I)
<1>1. {} \cup E = E
  OBVIOUS
<1> QED BY <1>1 DEF OpenDevices, Res

\* The first configuration of a device.
LEMMA OpensConfig ==
  ASSUME NEW c, NEW D, NEW I, NEW d
  PROVE  OpenConfig(Res(c, D, {}, I), d) = Res(c, D, {d}, I)
<1>1. {} \cup {d} = {d}
  OBVIOUS
<1> QED BY <1>1 DEF OpenConfig, Res

\* The first interface that is claimed.
LEMMA OpensInterface ==
  ASSUME NEW c, NEW D, NEW C, NEW i
  PROVE  OpenInterface(Res(c, D, C, {}), i) = Res(c, D, C, {i})
<1>1. {} \cup {i} = {i}
  OBVIOUS
<1> QED BY <1>1 DEF OpenInterface, Res

\* The one interface is released.
LEMMA ClosesInterface ==
  ASSUME NEW c, NEW D, NEW C, NEW i
  PROVE  CloseInterface(Res(c, D, C, {i}), i) = Res(c, D, C, {})
<1>1. {i} \ {i} = {}
  OBVIOUS
<1> QED BY <1>1 DEF CloseInterface, Res

\* A configuration closes once its interfaces are released.
LEMMA ClosesConfig ==
  ASSUME NEW c, NEW D, NEW d
  PROVE  CloseConfig(Res(c, D, {d}, {}), d) = Res(c, D, {}, {})
<1>1. {d} \ {d} = {}
  OBVIOUS
<1> QED BY <1>1 DEF CloseConfig, Res

\* Closing a configuration that is not open changes nothing.
LEMMA ClosesNoConfig ==
  ASSUME NEW c, NEW D, NEW d
  PROVE  CloseConfig(Res(c, D, {}, {}), d) = Res(c, D, {}, {})
<1>1. {} \ {d} = {}
  OBVIOUS
<1> QED BY <1>1 DEF CloseConfig, Res

\* Devices close once no configuration is open.
LEMMA ClosesDevices ==
  ASSUME NEW c, NEW D, NEW I
  PROVE  CloseDevices(Res(c, D, {}, I), D) = Res(c, {}, {}, I)
<1>1. D \ (D \ {}) = {}
  OBVIOUS
<1> QED BY <1>1 DEF CloseDevices, Res

\* The context closes once no device is open.
LEMMA ClosesContext ==
  ASSUME NEW c, NEW C, NEW I
  PROVE  CloseContext(Res(c, {}, C, I)) = Res("closed", {}, C, I)
  BY DEF CloseContext, Res

\* findDevice: of the devices opened, the first is kept.
LEMMA KeepFirst ==
  ASSUME NEW c, NEW D, NEW I, NEW d \in D
  PROVE  CloseDevices(Res(c, D, {}, I), D \ {d}) = Res(c, {d}, {}, I)
<1>1. D \ ((D \ {d}) \ {}) = {d}
  OBVIOUS
<1> QED BY <1>1 DEF CloseDevices, Res

\* What is open at each place of the program, exactly: openLink owns one
\* device, List those it has opened.
Owned ==
  /\ pc = "idle" => held = Res("closed", {}, {}, {})
  /\ pc = "find" => held = Res("open", {}, {}, {})
  /\ pc \in {"next", "config"} => held = Res("open", devs, {}, {})
  /\ pc = "claim" => held = Res("open", devs, {dev}, {})
  /\ pc \in {"write", "probe", "linked"} =>
       held = Res("open", devs, {dev}, {<<dev, Current>>})

IndInv ==
  /\ pc \in {"idle", "find", "next", "config", "claim", "write", "probe", "linked"}
  /\ op \in {"open", "list"}
  /\ Owned
  /\ pc = "next" => op = "list"
  /\ pc = "linked" => op = "open"
  /\ op = "list" => wanted = -1
  /\ op = "open" /\ pc \notin {"idle", "find"} => devs = {dev}

\* openLink, List and Close hold exactly what their place in the code owns.
THEOREM UsbInvariant == Spec => []IndInv
<1> USE DEF IndInv, Owned
<1>1. Init => IndInv
  BY DEF Init, Nothing, Res
<1>2. IndInv /\ [Next]_vars => IndInv'
  <2> SUFFICES ASSUME IndInv, [Next]_vars PROVE IndInv'
    OBVIOUS
  <2> USE OpensContext, OpensDevices, OpensConfig, OpensInterface,
          ClosesInterface, ClosesConfig, ClosesNoConfig, ClosesDevices, ClosesContext
  <2>1. CASE Call
    <3>1. held' = Res("open", {}, {}, {})
      BY <2>1 DEF Call
    <3> QED BY <2>1, <3>1 DEF Call
  <2>2. CASE FindDevice
    <3>1. PICK opened \in SUBSET {d \in Pinned : hasVendorBulkInterface(d)} :
            \/ opened = {} /\ held' = CloseContext(held) /\ pc' = "idle"
            \/ /\ dev' \in opened /\ devs' = {dev'} /\ pc' = "config"
               /\ held' = CloseDevices(OpenDevices(held, opened), opened \ {dev'})
      BY <2>2 DEF FindDevice
    <3>2. CASE opened = {} /\ held' = CloseContext(held) /\ pc' = "idle"
      <4>1. held' = Res("closed", {}, {}, {})
        BY <3>2, <2>2 DEF FindDevice
      <4> QED BY <4>1, <3>2, <2>2 DEF FindDevice
    <3>3. CASE /\ dev' \in opened /\ devs' = {dev'} /\ pc' = "config"
               /\ held' = CloseDevices(OpenDevices(held, opened), opened \ {dev'})
      <4>1. OpenDevices(held, opened) = Res("open", opened, {}, {})
        BY <2>2 DEF FindDevice
      <4>2. held' = Res("open", {dev'}, {}, {})
        BY <3>3, <4>1, KeepFirst
      <4> QED BY <4>2, <3>3, <2>2 DEF FindDevice
    <3> QED BY <3>1, <3>2, <3>3
  <2>3. CASE ListDevices
    <3>1. held' = Res("open", devs', {}, {})
      BY <2>3 DEF ListDevices
    <3> QED BY <2>3, <3>1 DEF ListDevices
  <2>4. CASE NextDevice
    BY <2>4 DEF NextDevice
  <2>5. CASE ListReturns
    <3>2. held' = Res("closed", {}, {}, {})
      BY <2>5 DEF ListReturns
    <3> QED BY <2>5, <3>2 DEF ListReturns
  <2>6. CASE Config
    <3>1. held' = Res("open", devs, {dev}, {})
      BY <2>6 DEF Config
    <3> QED BY <2>6, <3>1 DEF Config
  <2>7. ASSUME Unwind, op = "open",
               pc = "config" \/ pc = "claim"
        PROVE  IndInv'
    <3>1. held = Res("open", {dev}, {}, {}) \/ held = Res("open", {dev}, {dev}, {})
      BY <2>7
    <3>3. CloseConfig(held, dev) = Res("open", {dev}, {}, {})
      BY <3>1
    <3>4. held' = Res("closed", {}, {}, {})
      BY <2>7, <3>3 DEF Unwind
    <3> QED BY <2>7, <3>4 DEF Unwind
  <2>8. CASE ConfigFails
    BY <2>7, <2>8 DEF ConfigFails
  <2>9. CASE ClaimInterface
    <3>1. held' = Res("open", devs, {dev}, {<<dev, Current>>})
      BY <2>9 DEF ClaimInterface
    <3>2. Current' = Current
      BY <2>9 DEF ClaimInterface, Current
    <3> QED BY <2>9, <3>1, <3>2 DEF ClaimInterface
  <2>10. ASSUME NEW why, Abandon(Res("open", devs, {dev}, {}), why), pc # "idle", pc # "find"
         PROVE  IndInv'
    BY <2>10 DEF Abandon
  <2>11. CASE ClaimFails
    <3>1. held = Res("open", devs, {dev}, {})
      BY <2>11 DEF ClaimFails
    <3>2. CloseInterface(OpenInterface(held, <<dev, Current>>), <<dev, Current>>) = held
      <4>1. ASSUME NEW i
            PROVE  /\ OpenInterface(held, i) = Res("open", devs, {dev}, {i})
                   /\ CloseInterface(Res("open", devs, {dev}, {i}), i) = held
        BY <3>1, OpensInterface, ClosesInterface
      <4> QED  BY <4>1
    <3>3. Abandon(held, "unclaimed")
      BY <2>11, <3>2 DEF ClaimFails
    <3> QED BY <2>10, <2>11, <3>1, <3>3 DEF ClaimFails
  <2>12. CASE Exhausted
    <3>1. CASE op = "open" /\ Unwind
      BY <2>7, <2>12, <3>1 DEF Exhausted
    <3>2. CASE op = "list" /\ held' = CloseConfig(held, dev)
      <4>2. held' = Res("open", devs, {}, {})
        BY <2>12, <3>2 DEF Exhausted
      <4> QED BY <2>12, <3>2, <4>2 DEF Exhausted
    <3> QED BY <2>12, <3>1, <3>2 DEF Exhausted
  <2>13. CASE ProbeWrite
    BY <2>13 DEF ProbeWrite, Current
  <2>14. ASSUME NEW chunk \in Chunks, ProbeRead(chunk)
         PROVE  IndInv'
    BY <2>14 DEF ProbeRead, Current
  <2>15. ASSUME NEW chunk \in Chunks, ProbeAnswered(chunk)
         PROVE  IndInv'
    <3>1. CASE op = "open"
      BY <2>15, <3>1 DEF ProbeAnswered, Current
    <3>2. CASE op = "list"
      <4>2. held' = Res("open", devs, {}, {})
        BY <2>15, <3>2 DEF ProbeAnswered
      <4> QED BY <2>15, <3>2, <4>2 DEF ProbeAnswered
    <3> QED BY <2>15, <3>1, <3>2 DEF ProbeAnswered
  <2>16. CASE ProbeFails
    <3>2. Abandon(Res("open", devs, {dev}, {}), "silent")
      BY <2>16 DEF ProbeFails
    <3> QED BY <2>10, <2>16, <3>2 DEF ProbeFails
  <2>17. CASE Close
    <3>2. held = Res("open", {dev}, {dev}, {<<dev, Current>>})
      BY <2>17 DEF Close
    <3>3. held' = Res("closed", {}, {}, {})
      BY <2>17, <3>2 DEF Close
    <3> QED BY <2>17, <3>3 DEF Close
  <2>18. CASE UNCHANGED vars \/ Done
    BY <2>18 DEF vars, Done, Current
  <2> QED
    BY <2>1, <2>2, <2>3, <2>4, <2>5, <2>6, <2>8, <2>9, <2>11, <2>12, <2>13,
       <2>14, <2>15, <2>16, <2>17, <2>18 DEF Next, Work
<1> QED BY <1>1, <1>2, PTL DEF Spec

\* Every path out of openLink, List and Close releases everything, although
\* libusb refuses a close that comes too early and the code ignores the error.
THEOREM NoResourceLeaks == Spec => []NothingLeaked
<1>1. IndInv => NothingLeaked
  BY DEF IndInv, Owned, NothingLeaked, Nothing, Res
<1> QED BY <1>1, UsbInvariant, PTL

\* At most one interface is claimed, of the device in use.
THEOREM OneInterfaceClaimed == Spec => []OneInterface
<1>1. IndInv => OneInterface
  BY DEF IndInv, Owned, OneInterface, Res
<1> QED BY <1>1, UsbInvariant, PTL

-----------------------------------------------------------------------------
(* The order of the probes.                                                *)

\* A set of numbers has a least element: the natural numbers are well founded.
LEMMA LeastNumber ==
  ASSUME NEW T \in SUBSET Nat, T # {}
  PROVE  \E n \in T : \A m \in T : n <= m
<1> DEFINE R == {ss \in Nat \X Nat : ss[1] < ss[2]}
<1>1. IsWellFoundedOn(R, Nat)
  <2>1. R = OpToRel(<, Nat)
    BY DEF OpToRel
  <2> QED  BY <2>1, NatLessThanWellFounded
<1>2. \A m, n \in Nat : m < n => <<m, n>> \in R
  <2> SUFFICES ASSUME NEW m \in Nat, NEW n \in Nat, m < n PROVE <<m, n>> \in R
    OBVIOUS
  <2>1. <<m, n>> \in Nat \X Nat /\ <<m, n>>[1] = m /\ <<m, n>>[2] = n
    OBVIOUS
  <2> QED  BY <2>1
<1> HIDE DEF R
<1>3. PICK n \in T : \A m \in T : <<m, n>> \notin R
  BY <1>1, WFMin
<1>4. \A m \in T : m \in Nat /\ n \in Nat /\ ~(m < n)
  BY <1>2, <1>3
<1> QED  BY <1>4

\* What may be tried: numbers of descriptors or the one asked for.
LEMMA CandidatesAreNumbers ==
  ASSUME NEW d, NEW number \in Interfaces \cup {-1}
  PROVE  candidateInterfaces(d, number) \subseteq Numbers \cap Nat
BY UsbAssumption DEF candidateInterfaces, Numbers, AltSetting

\* While an interface is tried, it is the lowest of those that are left.
LEMMA CurrentIsLeast ==
  ASSUME todo \subseteq Nat, todo # {}
  PROVE  Current \in todo /\ \A m \in todo : Current <= m
<1>1. \E n \in todo : \A m \in todo : n <= m
  BY LeastNumber
<1> QED  BY <1>1 DEF Current

\* An interface asked for is one of the options.
Asked == pc # "idle" /\ op = "open" => wanted \in Interfaces

\* The candidates that are no longer to be tried have been given up, and the
\* transport that openLink has found by probing has answered.
Tried ==
  /\ dev \in Devices
  /\ tried \in [Devices \X Numbers -> {"not", "unclaimed", "silent", "answered"}]
  /\ pc \in {"claim", "write", "probe", "linked"} =>
       /\ todo \subseteq candidateInterfaces(dev, wanted)
       /\ \A n \in candidateInterfaces(dev, wanted) \ todo :
            tried[<<dev, n>>] \in GivenUp
  /\ pc \in {"write", "probe", "linked"} => todo # {}
  /\ pc = "linked" /\ wanted < 0 => tried[<<dev, Current>>] = "answered"

\* The devices List has noted are those it is through with, each once and
\* rightly.
NotedOnce == \A r \in out : /\ NotedRightly(r[1], r[2])
                            /\ \A q \in out : q[1] = r[1] => q = r
NotedDevices == {r[1] : r \in out}

ListInv ==
  /\ op = "list" /\ pc = "find" => out = {}
  /\ op = "list" /\ pc \in {"next", "config", "claim", "write", "probe"} =>
       /\ devs \subseteq Devices /\ left \subseteq devs
       /\ NotedOnce
       /\ pc = "next" => NotedDevices = devs \ left
       /\ pc # "next" => dev \in devs \ left /\ NotedDevices = devs \ (left \cup {dev})
  /\ ListReports

OrderInv == IndInv /\ Asked /\ Tried /\ ListInv

\* The call's option is one that candidateInterfaces accepts.
LEMMA OptionInRange ==
  ASSUME IndInv, Asked, pc # "idle"
  PROVE  wanted \in Interfaces \cup {-1}
BY DEF IndInv, Asked

LEMMA OptionIsInt ==
  ASSUME IndInv, Asked, pc # "idle"
  PROVE  wanted \in Int
<1>1. Interfaces \subseteq Int /\ -1 \in Int
  BY UsbAssumption
<1> QED  BY <1>1, OptionInRange

\* The interface in use is a candidate, and a number.
LEMMA CurrentIsCandidate ==
  ASSUME OrderInv, pc \in {"claim", "write", "probe", "linked"}, todo # {}
  PROVE  /\ Current \in todo /\ \A m \in todo : Current <= m
         /\ Current \in candidateInterfaces(dev, wanted)
         /\ Current \in Numbers
<1>1. todo \subseteq Numbers \cap Nat
  BY OptionInRange, CandidatesAreNumbers DEF OrderInv, Tried
<1> QED  BY <1>1, CurrentIsLeast DEF OrderInv, Tried

\* A candidate that is given up joins those that have been tried.
LEMMA AbandonTries ==
  ASSUME OrderInv, pc \in {"claim", "write", "probe"}, todo # {},
         NEW h, NEW why \in GivenUp, Abandon(h, why)
  PROVE  Tried'
<1>1. /\ Current \in todo /\ Current \in Numbers
  BY CurrentIsCandidate
<1>2. /\ pc' = "claim" /\ dev' = dev /\ wanted' = wanted
      /\ todo' = todo \ {Current} /\ tried' = [tried EXCEPT ![<<dev, Current>>] = why]
  BY DEF Abandon
<1>3. candidateInterfaces(dev, wanted)' = candidateInterfaces(dev, wanted)
  BY <1>2 DEF candidateInterfaces
<1>4. candidateInterfaces(dev, wanted) \subseteq Numbers
  BY OptionInRange, CandidatesAreNumbers DEF OrderInv
<1> QED  BY <1>1, <1>2, <1>3, <1>4 DEF OrderInv, Tried, GivenUp

\* The candidates are a function of the device and the option.
LEMMA CandidatesKept ==
  ASSUME dev' = dev, wanted' = wanted
  PROVE  candidateInterfaces(dev, wanted)' = candidateInterfaces(dev, wanted)
BY DEF candidateInterfaces

\* What was noted of a device stays right while others are tried.
LEMMA NotedStays ==
  ASSUME NEW d \in Devices, NEW n, NotedRightly(d, n),
         \A m \in Numbers : tried'[<<d, m>>] = tried[<<d, m>>]
  PROVE  NotedRightly(d, n)'
<1>1. candidateInterfaces(d, -1) \subseteq Numbers
  BY CandidatesAreNumbers
<1> QED  BY <1>1 DEF NotedRightly, candidateInterfaces

\* Trying the interfaces of the device in use changes nothing that was noted.
LEMMA ListTries ==
  ASSUME ListInv, UNCHANGED <<op, devs, left, dev, out>>,
         pc \in {"config", "claim", "write", "probe"},
         op = "list" => pc' \in {"config", "claim", "write", "probe"},
         op = "open" => pc' # "find",
         op \in {"open", "list"},
         \A d \in Devices \ {dev}, m \in Numbers : tried'[<<d, m>>] = tried[<<d, m>>]
  PROVE  ListInv'
<1>1. CASE op = "open"
  BY <1>1 DEF ListInv, ListReports
<1>2. CASE op = "list"
  <2>1. /\ devs \subseteq Devices /\ left \subseteq devs /\ NotedOnce
        /\ dev \in devs \ left /\ NotedDevices = devs \ (left \cup {dev})
    BY <1>2 DEF ListInv
  <2>2. ASSUME NEW r \in out PROVE NotedRightly(r[1], r[2])'
    <3>1. r[1] \in Devices \ {dev} /\ NotedRightly(r[1], r[2])
      BY <2>1 DEF NotedDevices, NotedOnce
    <3> QED  BY <3>1, NotedStays
  <2>3. NotedOnce'
    BY <2>1, <2>2 DEF NotedOnce
  <2> QED  BY <1>2, <2>1, <2>3 DEF ListInv, ListReports, NotedDevices
<1> QED  BY <1>1, <1>2

\* List is through with a device.
LEMMA ListNotes ==
  ASSUME ListInv, op = "list", UNCHANGED <<op, devs, left, dev>>, pc' = "next",
         pc \in {"config", "claim", "write", "probe"},
         NEW n, out' = out \cup {<<dev, n>>}, NotedRightly(dev, n)',
         \A d \in Devices \ {dev}, m \in Numbers : tried'[<<d, m>>] = tried[<<d, m>>]
  PROVE  ListInv'
<1>1. /\ devs \subseteq Devices /\ left \subseteq devs /\ NotedOnce
      /\ dev \in devs \ left /\ NotedDevices = devs \ (left \cup {dev})
  BY DEF ListInv
<1>2. ASSUME NEW r \in out PROVE r[1] # dev /\ NotedRightly(r[1], r[2])'
  <2>1. r[1] \in Devices \ {dev} /\ NotedRightly(r[1], r[2])
    BY <1>1 DEF NotedDevices, NotedOnce
  <2> QED  BY <2>1, NotedStays
<1> DEFINE e == <<dev, n>>
<1>3. e[1] = dev /\ e[2] = n /\ out' = out \cup {e}
  OBVIOUS
<1>4. NotedRightly(e[1], e[2])'
  BY <1>3
<1> HIDE DEF e
<1>5. NotedOnce'
  BY <1>1, <1>2, <1>3, <1>4 DEF NotedOnce
<1>6. NotedDevices' = NotedDevices \cup {dev}
  BY <1>3 DEF NotedDevices
<1> QED  BY <1>1, <1>5, <1>6 DEF ListInv, ListReports

\* The probes run in ascending order, and List notes each device as they end.
THEOREM ProbeInvariant == Spec => []OrderInv
<1>1. Init => Asked /\ Tried /\ ListInv
  BY DEF Init, Asked, Tried, Untried, ListInv, ListReports
<1>2. OrderInv /\ IndInv' /\ [Next]_vars => OrderInv'
  <2> SUFFICES ASSUME OrderInv, IndInv', [Next]_vars
               PROVE  Asked' /\ Tried' /\ ListInv'
    BY DEF OrderInv
  <2> USE DEF OrderInv, Asked
  <2>0. op \in {"open", "list"}
    BY DEF IndInv
  <2>1. CASE Call
    BY <2>1 DEF Call, Tried, Untried, ListInv, ListReports
  <2>2. CASE FindDevice
    <3>1. /\ pc' \in {"idle", "config"} /\ pc = "find" /\ op = "open"
          /\ UNCHANGED <<op, wanted, todo, acc, calls, out, tried>>
      BY <2>2 DEF FindDevice
    <3>2. dev' \in Devices
      BY <2>2, UsbAssumption DEF FindDevice, Tried
    <3> QED  BY <3>1, <3>2 DEF Tried, ListInv, ListReports
  <2>3. CASE ListDevices
    <3>1. devs' \subseteq Devices /\ left' = devs' /\ out' = {}
      BY <2>3 DEF ListDevices, ListInv
    <3>2. NotedOnce' /\ NotedDevices' = {}
      BY <3>1 DEF NotedOnce, NotedDevices
    <3> QED  BY <2>3, <3>1, <3>2 DEF ListDevices, Tried, ListInv, ListReports
  <2>4. CASE NextDevice
    <3>1. op = "list" /\ pc = "next" /\ dev' \in Devices
      BY <2>4 DEF NextDevice, IndInv, ListInv
    <3>2. NotedOnce' /\ NotedDevices' = NotedDevices
      BY <2>4 DEF NextDevice, ListInv, IndInv, NotedOnce, NotedRightly, NotedDevices
    <3> QED  BY <2>4, <3>1, <3>2 DEF NextDevice, Tried, ListInv, ListReports
  <2>5. CASE Config
    BY <2>0, <2>5, CandidatesKept, ListTries DEF Config, Tried
  <2>6. CASE ConfigFails
    <3>1. CASE op = "open"
      BY <2>6, <3>1 DEF ConfigFails, Unwind, Tried, ListInv, ListReports
    <3>2. CASE op = "list"
      <4>1. tried' = [x \in Devices \X Numbers |->
                       IF x[1] = dev THEN "unclaimed" ELSE tried[x]]
        BY <2>6, <3>2 DEF ConfigFails
      <4>2. dev \in Devices /\ candidateInterfaces(dev, -1) \subseteq Numbers
        BY CandidatesAreNumbers DEF Tried
      <4>3. \A d \in Devices, m \in Numbers :
              tried'[<<d, m>>] = IF d = dev THEN "unclaimed" ELSE tried[<<d, m>>]
        BY <4>1
      <4>4. NotedRightly(dev, -1)'
        BY <2>6, <4>2, <4>3, <3>2 DEF NotedRightly, GivenUp, ConfigFails, candidateInterfaces
      <4>5. ListInv'
        BY <2>6, <3>2, <4>3, <4>4, ListNotes DEF ConfigFails
      <4>6. Tried'
        BY <2>6, <3>2, <4>1 DEF ConfigFails, Tried
      <4> QED  BY <2>6, <3>2, <4>5, <4>6 DEF ConfigFails
    <3> QED  BY <2>0, <3>1, <3>2
  <2>7. CASE ClaimInterface
    <3>1. Current' = Current
      BY <2>7 DEF ClaimInterface, Current
    <3>2. wanted \in Int
      BY <2>7, OptionIsInt DEF ClaimInterface
    <3>3. op = "list" => wanted = -1
      BY DEF IndInv
    <3>4. ListInv'
      BY <2>0, <2>7, <3>3, ListTries DEF ClaimInterface
    <3> QED  BY <2>7, <3>1, <3>2, <3>4, CandidatesKept DEF ClaimInterface, Tried
  <2>8. ASSUME NEW h, NEW why \in GivenUp, Abandon(h, why), todo # {},
               pc \in {"claim", "write", "probe"}
        PROVE  Asked' /\ Tried' /\ ListInv'
    <3>1. Tried'
      BY <2>8, AbandonTries DEF GivenUp
    <3>2. <<dev, Current>> \in Devices \X Numbers
      BY <2>8, CurrentIsCandidate DEF Tried
    <3>3. \A d \in Devices \ {dev}, m \in Numbers : tried'[<<d, m>>] = tried[<<d, m>>]
      BY <2>8, <3>2 DEF Abandon, Tried
    <3>4. ListInv'
      BY <2>0, <2>8, <3>3, ListTries DEF Abandon
    <3> QED  BY <2>8, <3>1, <3>4 DEF Abandon
  <2>9. CASE ClaimFails
    BY <2>8, <2>9 DEF ClaimFails, GivenUp
  <2>10. CASE Exhausted
    <3>1. CASE op = "open"
      BY <2>10, <3>1 DEF Exhausted, Unwind, Tried, ListInv, ListReports
    <3>2. CASE op = "list"
      <4>1. wanted = -1 /\ UNCHANGED <<op, wanted, devs, left, dev, todo, tried>>
            /\ pc = "claim" /\ todo = {} /\ pc' = "next" /\ out' = out \cup {<<dev, -1>>}
        BY <2>10, <3>2 DEF Exhausted, IndInv
      <4>2. NotedRightly(dev, -1)'
        BY <4>1, CandidatesKept DEF NotedRightly, Tried, candidateInterfaces
      <4>3. ListInv'
        BY <3>2, <4>1, <4>2, ListNotes
      <4> QED  BY <3>2, <4>1, <4>3 DEF Tried
    <3> QED  BY <2>0, <3>1, <3>2
  <2>11. CASE ProbeWrite
    BY <2>0, <2>11, CandidatesKept, ListTries DEF ProbeWrite, Tried
  <2>12. ASSUME NEW chunk \in Chunks, ProbeRead(chunk)
         PROVE  Asked' /\ Tried' /\ ListInv'
    BY <2>0, <2>12, CandidatesKept, ListTries DEF ProbeRead, Tried
  <2>13. ASSUME NEW chunk \in Chunks, ProbeAnswered(chunk)
         PROVE  Asked' /\ Tried' /\ ListInv'
    <3>1. /\ Current \in todo /\ Current \in Numbers /\ Current' = Current
          /\ Current \in candidateInterfaces(dev, wanted)
          /\ \A m \in todo : Current <= m
      BY <2>13, CurrentIsCandidate DEF ProbeAnswered, Tried, Current
    <3>2. /\ pc = "probe" /\ pc' \in {"linked", "next"}
          /\ pc' = "linked" => op = "open"
          /\ tried' = [tried EXCEPT ![<<dev, Current>>] = "answered"]
          /\ UNCHANGED <<op, wanted, dev, devs, left, todo>>
          /\ op = "open" => pc' = "linked"
          /\ op = "list" => pc' = "next" /\ out' = out \cup {<<dev, Current>>}
      BY <2>13 DEF ProbeAnswered
    <3>3. <<dev, Current>> \in Devices \X Numbers
      BY <3>1 DEF Tried
    <3>4. Tried'
      BY <3>1, <3>2, <3>3, CandidatesKept DEF Tried
    <3>5. CASE op = "open"
      BY <3>2, <3>4, <3>5 DEF ListInv, ListReports
    <3>6. CASE op = "list"
      <4>1. wanted = -1 /\ candidateInterfaces(dev, -1) \subseteq Numbers \cap Nat
        BY <3>6, CandidatesAreNumbers DEF IndInv
      <4>2. \A d \in Devices, m \in Numbers :
              tried'[<<d, m>>] = IF d = dev /\ m = Current THEN "answered" ELSE tried[<<d, m>>]
        BY <3>2, <3>3 DEF Tried
      <4>3. ASSUME NEW n \in candidateInterfaces(dev, -1), n < Current
            PROVE  tried'[<<dev, n>>] \in GivenUp
        <5>1. n \in Numbers /\ n \in Nat /\ Current \in Nat
          BY <3>1, <4>1
        <5>2. n \notin todo /\ n # Current
          BY <3>1, <4>3, <5>1
        <5>3. tried[<<dev, n>>] \in GivenUp
          BY <3>2, <4>1, <5>2 DEF Tried
        <5> QED  BY <3>3, <4>2, <5>1, <5>2, <5>3 DEF Tried
      <4>4. Current # -1 /\ tried'[<<dev, Current>>] = "answered"
        BY <3>1, <3>3, <4>1, <4>2
      <4>5. NotedRightly(dev, Current)'
        BY <3>1, <3>2, <4>1, <4>3, <4>4 DEF NotedRightly, candidateInterfaces
      <4>6. ListInv'
        BY <3>1, <3>2, <3>6, <4>2, <4>5, ListNotes
      <4> QED  BY <3>2, <3>4, <4>6
    <3> QED  BY <2>0, <3>5, <3>6
  <2>14. CASE ProbeFails
    <3>1. PICK h : Abandon(h, "silent")
      BY <2>14 DEF ProbeFails
    <3> QED  BY <2>8, <2>14, <3>1 DEF ProbeFails, GivenUp, Tried
  <2>15. CASE Close
    <3>1. op = "open"
      BY <2>15 DEF Close, IndInv
    <3> QED  BY <2>15, <3>1 DEF Close, Tried, ListInv, ListReports
  <2>16. CASE UNCHANGED vars \/ Done
    <3>1. UNCHANGED vars
      BY <2>16 DEF Done
    <3>2. Current' = Current
      BY <3>1 DEF vars, Current
    <3>3. ListInv'
      BY <3>1 DEF vars, ListInv, ListReports, NotedOnce, NotedRightly, NotedDevices,
                  candidateInterfaces
    <3> QED  BY <3>1, <3>2, <3>3, CandidatesKept DEF vars, Tried
  <2>17. CASE ListReturns
    <3>1. /\ op = "list" /\ NotedOnce /\ NotedDevices = devs
          /\ pc' = "idle" /\ UNCHANGED <<op, devs, dev, out, tried, wanted, todo>>
      BY <2>17 DEF ListReturns, IndInv, ListInv
    <3>2. NotedOnce' /\ NotedDevices' = devs'
      BY <3>1 DEF NotedOnce, NotedRightly, NotedDevices, candidateInterfaces
    <3>3. ListReports'
      BY <3>2 DEF ListReports, NotedOnce, NotedDevices
    <3> QED  BY <3>1, <3>3 DEF Tried, ListInv
  <2> HIDE DEF OrderInv, Asked
  <2> QED
    BY <2>1, <2>2, <2>3, <2>4, <2>5, <2>6, <2>7, <2>9, <2>10, <2>11, <2>12,
       <2>13, <2>14, <2>15, <2>16, <2>17 DEF Next, Work
<1> QED BY <1>1, <1>2, UsbInvariant, PTL DEF Spec, OrderInv

\* For all devices, descriptors, answers and failures, what List returns names
\* every device it opened once, with the lowest interface that answered.
THEOREM ListsRightly == Spec => []ListReports
<1>1. OrderInv => ListReports
  BY DEF OrderInv, ListInv
<1> QED BY <1>1, ProbeInvariant, PTL

\* Without an option, openLink takes the lowest-numbered interface that answers:
\* all lower ones were tried and given up.
THEOREM LowestAnswering == Spec => []FirstAnsweringInterface
<1>1. OrderInv => FirstAnsweringInterface
  <2> SUFFICES ASSUME OrderInv, pc = "linked", wanted < 0
               PROVE  /\ tried[<<dev, Current>>] = "answered"
                      /\ held.interfaces = {<<dev, Current>>}
                      /\ \A n \in Numbers :
                           (\E a \in AltSettings : /\ a.dev = dev /\ a.number = n /\ n < Current
                                                   /\ a.vendor /\ a.bulk = {"in", "out"})
                             => tried[<<dev, n>>] \in GivenUp
    BY DEF FirstAnsweringInterface
  <2>1. tried[<<dev, Current>>] = "answered" /\ todo # {}
    BY DEF OrderInv, Tried
  <2>2. held.interfaces = {<<dev, Current>>}
    BY DEF OrderInv, IndInv, Owned, Res
  <2>3. ASSUME NEW n \in Numbers, NEW a \in AltSettings,
               a.dev = dev, a.number = n, n < Current, a.vendor, a.bulk = {"in", "out"}
        PROVE  tried[<<dev, n>>] \in GivenUp
    <3>1. wanted = -1 \/ wanted \in Int
      BY UsbAssumption DEF OrderInv, IndInv, Asked
    <3>2. n \in candidateInterfaces(dev, wanted)
      BY <2>3, <3>1 DEF candidateInterfaces
    <3>3. n \in Nat /\ Current \in Nat
      BY <2>1, <3>2, OptionInRange, CandidatesAreNumbers, CurrentIsCandidate DEF OrderInv
    <3>4. n \notin todo
      BY <2>1, <2>3, <3>3, CurrentIsCandidate
    <3> QED  BY <3>2, <3>4 DEF OrderInv, Tried
  <2> QED  BY <2>1, <2>2, <2>3
<1> QED BY <1>1, ProbeInvariant, PTL

-----------------------------------------------------------------------------
(* The stream.                                                             *)

\* What is pending continues what was delivered, whatever older packets have
\* left in the rest of the stage.
PendingNext == \A j \in (lo + 1)..hi : stage[j] = Len(delivered) + (j - lo)

\* Nothing is pending while the device is asked: its packet takes the stage.
StreamInv ==
  /\ StreamTypeOK
  /\ StreamIntact
  /\ PendingNext
  /\ reader \notin {"idle", "copy"} => lo = hi
  /\ reader = "copy" => lo < hi
  /\ reader \in {"judge", "error"} => cancelled \/ unplugged \/ faulted
  /\ FailureIsTrue

\* Appending the next n numbers to 1, 2, ..., m.
LEMMA AppendsNext ==
  ASSUME NEW d \in Seq(Nat), NEW n \in Nat, NEW f \in [1..n -> Nat],
         \A i \in 1..Len(d) : d[i] = i,
         \A i \in 1..n : f[i] = Len(d) + i
  PROVE  /\ d \o f \in Seq(Nat)
         /\ Len(d \o f) = Len(d) + n
         /\ \A i \in 1..Len(d \o f) : (d \o f)[i] = i
<1>1. f \in Seq(Nat) /\ Len(f) = n
  OBVIOUS
<1>2. d \o f \in Seq(Nat) /\ Len(d \o f) = Len(d) + n
  BY <1>1
<1>3. ASSUME NEW i \in 1..Len(d \o f) PROVE (d \o f)[i] = i
  <2>1. CASE i <= Len(d)
    BY <1>1, <1>2, <2>1
  <2>2. CASE i > Len(d)
    <3>1. (d \o f)[i] = f[i - Len(d)]
      BY <1>1, <1>2, <2>2
    <3> QED BY <1>2, <2>2, <3>1
  <2> QED BY <1>2, <2>1, <2>2
<1> QED BY <1>2, <1>3

\* Read and Close keep the invariant: what is pending continues what was delivered.
THEOREM StreamInvariant == StreamSpec => []StreamInv
<1> USE StreamAssumption DEF StreamInv, StreamTypeOK, FailureIsTrue
<1>1. StreamInit => StreamInv
  <2> SUFFICES ASSUME StreamInit PROVE StreamInv
    OBVIOUS
  <2>1. delivered \in Seq(Nat) /\ Len(delivered) = 0
    BY DEF StreamInit
  <2>2. StreamIntact /\ PendingNext
    BY <2>1 DEF StreamInit, StreamIntact, PendingNext
  <2>3. stage \in [1..StageSize -> Nat]
    BY DEF StreamInit
  <2>4. /\ hi \in 0..StageSize /\ lo \in 0..hi /\ received \in 0..MaxBytes
    BY DEF StreamInit
  <2>5. /\ cancelled \in BOOLEAN /\ unplugged \in BOOLEAN /\ faulted \in BOOLEAN
        /\ reader = "idle"
        /\ FailureIsTrue
    BY DEF StreamInit
  <2>6. StreamTypeOK
    BY <2>1, <2>3, <2>4, <2>5
  <2> QED BY <2>2, <2>4, <2>5, <2>6 DEF StreamInit
<1>2. StreamInv /\ [StreamNext]_streamVars => StreamInv'
  <2> SUFFICES ASSUME StreamInv, [StreamNext]_streamVars PROVE StreamInv'
    OBVIOUS
  <2>1. ASSUME UNCHANGED <<stage, lo, hi, received, delivered>>
        PROVE  StreamIntact' /\ PendingNext'
    BY <2>1 DEF StreamIntact, PendingNext
  <2>2. CASE Read
    BY <2>1, <2>2 DEF Read
  <2>3. CASE Check
    BY <2>1, <2>3 DEF Check, StreamIntact
  <2>4. CASE TransferData
    <3>1. PICK n \in 1..Least(StageSize, MaxBytes - received) :
            /\ stage' = [i \in 1..StageSize |-> IF i <= n THEN received + i ELSE stage[i]]
            /\ lo' = 0 /\ hi' = n
            /\ received' = received + n
      BY <2>4 DEF TransferData
    <3>2. /\ n \in Nat /\ n >= 1 /\ n <= StageSize /\ received + n <= MaxBytes
          /\ lo' = 0 /\ hi' = n /\ received' = received + n
      BY <3>1 DEF Least
    <3>3. /\ Len(delivered) = received /\ Len(delivered) \in Nat
          /\ delivered' = delivered
      BY <2>4 DEF TransferData, StreamIntact
    <3>4. stage' \in [1..StageSize -> Nat]
      BY <3>1, <3>2
    <3>5. PendingNext'
      <4>1. ASSUME NEW j \in 1..n PROVE stage'[j] = received + j
        BY <3>1, <3>2, <4>1
      <4>2. (lo' + 1)..hi' = 1..n /\ Len(delivered') = received
        BY <3>2, <3>3
      <4>3. ASSUME NEW j \in 1..n PROVE stage'[j] = Len(delivered') + (j - lo')
        BY <3>2, <4>1, <4>2
      <4> QED BY <4>2, <4>3 DEF PendingNext
    <3>6. StreamIntact'
      <4>1. received \in Nat
        OBVIOUS
      <4>2. Len(delivered') + (hi' - lo') = received'
        BY ONLY <3>2, <3>3, <4>1
      <4> QED BY <3>3, <4>2 DEF StreamIntact
    <3>7. /\ UNCHANGED <<cancelled, unplugged, faulted, delivered>>
          /\ reader' = "copy" /\ lo' < hi'
      BY <3>2, <2>4 DEF TransferData
    <3>8. hi' \in 0..StageSize /\ lo' \in 0..hi' /\ received' \in 0..MaxBytes
      BY <3>2
    <3>9. StreamTypeOK'
      BY <3>4, <3>7, <3>8
    <3> QED BY <3>5, <3>6, <3>7, <3>9
  <2>5. CASE TransferEmpty
    BY <2>1, <2>5 DEF TransferEmpty
  <2>6. CASE TransferFails
    BY <2>1, <2>6 DEF TransferFails
  <2>7. CASE Judge
    BY <2>1, <2>7 DEF Judge, StreamIntact
  <2>8. CASE Copy
    <3>1. PICK len \in 1..BufSize :
            /\ delivered' = delivered \o [i \in 1..Least(len, hi - lo) |-> stage[lo + i]]
            /\ lo' = lo + Least(len, hi - lo)
      BY <2>8 DEF Copy
    <3> DEFINE n == Least(len, hi - lo)
               f == [i \in 1..n |-> stage[lo + i]]
    <3>2. n \in Nat /\ n >= 1 /\ n <= hi - lo
      BY <3>1, <2>8 DEF Copy, Least
    <3>3. \A i \in 1..n : lo + i \in (lo + 1)..hi /\ lo + i \in 1..StageSize
      BY <3>2
    <3>4. f \in [1..n -> Nat] /\ \A i \in 1..n : f[i] = Len(delivered) + i
      <4>1. /\ \A j \in (lo + 1)..hi : stage[j] = Len(delivered) + (j - lo)
            /\ stage \in [1..StageSize -> Nat] /\ lo \in Nat /\ Len(delivered) \in Nat
        BY DEF PendingNext
      <4> QED BY ONLY <3>2, <3>3, <4>1
    <3>ints. Len(delivered) \in Nat /\ lo \in Nat /\ hi \in Nat /\ received \in Nat
      OBVIOUS
    <3> HIDE DEF n, f
    <3>5. /\ delivered' \in Seq(Nat)
          /\ Len(delivered') = Len(delivered) + n
          /\ \A i \in 1..Len(delivered') : delivered'[i] = i
      <4>1. delivered' = delivered \o f
        BY <3>1 DEF n, f
      <4> QED BY <4>1, <3>2, <3>4, AppendsNext DEF StreamIntact
    <3>6. lo' = lo + n
      BY <3>1 DEF n
    <3>7. StreamIntact'
      <4>1. Len(delivered) \in Nat /\ Len(delivered) + (hi - lo) = received
        BY DEF StreamIntact
      <4>2. hi' = hi /\ received' = received /\ lo \in Nat /\ hi \in Nat
        BY <2>8 DEF Copy
      <4>3. Len(delivered') = Len(delivered) + n
        BY <3>5
      <4>4. \A a, b, c, m \in Int : (a + m) + (b - (c + m)) = a + (b - c)
        OBVIOUS
      <4>5. (Len(delivered) + n) + (hi - (lo + n)) = Len(delivered) + (hi - lo)
        BY <3>2, <3>ints, <4>4
      <4>6. Len(delivered') + (hi' - lo') = received'
        BY <3>6, <4>1, <4>2, <4>3, <4>5
      <4> QED BY <3>5, <4>6 DEF StreamIntact
    <3>8. PendingNext'
      BY <3>2, <3>5, <3>6, <2>8 DEF Copy, PendingNext
    <3> QED BY <3>2, <3>5, <3>6, <3>7, <3>8, <2>8 DEF Copy
  <2>9. CASE CloseStream
    BY <2>1, <2>9 DEF CloseStream
  <2>10. CASE Unplug
    BY <2>1, <2>10 DEF Unplug
  <2>11. CASE UNCHANGED streamVars \/ Failed
    BY <2>1, <2>11 DEF streamVars, Failed
  <2>12. CASE TransferFaults
    BY <2>1, <2>12 DEF TransferFaults
  <2> QED
    BY <2>2, <2>3, <2>4, <2>5, <2>6, <2>7, <2>8, <2>9, <2>10, <2>11, <2>12
    DEF StreamNext, Reader
<1> QED BY <1>1, <1>2, PTL DEF StreamSpec

\* No read leaves the stage: what is pending is always a slice of it.
THEOREM StreamTypes == StreamSpec => []StreamTypeOK
<1>1. StreamInv => StreamTypeOK
  BY DEF StreamInv
<1> QED BY <1>1, StreamInvariant, PTL

\* The reader gets the modem's bytes once each and in order.
THEOREM BytesInOrder == StreamSpec => []StreamIntact
<1>1. StreamInv => StreamIntact
  BY DEF StreamInv
<1> QED BY <1>1, StreamInvariant, PTL

\* An error means that the device is gone or that a transfer failed by itself;
\* end of file that the link was closed and all received bytes have been read.
THEOREM FailuresTrue == StreamSpec => []FailureIsTrue
<1>1. StreamInv => FailureIsTrue
  BY DEF StreamInv
<1> QED BY <1>1, StreamInvariant, PTL
=============================================================================
