------------------------------- MODULE UsbLink -------------------------------
(***************************************************************************)
(* The USB transport's resources (internal/transport/usb/usb_cgo.go): the  *)
(* calls openLink and List, which acquire a context, devices, a            *)
(* configuration and interfaces in turn, any of which may fail, and        *)
(* transport.Close.  libusb (gousb) refuses to close what something open   *)
(* still depends on, and the code ignores that error.                      *)
(***************************************************************************)
EXTENDS Integers, Sequences, FiniteSets, SequencesExt

CONSTANTS
  Devices,      \* the USB devices
  AltSettings,  \* their alternate settings, see AltSetting
  Pinned,       \* devices that opts.Vendor and opts.Product admit
  Interfaces,   \* values of opts.Interface; a negative one probes
  Chunks,       \* what a probed interface may send at once
  MaxCalls      \* bound: calls of openLink and List

Numbers == {a.number : a \in AltSettings} \cup {n \in Interfaces : n >= 0}
AltSetting == [dev: Devices, config: Nat, number: Nat, alt: Nat,
               vendor: BOOLEAN, bulk: SUBSET {"in", "out"}]
Bytes == {"O", "K", "other"}

ASSUME UsbAssumption ==
  /\ AltSettings \subseteq AltSetting
  /\ Pinned \subseteq Devices
  /\ Interfaces \subseteq Int
  /\ Chunks \subseteq Seq(Bytes) \ {<<>>}
  /\ MaxCalls \in Nat

VARIABLES
  op,      \* the call in progress, or the last one: openLink or List
  wanted,  \* its opts.Interface; -1 in List
  pc,      \* where it is; "linked" when openLink has returned a transport
  held,    \* what libusb has open
  devs,    \* the devices the call still owns: one for openLink
  left,    \* List: devices not yet examined
  dev,     \* the device in use
  todo,    \* its candidate interfaces that are still to be tried
  acc,     \* the last byte of probeAT's acc, all that matters while it has no OK
  calls,   \* calls so far
  out,     \* List: what it has noted so far, <<device, interface or -1>>
  tried    \* history: what became of each interface of each device in this call

vars == <<op, wanted, pc, held, devs, left, dev, todo, acc, calls, out, tried>>

-----------------------------------------------------------------------------
(* gousb: closing fails while something that was opened from it is open.   *)

Nothing == [context |-> "closed", devices |-> {}, configs |-> {}, interfaces |-> {}]

OpenContext(h) == [h EXCEPT !.context = "open"]
OpenDevices(h, D) == [h EXCEPT !.devices = @ \cup D]
OpenConfig(h, d) == [h EXCEPT !.configs = @ \cup {d}]
OpenInterface(h, i) == [h EXCEPT !.interfaces = @ \cup {i}]

CloseInterface(h, i) == [h EXCEPT !.interfaces = @ \ {i}]
CloseConfig(h, d) ==
  IF \E i \in h.interfaces : i[1] = d THEN h ELSE [h EXCEPT !.configs = @ \ {d}]
CloseDevices(h, D) == [h EXCEPT !.devices = @ \ (D \ h.configs)]
CloseContext(h) == IF h.devices # {} THEN h ELSE [h EXCEPT !.context = "closed"]

-----------------------------------------------------------------------------
(* Descriptors.                                                            *)

\* Vendor-specific interfaces with a bulk pair, whatever the configuration and
\* the alternate setting they appear in; Current is the order they are tried in.
candidateInterfaces(d, number) ==
  IF number >= 0 THEN {number}
  ELSE {a.number : a \in {b \in AltSettings :
          b.dev = d /\ b.vendor /\ b.bulk = {"in", "out"}}}

Untried == [x \in Devices \X Numbers |-> "not"]

hasVendorBulkInterface(d) == candidateInterfaces(d, -1) # {}

\* cfg.Interface(n, 0) exists, and has the bulk pair claimInterface looks for.
HasSetting(d, n) == \E a \in AltSettings :
  a.dev = d /\ a.config = 1 /\ a.number = n /\ a.alt = 0
HasPair(d, n) == \E a \in AltSettings :
  a.dev = d /\ a.config = 1 /\ a.number = n /\ a.alt = 0 /\ a.bulk = {"in", "out"}

-----------------------------------------------------------------------------
Init ==
  /\ op = "open" /\ wanted = -1 /\ pc = "idle"
  /\ held = Nothing
  /\ devs = {} /\ left = {} /\ dev \in Devices
  /\ todo = {} /\ acc = "other" /\ calls = 0
  /\ out = {} /\ tried = Untried

Call ==
  /\ pc = "idle" /\ calls < MaxCalls
  /\ \/ op' = "open" /\ wanted' \in Interfaces
     \/ op' = "list" /\ wanted' = -1
  /\ calls' = calls + 1
  /\ held' = OpenContext(held)
  /\ out' = {} /\ tried' = Untried
  /\ pc' = "find"
  /\ UNCHANGED <<devs, left, dev, todo, acc>>

\* The deferred functions of an openLink that returns an error.
Unwind ==
  /\ held' = CloseContext(CloseDevices(CloseConfig(held, dev), devs))
  /\ pc' = "idle"
  /\ UNCHANGED <<op, wanted, devs, left, dev, todo, acc, calls, out, tried>>

\* OpenDevices opens the matching devices, all or, with an error, some.
\* findDevice keeps the first, in enumeration order, and closes the others.
FindDevice ==
  /\ pc = "find" /\ op = "open"
  /\ \E opened \in SUBSET {d \in Pinned : hasVendorBulkInterface(d)} :
       \/ /\ opened = {}
          /\ held' = CloseContext(held)
          /\ pc' = "idle"
          /\ UNCHANGED <<devs, dev>>
       \/ /\ dev' \in opened
          /\ devs' = {dev'}
          /\ held' = CloseDevices(OpenDevices(held, opened), opened \ {dev'})
          /\ pc' = "config"
  /\ UNCHANGED <<op, wanted, left, todo, acc, calls, out, tried>>

ListDevices ==
  /\ pc = "find" /\ op = "list"
  /\ \E opened \in SUBSET {d \in Devices : hasVendorBulkInterface(d)} :
       /\ devs' = opened
       /\ left' = opened
       /\ held' = OpenDevices(held, opened)
       /\ pc' = "next"
  /\ UNCHANGED <<op, wanted, dev, todo, acc, calls, out, tried>>

NextDevice ==
  /\ pc = "next"
  /\ dev' \in left
  /\ left' = left \ {dev'}
  /\ pc' = "config"
  /\ UNCHANGED <<op, wanted, held, devs, todo, acc, calls, out, tried>>

ListReturns ==
  /\ pc = "next" /\ left = {}
  /\ held' = CloseContext(CloseDevices(held, devs))
  /\ pc' = "idle"
  /\ UNCHANGED <<op, wanted, devs, left, dev, todo, acc, calls, out, tried>>

Config ==
  /\ pc = "config"
  /\ held' = OpenConfig(held, dev)
  /\ todo' = candidateInterfaces(dev, wanted)
  /\ pc' = "claim"
  /\ UNCHANGED <<op, wanted, devs, left, dev, acc, calls, out, tried>>

\* Another process has the configuration, or the device is gone.
ConfigFails ==
  /\ pc = "config"
  /\ \/ op = "open" /\ Unwind
     \/ /\ op = "list"
        /\ out' = out \cup {<<dev, -1>>}
        /\ tried' = [x \in Devices \X Numbers |->
                       IF x[1] = dev THEN "unclaimed" ELSE tried[x]]
        /\ pc' = "next"
        /\ UNCHANGED <<op, wanted, held, devs, left, dev, todo, acc, calls>>

\* Mutation: the interfaces in the order of the descriptor, here any order.
CurrentUnsorted == CHOOSE n \in todo : \A m \in todo : n >= m

\* The interface tried now, in ascending order, and what happens when it is
\* given up.
Current == CHOOSE n \in todo : \A m \in todo : n <= m
Abandon(h, why) ==
  /\ held' = h
  /\ todo' = todo \ {Current}
  /\ tried' = [tried EXCEPT ![<<dev, Current>>] = why]
  /\ pc' = "claim"
  /\ UNCHANGED <<op, wanted, devs, left, dev, acc, calls, out>>

\* claimInterface succeeds.  An interface asked for is taken without a probe.
ClaimInterface ==
  /\ pc = "claim" /\ todo # {}
  /\ HasPair(dev, Current)
  /\ held' = OpenInterface(held, <<dev, Current>>)
  /\ pc' = IF wanted >= 0 THEN "linked" ELSE "write"
  /\ acc' = "other"
  /\ UNCHANGED <<op, wanted, devs, left, dev, todo, calls, out, tried>>

\* Mutation: claimInterface returns an error and keeps the interface.
ClaimFailsHolding ==
  /\ pc = "claim" /\ todo # {}
  /\ \/ Abandon(held, "unclaimed")
     \/ /\ HasSetting(dev, Current)
        /\ Abandon(OpenInterface(held, <<dev, Current>>), "unclaimed")

\* claimInterface fails: the interface is busy or absent, or it is claimed and
\* then closed because an endpoint is missing or cannot be opened.
ClaimFails ==
  /\ pc = "claim" /\ todo # {}
  /\ \/ Abandon(held, "unclaimed")
     \/ /\ HasSetting(dev, Current)
        /\ Abandon(CloseInterface(OpenInterface(held, <<dev, Current>>), <<dev, Current>>),
                   "unclaimed")

\* No candidate is left: openLink fails, List closes the configuration.
Exhausted ==
  /\ pc = "claim" /\ todo = {}
  /\ \/ op = "open" /\ Unwind
     \/ /\ op = "list"
        /\ held' = CloseConfig(held, dev)
        /\ out' = out \cup {<<dev, -1>>}
        /\ pc' = "next"
        /\ UNCHANGED <<op, wanted, devs, left, dev, todo, acc, calls, tried>>

-----------------------------------------------------------------------------
(* probeAT on the claimed interface, and what its caller does with the     *)
(* answer.                                                                 *)

ProbeWrite ==
  /\ pc = "write"
  /\ pc' = "probe"
  /\ UNCHANGED <<op, wanted, held, devs, left, dev, todo, acc, calls, out, tried>>

HasOK(last, chunk) == \E i \in 1..Len(chunk) :
  chunk[i] = "K" /\ (IF i = 1 THEN last ELSE chunk[i - 1]) = "O"

\* A read that leaves acc without OK.
ProbeRead(chunk) ==
  /\ pc = "probe"
  /\ ~HasOK(acc, chunk)
  /\ acc' = Last(chunk)
  /\ UNCHANGED <<op, wanted, pc, held, devs, left, dev, todo, calls, out, tried>>

\* Mutation: List notes the answer inside the loop over the interfaces, which
\* goes on.
ProbeAnsweredGoingOn(chunk) ==
  /\ pc = "probe"
  /\ HasOK(acc, chunk)
  /\ tried' = [tried EXCEPT ![<<dev, Current>>] = "answered"]
  /\ \/ /\ op = "open"
        /\ pc' = "linked"
        /\ UNCHANGED <<held, todo, out>>
     \/ /\ op = "list"
        /\ held' = CloseInterface(held, <<dev, Current>>)
        /\ todo' = todo \ {Current}
        /\ out' = out \cup {<<dev, Current>>}
        /\ pc' = "claim"
  /\ UNCHANGED <<op, wanted, devs, left, dev, acc, calls>>

\* openLink returns the transport; List notes the answer and closes.
ProbeAnswered(chunk) ==
  /\ pc = "probe"
  /\ HasOK(acc, chunk)
  /\ tried' = [tried EXCEPT ![<<dev, Current>>] = "answered"]
  /\ \/ /\ op = "open"
        /\ pc' = "linked"
        /\ UNCHANGED <<held, out>>
     \/ /\ op = "list"
        /\ held' = CloseConfig(CloseInterface(held, <<dev, Current>>), dev)
        /\ out' = out \cup {<<dev, Current>>}
        /\ pc' = "next"
  /\ UNCHANGED <<op, wanted, devs, left, dev, todo, acc, calls>>

\* Mutation: only an error ends the probe.
ProbeFailsUntimed == pc = "write" /\ Abandon(CloseInterface(held, <<dev, Current>>), "silent")

\* The write or a read fails, or ctx reaches its timeout.
ProbeFails ==
  /\ pc \in {"write", "probe"}
  /\ Abandon(CloseInterface(held, <<dev, Current>>), "silent")

-----------------------------------------------------------------------------
\* Mutation: the resources in the order in which they were acquired.
CloseInOrder ==
  /\ pc = "linked"
  /\ held' = CloseInterface(CloseConfig(CloseDevices(CloseContext(held), {dev}), dev),
                            <<dev, Current>>)
  /\ pc' = "idle"
  /\ UNCHANGED <<op, wanted, devs, left, dev, todo, acc, calls, out, tried>>

\* transport.Close, once per transport.
Close ==
  /\ pc = "linked"
  /\ held' = CloseContext(CloseDevices(
               CloseConfig(CloseInterface(held, <<dev, Current>>), dev), {dev}))
  /\ pc' = "idle"
  /\ UNCHANGED <<op, wanted, devs, left, dev, todo, acc, calls, out, tried>>

Done == pc = "idle" /\ calls = MaxCalls /\ UNCHANGED vars

Work ==
  \/ FindDevice \/ ListDevices \/ NextDevice \/ ListReturns
  \/ Config \/ ConfigFails \/ ClaimInterface \/ ClaimFails \/ Exhausted
  \/ ProbeWrite

Next ==
  \/ Call \/ Work \/ ProbeFails \/ Close \/ Done
  \/ \E chunk \in Chunks : ProbeRead(chunk) \/ ProbeAnswered(chunk)
Spec == Init /\ [][Next]_vars
\* The call runs; the timer of probeAT fires however much or little the interface
\* sends.
FairSpec == Spec /\ WF_vars(Work) /\ WF_vars(ProbeFails)

-----------------------------------------------------------------------------
(* Properties.                                                             *)

\* Whatever failed on the way, a call that returns without a transport, and
\* Close, leave nothing open: the next Open of the reconnect loop finds the
\* modem free.
NothingLeaked == pc = "idle" => held = Nothing

\* Two interfaces are never claimed at a time: an interface that failed its
\* probe is released before the next is tried, and devices that are not used
\* keep no configuration.
OneInterface ==
  /\ \A i, j \in held.interfaces : i = j
  /\ held.configs \subseteq {dev}

GivenUp == {"unclaimed", "silent"}

\* Without a number asked for, the transport talks to an interface that answered,
\* and every candidate with a lower number was tried and found wanting.
FirstAnsweringInterface ==
  pc = "linked" /\ wanted < 0 =>
    /\ tried[<<dev, Current>>] = "answered"
    /\ held.interfaces = {<<dev, Current>>}
    /\ \A n \in Numbers :
         (\E a \in AltSettings : /\ a.dev = dev /\ a.number = n /\ n < Current
                                 /\ a.vendor /\ a.bulk = {"in", "out"})
           => tried[<<dev, n>>] \in GivenUp

\* What List has noted of a device is the lowest of its candidates that
\* answered, or -1 if all were tried in vain.
NotedRightly(d, noted) ==
  IF noted = -1 THEN \A n \in candidateInterfaces(d, -1) : tried[<<d, n>>] \in GivenUp
  ELSE /\ noted \in candidateInterfaces(d, -1) /\ tried[<<d, noted>>] = "answered"
       /\ \A n \in candidateInterfaces(d, -1) :
            n < noted => tried[<<d, n>>] \in GivenUp

\* When List returns, every device it opened is noted once and rightly, whatever
\* failed on the way: a configuration that another process holds, an interface
\* that cannot be claimed, a probe.
ListReports ==
  op = "list" /\ pc = "idle" =>
    /\ {r[1] : r \in out} = devs
    /\ \A r \in out : /\ NotedRightly(r[1], r[2])
                      /\ \A q \in out : q[1] = r[1] => q = r

\* openLink and List return although a probed interface may stay silent, or
\* stream without end like a GPS port.
CallReturns == (pc # "idle") ~> (pc \in {"idle", "linked"})
=============================================================================
