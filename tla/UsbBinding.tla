------------------------------ MODULE UsbBinding ------------------------------
(***************************************************************************)
(* Drivers, devices and pipes of src/usb.c: the table of registered        *)
(* drivers, the wrappers that hold the Linux objects of one interface,     *)
(* probe and removal as the native USB core calls them, and the pipes      *)
(* that submissions and synchronous calls open on demand.  None of the     *)
(* tables has a lock.  The core plugs, probes and removes in one context;  *)
(* drivers call from contexts of their own.                                *)
(*                                                                         *)
(* A driver uses the endpoints of an interface it was probed for, does not *)
(* use one URB from two threads, and in its disconnect frees its URBs.     *)
(* Its calls end before the wrapper goes; a driver that was not told that  *)
(* it goes is not followed further.                                        *)
(***************************************************************************)
EXTENDS UsbDescriptors, FiniteSets

CONSTANTS UsbDrivers,  \* struct usb_driver
          UsbIntfs,    \* interfaces of every device
          DevOf,       \* [interface -> device]
          IdTable,     \* [driver -> id_table]
          Fields,      \* [interface -> the fields ids are compared with]
          Descs,       \* [interface -> descriptors behind it]
          UsbPipes,    \* pipe values drivers use: [intf, type, addr]
          PipeUrbs,    \* URBs that are used with a pipe
          UsbThreads,  \* contexts of drivers
          MaxBindings, \* LCOMPAT_MAX_USB_DRIVERS
          MaxWrappers, \* MAX_USBDEV_NUM
          MaxPipes,    \* bound on the native pipes ever opened
          Null

UsbDevices == {DevOf[i] : i \in UsbIntfs}
NoPipe == 0

ASSUME UsbBindingAssumption ==
    /\ MaxEndpoints \in Nat \ {0} /\ MaxBindings \in Nat \ {0}
    /\ MaxWrappers \in Nat \ {0} /\ MaxPipes \in Nat
    /\ Null \notin UsbDrivers \cup UsbIntfs \cup UsbDevices \cup PipeUrbs
    /\ \A p \in UsbPipes : p.intf \in UsbIntfs

(* lcompat_usb_wrapper_t, lcompat_usb_urb_state_t, a call of               *)
(* lcompat_usb_get_native_pipe and one of lcompat_usb_native_remove.       *)
WrapperOf(i) == [intf : {i}, endpoints : {CollectEndpoints(Descs[i])},
                 native_pipes : [DOMAIN CollectEndpoints(Descs[i]) -> Nat]]
UrbStates == [pipe : Nat, owns : BOOLEAN, intf : UsbIntfs]
PipeCalls == [urb : PipeUrbs \cup {Null}, pipe : UsbPipes, at : {"look", "open", "store", "has"},
              w : 0 .. MaxWrappers, ep : Nat, got : Nat, own : BOOLEAN]
Removals  == [at : {"next", "disconnect", "free"}, dev : UsbDevices, w : 0 .. MaxWrappers,
              told : UsbDrivers \cup {Null}]

ASSUME NullAssumption ==
    /\ \A i \in UsbIntfs : Null \notin WrapperOf(i)
    /\ Null \notin UrbStates /\ Null \notin PipeCalls /\ Null \notin Removals

(* Interfaces of one device do not share an endpoint, so that a wrapper    *)
(* that has the endpoint of a pipe is the one of the pipe's interface.     *)
ASSUME EndpointAssumption ==
    \A p \in UsbPipes, i \in UsbIntfs :
        /\ DevOf[i] = DevOf[p.intf]
        /\ FindWrapperEp(CollectEndpoints(Descs[i]), p) # 0
        => i = p.intf

VARIABLES
    binding,  \* [slot -> linux_driver, Null: not used]
    wrapper,  \* [slot -> [intf, endpoints, native_pipes], Null: not used]
    plugged,  \* devices the core has
    bound,    \* [interface -> slot of the driver the core bound, 0]
    removal,  \* the core's place in lcompat_usb_native_remove, or Null
    opened,   \* native pipes opened so far: 1 .. opened
    live,     \* those not freed
    cached,   \* [urb -> its state's native_pipe, owns_pipe and interface, or Null]
    pipeCall, \* [thread -> its call, or Null]
    holder,   \* history: [interface -> driver whose probe took it, Null]
    refused,  \* history: interfaces wrapped by a probe that then failed
    left,     \* history: interfaces whose driver deregistered
    untold,   \* history: URBs whose driver was not disconnected
    raced     \* history: pipes a second opening replaced in a wrapper

bindingVars == <<binding, wrapper, plugged, bound, removal, opened, live, cached,
                 pipeCall, holder, refused, left, untold, raced>>

Matches(d, i) == MatchOne(IdTable[d], Fields[i]) # 0
UsedWrappers == {w \in DOMAIN wrapper : wrapper[w] # Null}
WrappersOf(dev) == {w \in UsedWrappers : DevOf[wrapper[w].intf] = dev}
WrapperPipes(w) == {wrapper[w].native_pipes[e] : e \in DOMAIN wrapper[w].native_pipes} \ {NoPipe}
OwnedBy(urbs) == {cached[u].pipe : u \in {v \in urbs : cached[v] # Null /\ cached[v].owns}}
UrbsOf(i) == {u \in PipeUrbs : cached[u] # Null /\ cached[u].intf = i}

-----------------------------------------------------------------------------
(* usb_register_driver; the allocation of the native ids may fail.         *)
RegisterUsb(d) ==
    LET slot == First({s \in DOMAIN binding : binding[s] = Null}) IN
    /\ \A s \in DOMAIN binding : binding[s] # d
    /\ slot # 0
    /\ binding' = [binding EXCEPT ![slot] = d]
    /\ UNCHANGED <<wrapper, plugged, bound, removal, opened, live, cached,
                   pipeCall, holder, refused, left, untold, raced>>

(* usb_deregister: no disconnect is called.                                *)
DeregisterUsb(s) ==
    LET its == {i \in UsbIntfs : holder[i] = binding[s]} IN
    /\ binding[s] # Null
    /\ removal = Null
    /\ \A t \in UsbThreads : pipeCall[t] # Null => pipeCall[t].pipe.intf \notin its
    /\ binding' = [binding EXCEPT ![s] = Null]
    /\ left' = left \cup its
    /\ untold' = untold \cup UNION {UrbsOf(i) : i \in its}
    /\ UNCHANGED <<wrapper, plugged, bound, removal, opened, live, cached,
                   pipeCall, holder, refused, raced>>

(* lcompat_usb_wrap: the slot of the interface, or the first free one.     *)
SlotFor(i) ==
    LET own == {w \in UsedWrappers : wrapper[w].intf = i}
    IN IF own # {} THEN Min(own) ELSE First(DOMAIN wrapper \ UsedWrappers)

NewWrapper(i) ==
    LET eps == CollectEndpoints(Descs[i])
    IN [intf |-> i, endpoints |-> eps, native_pipes |-> [e \in DOMAIN eps |-> NoPipe]]

Wrap(i) ==
    LET w == SlotFor(i)
    IN /\ w # 0
       /\ wrapper' = IF wrapper[w] = Null THEN [wrapper EXCEPT ![w] = NewWrapper(i)]
                     ELSE wrapper

(* lcompat_usb_native_probe for a driver whose native ids match.  The      *)
(* wrapper is taken before the driver has said yes.                        *)
NativeProbe(s, i) ==
    /\ removal = Null
    /\ DevOf[i] \in plugged /\ bound[i] = 0
    /\ binding[s] # Null /\ Matches(binding[s], i)
    /\ Wrap(i)
    /\ \/ /\ bound' = [bound EXCEPT ![i] = s]
          /\ holder' = [holder EXCEPT ![i] = binding[s]]
          /\ left' = left \ {i}
          /\ refused' = refused \ {i}
       \/ /\ refused' = refused \cup {i}
          /\ UNCHANGED <<bound, holder, left>>
    /\ UNCHANGED <<binding, plugged, removal, opened, live, cached, pipeCall,
                   untold, raced>>

Plug(dev) ==
    /\ removal = Null
    /\ dev \notin plugged
    /\ plugged' = plugged \cup {dev}
    /\ UNCHANGED <<binding, wrapper, bound, removal, opened, live, cached, pipeCall,
                   holder, refused, left, untold, raced>>

(* The core removes a device through a driver it has bound to it, if any.  *)
Unplug(dev) ==
    /\ removal = Null
    /\ dev \in plugged
    /\ plugged' = plugged \ {dev}
    /\ removal' = IF \E i \in UsbIntfs : DevOf[i] = dev /\ bound[i] # 0
                  THEN [at |-> "next", dev |-> dev, w |-> 0, told |-> Null] ELSE Null
    /\ UNCHANGED <<binding, wrapper, bound, opened, live, cached, pipeCall,
                   holder, refused, left, untold, raced>>

(* Mutant: the loop ends with the first wrapper of the device.             *)
RemoveOnlyFirst ==
    LET rest == {w \in WrappersOf(removal.dev) : w > removal.w}
        w == Min(rest)
        slot == First({s \in DOMAIN binding :
                    binding[s] # Null /\ Matches(binding[s], wrapper[w].intf)})
    IN
    /\ removal # Null /\ removal.at = "next"
    /\ IF rest = {} \/ removal.w # 0
       THEN /\ removal' = Null
            /\ bound' = [i \in UsbIntfs |-> IF DevOf[i] = removal.dev THEN 0 ELSE bound[i]]
       ELSE /\ removal' = [removal EXCEPT !.at = "disconnect", !.w = w,
                               !.told = IF slot = 0 THEN Null ELSE binding[slot]]
            /\ UNCHANGED bound
    /\ UNCHANGED <<binding, wrapper, plugged, opened, live, cached, pipeCall,
                   holder, refused, left, untold, raced>>

(* lcompat_usb_native_remove, one wrapper of the device after the other.   *)
(* The first registered driver with a matching id is the one that is told. *)
RemoveNext ==
    LET rest == {w \in WrappersOf(removal.dev) : w > removal.w}
        w == Min(rest)
        slot == First({s \in DOMAIN binding :
                    binding[s] # Null /\ Matches(binding[s], wrapper[w].intf)})
    IN
    /\ removal # Null /\ removal.at = "next"
    /\ IF rest = {}
       THEN /\ removal' = Null
            /\ bound' = [i \in UsbIntfs |-> IF DevOf[i] = removal.dev THEN 0 ELSE bound[i]]
       ELSE /\ removal' = [removal EXCEPT !.at = "disconnect", !.w = w,
                               !.told = IF slot = 0 THEN Null ELSE binding[slot]]
            /\ UNCHANGED bound
    /\ UNCHANGED <<binding, wrapper, plugged, opened, live, cached, pipeCall,
                   holder, refused, left, untold, raced>>

(* The driver's disconnect.                                                *)
Disconnect ==
    LET i == wrapper[removal.w].intf IN
    /\ removal # Null /\ removal.at = "disconnect"
    /\ \A t \in UsbThreads : pipeCall[t] # Null => pipeCall[t].pipe.intf # i
    /\ removal' = [removal EXCEPT !.at = "free"]
    /\ IF removal.told # Null /\ removal.told = holder[i]
       THEN /\ live' = live \ OwnedBy(UrbsOf(i))
            /\ cached' = [u \in PipeUrbs |-> IF u \in UrbsOf(i) THEN Null ELSE cached[u]]
            /\ holder' = [holder EXCEPT ![i] = Null]
            /\ UNCHANGED untold
       ELSE /\ untold' = untold \cup UrbsOf(i)
            /\ UNCHANGED <<live, cached, holder>>
    /\ UNCHANGED <<binding, wrapper, plugged, bound, opened, pipeCall, refused, left, raced>>

(* Its pipes are freed and the slot is given up.                           *)
FreeWrapper ==
    /\ removal # Null /\ removal.at = "free"
    /\ live' = live \ WrapperPipes(removal.w)
    /\ wrapper' = [wrapper EXCEPT ![removal.w] = Null]
    /\ removal' = [removal EXCEPT !.at = "next"]
    /\ refused' = refused \ {wrapper[removal.w].intf}
    /\ UNCHANGED <<binding, plugged, bound, opened, cached, pipeCall, holder,
                   left, untold, raced>>

-----------------------------------------------------------------------------
(* lcompat_usb_get_native_pipe for a submission (u is an URB) or for a     *)
(* synchronous call (u is Null): what the URB has, what the wrapper has,   *)
(* or a pipe to be opened for the wrapper's endpoint or for the caller.    *)
HasPipe(t, p, own) == pipeCall' = [pipeCall EXCEPT ![t].at = "has", ![t].got = p, ![t].own = own]
EndCall(t) == pipeCall' = [pipeCall EXCEPT ![t] = Null]

MayUse(i) == holder[i] # Null /\ i \notin left /\ \E w \in UsedWrappers : wrapper[w].intf = i

CallPipe(t, p, u) ==
    /\ pipeCall[t] = Null
    /\ MayUse(p.intf)
    /\ removal # Null /\ removal.at # "next" => wrapper[removal.w].intf # p.intf
    /\ u # Null => /\ \A o \in UsbThreads : pipeCall[o] # Null => pipeCall[o].urb # u
                   /\ cached[u] # Null => cached[u].intf = p.intf
                   /\ u \notin untold
    /\ pipeCall' = [pipeCall EXCEPT ![t] = [urb |-> u, pipe |-> p, at |-> "look",
                      w |-> 0, ep |-> 0, got |-> NoPipe, own |-> FALSE]]
    /\ UNCHANGED <<binding, wrapper, plugged, bound, removal, opened, live, cached,
                   holder, refused, left, untold, raced>>

(* The first wrapper of the device with the endpoint, and the endpoint.    *)
WrapperForPipe(p) ==
    LET w == First({x \in WrappersOf(DevOf[p.intf]) :
                       FindWrapperEp(wrapper[x].endpoints, p) # 0})
    IN IF w = 0 THEN <<0, 0>> ELSE <<w, FindWrapperEp(wrapper[w].endpoints, p)>>

Cache(u, p, own, i) ==
    cached' = IF u = Null THEN cached
              ELSE [cached EXCEPT ![u] = [pipe |-> p, owns |-> own, intf |-> i]]

LookForPipe(t) ==
    LET c == pipeCall[t]
        f == WrapperForPipe(c.pipe)
    IN
    /\ c # Null /\ c.at = "look"
    /\ \/ /\ c.urb # Null /\ cached[c.urb] # Null
          /\ HasPipe(t, cached[c.urb].pipe, FALSE)
          /\ UNCHANGED cached
       \/ /\ c.urb # Null => cached[c.urb] = Null
          /\ IF f[1] # 0 /\ wrapper[f[1]].native_pipes[f[2]] # NoPipe
             THEN LET p == wrapper[f[1]].native_pipes[f[2]] IN
                  /\ Cache(c.urb, p, FALSE, c.pipe.intf)
                  /\ HasPipe(t, p, FALSE)
             ELSE /\ pipeCall' = [pipeCall EXCEPT ![t].at = "open", ![t].w = f[1], ![t].ep = f[2]]
                  /\ UNCHANGED cached
    /\ UNCHANGED <<binding, wrapper, plugged, bound, removal, opened, live, holder,
                   refused, left, untold, raced>>

(* The endpoint is looked up once more in the descriptors: of the wrapped  *)
(* interface, or of all of the device.  The host controller may refuse.    *)
Described(c) ==
    LET its == IF c.w # 0 THEN {wrapper[c.w].intf}
               ELSE {i \in UsbIntfs : DevOf[i] = DevOf[c.pipe.intf]}
    IN \E i \in its : FindEpInIface(Descs[i], c.pipe) # 0

OpenPipe(t) ==
    LET c == pipeCall[t] IN
    /\ c # Null /\ c.at = "open"
    /\ \/ /\ Described(c) /\ opened < MaxPipes
          /\ opened' = opened + 1
          /\ live' = live \cup {opened + 1}
          /\ pipeCall' = [pipeCall EXCEPT ![t].at = "store", ![t].got = opened + 1]
       \/ EndCall(t) /\ UNCHANGED <<opened, live>>
    /\ UNCHANGED <<binding, wrapper, plugged, bound, removal, cached, holder,
                   refused, left, untold, raced>>

(* Mutant: a pipe that no wrapper keeps is forgotten by the URB.           *)
StorePipeShared(t) ==
    LET c == pipeCall[t]
        kept == c.w # 0
        old == IF kept THEN wrapper[c.w].native_pipes[c.ep] ELSE NoPipe
    IN
    /\ c # Null /\ c.at = "store"
    /\ wrapper' = IF kept THEN [wrapper EXCEPT ![c.w].native_pipes[c.ep] = c.got] ELSE wrapper
    /\ raced' = raced \cup ({old} \ {NoPipe})
    /\ Cache(c.urb, c.got, FALSE, c.pipe.intf)
    /\ HasPipe(t, c.got, c.urb = Null /\ ~kept)
    /\ UNCHANGED <<binding, plugged, bound, removal, opened, live, holder,
                   refused, left, untold>>

(* The wrapper keeps it, without another look; else URB or caller own it.  *)
StorePipe(t) ==
    LET c == pipeCall[t]
        kept == c.w # 0
        old == IF kept THEN wrapper[c.w].native_pipes[c.ep] ELSE NoPipe
    IN
    /\ c # Null /\ c.at = "store"
    /\ wrapper' = IF kept THEN [wrapper EXCEPT ![c.w].native_pipes[c.ep] = c.got] ELSE wrapper
    /\ raced' = raced \cup ({old} \ {NoPipe})
    /\ Cache(c.urb, c.got, ~kept, c.pipe.intf)
    /\ HasPipe(t, c.got, c.urb = Null /\ ~kept)
    /\ UNCHANGED <<binding, plugged, bound, removal, opened, live, holder,
                   refused, left, untold>>

(* The transfer is over (lcompat_usb_sync_xfer), or the URB is on its way  *)
(* (usb_submit_urb); a pipe of the call's own is freed.                    *)
PipeUsed(t) ==
    LET c == pipeCall[t] IN
    /\ c # Null /\ c.at = "has"
    /\ live' = IF c.own THEN live \ {c.got} ELSE live
    /\ EndCall(t)
    /\ UNCHANGED <<binding, wrapper, plugged, bound, removal, opened, cached, holder,
                   refused, left, untold, raced>>

(* The last usb_free_urb of an URB that nobody uses.                       *)
FreePipeUrb(u) ==
    /\ cached[u] # Null /\ u \notin untold
    /\ \A t \in UsbThreads : pipeCall[t] # Null => pipeCall[t].urb # u
    /\ live' = live \ OwnedBy({u})
    /\ cached' = [cached EXCEPT ![u] = Null]
    /\ UNCHANGED <<binding, wrapper, plugged, bound, removal, opened, pipeCall, holder,
                   refused, left, untold, raced>>

-----------------------------------------------------------------------------
BindingInit ==
    /\ binding = [s \in 1 .. MaxBindings |-> Null]
    /\ wrapper = [w \in 1 .. MaxWrappers |-> Null]
    /\ plugged = {} /\ bound = [i \in UsbIntfs |-> 0]
    /\ removal = Null
    /\ opened = 0 /\ live = {}
    /\ cached = [u \in PipeUrbs |-> Null]
    /\ pipeCall = [t \in UsbThreads |-> Null]
    /\ holder = [i \in UsbIntfs |-> Null]
    /\ refused = {} /\ left = {} /\ untold = {} /\ raced = {}

CoreStep ==
    \/ \E dev \in UsbDevices : Plug(dev) \/ Unplug(dev)
    \/ \E s \in DOMAIN binding, i \in UsbIntfs : NativeProbe(s, i)
    \/ RemoveNext \/ Disconnect \/ FreeWrapper

DriverStep(t) ==
    \/ \E p \in UsbPipes, u \in PipeUrbs \cup {Null} : CallPipe(t, p, u)
    \/ LookForPipe(t) \/ OpenPipe(t) \/ StorePipe(t) \/ PipeUsed(t)

BindingNext ==
    \/ \E d \in UsbDrivers : RegisterUsb(d)
    \/ \E s \in DOMAIN binding : DeregisterUsb(s)
    \/ CoreStep
    \/ \E t \in UsbThreads : DriverStep(t)
    \/ \E u \in PipeUrbs : FreePipeUrb(u)

BindingSpec == BindingInit /\ [][BindingNext]_bindingVars

-----------------------------------------------------------------------------
(* Who frees pipe p some day: a wrapper, an URB, or the call that has it.  *)
PipeOwners(p) ==
    {<<"wrapper", w>> : w \in {x \in UsedWrappers : p \in WrapperPipes(x)}}
    \cup {<<"urb", u>> : u \in {v \in PipeUrbs : p \in OwnedBy({v})}}
    \cup {<<"call", t>> : t \in {s \in UsbThreads : pipeCall[s] # Null
             /\ pipeCall[s].got = p /\ (pipeCall[s].at = "store" \/ pipeCall[s].own)}}

(* Across probes, removals and drivers that come and go, every open pipe   *)
(* is freed by exactly one place, save those that two simultaneous calls   *)
(* opened for one endpoint; and an URB or a call keeps a freed pipe only   *)
(* when its driver was not told that the device went.                      *)
PipesAccounted ==
    /\ \A p \in 1 .. opened :
          Cardinality(PipeOwners(p)) = IF p \in live /\ p \notin raced THEN 1 ELSE 0
    /\ \A u \in PipeUrbs : cached[u] # Null => cached[u].pipe \in live \/ u \in untold
    /\ \A t \in UsbThreads : pipeCall[t] # Null /\ pipeCall[t].got # NoPipe
                                => pipeCall[t].got \in live

(* A device that has gone leaves nothing behind, except the wrapper of a   *)
(* failed probe when no driver was bound, and an interface whose driver    *)
(* has deregistered or shares it with the table of another driver.         *)
GoneLeavesNothing ==
    removal = Null => \A i \in UsbIntfs : DevOf[i] \notin plugged =>
        /\ \A w \in UsedWrappers : wrapper[w].intf = i => i \in refused
        /\ \/ holder[i] = Null \/ i \in left
           \/ \E d \in UsbDrivers : d # holder[i] /\ Matches(d, i)
=============================================================================
