------------------------------ MODULE PciBinding ------------------------------
(***************************************************************************)
(* Drivers and devices of src/pci.c.  A registered driver has a slot that  *)
(* holds the native driver; a device has a wrapper that is never given up. *)
(* Registration first hands the native driver to the PCI core, which       *)
(* probes devices no driver is bound to, and then probes the devices once  *)
(* more by itself.  The wrappers are as many as the core can have devices. *)
(***************************************************************************)
EXTENDS Integers, Sequences, FiniteSets, FiniteSetsExt

CONSTANTS PciDrivers, \* struct pci_driver
          PciDevices, \* pci_devices[], a sequence
          PciIds,     \* [driver -> id_table]
          PciInfo,    \* [device -> the fields ids are compared with]
          PciSlots,   \* LCOMPAT_MAX_PCI_DRIVERS
          AnyId,        \* PCI_ANY_ID, and a class_mask of 0
          MaxHeld,    \* bound on the unanswered probes of a device by a driver
          Void

ASSUME PciAssumption ==
    /\ PciSlots \in Nat \ {0} /\ MaxHeld \in Nat
    /\ PciDevices \in Seq(Range(PciDevices))
    /\ Void \notin PciDrivers \cup Range(PciDevices)

VARIABLES
    pslot,    \* [slot -> [used, driver]]: linux_driver outlives used
    pnative,  \* slots whose native driver the PCI core has
    pwrapper, \* [wrapper -> device, Void: not used]
    pbound,   \* [device -> slot the core has bound it to, 0]
    preg,     \* pci_register_driver in progress: [slot, dev_idx], or Void
    pheld,    \* history: [device -> [driver -> successful probes, less removals]]
    looped,   \* history: <<device, driver>> that registration's loop probed
    strayed   \* history: devices whose removal could not reach their driver

pciVars == <<pslot, pnative, pwrapper, pbound, preg, pheld, looped, strayed>>

Devices == {PciDevices[i] : i \in DOMAIN PciDevices}
FirstOf(S) == IF S = {} THEN 0 ELSE Min(S)

IdFields == {"vendor", "device", "subvendor", "subdevice"}

IdFits(id, dev) ==
    /\ \A f \in IdFields : id[f] \in {AnyId, PciInfo[dev][f]}
    /\ id.classes = AnyId \/ PciInfo[dev].class \in id.classes

(* An id of zeros, with no class mask either, ends the table.              *)
EndsTable(id) == (\A f \in IdFields : id[f] = 0) /\ id.classes = AnyId

PciMatchOne(ids, dev) ==
    FirstOf({i \in DOMAIN ids : IdFits(ids[i], dev) /\ \A j \in 1 .. i : ~EndsTable(ids[j])})

PciMatches(d, dev) == PciMatchOne(PciIds[d], dev) # 0

(* lcompat_pci_wrap                                                        *)
PciWrap(dev) ==
    LET free == {w \in DOMAIN pwrapper : pwrapper[w] = Void} IN
    pwrapper' = IF \E w \in DOMAIN pwrapper : pwrapper[w] = dev THEN pwrapper
                ELSE [pwrapper EXCEPT ![Min(free)] = dev]

(* The driver's probe takes the device or refuses it.                      *)
Taken(dev, d) ==
    /\ pheld[dev][d] < MaxHeld
    /\ pheld' = [pheld EXCEPT ![dev][d] = @ + 1]

-----------------------------------------------------------------------------
(* pci_register_driver: the slot stays used when the core refuses.         *)
PciRegister(d) ==
    LET slot == FirstOf({s \in DOMAIN pslot : ~pslot[s].used}) IN
    /\ preg = Void
    /\ \A s \in DOMAIN pslot : pslot[s].used => pslot[s].driver # d
    /\ slot # 0
    /\ pslot' = [pslot EXCEPT ![slot] = [used |-> TRUE, driver |-> d]]
    /\ \/ /\ pnative' = pnative \cup {slot}
          /\ preg' = [slot |-> slot, idx |-> 0]
       \/ UNCHANGED <<pnative, preg>>
    /\ UNCHANGED <<pwrapper, pbound, pheld, looped, strayed>>

(* Its loop over the devices, up to the first that is taken; devices the   *)
(* core has bound meanwhile are not left out.                              *)
RegisterProbes ==
    LET d == pslot[preg.slot].driver
        next == FirstOf({i \in DOMAIN PciDevices : i > preg.idx /\ PciMatches(d, PciDevices[i])})
        dev == PciDevices[next]
    IN
    /\ preg # Void
    /\ IF next = 0
       THEN preg' = Void /\ UNCHANGED <<pwrapper, pheld, looped>>
       ELSE /\ PciWrap(dev)
            /\ \/ /\ Taken(dev, d)
                  /\ looped' = looped \cup {<<dev, d>>}
                  /\ preg' = Void
               \/ /\ preg' = [preg EXCEPT !.idx = next]
                  /\ UNCHANGED <<pheld, looped>>
    /\ UNCHANGED <<pslot, pnative, pbound, strayed>>

(* pci_unregister_driver: the core keeps the native driver.                *)
PciUnregister(d) ==
    LET slot == FirstOf({s \in DOMAIN pslot : pslot[s].used /\ pslot[s].driver = d}) IN
    /\ preg = Void
    /\ slot # 0
    /\ pslot' = [pslot EXCEPT ![slot].used = FALSE]
    /\ UNCHANGED <<pnative, pwrapper, pbound, preg, pheld, looped, strayed>>

(* lcompat_pci_native_match and lcompat_pci_native_probe: used is not      *)
(* looked at.  The core calls them for a device it has not bound, when the *)
(* driver is handed to it or later.                                        *)
PciNativeProbe(s, dev) ==
    LET d == pslot[s].driver IN
    /\ preg # Void => preg.idx = 0 /\ preg.slot = s
    /\ s \in pnative
    /\ pbound[dev] = 0
    /\ PciMatches(d, dev)
    /\ PciWrap(dev)
    /\ \/ Taken(dev, d) /\ pbound' = [pbound EXCEPT ![dev] = s]
       \/ UNCHANGED <<pheld, pbound>>
    /\ UNCHANGED <<pslot, pnative, preg, looped, strayed>>

(* Mutant: removal calls the first driver whatever its table.              *)
SlotToldAny(dev) == FirstOf({s \in DOMAIN pslot : pslot[s].used})

(* The first used slot whose table matches, as removal and shutdown look.  *)
SlotTold(dev) ==
    FirstOf({s \in DOMAIN pslot : pslot[s].used /\ PciMatches(pslot[s].driver, dev)})

(* lcompat_pci_native_remove                                               *)
PciNativeRemove(dev) ==
    LET s == SlotTold(dev) IN
    /\ preg = Void
    /\ pbound[dev] # 0
    /\ PciWrap(dev)
    /\ pbound' = [pbound EXCEPT ![dev] = 0]
    /\ pheld' = IF s = 0 THEN pheld
                ELSE [pheld EXCEPT ![dev][pslot[s].driver] = IF @ = 0 THEN 0 ELSE @ - 1]
    /\ strayed' = IF \/ ~pslot[pbound[dev]].used
                     \/ \E d \in PciDrivers \ {pslot[pbound[dev]].driver} : PciMatches(d, dev)
                  THEN strayed \cup {dev} ELSE strayed
    /\ UNCHANGED <<pslot, pnative, preg, looped>>

(* pci_get_class and pci_get_domain_bus_and_slot wrap what they find: the  *)
(* next device of a class behind the i-th, the device of an address.       *)
PciGetClass(class, i) ==
    LET next == FirstOf({j \in DOMAIN PciDevices : j > i /\ PciInfo[PciDevices[j]].class = class})
    IN /\ preg = Void
       /\ next # 0
       /\ PciWrap(PciDevices[next])
       /\ UNCHANGED <<pslot, pnative, pbound, preg, pheld, looped, strayed>>

PciGetSlot(dev) ==
    /\ preg = Void
    /\ PciWrap(dev)
    /\ UNCHANGED <<pslot, pnative, pbound, preg, pheld, looped, strayed>>

-----------------------------------------------------------------------------
PciInit ==
    /\ pslot = [s \in 1 .. PciSlots |-> [used |-> FALSE, driver |-> Void]]
    /\ pnative = {} /\ preg = Void
    /\ pwrapper = [w \in DOMAIN PciDevices |-> Void]
    /\ pbound = [dev \in Devices |-> 0]
    /\ pheld = [dev \in Devices |-> [d \in PciDrivers |-> 0]]
    /\ looped = {} /\ strayed = {}

PciNext ==
    \/ \E d \in PciDrivers : PciRegister(d) \/ PciUnregister(d)
    \/ RegisterProbes
    \/ \E dev \in Devices : \/ PciNativeRemove(dev) \/ PciGetSlot(dev)
                            \/ \E s \in DOMAIN pslot : PciNativeProbe(s, dev)
    \/ \E dev \in Devices, i \in 0 .. Len(PciDevices) : PciGetClass(PciInfo[dev].class, i)

PciSpec == PciInit /\ [][PciNext]_pciVars

-----------------------------------------------------------------------------
(* A driver is not probed for a device that it has taken and was not told  *)
(* to give back, unless the loop of its registration did so: the loop      *)
(* does not know what the core has bound, nor the core what the loop has.  *)
(* Left out are devices that left a driver without its knowledge, because  *)
(* it was no longer registered or another table names the device too.      *)
ProbedOnce ==
    \A dev \in Devices, d \in PciDrivers :
        pheld[dev][d] <= 1 \/ <<dev, d>> \in looped \/ dev \in strayed
=============================================================================
