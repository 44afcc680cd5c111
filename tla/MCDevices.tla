------------------------------ MODULE MCDevices ------------------------------
(***************************************************************************)
(* What drivers are handed, for TLC: socket buffers, USB interfaces and    *)
(* their pipes, the buffers of an URB, PCI devices.  They share no state;  *)
(* a behavior exercises one of them, chosen at the start.                  *)
(***************************************************************************)
EXTENDS SkbPages, UsbBinding, UsbBuffers, PciBinding, TLC

CONSTANTS pg1, pg2, sk1, sk2,
          dA, dB, i1, i2, du1, ut1, ut2,
          pA, pB, nic, gpu

VARIABLE subject

Symmetry == Permutations(Pages) \cup Permutations(Skbs) \cup Permutations(UsbThreads)

-----------------------------------------------------------------------------
(* One device of two interfaces; the first has an endpoint its wrapper has *)
(* no room for.  dB matches the second interface only: the id with class 5 *)
(* stands behind the end of its table.                                     *)
Desc(type, addr, xfer) == [type |-> type, addr |-> addr, xfer |-> xfer, cut |-> FALSE]
SomeDescs ==
    [i \in UsbIntfs |->
        <<Desc("class", 0, "-"), Desc("endpoint", IF i = i1 THEN 1 ELSE 4, "int"),
          Desc("companion", 0, "-"), Desc("endpoint", IF i = i1 THEN 2 ELSE 5, "bulk"),
          Desc("interface", 0, "-"), Desc("endpoint", 3, "bulk")>>]
OneDevice == [i \in UsbIntfs |-> "dev1"]
SomeFields == [i \in UsbIntfs |-> [vendor |-> 1, class |-> IF i = i1 THEN 5 ELSE 6]]
Vendor(v) == [f \in {"vendor"} |-> v]
Class(c)  == [f \in {"class"} |-> c]
SomeTables == [d \in UsbDrivers |-> IF d = dA THEN <<Vendor(9), Vendor(1)>>
                                    ELSE <<Class(6), <<>>, Class(5)>>]
SomePipes == {[intf |-> i1, type |-> "int", addr |-> 1],
              [intf |-> i1, type |-> "bulk", addr |-> 2]}

-----------------------------------------------------------------------------
SomeFragLists == {<<>>, <<2>>, <<1, 2>>, <<2, 0, 1>>}
SomeTransferLengths == {-1, 0, 1, 2, 4}

-----------------------------------------------------------------------------
(* Two functions of one vendor; pB names one of them by its class, behind  *)
(* an id of vendor 0 that does not end its table.                          *)
TwoDevices == <<nic, gpu>>
Info(dev, class) == [vendor |-> 1, device |-> dev, subvendor |-> 1, subdevice |-> 1, class |-> class]
SomeInfo == [d \in {nic, gpu} |-> IF d = nic THEN Info(1, 2) ELSE Info(2, 3)]
Id(v, d, classes) ==
    [vendor |-> v, device |-> d, subvendor |-> AnyId, subdevice |-> AnyId, classes |-> classes]
NoId == [Id(0, 0, AnyId) EXCEPT !.subvendor = 0, !.subdevice = 0]
SomeIds ==
    [d \in PciDrivers |->
        IF d = pA THEN <<Id(1, 1, AnyId), Id(1, AnyId, {2, 3}), NoId>>
        ELSE <<Id(0, 0, AnyId), Id(AnyId, AnyId, {3}), NoId, Id(1, 1, AnyId)>>]

-----------------------------------------------------------------------------
DevicesInit ==
    /\ SkbInit /\ BindingInit /\ BuffersInit /\ PciInit
    /\ subject \in {"skb", "usb", "buffer", "pci"}

DevicesNext ==
    /\ UNCHANGED subject
    /\ \/ subject = "skb" /\ SkbNext /\ UNCHANGED <<bindingVars, bufferVars, pciVars>>
       \/ subject = "usb" /\ BindingNext /\ UNCHANGED <<skbVars, bufferVars, pciVars>>
       \/ subject = "buffer" /\ BuffersNext /\ UNCHANGED <<skbVars, bindingVars, pciVars>>
       \/ subject = "pci" /\ PciNext /\ UNCHANGED <<skbVars, bindingVars, bufferVars>>

DevicesSpec ==
    DevicesInit /\ [][DevicesNext]_<<subject, skbVars, bindingVars, bufferVars, pciVars>>
=============================================================================
