---------------------------- MODULE DevicesProofs ----------------------------
(***************************************************************************)
(* Theorems about the tables of drivers and devices, for any numbers of    *)
(* them and any id tables, and about the kernel threads of drivers.  The   *)
(* code searches its tables from the first entry on; what such a search    *)
(* finds is Min of the entries that fit, and that a set of numbers has a   *)
(* least one is shown first.  PciBinding comes first, UsbBinding second:   *)
(* what holds of its tables of drivers, wrappers and calls (BindingInv),   *)
(* and who frees a pipe (PipeInv).  The threads (Kthread) come last.       *)
(***************************************************************************)
EXTENDS PciBinding, UsbBinding, Kthread, FiniteSetTheorems, TLAPS

Upto(T, n) == {i \in T : i <= n}

(* A loop over a table that has an entry that fits stops at the first one: *)
(* the beginnings of a set of numbers are finite, and the smallest of them *)
(* ends at its least element.                                              *)
LEMMA LeastExists ==
  ASSUME NEW T \in SUBSET Nat, T # {}
  PROVE  \E m \in T : \A n \in T : m <= n
<1> DEFINE Starts == {Upto(T, n) : n \in T}
<1>1. \A n \in T : n \in Nat
  OBVIOUS
<1>2. \A n \in T : IsFiniteSet(Upto(T, n))
  <2> SUFFICES ASSUME NEW n \in T PROVE IsFiniteSet(Upto(T, n))
    OBVIOUS
  <2>1. n \in Nat /\ IsFiniteSet(0 .. n)
    BY <1>1, FS_Interval
  <2>2. ASSUME NEW i \in Upto(T, n) PROVE i \in 0 .. n
    <3>1. i \in T /\ i <= n
      BY DEF Upto
    <3>2. QED
      BY <1>1, <3>1
  <2>3. QED
    BY <2>1, <2>2, FS_Subset
<1>3. Starts \subseteq FiniteSubsetsOf(T) /\ Starts # {}
  BY <1>2 DEF FiniteSubsetsOf, Upto
<1>4. IsWellFoundedOn(StrictSubsetOrdering(T), FiniteSubsetsOf(T))
  BY FS_StrictSubsetOrderingWellFounded
<1>5. \E X \in Starts : \A Y \in Starts : ~ (<<Y, X>> \in StrictSubsetOrdering(T))
  <2> HIDE DEF Starts
  <2> QED BY <1>3, <1>4, WFMin
<1>6. PICK m \in T : \A n \in T : ~ (<<Upto(T, n), Upto(T, m)>> \in StrictSubsetOrdering(T))
  BY <1>5
<1>7. ASSUME NEW n \in T PROVE m <= n
  <2> SUFFICES ASSUME n < m PROVE FALSE
    BY <1>1
  <2>1. m \in Upto(T, m) /\ m \notin Upto(T, n)
    BY <1>1 DEF Upto
  <2>2. ASSUME NEW i \in Upto(T, n) PROVE i \in Upto(T, m)
    <3>1. i \in T /\ i <= n
      BY DEF Upto
    <3>2. i \in Nat /\ n \in Nat /\ m \in Nat
      BY <1>1, <3>1
    <3>3. i <= m
      BY <3>1, <3>2
    <3>4. QED
      BY <3>1, <3>3 DEF Upto
  <2>3. Upto(T, n) \in SUBSET T /\ Upto(T, m) \in SUBSET T
    BY DEF Upto
  <2>4. <<Upto(T, n), Upto(T, m)>> \in StrictSubsetOrdering(T)
    BY <2>1, <2>2, <2>3 DEF StrictSubsetOrdering
  <2>5. QED
    BY <1>6, <2>4
<1>8. QED
  BY <1>7

(* What a search from the first entry on returns.                          *)
LEMMA FirstIsThere ==
  ASSUME NEW T \in SUBSET (Nat \ {0})
  PROVE  /\ FirstOf(T) # 0 <=> T # {}
         /\ FirstOf(T) # 0 => FirstOf(T) \in T
<1>1. CASE T = {}
  BY <1>1 DEF FirstOf
<1>2. CASE T # {}
  <2>1. Min(T) \in T
    BY <1>2, LeastExists DEF Min
  <2>2. QED
    BY <1>2, <2>1 DEF FirstOf
<1>3. QED
  BY <1>1, <1>2

-----------------------------------------------------------------------------
(* PCI: slots hold drivers once they are used, and the core binds devices  *)
(* to slots it was given.                                                  *)
PciShape ==
    /\ pslot \in [1 .. PciSlots -> [used : BOOLEAN, driver : PciDrivers \cup {Void}]]
    /\ \A s \in 1 .. PciSlots : pslot[s].used => pslot[s].driver \in PciDrivers
    /\ pnative \subseteq 1 .. PciSlots
    /\ \A s \in pnative : pslot[s].driver \in PciDrivers
    /\ preg # Void => preg \in [slot : pnative, idx : Nat]
    /\ pbound \in [Devices -> 0 .. PciSlots]
    /\ pheld \in [Devices -> [PciDrivers -> Nat]]

(* A driver is only handed devices its table names.  A device that has not *)
(* strayed, and that no registration probed by itself, is with at most one *)
(* probe at a driver, and the core has it bound as long as it is.          *)
HeldOnce ==
    /\ \A dev \in Devices, d \in PciDrivers : pheld[dev][d] > 0 => PciMatches(d, dev)
    /\ \A dev \in Devices \ strayed, d \in PciDrivers :
          <<dev, d>> \notin looped /\ pheld[dev][d] > 0 => pheld[dev][d] = 1 /\ pbound[dev] # 0

PciInv == PciShape /\ HeldOnce

LEMMA PciInitInv == PciInit => PciInv
  BY PciAssumption DEF PciInit, PciInv, PciShape, HeldOnce

(* A search of the driver table.                                           *)
LEMMA SlotFound ==
  ASSUME PciShape, NEW S \in SUBSET DOMAIN pslot
  PROVE  /\ FirstOf(S) # 0 <=> S # {}
         /\ FirstOf(S) # 0 => FirstOf(S) \in S /\ FirstOf(S) \in 1 .. PciSlots
<1>1. DOMAIN pslot = 1 .. PciSlots
  BY DEF PciShape
<1>2. S \in SUBSET (Nat \ {0})
  BY <1>1, PciAssumption
<1>3. QED
  BY <1>1, <1>2, FirstIsThere

(* pci_register_driver may use again the slot of a driver that is gone,    *)
(* whose native driver the core still has.                                 *)
LEMMA RegisterKeeps ==
  ASSUME PciInv, NEW d \in PciDrivers, PciRegister(d)
  PROVE  PciInv'
<1> DEFINE slot == FirstOf({s \in DOMAIN pslot : ~pslot[s].used})
<1>1. slot \in 1 .. PciSlots
  BY SlotFound DEF PciRegister, PciInv
<1> HIDE DEF slot
<1>2. pslot' = [pslot EXCEPT ![slot] = [used |-> TRUE, driver |-> d]]
  BY DEF PciRegister, slot
<1>3. /\ pslot' \in [1 .. PciSlots -> [used : BOOLEAN, driver : PciDrivers \cup {Void}]]
      /\ \A s \in 1 .. PciSlots : pslot'[s].used => pslot'[s].driver \in PciDrivers
      /\ \A s \in pnative \cup {slot} : pslot'[s].driver \in PciDrivers
  BY <1>1, <1>2 DEF PciInv, PciShape
<1>4. \/ pnative' = pnative \cup {slot} /\ preg' = [slot |-> slot, idx |-> 0]
      \/ pnative' = pnative /\ preg' = preg
  BY DEF PciRegister, slot
<1>5. /\ pnative' \subseteq 1 .. PciSlots
      /\ \A s \in pnative' : pslot'[s].driver \in PciDrivers
  BY <1>1, <1>3, <1>4 DEF PciInv, PciShape
<1>9. preg' # Void => preg' \in [slot : pnative', idx : Nat]
  <2>1. CASE preg' = [slot |-> slot, idx |-> 0] /\ pnative' = pnative \cup {slot}
    BY <2>1
  <2>2. CASE pnative' = pnative /\ preg' = preg
    BY <2>2 DEF PciInv, PciShape
  <2>3. QED
    BY <1>4, <2>1, <2>2
<1>6. UNCHANGED <<pbound, pheld, looped, strayed>>
  BY DEF PciRegister
<1>7. HeldOnce'
  BY <1>6 DEF PciInv, HeldOnce
<1>8. QED
  BY <1>3, <1>5, <1>9, <1>6, <1>7 DEF PciInv, PciShape

(* The loop of the registration: what it hands over is in `looped`.        *)
LEMMA RegistrationProbes ==
  ASSUME PciInv, RegisterProbes
  PROVE  PciInv'
<1> DEFINE d == pslot[preg.slot].driver
           fits == {i \in DOMAIN PciDevices : i > preg.idx /\ PciMatches(d, PciDevices[i])}
           dev == PciDevices[FirstOf(fits)]
<1>1. d \in PciDrivers
  BY DEF RegisterProbes, PciInv, PciShape
<1>2. CASE FirstOf(fits) = 0
  BY <1>2 DEF RegisterProbes, PciInv, PciShape, HeldOnce
<1>3. CASE FirstOf(fits) # 0
  <2>1. fits \in SUBSET (Nat \ {0})
    <3>1. DOMAIN PciDevices = 1 .. Len(PciDevices) /\ Len(PciDevices) \in Nat
      BY PciAssumption
    <3>2. QED
      BY <3>1
  <2>2. dev \in Devices /\ PciMatches(d, dev)
    BY <1>3, <2>1, FirstIsThere DEF Devices
  <2> HIDE DEF fits, d, dev
  <2>3. \/ /\ Taken(dev, d) /\ looped' = looped \cup {<<dev, d>>} /\ preg' = Void
        \/ /\ preg' = [preg EXCEPT !.idx = FirstOf(fits)] /\ UNCHANGED <<pheld, looped>>
    BY <1>3 DEF RegisterProbes, fits, d, dev
  <2>4. UNCHANGED <<pslot, pnative, pbound, strayed>> /\ preg # Void
    BY DEF RegisterProbes
  <2>5. preg' # Void => preg' \in [slot : pnative', idx : Nat]
    <3>1. FirstOf(fits) \in Nat
      BY <1>3, <2>1, FirstIsThere
    <3>2. QED
      BY <2>3, <2>4, <3>1 DEF PciInv, PciShape
  <2>6. CASE UNCHANGED <<pheld, looped>>
    BY <2>4, <2>5, <2>6 DEF PciInv, PciShape, HeldOnce
  <2>7. CASE Taken(dev, d) /\ looped' = looped \cup {<<dev, d>>}
    <3>1. /\ pheld' \in [Devices -> [PciDrivers -> Nat]]
          /\ \A e \in Devices, c \in PciDrivers :
                pheld'[e][c] = IF e = dev /\ c = d THEN pheld[e][c] + 1 ELSE pheld[e][c]
      BY <1>1, <2>2, <2>7 DEF Taken, PciInv, PciShape
    <3>2. HeldOnce'
      BY <2>2, <2>4, <2>7, <3>1 DEF PciInv, HeldOnce
    <3>3. QED
      BY <2>4, <2>5, <3>1, <3>2 DEF PciInv, PciShape
  <2>8. QED
    BY <2>3, <2>6, <2>7
<1>4. QED
  BY <1>2, <1>3

(* pci_unregister_driver leaves the core what it has.                      *)
LEMMA UnregisterKeeps ==
  ASSUME PciInv, NEW d \in PciDrivers, PciUnregister(d)
  PROVE  PciInv'
<1> DEFINE slot == FirstOf({s \in DOMAIN pslot : pslot[s].used /\ pslot[s].driver = d})
<1>1. slot \in 1 .. PciSlots
  BY SlotFound DEF PciUnregister, PciInv
<1> HIDE DEF slot
<1>2. pslot' = [pslot EXCEPT ![slot].used = FALSE]
  BY DEF PciUnregister, slot
<1>3. /\ pslot' \in [1 .. PciSlots -> [used : BOOLEAN, driver : PciDrivers \cup {Void}]]
      /\ \A s \in 1 .. PciSlots : /\ pslot'[s].driver = pslot[s].driver
                                  /\ pslot'[s].used => pslot[s].used
  BY <1>1, <1>2 DEF PciInv, PciShape
<1>4. UNCHANGED <<pnative, pbound, preg, pheld, looped, strayed>>
  BY DEF PciUnregister
<1>5. QED
  BY <1>3, <1>4 DEF PciInv, PciShape, HeldOnce

(* The core probes devices that it has not bound.                          *)
LEMMA ProbeKeeps ==
  ASSUME PciInv, NEW dev \in Devices, NEW s \in DOMAIN pslot, PciNativeProbe(s, dev)
  PROVE  PciInv'
<1> DEFINE d == pslot[s].driver
<1>1. /\ s \in 1 .. PciSlots /\ s # 0 /\ d \in PciDrivers /\ PciMatches(d, dev)
      /\ pbound[dev] = 0
  BY PciAssumption DEF PciNativeProbe, PciInv, PciShape
<1>2. UNCHANGED <<pslot, pnative, preg, looped, strayed>>
  BY DEF PciNativeProbe
<1> HIDE DEF d
<1>3. CASE UNCHANGED <<pheld, pbound>>
  BY <1>2, <1>3 DEF PciInv, PciShape, HeldOnce
<1>4. CASE Taken(dev, d) /\ pbound' = [pbound EXCEPT ![dev] = s]
  <2>1. /\ pheld' \in [Devices -> [PciDrivers -> Nat]]
        /\ \A e \in Devices, c \in PciDrivers :
              pheld'[e][c] = IF e = dev /\ c = d THEN pheld[e][c] + 1 ELSE pheld[e][c]
    BY <1>1, <1>4 DEF Taken, PciInv, PciShape
  <2>2. /\ pbound' \in [Devices -> 0 .. PciSlots]
        /\ \A e \in Devices : pbound'[e] = IF e = dev THEN s ELSE pbound[e]
    BY <1>1, <1>4 DEF PciInv, PciShape
  <2>3. \A c \in PciDrivers : pheld[dev][c] \in Nat
    BY DEF PciInv, PciShape
  <2>4. HeldOnce'
    BY <1>1, <1>2, <2>1, <2>2, <2>3 DEF PciInv, HeldOnce
  <2>5. QED
    BY <1>2, <2>1, <2>2, <2>4 DEF PciInv, PciShape
<1>5. QED
  BY <1>3, <1>4 DEF PciNativeProbe, d

(* A removal reaches the driver that has the device when its slot is used  *)
(* and no other table names the device.                                    *)
LEMMA RemoveKeeps ==
  ASSUME PciInv, NEW dev \in Devices, PciNativeRemove(dev)
  PROVE  PciInv'
<1> DEFINE told == SlotTold(dev)
           c    == pslot[told].driver
           sure == /\ pslot[pbound[dev]].used
                   /\ \A d \in PciDrivers \ {pslot[pbound[dev]].driver} : ~PciMatches(d, dev)
<1>1. pbound[dev] \in 1 .. PciSlots
  BY PciAssumption DEF PciNativeRemove, PciInv, PciShape
<1>2. /\ told # 0 => /\ told \in 1 .. PciSlots
                     /\ c \in PciDrivers /\ PciMatches(c, dev)
      /\ told = 0 => \A s \in 1 .. PciSlots : ~(pslot[s].used /\ PciMatches(pslot[s].driver, dev))
  <2> DEFINE S == {s \in DOMAIN pslot : pslot[s].used /\ PciMatches(pslot[s].driver, dev)}
  <2>1. /\ FirstOf(S) # 0 <=> S # {}
        /\ FirstOf(S) # 0 => FirstOf(S) \in S /\ FirstOf(S) \in 1 .. PciSlots
    BY SlotFound DEF PciInv
  <2>2. told = FirstOf(S)
    BY DEF SlotTold
  <2>3. DOMAIN pslot = 1 .. PciSlots
    BY DEF PciInv, PciShape
  <2> HIDE DEF told
  <2>4. QED
    BY <2>1, <2>2, <2>3 DEF PciInv, PciShape
<1>3. sure /\ told = 0 => \A d \in PciDrivers : ~PciMatches(d, dev)
  BY <1>1, <1>2 DEF PciInv, PciShape
<1>4. sure /\ told # 0 => \A d \in PciDrivers : PciMatches(d, dev) => d = c
  BY <1>2
<1>5. /\ UNCHANGED <<pslot, pnative, preg, looped>>
      /\ pbound' = [pbound EXCEPT ![dev] = 0]
      /\ pheld' = IF told = 0 THEN pheld
                  ELSE [pheld EXCEPT ![dev][c] = IF @ = 0 THEN 0 ELSE @ - 1]
      /\ strayed' = IF sure THEN strayed ELSE strayed \cup {dev}
  BY DEF PciNativeRemove
<1> HIDE DEF told, c, sure
<1>6. /\ pbound' \in [Devices -> 0 .. PciSlots]
      /\ \A e \in Devices : e # dev => pbound'[e] = pbound[e]
  BY <1>5, PciAssumption DEF PciInv, PciShape
<1>7. /\ pheld' \in [Devices -> [PciDrivers -> Nat]]
      /\ \A e \in Devices, d \in PciDrivers :
            /\ pheld'[e][d] <= pheld[e][d]
            /\ e # dev => pheld'[e][d] = pheld[e][d]
      /\ told # 0 => \/ pheld'[dev][c] = 0
                      \/ pheld'[dev][c] = pheld[dev][c] - 1
  <2>1. CASE told = 0
    BY <1>5, <2>1 DEF PciInv, PciShape
  <2>2. CASE told # 0
    <3>1. pheld[dev][c] \in Nat
      BY <1>2, <2>2 DEF PciInv, PciShape
    <3>2. pheld' = [pheld EXCEPT ![dev][c] = IF pheld[dev][c] = 0 THEN 0 ELSE pheld[dev][c] - 1]
      BY <1>2, <1>5, <2>2 DEF PciInv, PciShape
    <3>3. QED
      BY <1>2, <2>2, <3>1, <3>2 DEF PciInv, PciShape
  <2>3. QED
    BY <2>1, <2>2
<1>8. PciShape'
  BY <1>5, <1>6, <1>7 DEF PciInv, PciShape
<1>9. ASSUME NEW e \in Devices \ strayed', NEW d \in PciDrivers,
             <<e, d>> \notin looped', pheld'[e][d] > 0
      PROVE  pheld'[e][d] = 1 /\ pbound'[e] # 0
  <2>1. e \in Devices \ strayed /\ <<e, d>> \notin looped /\ pheld[e][d] \in Nat
        /\ pheld'[e][d] \in Nat
    BY <1>5, <1>7, <1>9 DEF PciInv, PciShape
  <2>2. pheld[e][d] = 1 /\ PciMatches(d, e)
    BY <1>7, <1>9, <2>1 DEF PciInv, HeldOnce
  <2>3. e # dev
    <3> SUFFICES ASSUME e = dev PROVE FALSE
      OBVIOUS
    <3>1. sure
      BY <1>5, <1>9
    <3>2. told # 0 /\ d = c
      BY <1>3, <1>4, <2>2, <3>1
    <3>3. QED
      BY <1>7, <1>9, <2>1, <2>2, <3>2
  <2>4. QED
    BY <1>6, <1>7, <2>1, <2>2, <2>3 DEF PciInv, HeldOnce
<1>10. ASSUME NEW e \in Devices, NEW d \in PciDrivers, pheld'[e][d] > 0
       PROVE  PciMatches(d, e)
  <2>1. pheld[e][d] \in Nat /\ pheld'[e][d] \in Nat /\ pheld'[e][d] <= pheld[e][d]
    BY <1>7, <1>8 DEF PciInv, PciShape
  <2>2. QED
    BY <1>10, <2>1 DEF PciInv, HeldOnce
<1>11. HeldOnce'
  BY <1>9, <1>10 DEF HeldOnce, PciMatches, PciMatchOne, IdFits
<1>12. QED
  BY <1>8, <1>11 DEF PciInv

LEMMA PciNextInv == PciInv /\ [PciNext]_pciVars => PciInv'
<1> SUFFICES ASSUME PciInv, [PciNext]_pciVars PROVE PciInv'
  OBVIOUS
<1>1. CASE RegisterProbes
  BY <1>1, RegistrationProbes
<1>2. ASSUME NEW dev \in Devices, PciGetSlot(dev) PROVE PciInv'
  BY <1>2 DEF PciGetSlot, PciInv, PciShape, HeldOnce
<1>3. ASSUME NEW class, NEW i, PciGetClass(class, i) PROVE PciInv'
  BY <1>3 DEF PciGetClass, PciInv, PciShape, HeldOnce
<1>4. CASE UNCHANGED pciVars
  BY <1>4 DEF pciVars, PciInv, PciShape, HeldOnce
<1>5. QED
  BY <1>1, <1>2, <1>3, <1>4, RegisterKeeps, UnregisterKeeps, ProbeKeeps, RemoveKeeps
  DEF PciNext

(* lcompat_pci_native_probe and the loop of pci_register_driver: a driver  *)
(* is not handed a device again that it holds, with the exceptions that    *)
(* `looped` and `strayed` record.                                          *)
THEOREM HandedOnce == PciSpec => []ProbedOnce
<1>1. PciInv => ProbedOnce
  <2> SUFFICES ASSUME PciInv, NEW dev \in Devices, NEW d \in PciDrivers,
                      <<dev, d>> \notin looped, dev \notin strayed
               PROVE  pheld[dev][d] <= 1
    BY DEF ProbedOnce
  <2>1. pheld[dev][d] \in Nat
    BY DEF PciInv, PciShape
  <2>2. QED
    BY <2>1 DEF PciInv, HeldOnce
<1>2. QED
  BY <1>1, PciInitInv, PciNextInv, PTL DEF PciSpec

-----------------------------------------------------------------------------
(* UsbBinding.  The types of the tables.                                   *)
SomeWrappers == UNION {WrapperOf(i) : i \in UsbIntfs}

UsbShape ==
    /\ binding \in [1 .. MaxBindings -> UsbDrivers \cup {Null}]
    /\ wrapper \in [1 .. MaxWrappers -> SomeWrappers \cup {Null}]
    /\ bound \in [UsbIntfs -> 0 .. MaxBindings]
    /\ removal \in Removals \cup {Null}
    /\ cached \in [PipeUrbs -> UrbStates \cup {Null}]
    /\ pipeCall \in [UsbThreads -> PipeCalls \cup {Null}]
    /\ holder \in [UsbIntfs -> UsbDrivers \cup {Null}]

(* No interface has two wrappers.  A removal is at a wrapper of its device *)
(* and has left none behind.                                               *)
WrapInv ==
    /\ \A w, x \in UsedWrappers : wrapper[w].intf = wrapper[x].intf => w = x
    /\ removal # Null /\ removal.at # "next" =>
          removal.w \in UsedWrappers /\ DevOf[wrapper[removal.w].intf] = removal.dev
    /\ removal # Null => \A w \in WrappersOf(removal.dev) :
          IF removal.at = "next" THEN w > removal.w ELSE w >= removal.w

(* A wrapper goes when no call on its interface is left; a call has an URB *)
(* to itself, and what it knows of a wrapper stays true until it is over.  *)
Sound(t, c) ==
    /\ c.w # 0 => /\ c.w \in UsedWrappers /\ wrapper[c.w].intf = c.pipe.intf
                  /\ c.ep \in DOMAIN wrapper[c.w].native_pipes
    /\ removal # Null /\ removal.at = "free" => wrapper[removal.w].intf # c.pipe.intf
    /\ c.urb # Null =>
          /\ c.urb \notin untold
          /\ cached[c.urb] # Null =>
                cached[c.urb].intf = c.pipe.intf /\ c.at \notin {"open", "store"}
          /\ \A o \in UsbThreads : pipeCall[o] # Null /\ pipeCall[o].urb = c.urb => o = t
    /\ c.at \in {"look", "open"} => c.got = NoPipe
    /\ c.at = "look" => c.w = 0
    /\ c.own => c.at = "has"

CallsSound == \A t \in UsbThreads : pipeCall[t] # Null => Sound(t, pipeCall[t])

(* The one driver that can be told that interface i goes.                  *)
Sole(i) ==
    /\ holder[i] # Null /\ i \notin left
    /\ \A d \in UsbDrivers : Matches(d, i) => d = holder[i]

(* Such a driver is there until it is told.                                *)
Told(i) ==
    /\ bound[i] # 0 /\ Matches(holder[i], i)
    /\ \E s \in 1 .. MaxBindings : binding[s] = holder[i]
    /\ \E w \in UsedWrappers :
          /\ wrapper[w].intf = i
          /\ removal # Null /\ removal.at = "free" => w # removal.w
    /\ removal # Null /\ removal.at = "disconnect" /\ wrapper[removal.w].intf = i =>
          removal.told = holder[i]

BoundInv ==
    /\ \A w \in UsedWrappers : wrapper[w].intf \in refused \/ bound[wrapper[w].intf] # 0
    /\ \A i \in UsbIntfs : bound[i] # 0 =>
          DevOf[i] \in plugged \/ (removal # Null /\ removal.dev = DevOf[i])
    /\ \A i \in UsbIntfs : Sole(i) => Told(i)

BindingInv == UsbShape /\ WrapInv /\ CallsSound /\ BoundInv

(* A wrapper is a record with the fields of its interface.                 *)
LEMMA WrapperFields ==
  ASSUME NEW r \in SomeWrappers
  PROVE  /\ r # Null /\ r.intf \in UsbIntfs
         /\ r.endpoints = CollectEndpoints(Descs[r.intf])
         /\ DOMAIN r.native_pipes = DOMAIN r.endpoints
         /\ \A e \in DOMAIN r.endpoints : e \in Nat
         /\ \A e \in DOMAIN r.native_pipes : r.native_pipes[e] \in Nat
<1>1. PICK i \in UsbIntfs : r \in WrapperOf(i)
  BY DEF SomeWrappers
<1>2. /\ r.intf = i /\ r.endpoints = CollectEndpoints(Descs[i])
      /\ r.native_pipes \in [DOMAIN CollectEndpoints(Descs[i]) -> Nat]
  BY <1>1 DEF WrapperOf
<1>3. \A e \in DOMAIN CollectEndpoints(Descs[i]) : e \in Nat
  BY DEF CollectEndpoints
<1>4. r # Null
  BY <1>1, NullAssumption
<1> QED BY <1>2, <1>3, <1>4

(* The first of some table entries.                                        *)
LEMMA FirstFits ==
  ASSUME NEW n \in Nat, NEW T \in SUBSET (1 .. n)
  PROVE  /\ First(T) # 0 <=> T # {}
         /\ First(T) # 0 => First(T) \in T
  BY FirstIsThere DEF First, FirstOf

(* The least of some table entries.                                       *)
LEMMA MinFits ==
  ASSUME NEW n \in Nat, NEW T \in SUBSET (1 .. n), T # {}
  PROVE  Min(T) \in T /\ \A m \in T : Min(T) <= m
<1>1. T \in SUBSET Nat
  OBVIOUS
<1> QED BY <1>1, LeastExists DEF Min

(* A new wrapper.                                                          *)
LEMMA NewWrapperFits ==
  ASSUME NEW i \in UsbIntfs
  PROVE  /\ NewWrapper(i) \in SomeWrappers /\ NewWrapper(i).intf = i
         /\ \A e \in DOMAIN NewWrapper(i).native_pipes : NewWrapper(i).native_pipes[e] = NoPipe
<1>1. NewWrapper(i) \in WrapperOf(i)
  BY DEF NewWrapper, WrapperOf, NoPipe
<1> QED BY <1>1 DEF SomeWrappers, NewWrapper

(* A wrapper in which a pipe is stored.                                   *)
LEMMA StoredFits ==
  ASSUME NEW r \in SomeWrappers, NEW e \in DOMAIN r.native_pipes, NEW p \in Nat
  PROVE  LET s == [r EXCEPT !.native_pipes[e] = p] IN
         /\ s \in SomeWrappers /\ s.intf = r.intf /\ s.endpoints = r.endpoints
         /\ s.native_pipes = [r.native_pipes EXCEPT ![e] = p]
<1>1. PICK i \in UsbIntfs : r \in WrapperOf(i)
  BY DEF SomeWrappers
<1>2. [r EXCEPT !.native_pipes[e] = p] \in WrapperOf(i)
  BY <1>1 DEF WrapperOf
<1> QED BY <1>1, <1>2 DEF SomeWrappers, WrapperOf

(* Nothing is registered, plugged or wrapped at first.                    *)
LEMMA BindingInitially == BindingInit => BindingInv
  BY UsbBindingAssumption
  DEF BindingInit, BindingInv, UsbShape, WrapInv, CallsSound, BoundInv, UsedWrappers, WrappersOf,
      Sole

(* usb_register_driver                                                     *)
LEMMA RegisterStep ==
  ASSUME BindingInv, NEW d \in UsbDrivers, RegisterUsb(d)
  PROVE  BindingInv'
<1> DEFINE T == {s \in DOMAIN binding : binding[s] = Null}
<1>0. PICK slot \in 1 .. MaxBindings : /\ binding[slot] = Null
                                       /\ binding' = [binding EXCEPT ![slot] = d]
  <2>1. DOMAIN binding = 1 .. MaxBindings /\ MaxBindings \in Nat
    BY UsbBindingAssumption DEF BindingInv, UsbShape
  <2>2. First(T) \in T
    BY <2>1, FirstFits DEF RegisterUsb
  <2> QED BY <2>1, <2>2 DEF RegisterUsb
<1>1. UNCHANGED <<wrapper, plugged, bound, removal, cached, pipeCall, holder, refused, left,
                  untold>>
  BY DEF RegisterUsb
<1>2. UsbShape'
  BY <1>0, <1>1 DEF BindingInv, UsbShape, UsedWrappers
<1>3. WrapInv' /\ CallsSound'
  BY <1>1 DEF BindingInv, WrapInv, CallsSound, Sound, UsedWrappers, WrappersOf
<1>4. \A i \in UsbIntfs : Sole(i)' => Told(i)'
  BY <1>0, <1>1 DEF BindingInv, UsbShape, BoundInv, Sole, Told, UsedWrappers
<1>5. BoundInv'
  BY <1>1, <1>4 DEF BindingInv, BoundInv, UsedWrappers
<1> QED BY <1>2, <1>3, <1>5 DEF BindingInv

(* usb_deregister: nobody is told of it.                                  *)
LEMMA DeregisterStep ==
  ASSUME BindingInv, NEW s \in DOMAIN binding, DeregisterUsb(s)
  PROVE  BindingInv'
<1>1. UNCHANGED <<wrapper, plugged, bound, removal, cached, pipeCall, holder, refused>>
      /\ removal = Null /\ binding' = [binding EXCEPT ![s] = Null] /\ binding[s] # Null
  BY DEF DeregisterUsb
<1>2. /\ \A i \in UsbIntfs : i \in left' <=> i \in left \/ holder[i] = binding[s]
      /\ \A u \in PipeUrbs : u \in untold' =>
            u \in untold \/ (cached[u] # Null /\ holder[cached[u].intf] = binding[s]
                               /\ cached[u].intf \in UsbIntfs)
      /\ \A t \in UsbThreads : pipeCall[t] # Null => holder[pipeCall[t].pipe.intf] # binding[s]
  <2>1. \A t \in UsbThreads : pipeCall[t] # Null => pipeCall[t].pipe.intf \in UsbIntfs
    BY UsbBindingAssumption DEF BindingInv, UsbShape, PipeCalls
  <2> QED BY <2>1 DEF DeregisterUsb, UrbsOf
<1>3. UsbShape'
  BY <1>1 DEF BindingInv, UsbShape, UsedWrappers
<1>4. WrapInv'
  BY <1>1 DEF BindingInv, WrapInv, UsedWrappers, WrappersOf
<1>5. CallsSound'
  <2> SUFFICES ASSUME NEW t \in UsbThreads, pipeCall[t] # Null PROVE Sound(t, pipeCall[t])'
    BY <1>1 DEF CallsSound
  <2>1. Sound(t, pipeCall[t]) /\ pipeCall[t].urb \in PipeUrbs \cup {Null}
    BY DEF BindingInv, CallsSound, UsbShape, PipeCalls
  <2>2. pipeCall[t].urb # Null => pipeCall[t].urb \notin untold'
    BY <1>2, <2>1 DEF Sound
  <2> QED BY <1>1, <2>1, <2>2 DEF Sound, UsedWrappers
<1>6. \A i \in UsbIntfs : Sole(i)' => Told(i)'
  <2> SUFFICES ASSUME NEW i \in UsbIntfs, Sole(i)' PROVE Told(i)'
    OBVIOUS
  <2>1. Sole(i) /\ holder[i] # binding[s]
    BY <1>1, <1>2 DEF Sole
  <2>2. Told(i)
    BY <2>1 DEF BindingInv, BoundInv
  <2>3. \E r \in 1 .. MaxBindings : binding'[r] = holder[i]
    BY <1>1, <2>1, <2>2 DEF Told, BindingInv, UsbShape
  <2> QED BY <1>1, <2>2, <2>3 DEF Told, UsedWrappers
<1>7. BoundInv'
  BY <1>1, <1>6 DEF BindingInv, BoundInv, UsedWrappers
<1> QED BY <1>3, <1>4, <1>5, <1>7 DEF BindingInv

(* A device appears or goes.                                              *)
LEMMA PlugStep ==
  ASSUME BindingInv, NEW dev \in UsbDevices, Plug(dev) \/ Unplug(dev)
  PROVE  BindingInv'
<1>1. /\ UNCHANGED <<wrapper, binding, bound, cached, pipeCall, holder, refused, left, untold>>
      /\ removal = Null
      /\ \/ removal' = Null /\ \A i \in UsbIntfs : bound[i] # 0 =>
                                  (DevOf[i] \in plugged => DevOf[i] \in plugged')
         \/ /\ removal' = [at |-> "next", dev |-> dev, w |-> 0, told |-> Null]
            /\ plugged' = plugged \ {dev}
  BY DEF Plug, Unplug
<1>2. removal' \in Removals \cup {Null}
  BY <1>1, UsbBindingAssumption DEF Removals
<1>3. removal' # Null => removal'.at = "next" /\ removal'.dev = dev /\ removal'.w = 0
  BY <1>1
<1>4. UsbShape'
  BY <1>1, <1>2 DEF BindingInv, UsbShape, UsedWrappers
<1>5. WrapInv'
  <2>1. \A w \in UsedWrappers : w \in Nat \ {0}
    BY UsbBindingAssumption DEF UsedWrappers, BindingInv, UsbShape
  <2> QED BY <1>1, <1>3, <2>1 DEF BindingInv, WrapInv, UsedWrappers, WrappersOf
<1>6. CallsSound'
  BY <1>1, <1>3 DEF BindingInv, CallsSound, Sound, UsedWrappers
<1>7. \A i \in UsbIntfs : Sole(i)' => Told(i)'
  BY <1>1, <1>3 DEF BindingInv, BoundInv, Sole, Told, UsedWrappers
<1>8. BoundInv'
  <2>1. ASSUME NEW i \in UsbIntfs, bound[i] # 0
        PROVE  DevOf[i] \in plugged' \/ (removal' # Null /\ removal'.dev = DevOf[i])
    <3>1. DevOf[i] \in plugged
      BY <1>1, <2>1 DEF BindingInv, BoundInv
    <3>2. removal' # Null \/ removal' = Null
      OBVIOUS
    <3>3. CASE removal' = [at |-> "next", dev |-> dev, w |-> 0, told |-> Null]
      <4>1. removal' \in Removals
        BY <3>3, UsbBindingAssumption DEF Removals
      <4> QED BY <1>1, <3>1, <3>3, <4>1, NullAssumption
    <3> QED BY <1>1, <2>1, <3>1, <3>3
  <2> QED BY <1>1, <1>7, <2>1 DEF BindingInv, BoundInv, UsedWrappers
<1> QED BY <1>4, <1>5, <1>6, <1>8 DEF BindingInv

(* lcompat_usb_wrap uses the wrapper the interface has, or a free one.     *)
LEMMA WrapFinds ==
  ASSUME UsbShape, NEW i \in UsbIntfs, Wrap(i)
  PROVE  \/ UNCHANGED wrapper /\ \E w \in UsedWrappers : wrapper[w].intf = i
         \/ /\ \A w \in UsedWrappers : wrapper[w].intf # i
            /\ \E w \in 1 .. MaxWrappers : /\ w \notin UsedWrappers
                                           /\ wrapper' = [wrapper EXCEPT ![w] = NewWrapper(i)]
<1> DEFINE own == {w \in UsedWrappers : wrapper[w].intf = i}
<1>0. /\ DOMAIN wrapper = 1 .. MaxWrappers /\ MaxWrappers \in Nat
      /\ own \in SUBSET (1 .. MaxWrappers)
  BY UsbBindingAssumption DEF UsbShape, UsedWrappers
<1>1. CASE own # {}
  <2>1. Min(own) \in own
    BY <1>0, <1>1, MinFits
  <2>2. SlotFor(i) = Min(own)
    BY <1>1 DEF SlotFor
  <2> QED BY <2>1, <2>2 DEF Wrap, UsedWrappers
<1>2. CASE own = {}
  <2> DEFINE free == DOMAIN wrapper \ UsedWrappers
  <2>1. free \in SUBSET (1 .. MaxWrappers)
    BY <1>0
  <2>2. SlotFor(i) = First(free)
    BY <1>2 DEF SlotFor
  <2>3. First(free) \in free
    BY <1>0, <2>1, <2>2, FirstFits DEF Wrap
  <2>4. wrapper[First(free)] = Null
    BY <2>3 DEF UsedWrappers
  <2> QED BY <1>0, <1>2, <2>2, <2>3, <2>4 DEF Wrap
<1> QED BY <1>1, <1>2

(* What the wrappers are after it.                                         *)
LEMMA WrapKeeps ==
  ASSUME UsbShape, NEW i \in UsbIntfs, Wrap(i)
  PROVE  /\ wrapper' \in [1 .. MaxWrappers -> SomeWrappers \cup {Null}]
         /\ \A w \in UsedWrappers : w \in UsedWrappers' /\ wrapper'[w] = wrapper[w]
         /\ \A w \in UsedWrappers' : w \in UsedWrappers
               \/ (wrapper'[w] = NewWrapper(i)
                  /\ \A x \in UsedWrappers' : wrapper'[x].intf = i => x = w)
         /\ \E w \in UsedWrappers' : wrapper'[w].intf = i
<1>0. NewWrapper(i) \in SomeWrappers /\ NewWrapper(i).intf = i /\ NewWrapper(i) # Null
  BY NewWrapperFits, WrapperFields
<1>1. CASE UNCHANGED wrapper /\ \E w \in UsedWrappers : wrapper[w].intf = i
  <2>1. UsedWrappers' = UsedWrappers
    BY <1>1 DEF UsedWrappers
  <2>2. wrapper' \in [1 .. MaxWrappers -> SomeWrappers \cup {Null}]
    BY <1>1 DEF UsbShape
  <2> QED BY <1>1, <2>1, <2>2
<1>2. ASSUME \A w \in UsedWrappers : wrapper[w].intf # i,
             NEW w \in 1 .. MaxWrappers, w \notin UsedWrappers,
             wrapper' = [wrapper EXCEPT ![w] = NewWrapper(i)]
      PROVE  /\ wrapper' \in [1 .. MaxWrappers -> SomeWrappers \cup {Null}]
             /\ \A x \in UsedWrappers : x \in UsedWrappers' /\ wrapper'[x] = wrapper[x]
             /\ \A x \in UsedWrappers' : x \in UsedWrappers
                   \/ (wrapper'[x] = NewWrapper(i)
                       /\ \A y \in UsedWrappers' : wrapper'[y].intf = i => y = x)
             /\ \E x \in UsedWrappers' : wrapper'[x].intf = i
  <2>1. wrapper' \in [1 .. MaxWrappers -> SomeWrappers \cup {Null}]
    BY <1>0, <1>2 DEF UsbShape
  <2>2. UsedWrappers' = UsedWrappers \cup {w} /\ wrapper'[w] = NewWrapper(i)
    BY <1>0, <1>2, <2>1 DEF UsbShape, UsedWrappers
  <2>3. \A x \in UsedWrappers : x # w /\ wrapper'[x] = wrapper[x]
    BY <1>2 DEF UsbShape, UsedWrappers
  <2>4. \A x \in UsedWrappers' : wrapper'[x].intf = i => x = w
    BY <1>2, <2>2, <2>3
  <2>5. \A x \in UsedWrappers : x \in UsedWrappers' /\ wrapper'[x] = wrapper[x]
    BY <2>2, <2>3
  <2>6. \A x \in UsedWrappers' : x \in UsedWrappers
           \/ (wrapper'[x] = NewWrapper(i)
               /\ \A y \in UsedWrappers' : wrapper'[y].intf = i => y = x)
    BY <2>2, <2>4
  <2>7. \E x \in UsedWrappers' : wrapper'[x].intf = i
    BY <1>0, <2>2
  <2> QED BY <2>1, <2>5, <2>6, <2>7
<1> QED BY <1>1, <1>2, WrapFinds

(* lcompat_usb_native_probe                                                *)
LEMMA ProbeStep ==
  ASSUME BindingInv, NEW s \in DOMAIN binding, NEW i \in UsbIntfs, NativeProbe(s, i)
  PROVE  BindingInv'
<1>0. UsbShape /\ DOMAIN binding = 1 .. MaxBindings
  BY DEF BindingInv, UsbShape
<1>1. /\ UNCHANGED <<binding, plugged, removal, cached, pipeCall, untold>>
      /\ removal = Null /\ Wrap(i) /\ DevOf[i] \in plugged /\ bound[i] = 0
      /\ binding[s] # Null /\ Matches(binding[s], i)
  BY DEF NativeProbe
<1>2. \/ /\ bound' = [bound EXCEPT ![i] = s] /\ holder' = [holder EXCEPT ![i] = binding[s]]
         /\ left' = left \ {i} /\ refused' = refused \ {i}
      \/ refused' = refused \cup {i} /\ UNCHANGED <<bound, holder, left>>
  BY DEF NativeProbe
<1>3. /\ wrapper' \in [1 .. MaxWrappers -> SomeWrappers \cup {Null}]
      /\ \A w \in UsedWrappers : w \in UsedWrappers' /\ wrapper'[w] = wrapper[w]
      /\ \A w \in UsedWrappers' : w \in UsedWrappers
            \/ (wrapper'[w] = NewWrapper(i)
                  /\ \A x \in UsedWrappers' : wrapper'[x].intf = i => x = w)
      /\ \E w \in UsedWrappers' : wrapper'[w].intf = i
  BY <1>0, <1>1, WrapKeeps
<1>4. NewWrapper(i).intf = i
  BY NewWrapperFits
<1>5. UsbShape'
  <2>1. binding[s] \in UsbDrivers /\ s \in 0 .. MaxBindings
    <3>1. binding[s] \in UsbDrivers \cup {Null}
      BY <1>0 DEF UsbShape
    <3>2. s \in 0 .. MaxBindings
      BY <1>0, UsbBindingAssumption
    <3> QED BY <1>1, <3>1, <3>2
  <2>2. bound' \in [UsbIntfs -> 0 .. MaxBindings]
    <3>1. CASE bound' = [bound EXCEPT ![i] = s]
      BY <1>0, <2>1, <3>1 DEF UsbShape
    <3>2. CASE bound' = bound
      BY <1>0, <3>2 DEF UsbShape
    <3> QED BY <1>2, <3>1, <3>2
  <2>3. holder' \in [UsbIntfs -> UsbDrivers \cup {Null}]
    <3>1. CASE holder' = [holder EXCEPT ![i] = binding[s]]
      BY <1>0, <2>1, <3>1 DEF UsbShape
    <3>2. CASE holder' = holder
      BY <1>0, <3>2 DEF UsbShape
    <3> QED BY <1>2, <3>1, <3>2
  <2> QED BY <1>0, <1>1, <1>3, <2>2, <2>3 DEF UsbShape
<1>6. WrapInv'
  BY <1>1, <1>3, <1>4 DEF BindingInv, WrapInv
<1>7. CallsSound'
  <2> SUFFICES ASSUME NEW t \in UsbThreads, pipeCall[t] # Null PROVE Sound(t, pipeCall[t])'
    BY <1>1 DEF CallsSound
  <2>1. Sound(t, pipeCall[t])
    BY DEF BindingInv, CallsSound
  <2> QED BY <1>1, <1>3, <2>1 DEF Sound
<1>8. ASSUME NEW j \in UsbIntfs, Sole(j)' PROVE Told(j)'
  <2>1. CASE j = i /\ holder'[i] = binding[s] /\ bound'[i] = s
    BY <1>0, <1>1, <1>3, <2>1, UsbBindingAssumption DEF Told
  <2>2. CASE ~(j = i /\ holder'[i] = binding[s] /\ bound'[i] = s)
    <3>1. Sole(j) /\ holder'[j] = holder[j] /\ bound'[j] = bound[j]
      BY <1>0, <1>2, <1>8, <2>2 DEF Sole, UsbShape
    <3>2. Told(j)
      BY <3>1 DEF BindingInv, BoundInv
    <3> QED BY <1>1, <1>3, <3>1, <3>2 DEF Told
  <2> QED BY <2>1, <2>2
<1>9. \A w \in UsedWrappers' : wrapper'[w].intf \in refused' \/ bound'[wrapper'[w].intf] # 0
  <2> SUFFICES ASSUME NEW w \in UsedWrappers'
               PROVE  wrapper'[w].intf \in refused' \/ bound'[wrapper'[w].intf] # 0
    OBVIOUS
  <2>1. s # 0
    BY <1>0, UsbBindingAssumption
  <2>2. CASE wrapper'[w].intf = i
    BY <1>0, <1>2, <2>1, <2>2 DEF UsbShape
  <2>3. CASE wrapper'[w].intf # i
    <3>1. w \in UsedWrappers /\ wrapper'[w] = wrapper[w]
      BY <1>3, <1>4, <2>3
    <3>2. wrapper[w].intf \in UsbIntfs
      BY <1>0, <3>1, WrapperFields DEF UsbShape, UsedWrappers
    <3> QED BY <1>0, <1>2, <2>3, <3>1, <3>2 DEF BindingInv, BoundInv, UsbShape
  <2> QED BY <2>2, <2>3
<1>10. \A j \in UsbIntfs : bound'[j] # 0 => DevOf[j] \in plugged'
  BY <1>0, <1>1, <1>2 DEF BindingInv, BoundInv, UsbShape
<1> QED BY <1>5, <1>6, <1>7, <1>8, <1>9, <1>10 DEF BindingInv, BoundInv

(* lcompat_usb_native_remove: the next wrapper, or the end.                *)
LEMMA RemoveNextStep ==
  ASSUME BindingInv, RemoveNext
  PROVE  BindingInv'
<1> DEFINE rest == {w \in WrappersOf(removal.dev) : w > removal.w}
           i == wrapper[Min(rest)].intf
           slot == First({s \in DOMAIN binding : binding[s] # Null /\ Matches(binding[s], i)})
<1>0. /\ UsbShape /\ DOMAIN binding = 1 .. MaxBindings /\ MaxBindings \in Nat
      /\ UsedWrappers \in SUBSET (1 .. MaxWrappers) /\ MaxWrappers \in Nat
  BY UsbBindingAssumption DEF BindingInv, UsbShape, UsedWrappers
<1>1. /\ removal # Null /\ removal.at = "next" /\ removal \in Removals
      /\ UNCHANGED <<binding, wrapper, plugged, cached, pipeCall, holder, refused, left, untold>>
  BY <1>0 DEF RemoveNext, UsbShape
<1>2. rest = WrappersOf(removal.dev) /\ rest \in SUBSET (1 .. MaxWrappers)
  BY <1>0, <1>1 DEF BindingInv, WrapInv, WrappersOf
<1>3. CASE rest = {}
  <2>1. /\ removal' = Null
        /\ bound' = [j \in UsbIntfs |-> IF DevOf[j] = removal.dev THEN 0 ELSE bound[j]]
    BY <1>3 DEF RemoveNext
  <2>2. \A w \in UsedWrappers : DevOf[wrapper[w].intf] # removal.dev /\ wrapper[w].intf \in UsbIntfs
    BY <1>0, <1>2, <1>3, WrapperFields DEF WrappersOf, UsbShape, UsedWrappers
  <2>3. UsbShape'
    BY <1>0, <1>1, <2>1, UsbBindingAssumption DEF UsbShape
  <2>4. WrapInv' /\ CallsSound'
    BY <1>1, <2>1 DEF BindingInv, WrapInv, CallsSound, Sound, UsedWrappers
  <2>5. ASSUME NEW j \in UsbIntfs, Sole(j)' PROVE Told(j)'
    <3>1. Sole(j)
      BY <1>1, <2>5 DEF Sole
    <3>2. Told(j)
      BY <3>1 DEF BindingInv, BoundInv
    <3>3. DevOf[j] # removal.dev
      BY <2>2, <3>2 DEF Told
    <3> QED BY <1>1, <2>1, <3>2, <3>3 DEF Told, UsedWrappers
  <2>6. BoundInv'
    BY <1>1, <2>1, <2>2, <2>5 DEF BindingInv, BoundInv, UsedWrappers
  <2> QED BY <2>3, <2>4, <2>6 DEF BindingInv
<1>4. CASE rest # {}
  <2>0. PICK w, told : w = Min(rest) /\ told = IF slot = 0 THEN Null ELSE binding[slot]
    OBVIOUS
  <2>1. w \in rest /\ \A m \in rest : w <= m
    BY <1>0, <1>2, <1>4, <2>0, MinFits
  <2>2. removal' = [removal EXCEPT !.at = "disconnect", !.w = w, !.told = told] /\ bound' = bound
    BY <1>4, <2>0 DEF RemoveNext
  <2>3. slot # 0 => slot \in 1 .. MaxBindings /\ binding[slot] # Null /\ Matches(binding[slot], i)
    <3> DEFINE T == {s \in DOMAIN binding : binding[s] # Null /\ Matches(binding[s], i)}
    <3>1. T \in SUBSET (1 .. MaxBindings)
      BY <1>0
    <3>2. First(T) # 0 => First(T) \in T
      BY <1>0, <3>1, FirstFits
    <3> QED BY <1>0, <3>2
  <2>4. told \in UsbDrivers \cup {Null} /\ w \in 0 .. MaxWrappers
    BY <1>0, <1>2, <2>0, <2>1, <2>3 DEF UsbShape
  <2>5. /\ removal' \in Removals /\ removal' # Null /\ removal'.at = "disconnect"
        /\ removal'.dev = removal.dev /\ removal'.w = w /\ removal'.told = told
    BY <1>1, <2>2, <2>4, NullAssumption DEF Removals
  <2>6. UsbShape'
    BY <1>0, <1>1, <2>2, <2>5 DEF UsbShape
  <2>7. WrapInv'
    BY <1>0, <1>1, <1>2, <2>1, <2>5 DEF BindingInv, WrapInv, WrappersOf, UsedWrappers
  <2>8. CallsSound'
    BY <1>1, <2>5 DEF BindingInv, CallsSound, Sound, UsedWrappers
  <2>9. ASSUME NEW j \in UsbIntfs, Sole(j)' PROVE Told(j)'
    <3>1. Sole(j)
      BY <1>1, <2>9 DEF Sole
    <3>2. Told(j)
      BY <3>1 DEF BindingInv, BoundInv
    <3>3. ASSUME wrapper[w].intf = j PROVE told = holder[j]
      <4>1. PICK s \in 1 .. MaxBindings : binding[s] = holder[j] /\ Matches(binding[s], i) /\ i = j
        BY <2>0, <3>2, <3>3 DEF Told
      <4>2. binding[s] # Null
        BY <3>1, <4>1 DEF Sole
      <4>3. slot # 0
        BY <1>0, <4>1, <4>2, FirstFits
      <4>4. binding[slot] \in UsbDrivers /\ Matches(binding[slot], j)
        BY <1>0, <2>3, <4>1, <4>3 DEF UsbShape
      <4> QED BY <2>0, <3>1, <4>3, <4>4 DEF Sole
    <3> QED BY <1>1, <2>2, <2>5, <3>2, <3>3 DEF Told, UsedWrappers
  <2>10. BoundInv'
    BY <1>1, <2>2, <2>5, <2>9 DEF BindingInv, BoundInv, UsedWrappers
  <2> QED BY <2>6, <2>7, <2>8, <2>10 DEF BindingInv
<1> QED BY <1>3, <1>4

(* The driver is told and frees its URBs, or is not told.                  *)
LEMMA DisconnectStep ==
  ASSUME BindingInv, Disconnect
  PROVE  BindingInv'
<1>0. UsbShape /\ removal # Null /\ removal.at = "disconnect" /\ removal \in Removals
  BY DEF BindingInv, UsbShape, Disconnect
<1>1. PICK i : i = wrapper[removal.w].intf
  OBVIOUS
<1>2. /\ removal' = [removal EXCEPT !.at = "free"]
      /\ UNCHANGED <<binding, wrapper, plugged, bound, pipeCall, refused, left>>
      /\ \A t \in UsbThreads : pipeCall[t] # Null => pipeCall[t].pipe.intf # i
      /\ \/ /\ removal.told # Null /\ removal.told = holder[i]
            /\ cached' = [u \in PipeUrbs |-> IF u \in UrbsOf(i) THEN Null ELSE cached[u]]
            /\ holder' = [holder EXCEPT ![i] = Null] /\ untold' = untold
         \/ /\ ~(removal.told # Null /\ removal.told = holder[i])
            /\ untold' = untold \cup UrbsOf(i) /\ UNCHANGED <<cached, holder>>
  BY <1>1 DEF Disconnect
<1>3. /\ removal' # Null /\ removal'.at = "free" /\ removal'.dev = removal.dev
      /\ removal'.w = removal.w /\ removal' \in Removals
  BY <1>0, <1>2, NullAssumption DEF Removals
<1>4. removal.w \in UsedWrappers /\ i \in UsbIntfs
  BY <1>0, <1>1, WrapperFields DEF BindingInv, WrapInv, UsbShape, UsedWrappers
<1>5. /\ UsedWrappers' = UsedWrappers
      /\ \A u \in PipeUrbs : cached'[u] # Null => cached'[u] = cached[u]
      /\ \A u \in PipeUrbs : u \in untold' \ untold => cached[u] # Null /\ cached[u].intf = i
  BY <1>2 DEF UsedWrappers, UrbsOf
<1>6. UsbShape'
  <2>1. cached' \in [PipeUrbs -> UrbStates \cup {Null}]
    BY <1>0, <1>2 DEF UsbShape
  <2>2. holder' \in [UsbIntfs -> UsbDrivers \cup {Null}]
    BY <1>0, <1>2 DEF UsbShape
  <2> QED BY <1>0, <1>2, <1>3, <2>1, <2>2 DEF UsbShape
<1>7. WrapInv'
  BY <1>0, <1>2, <1>3, <1>5 DEF BindingInv, WrapInv, WrappersOf
<1>8. CallsSound'
  <2> SUFFICES ASSUME NEW t \in UsbThreads, pipeCall[t] # Null PROVE Sound(t, pipeCall[t])'
    BY <1>2 DEF CallsSound
  <2>1. Sound(t, pipeCall[t]) /\ pipeCall[t].urb \in PipeUrbs \cup {Null}
    BY <1>0 DEF BindingInv, CallsSound, UsbShape, PipeCalls
  <2>2. pipeCall[t].pipe.intf # i
    BY <1>2
  <2>3. wrapper'[removal'.w].intf = i
    BY <1>1, <1>2, <1>3
  <2>4. pipeCall[t].urb # Null => pipeCall[t].urb \notin untold'
    BY <1>5, <2>1, <2>2 DEF Sound
  <2> QED BY <1>2, <1>5, <2>1, <2>2, <2>3, <2>4 DEF Sound
<1>9. ASSUME NEW j \in UsbIntfs, Sole(j)' PROVE Told(j)'
  <2>1. Sole(j) /\ holder'[j] = holder[j]
    BY <1>0, <1>2, <1>4, <1>9 DEF Sole, UsbShape
  <2>2. Told(j)
    BY <2>1 DEF BindingInv, BoundInv
  <2>3. j # i
    BY <1>0, <1>1, <1>2, <1>4, <1>9, <2>1, <2>2 DEF Sole, Told, UsbShape
  <2>4. \A w \in UsedWrappers : wrapper[w].intf = j => w # removal.w
    BY <1>1, <2>3
  <2> QED BY <1>2, <1>3, <1>5, <2>1, <2>2, <2>4 DEF Told
<1>10. BoundInv'
  BY <1>0, <1>2, <1>3, <1>5, <1>9 DEF BindingInv, BoundInv
<1> QED BY <1>6, <1>7, <1>8, <1>10 DEF BindingInv

(* The slot is given up.                                                   *)
LEMMA FreeWrapperStep ==
  ASSUME BindingInv, FreeWrapper
  PROVE  BindingInv'
<1>0. UsbShape /\ removal # Null /\ removal.at = "free" /\ removal \in Removals
  BY DEF BindingInv, UsbShape, FreeWrapper
<1>1. PICK i : i = wrapper[removal.w].intf
  OBVIOUS
<1>2. /\ removal' = [removal EXCEPT !.at = "next"]
      /\ wrapper' = [wrapper EXCEPT ![removal.w] = Null] /\ refused' = refused \ {i}
      /\ UNCHANGED <<binding, plugged, bound, cached, pipeCall, holder, left, untold>>
  BY <1>1 DEF FreeWrapper
<1>3. /\ removal' # Null /\ removal'.at = "next" /\ removal'.dev = removal.dev
      /\ removal'.w = removal.w /\ removal' \in Removals
  BY <1>0, <1>2, NullAssumption DEF Removals
<1>4. removal.w \in UsedWrappers /\ removal.w \in 1 .. MaxWrappers
  BY <1>0 DEF BindingInv, WrapInv, UsedWrappers, UsbShape
<1>5. /\ UsedWrappers' = UsedWrappers \ {removal.w}
      /\ \A w \in UsedWrappers' : w \in UsedWrappers /\ wrapper'[w] = wrapper[w]
                                  /\ w # removal.w /\ w \in Nat /\ wrapper[w].intf # i
  <2>1. UsedWrappers' = UsedWrappers \ {removal.w}
    BY <1>0, <1>2, <1>4 DEF UsedWrappers, UsbShape
  <2>2. \A w \in UsedWrappers \ {removal.w} : wrapper'[w] = wrapper[w] /\ w \in Nat
    BY <1>0, <1>2, UsbBindingAssumption DEF UsedWrappers, UsbShape
  <2>3. \A w \in UsedWrappers \ {removal.w} : wrapper[w].intf # i
    BY <1>1, <1>4 DEF BindingInv, WrapInv
  <2> QED BY <2>1, <2>2, <2>3
<1>6. UsbShape'
  <2>1. wrapper' \in [1 .. MaxWrappers -> SomeWrappers \cup {Null}]
    BY <1>0, <1>2 DEF UsbShape
  <2> QED BY <1>0, <1>2, <1>3, <2>1 DEF UsbShape
<1>7. WrapInv'
  <2>1. \A w \in UsedWrappers : DevOf[wrapper[w].intf] = removal.dev => w >= removal.w
    BY <1>0 DEF BindingInv, WrapInv, WrappersOf
  <2>2. \A w \in WrappersOf(removal.dev)' : w > removal.w
    BY <1>4, <1>3, <1>5, <2>1 DEF WrappersOf
  <2> QED BY <1>3, <1>5, <2>2 DEF BindingInv, WrapInv
<1>8. CallsSound'
  <2> SUFFICES ASSUME NEW t \in UsbThreads, pipeCall[t] # Null PROVE Sound(t, pipeCall[t])'
    BY <1>2 DEF CallsSound
  <2>1. Sound(t, pipeCall[t])
    BY DEF BindingInv, CallsSound
  <2>2. pipeCall[t].pipe.intf # i
    BY <1>0, <1>1, <2>1 DEF Sound
  <2>3. pipeCall[t].w # 0 =>
           pipeCall[t].w \in UsedWrappers' /\ wrapper'[pipeCall[t].w] = wrapper[pipeCall[t].w]
    BY <1>1, <1>5, <2>1, <2>2 DEF Sound
  <2> QED BY <1>2, <1>3, <2>1, <2>3 DEF Sound
<1>9. ASSUME NEW j \in UsbIntfs, Sole(j)' PROVE Told(j)'
  <2>1. Sole(j)
    BY <1>2, <1>9 DEF Sole
  <2>2. Told(j)
    BY <2>1 DEF BindingInv, BoundInv
  <2> QED BY <1>0, <1>2, <1>3, <1>5, <2>2 DEF Told
<1>10. BoundInv'
  <2>1. \A w \in UsedWrappers' : wrapper'[w].intf \in refused' \/ bound'[wrapper'[w].intf] # 0
    BY <1>2, <1>5 DEF BindingInv, BoundInv
  <2> QED BY <1>2, <1>3, <1>9, <2>1 DEF BindingInv, BoundInv
<1> QED BY <1>6, <1>7, <1>8, <1>10 DEF BindingInv

(* usb_free_urb                                                            *)
LEMMA FreeUrbStep ==
  ASSUME BindingInv, NEW u \in PipeUrbs, FreePipeUrb(u)
  PROVE  BindingInv'
<1>1. /\ UNCHANGED <<binding, wrapper, plugged, bound, removal, pipeCall, holder, refused,
                     left, untold>>
      /\ cached' = [cached EXCEPT ![u] = Null]
  BY DEF FreePipeUrb
<1>2. UsbShape'
  BY <1>1 DEF BindingInv, UsbShape
<1>3. WrapInv' /\ UsedWrappers' = UsedWrappers
  BY <1>1 DEF BindingInv, WrapInv, UsedWrappers, WrappersOf
<1>4. \A v : v \in PipeUrbs /\ cached'[v] # Null => cached'[v] = cached[v]
  BY <1>1 DEF BindingInv, UsbShape
<1>5. CallsSound'
  <2> SUFFICES ASSUME NEW t \in UsbThreads, pipeCall[t] # Null PROVE Sound(t, pipeCall[t])'
    BY <1>1 DEF CallsSound
  <2>1. Sound(t, pipeCall[t]) /\ pipeCall[t].urb \in PipeUrbs \cup {Null}
    BY DEF BindingInv, CallsSound, UsbShape, PipeCalls
  <2> QED BY <1>1, <1>3, <1>4, <2>1 DEF Sound
<1>6. \A i \in UsbIntfs : Sole(i)' => Told(i)'
  BY <1>1, <1>3 DEF BindingInv, BoundInv, Sole, Told
<1>7. BoundInv'
  BY <1>1, <1>3, <1>6 DEF BindingInv, BoundInv
<1> QED BY <1>2, <1>3, <1>5, <1>7 DEF BindingInv

(* A step of a call changes what the wrappers and URBs are at most in the  *)
(* pipes they keep, and an URB only when the call is about it.             *)
CallMove(t, r) ==
    /\ pipeCall' = [pipeCall EXCEPT ![t] = r]
    /\ UNCHANGED <<binding, plugged, bound, removal, holder, refused, left, untold>>
    /\ wrapper' \in [1 .. MaxWrappers -> SomeWrappers \cup {Null}]
    /\ UsedWrappers' = UsedWrappers
    /\ \A w \in UsedWrappers : /\ wrapper'[w].intf = wrapper[w].intf
                               /\ DOMAIN wrapper'[w].native_pipes = DOMAIN wrapper[w].native_pipes
    /\ cached' \in [PipeUrbs -> UrbStates \cup {Null}]
    /\ \A u \in PipeUrbs : cached'[u] # cached[u] =>
          pipeCall[t] # Null /\ pipeCall[t].urb = u

(* Such a step keeps the tables sound when its own call stays sound.      *)
LEMMA CallMoveKeeps ==
  ASSUME BindingInv, NEW t \in UsbThreads, NEW r \in PipeCalls \cup {Null}, CallMove(t, r),
         r # Null => Sound(t, r)'
  PROVE  BindingInv'
<1>0. UsbShape
  BY DEF BindingInv
<1>1. UsbShape'
  BY <1>0 DEF UsbShape, CallMove
<1>2. WrapInv'
  BY DEF BindingInv, WrapInv, WrappersOf, CallMove
<1>3. CallsSound'
  <2> SUFFICES ASSUME NEW o \in UsbThreads, pipeCall'[o] # Null PROVE Sound(o, pipeCall[o])'
    BY DEF CallsSound
  <2>1. pipeCall' = [pipeCall EXCEPT ![t] = r] /\ DOMAIN pipeCall = UsbThreads
    BY <1>0 DEF CallMove, UsbShape
  <2>2. CASE o = t
    <3>1. pipeCall'[o] = r
      BY <2>1, <2>2
    <3> QED BY <2>2, <3>1 DEF Sound
  <2>3. CASE o # t
    <3>1. pipeCall'[o] = pipeCall[o] /\ Sound(o, pipeCall[o])
          /\ pipeCall[o].urb \in PipeUrbs \cup {Null}
      BY <1>0, <2>1, <2>3 DEF BindingInv, CallsSound, UsbShape, PipeCalls
    <3>2. pipeCall[o].urb # Null => cached'[pipeCall[o].urb] = cached[pipeCall[o].urb]
      BY <2>1, <2>3, <3>1 DEF Sound, CallMove
    <3>3. pipeCall[o].urb # Null => \A q \in UsbThreads :
             pipeCall'[q] # Null /\ pipeCall'[q].urb = pipeCall[o].urb => q = o
      <4>1. ASSUME pipeCall[o].urb # Null, r # Null PROVE r.urb # pipeCall[o].urb
        <5>1. Sound(t, r)'
          BY <4>1
        <5> QED BY <2>1, <2>3, <3>1, <4>1, <5>1 DEF Sound
      <4> QED BY <2>1, <3>1, <4>1 DEF Sound
    <3>4. /\ removal' = removal /\ untold' = untold /\ UsedWrappers' = UsedWrappers
          /\ \A w \in UsedWrappers :
                /\ wrapper'[w].intf = wrapper[w].intf
                /\ DOMAIN wrapper'[w].native_pipes = DOMAIN wrapper[w].native_pipes
      BY DEF CallMove
    <3>5. removal # Null /\ removal.at = "free" => removal.w \in UsedWrappers
      BY DEF BindingInv, WrapInv
    <3> QED BY <3>1, <3>2, <3>3, <3>4, <3>5 DEF Sound
  <2> QED BY <2>2, <2>3
<1>4. ASSUME NEW i \in UsbIntfs, Sole(i)' PROVE Told(i)'
  <2>1. Told(i)
    BY <1>4 DEF BindingInv, BoundInv, Sole, CallMove
  <2>2. removal # Null /\ removal.at = "disconnect" => removal.w \in UsedWrappers
    BY DEF BindingInv, WrapInv
  <2> QED BY <2>1, <2>2 DEF Told, CallMove
<1>5. BoundInv'
  BY <1>4 DEF BindingInv, BoundInv, CallMove
<1> QED BY <1>1, <1>2, <1>3, <1>5 DEF BindingInv

(* The steps of lcompat_usb_get_native_pipe and of its caller.             *)
LEMMA CallPipeStep ==
  ASSUME BindingInv, NEW t \in UsbThreads, NEW p \in UsbPipes, NEW u \in PipeUrbs \cup {Null},
         CallPipe(t, p, u)
  PROVE  BindingInv'
<1> DEFINE r == [urb |-> u, pipe |-> p, at |-> "look", w |-> 0, ep |-> 0, got |-> NoPipe,
                 own |-> FALSE]
<1>0. UsbShape
  BY DEF BindingInv
<1>1. r \in PipeCalls /\ r # Null
  <2>1. 0 \in 0 .. MaxWrappers /\ NoPipe \in Nat
    BY UsbBindingAssumption DEF NoPipe
  <2>2. r \in PipeCalls
    BY <2>1 DEF PipeCalls
  <2> HIDE DEF r
  <2> QED BY <2>2, NullAssumption
<1>2. pipeCall' = [pipeCall EXCEPT ![t] = r]
  BY DEF CallPipe
<1>3. UNCHANGED <<binding, wrapper, plugged, bound, removal, cached, holder, refused, left, untold>>
  BY DEF CallPipe
<1>4. CallMove(t, r)
  BY <1>0, <1>2, <1>3 DEF CallMove, UsbShape, UsedWrappers
<1>5. Sound(t, r)'
  <2>1. removal # Null /\ removal.at = "free" => wrapper[removal.w].intf # p.intf
    BY DEF CallPipe
  <2>2. u # Null => /\ u \notin untold
                    /\ cached[u] # Null => cached[u].intf = p.intf
                    /\ \A o \in UsbThreads : pipeCall[o] # Null => pipeCall[o].urb # u
    BY DEF CallPipe
  <2>3. u # Null => \A o \in UsbThreads : pipeCall'[o] # Null /\ pipeCall'[o].urb = u => o = t
    BY <1>0, <1>2, <2>2 DEF UsbShape
  <2> QED BY <1>3, <2>1, <2>2, <2>3 DEF Sound
<1> QED
  <2> HIDE DEF r
  <2> QED BY <1>1, <1>4, <1>5, CallMoveKeeps

(* What the look at the wrappers finds.                                    *)
LEMMA WrapperFound ==
  ASSUME UsbShape, NEW p \in UsbPipes, WrapperForPipe(p)[1] # 0
  PROVE  LET f == WrapperForPipe(p) IN
         /\ f[1] \in UsedWrappers /\ f[1] \in 1 .. MaxWrappers /\ wrapper[f[1]].intf = p.intf
         /\ f[2] \in DOMAIN wrapper[f[1]].native_pipes /\ f[2] \in Nat
<1> DEFINE T == {x \in WrappersOf(DevOf[p.intf]) : FindWrapperEp(wrapper[x].endpoints, p) # 0}
           w == First(T)
           e == FindWrapperEp(wrapper[w].endpoints, p)
<1>1. T \in SUBSET (1 .. MaxWrappers) /\ MaxWrappers \in Nat
  BY UsbBindingAssumption DEF WrappersOf, UsedWrappers, UsbShape
<1>2. w # 0 /\ WrapperForPipe(p) = <<w, e>>
  <2> HIDE DEF e
  <2>1. WrapperForPipe(p) = IF w = 0 THEN <<0, 0>> ELSE <<w, e>>
    BY DEF WrapperForPipe, e
  <2> QED BY <2>1
<1>3. w \in T
  BY <1>1, <1>2, FirstFits
<1>4. /\ w \in UsedWrappers /\ wrapper[w] \in SomeWrappers /\ DevOf[wrapper[w].intf] = DevOf[p.intf]
      /\ e # 0
  BY <1>3 DEF WrappersOf, UsedWrappers, UsbShape
<1>5. /\ wrapper[w].intf \in UsbIntfs
      /\ wrapper[w].endpoints = CollectEndpoints(Descs[wrapper[w].intf])
      /\ DOMAIN wrapper[w].native_pipes = DOMAIN wrapper[w].endpoints
      /\ \A x \in DOMAIN wrapper[w].endpoints : x \in Nat
  BY <1>4, WrapperFields
<1>6. wrapper[w].intf = p.intf
  BY <1>4, <1>5, EndpointAssumption
<1>7. e \in DOMAIN wrapper[w].endpoints
  <2> DEFINE E == {x \in DOMAIN wrapper[w].endpoints : IsFor(wrapper[w].endpoints[x], p)}
  <2>1. e = First(E)
    BY DEF FindWrapperEp
  <2>2. E \in SUBSET Nat /\ E # {}
    BY <1>4, <1>5, <2>1 DEF First
  <2>3. Min(E) \in E
    BY <2>2, LeastExists DEF Min
  <2> QED BY <2>1, <2>2, <2>3 DEF First
<1>8. e \in Nat
  BY <1>5, <1>7
<1> QED
  <2> HIDE DEF w, e
  <2> QED BY <1>1, <1>2, <1>3, <1>4, <1>5, <1>6, <1>7, <1>8

(* The fields of a call, and what a step makes of them.                    *)
LEMMA CallFields ==
  ASSUME UsbShape, NEW t \in UsbThreads, pipeCall[t] # Null
  PROVE  /\ pipeCall[t] \in PipeCalls /\ pipeCall[t].pipe \in UsbPipes
         /\ pipeCall[t].pipe.intf \in UsbIntfs
         /\ pipeCall[t].urb # Null => pipeCall[t].urb \in PipeUrbs
  BY UsbBindingAssumption DEF UsbShape, PipeCalls

Turned(c, at, w, ep, got, own) ==
    [c EXCEPT !.at = at, !.w = w, !.ep = ep, !.got = got, !.own = own]

(* What a step makes of the call of thread t.                              *)
Turns(t, at, w, ep, got, own) ==
    pipeCall' = [pipeCall EXCEPT ![t] = Turned(pipeCall[t], at, w, ep, got, own)]

(* The look: the pipe of the URB, that of the wrapper, or none yet.        *)
LEMMA LookEffect ==
  ASSUME UsbShape, CallsSound, NEW t \in UsbThreads, LookForPipe(t)
  PROVE  LET c == pipeCall[t] IN
         /\ c # Null /\ c.at = "look" /\ c.w = 0 /\ c.own = FALSE /\ c.got = NoPipe
         /\ UNCHANGED <<binding, wrapper, plugged, bound, removal, opened, live, holder, refused,
                        left, untold, raced>>
         /\ \/ /\ c.urb # Null /\ cached[c.urb] # Null /\ UNCHANGED cached
               /\ Turns(t, "has", 0, c.ep, cached[c.urb].pipe, FALSE)
            \/ /\ c.urb # Null => cached[c.urb] = Null
               /\ \E w \in UsedWrappers : \E e \in DOMAIN wrapper[w].native_pipes :
                     /\ wrapper[w].intf = c.pipe.intf /\ wrapper[w].native_pipes[e] # NoPipe
                     /\ Cache(c.urb, wrapper[w].native_pipes[e], FALSE, c.pipe.intf)
                     /\ Turns(t, "has", 0, c.ep, wrapper[w].native_pipes[e], FALSE)
            \/ /\ c.urb # Null => cached[c.urb] = Null
               /\ UNCHANGED cached
               /\ \E w \in 0 .. MaxWrappers, e \in Nat :
                     /\ w # 0 => w \in UsedWrappers /\ wrapper[w].intf = c.pipe.intf
                                 /\ e \in DOMAIN wrapper[w].native_pipes
                     /\ Turns(t, "open", w, e, NoPipe, FALSE)
<1> DEFINE c == pipeCall[t]
           f == WrapperForPipe(c.pipe)
<1>1. /\ c # Null /\ c.at = "look" /\ c.w = 0 /\ c.own \in BOOLEAN /\ c.got = NoPipe /\ ~c.own
      /\ c \in PipeCalls /\ c.pipe \in UsbPipes
  <2>1. c # Null /\ c.at = "look"
    BY DEF LookForPipe
  <2>2. Sound(t, c)
    BY <2>1 DEF CallsSound
  <2>3. c \in PipeCalls /\ c.pipe \in UsbPipes /\ c.own \in BOOLEAN
    BY <2>1, CallFields DEF PipeCalls
  <2> QED BY <2>1, <2>2, <2>3 DEF Sound
<1>2. c.own = FALSE
  BY <1>1
<1>3. UNCHANGED <<binding, wrapper, plugged, bound, removal, opened, live, holder, refused,
                  left, untold, raced>>
  BY DEF LookForPipe
<1>4. \A at, got : [c EXCEPT !.at = at, !.got = got, !.own = FALSE]
                     = [c EXCEPT !.at = at, !.w = 0, !.ep = c.ep, !.got = got, !.own = FALSE]
  BY <1>1 DEF PipeCalls
<1>5. \A at, w, ep : [c EXCEPT !.at = at, !.w = w, !.ep = ep]
                     = [c EXCEPT !.at = at, !.w = w, !.ep = ep, !.got = NoPipe, !.own = FALSE]
  BY <1>1, <1>2 DEF PipeCalls
<1>6. \A at, got : (pipeCall' = [pipeCall EXCEPT ![t].at = at, ![t].got = got, ![t].own = FALSE])
                     => Turns(t, at, 0, c.ep, got, FALSE)
  <2> SUFFICES ASSUME NEW at, NEW got,
                      pipeCall' = [pipeCall EXCEPT ![t].at = at, ![t].got = got, ![t].own = FALSE]
               PROVE  Turns(t, at, 0, c.ep, got, FALSE)
    OBVIOUS
  <2>1. pipeCall' = [pipeCall EXCEPT ![t] = [c EXCEPT !.at = at, !.got = got, !.own = FALSE]]
    BY DEF UsbShape
  <2>2. Turned(c, at, 0, c.ep, got, FALSE) = [c EXCEPT !.at = at, !.got = got, !.own = FALSE]
    BY <1>4 DEF Turned
  <2> QED BY <2>1, <2>2 DEF Turns
<1>7. \A at, w, ep : (pipeCall' = [pipeCall EXCEPT ![t].at = at, ![t].w = w, ![t].ep = ep])
                     => Turns(t, at, w, ep, NoPipe, FALSE)
  <2> SUFFICES ASSUME NEW at, NEW w, NEW ep,
                      pipeCall' = [pipeCall EXCEPT ![t].at = at, ![t].w = w, ![t].ep = ep]
               PROVE  Turns(t, at, w, ep, NoPipe, FALSE)
    OBVIOUS
  <2>1. pipeCall' = [pipeCall EXCEPT ![t] = [c EXCEPT !.at = at, !.w = w, !.ep = ep]]
    BY DEF UsbShape
  <2>2. Turned(c, at, w, ep, NoPipe, FALSE) = [c EXCEPT !.at = at, !.w = w, !.ep = ep]
    BY <1>5 DEF Turned
  <2> QED BY <2>1, <2>2 DEF Turns
<1>8. CASE c.urb # Null /\ cached[c.urb] # Null
  <2>1. UNCHANGED cached /\ HasPipe(t, cached[c.urb].pipe, FALSE)
    BY <1>8 DEF LookForPipe
  <2>2. Turns(t, "has", 0, c.ep, cached[c.urb].pipe, FALSE)
    BY <1>6, <2>1 DEF HasPipe
  <2> QED BY <1>1, <1>2, <1>3, <1>8, <2>1, <2>2
<1>9. CASE ~(c.urb # Null /\ cached[c.urb] # Null)
  <2>1. IF f[1] # 0 /\ wrapper[f[1]].native_pipes[f[2]] # NoPipe
        THEN LET p == wrapper[f[1]].native_pipes[f[2]] IN
             /\ Cache(c.urb, p, FALSE, c.pipe.intf)
             /\ HasPipe(t, p, FALSE)
        ELSE /\ pipeCall' = [pipeCall EXCEPT ![t].at = "open", ![t].w = f[1], ![t].ep = f[2]]
             /\ UNCHANGED cached
    BY <1>9 DEF LookForPipe
  <2>2. f[1] # 0 => /\ f[1] \in UsedWrappers /\ f[1] \in 1 .. MaxWrappers
                    /\ wrapper[f[1]].intf = c.pipe.intf
                    /\ f[2] \in DOMAIN wrapper[f[1]].native_pipes /\ f[2] \in Nat
    BY <1>1, WrapperFound
  <2>3. f[1] = 0 => f[2] = 0
    BY DEF WrapperForPipe
  <2>4. f[1] \in 0 .. MaxWrappers /\ f[2] \in Nat
    BY <2>2, <2>3, UsbBindingAssumption
  <2> HIDE DEF f
  <2>5. CASE f[1] # 0 /\ wrapper[f[1]].native_pipes[f[2]] # NoPipe
    <3>1. Turns(t, "has", 0, c.ep, wrapper[f[1]].native_pipes[f[2]], FALSE)
      BY <1>6, <2>1, <2>5 DEF HasPipe
    <3> QED BY <1>1, <1>2, <1>3, <1>9, <2>1, <2>2, <2>5, <3>1
  <2>6. CASE ~(f[1] # 0 /\ wrapper[f[1]].native_pipes[f[2]] # NoPipe)
    <3>1. UNCHANGED cached /\ Turns(t, "open", f[1], f[2], NoPipe, FALSE)
      BY <1>7, <2>1, <2>6
    <3> QED BY <1>1, <1>2, <1>3, <1>9, <2>2, <2>4, <3>1
  <2> QED BY <2>5, <2>6
<1> QED BY <1>8, <1>9

(* A turn of a call that goes on.                                          *)
LEMMA TurnKeeps ==
  ASSUME BindingInv, NEW t \in UsbThreads, NEW c \in PipeCalls, c = pipeCall[t], c # Null,
         NEW at \in {"open", "store", "has"}, NEW w \in 0 .. MaxWrappers, NEW ep \in Nat,
         NEW got \in Nat, NEW own \in BOOLEAN,
         CallMove(t, Turned(c, at, w, ep, got, own)),
         w # 0 => w \in UsedWrappers /\ wrapper[w].intf = c.pipe.intf
                  /\ ep \in DOMAIN wrapper[w].native_pipes,
         c.urb # Null /\ cached'[c.urb] # Null =>
            cached'[c.urb].intf = c.pipe.intf /\ at = "has",
         at = "open" => got = NoPipe,
         own => at = "has"
  PROVE  BindingInv'
<1>0. PICK r : r = Turned(c, at, w, ep, got, own)
  OBVIOUS
<1>1. /\ r \in PipeCalls /\ r # Null
      /\ r.urb = c.urb /\ r.pipe = c.pipe /\ r.at = at /\ r.w = w /\ r.ep = ep
      /\ r.got = got /\ (r.own <=> own)
  <2>1. r \in PipeCalls
    BY <1>0 DEF PipeCalls, Turned
  <2>2. /\ r.urb = c.urb /\ r.pipe = c.pipe /\ r.at = at /\ r.w = w /\ r.ep = ep
        /\ r.got = got /\ r.own = own
    BY <1>0 DEF PipeCalls, Turned
  <2>3. r # Null
    BY <2>1, NullAssumption
  <2> QED BY <2>1, <2>2, <2>3
<1>2. UsbShape /\ Sound(t, c)
  BY DEF BindingInv, CallsSound
<1>3. CallMove(t, r)
  BY <1>0
<1>4. r.w # 0 => /\ r.w \in UsedWrappers' /\ wrapper'[r.w].intf = r.pipe.intf
                 /\ r.ep \in DOMAIN wrapper'[r.w].native_pipes
  BY <1>1, <1>3 DEF CallMove
<1>5. removal' # Null /\ removal'.at = "free" => wrapper'[removal'.w].intf # r.pipe.intf
  <2>1. removal # Null /\ removal.at = "free" => removal.w \in UsedWrappers
    BY DEF BindingInv, WrapInv
  <2> QED BY <1>1, <1>2, <1>3, <2>1 DEF Sound, CallMove
<1>6. r.urb # Null => /\ r.urb \notin untold'
                      /\ cached'[r.urb] # Null =>
                            cached'[r.urb].intf = r.pipe.intf /\ r.at \notin {"open", "store"}
  BY <1>1, <1>2, <1>3 DEF Sound, CallMove
<1>7. r.urb # Null => \A o \in UsbThreads : pipeCall'[o] # Null /\ pipeCall'[o].urb = r.urb => o = t
  BY <1>1, <1>2, <1>3 DEF Sound, CallMove, UsbShape
<1>8. Sound(t, r)'
  BY <1>1, <1>4, <1>5, <1>6, <1>7 DEF Sound
<1> QED BY <1>1, <1>3, <1>8, CallMoveKeeps

(* What an URB's state becomes.                                            *)
LEMMA CacheEffect ==
  ASSUME UsbShape, NEW u \in PipeUrbs \cup {Null}, NEW s \in UrbStates,
         cached' = IF u = Null THEN cached ELSE [cached EXCEPT ![u] = s]
  PROVE  /\ cached' \in [PipeUrbs -> UrbStates \cup {Null}]
         /\ \A v \in PipeUrbs : cached'[v] # cached[v] => u # Null /\ v = u
         /\ u # Null => cached'[u] = s /\ s # Null
<1>1. s # Null /\ Null \notin PipeUrbs
  BY NullAssumption, UsbBindingAssumption
<1>2. CASE u = Null
  BY <1>2 DEF UsbShape
<1>3. CASE u # Null
  BY <1>1, <1>3 DEF UsbShape
<1> QED BY <1>2, <1>3

(* The look of lcompat_usb_get_native_pipe.                               *)
LEMMA LookStep ==
  ASSUME BindingInv, NEW t \in UsbThreads, LookForPipe(t)
  PROVE  BindingInv'
<1>0. UsbShape /\ CallsSound
  BY DEF BindingInv
<1>1. PICK c : c = pipeCall[t]
  OBVIOUS
<1>2. /\ c # Null /\ c.at = "look" /\ c.w = 0 /\ c.own = FALSE /\ c.got = NoPipe
      /\ UNCHANGED <<binding, wrapper, plugged, bound, removal, opened, live, holder, refused,
                     left, untold, raced>>
  BY <1>0, <1>1, LookEffect
<1>3. c \in PipeCalls /\ c.pipe.intf \in UsbIntfs /\ c.urb \in PipeUrbs \cup {Null} /\ c.ep \in Nat
  BY <1>0, <1>1, <1>2, CallFields DEF PipeCalls
<1>4. /\ wrapper' \in [1 .. MaxWrappers -> SomeWrappers \cup {Null}]
      /\ UsedWrappers' = UsedWrappers
  BY <1>0, <1>2 DEF UsbShape, UsedWrappers
<1>5. 0 \in 0 .. MaxWrappers /\ NoPipe \in Nat /\ FALSE \in BOOLEAN
  BY UsbBindingAssumption DEF NoPipe
<1>6. ASSUME c.urb # Null, cached[c.urb] # Null, UNCHANGED cached,
             Turns(t, "has", 0, c.ep, cached[c.urb].pipe, FALSE)
      PROVE  BindingInv'
  <2>1. PICK p : p = cached[c.urb].pipe
    OBVIOUS
  <2>2. p \in Nat
    BY <1>0, <1>3, <1>6, <2>1 DEF UsbShape, UrbStates
  <2>3. CallMove(t, Turned(c, "has", 0, c.ep, p, FALSE))
    BY <1>0, <1>1, <1>2, <1>4, <1>6, <2>1 DEF CallMove, Turns, UsbShape
  <2>4. cached'[c.urb].intf = c.pipe.intf
    BY <1>0, <1>1, <1>2, <1>6 DEF CallsSound, Sound
  <2> QED BY <1>1, <1>2, <1>3, <1>5, <2>2, <2>3, <2>4, TurnKeeps
<1>7. ASSUME c.urb # Null => cached[c.urb] = Null,
             NEW w \in UsedWrappers, NEW e \in DOMAIN wrapper[w].native_pipes,
             Cache(c.urb, wrapper[w].native_pipes[e], FALSE, c.pipe.intf),
             Turns(t, "has", 0, c.ep, wrapper[w].native_pipes[e], FALSE)
      PROVE  BindingInv'
  <2>1. PICK p : p = wrapper[w].native_pipes[e]
    OBVIOUS
  <2>2. p \in Nat
    BY <1>0, <2>1, WrapperFields DEF UsbShape, UsedWrappers
  <2>3. /\ cached' \in [PipeUrbs -> UrbStates \cup {Null}]
        /\ \A v \in PipeUrbs : cached'[v] # cached[v] => c.urb # Null /\ v = c.urb
        /\ c.urb # Null => cached'[c.urb].intf = c.pipe.intf
    <3>1. PICK s : s = [pipe |-> p, owns |-> FALSE, intf |-> c.pipe.intf]
      OBVIOUS
    <3>2. s \in UrbStates /\ s.intf = c.pipe.intf
      BY <1>3, <2>2, <3>1 DEF UrbStates
    <3>3. cached' = IF c.urb = Null THEN cached ELSE [cached EXCEPT ![c.urb] = s]
      BY <1>7, <2>1, <3>1 DEF Cache
    <3> QED BY <1>0, <1>3, <3>2, <3>3, CacheEffect
  <2>4. CallMove(t, Turned(c, "has", 0, c.ep, p, FALSE))
    BY <1>0, <1>1, <1>2, <1>4, <1>7, <2>1, <2>3 DEF CallMove, Turns
  <2> QED BY <1>1, <1>2, <1>3, <1>5, <2>2, <2>3, <2>4, TurnKeeps
<1>8. ASSUME c.urb # Null => cached[c.urb] = Null, UNCHANGED cached,
             NEW w \in 0 .. MaxWrappers, NEW e \in Nat,
             w # 0 => w \in UsedWrappers /\ wrapper[w].intf = c.pipe.intf
                      /\ e \in DOMAIN wrapper[w].native_pipes,
             Turns(t, "open", w, e, NoPipe, FALSE)
      PROVE  BindingInv'
  <2>1. CallMove(t, Turned(c, "open", w, e, NoPipe, FALSE))
    BY <1>0, <1>1, <1>2, <1>4, <1>8 DEF CallMove, Turns, UsbShape
  <2> QED BY <1>1, <1>2, <1>3, <1>5, <1>8, <2>1, TurnKeeps
<1> QED BY <1>0, <1>1, <1>6, <1>7, <1>8, LookEffect

(* The opening, the storing of what was opened, and the end of a call.     *)
LEMMA EndKeeps ==
  ASSUME BindingInv, NEW t \in UsbThreads, EndCall(t),
         UNCHANGED <<binding, wrapper, plugged, bound, removal, cached, holder, refused, left,
                     untold>>
  PROVE  BindingInv'
<1>0. UsbShape
  BY DEF BindingInv
<1>1. CallMove(t, Null)
  BY <1>0 DEF CallMove, EndCall, UsbShape, UsedWrappers
<1> QED BY <1>1, CallMoveKeeps

(* The native pipe is opened, or the call ends in an error.               *)
LEMMA OpenStep ==
  ASSUME BindingInv, opened \in Nat, NEW t \in UsbThreads, OpenPipe(t)
  PROVE  BindingInv'
<1>0. UsbShape
  BY DEF BindingInv
<1>1. PICK c : c = pipeCall[t]
  OBVIOUS
<1>2. /\ c # Null /\ c.at = "open"
      /\ UNCHANGED <<binding, wrapper, plugged, bound, removal, cached, holder, refused, left,
                     untold>>
  BY <1>1 DEF OpenPipe
<1>3. c \in PipeCalls /\ c.w \in 0 .. MaxWrappers /\ c.ep \in Nat /\ c.own \in BOOLEAN
  BY <1>0, <1>1, <1>2, CallFields DEF PipeCalls
<1>4. Sound(t, c)
  BY <1>1, <1>2 DEF BindingInv, CallsSound
<1>5. ASSUME pipeCall' = [pipeCall EXCEPT ![t].at = "store", ![t].got = opened + 1]
      PROVE  BindingInv'
  <2>1. PICK p \in Nat : p = opened + 1
    OBVIOUS
  <2>2. Turned(c, "store", c.w, c.ep, p, c.own) = [c EXCEPT !.at = "store", !.got = p]
    BY <1>3 DEF PipeCalls, Turned
  <2>3. pipeCall' = [pipeCall EXCEPT ![t] = Turned(c, "store", c.w, c.ep, p, c.own)]
    BY <1>0, <1>1, <1>5, <2>1, <2>2 DEF UsbShape
  <2>4. CallMove(t, Turned(c, "store", c.w, c.ep, p, c.own))
    BY <1>0, <1>2, <2>3 DEF CallMove, UsbShape, UsedWrappers
  <2>5. c.w # 0 => c.w \in UsedWrappers /\ wrapper[c.w].intf = c.pipe.intf
                   /\ c.ep \in DOMAIN wrapper[c.w].native_pipes
    BY <1>4 DEF Sound
  <2>6. ~(c.urb # Null /\ cached'[c.urb] # Null) /\ ~c.own
    BY <1>2, <1>4 DEF Sound
  <2> QED BY <1>1, <1>2, <1>3, <2>4, <2>5, <2>6, TurnKeeps
<1>6. CASE EndCall(t)
  BY <1>2, <1>6, EndKeeps
<1> QED BY <1>1, <1>5, <1>6 DEF OpenPipe

(* What the storing does to the wrapper and the URB of the call.           *)
LEMMA StoreEffect ==
  ASSUME BindingInv, NEW t \in UsbThreads, NEW c, c = pipeCall[t], StorePipe(t)
  PROVE  /\ c # Null /\ c.at = "store" /\ c \in PipeCalls /\ Sound(t, c)
         /\ UNCHANGED <<binding, plugged, bound, removal, opened, live, holder, refused, left,
                        untold>>
         /\ wrapper' \in [1 .. MaxWrappers -> SomeWrappers \cup {Null}]
         /\ UsedWrappers' = UsedWrappers
         /\ \A w \in UsedWrappers :
               /\ wrapper'[w].intf = wrapper[w].intf
               /\ DOMAIN wrapper'[w].native_pipes = DOMAIN wrapper[w].native_pipes
               /\ \A e \in DOMAIN wrapper[w].native_pipes :
                     wrapper'[w].native_pipes[e] =
                        IF w = c.w /\ e = c.ep THEN c.got ELSE wrapper[w].native_pipes[e]
         /\ cached' \in [PipeUrbs -> UrbStates \cup {Null}]
         /\ \A u \in PipeUrbs : cached'[u] # cached[u] => c.urb # Null /\ u = c.urb
         /\ c.urb # Null => /\ cached[c.urb] = Null /\ cached'[c.urb] # Null
                            /\ cached'[c.urb].pipe = c.got
                            /\ cached'[c.urb].intf = c.pipe.intf
                            /\ cached'[c.urb].owns <=> c.w = 0
         /\ raced' = IF c.w # 0 /\ wrapper[c.w].native_pipes[c.ep] # NoPipe
                     THEN raced \cup {wrapper[c.w].native_pipes[c.ep]} ELSE raced
         /\ Turns(t, "has", c.w, c.ep, c.got, (c.urb = Null /\ c.w = 0))
<1>0. UsbShape
  BY DEF BindingInv
<1>1. /\ c # Null /\ c.at = "store"
      /\ UNCHANGED <<binding, plugged, bound, removal, opened, live, holder, refused, left, untold>>
  BY DEF StorePipe
<1>2. Sound(t, c)
  BY <1>1 DEF BindingInv, CallsSound
<1>3. c \in PipeCalls /\ c.pipe.intf \in UsbIntfs /\ c.urb \in PipeUrbs \cup {Null} /\ c.got \in Nat
      /\ c.w \in 0 .. MaxWrappers
  BY <1>0, <1>1, CallFields DEF PipeCalls
<1>4. /\ wrapper' \in [1 .. MaxWrappers -> SomeWrappers \cup {Null}]
      /\ UsedWrappers' = UsedWrappers
      /\ \A w \in UsedWrappers :
            /\ wrapper'[w].intf = wrapper[w].intf
            /\ DOMAIN wrapper'[w].native_pipes = DOMAIN wrapper[w].native_pipes
            /\ \A e \in DOMAIN wrapper[w].native_pipes :
                  wrapper'[w].native_pipes[e] =
                     IF w = c.w /\ e = c.ep THEN c.got ELSE wrapper[w].native_pipes[e]
  <2>1. CASE c.w = 0
    <3>1. wrapper' = wrapper
      BY <2>1 DEF StorePipe
    <3>2. \A w \in UsedWrappers : w # 0
      BY <1>0, UsbBindingAssumption DEF UsbShape, UsedWrappers
    <3> QED BY <1>0, <2>1, <3>1, <3>2 DEF UsbShape, UsedWrappers
  <2>2. CASE c.w # 0
    <3>1. wrapper' = [wrapper EXCEPT ![c.w].native_pipes[c.ep] = c.got]
      BY <2>2 DEF StorePipe
    <3>2. c.w \in UsedWrappers /\ wrapper[c.w] \in SomeWrappers
          /\ c.ep \in DOMAIN wrapper[c.w].native_pipes
      BY <1>0, <1>2, <2>2 DEF Sound, UsbShape, UsedWrappers
    <3>3. PICK s : s = [wrapper[c.w] EXCEPT !.native_pipes[c.ep] = c.got]
      OBVIOUS
    <3>4. /\ s \in SomeWrappers /\ s.intf = wrapper[c.w].intf
          /\ s.native_pipes = [wrapper[c.w].native_pipes EXCEPT ![c.ep] = c.got]
      BY <1>3, <3>2, <3>3, StoredFits
    <3>5. s # Null
      BY <3>4, WrapperFields
    <3>6. wrapper' = [wrapper EXCEPT ![c.w] = s]
      BY <3>1, <3>3
    <3>7. wrapper' \in [1 .. MaxWrappers -> SomeWrappers \cup {Null}]
      BY <1>0, <3>4, <3>6 DEF UsbShape
    <3>8. UsedWrappers' = UsedWrappers /\ wrapper'[c.w] = s
          /\ \A w \in UsedWrappers : w # c.w => wrapper'[w] = wrapper[w]
      BY <1>0, <3>2, <3>5, <3>6 DEF UsbShape, UsedWrappers
    <3> QED BY <3>2, <3>4, <3>7, <3>8
  <2> QED BY <2>1, <2>2
<1>5. /\ cached' \in [PipeUrbs -> UrbStates \cup {Null}]
      /\ \A u \in PipeUrbs : cached'[u] # cached[u] => c.urb # Null /\ u = c.urb
      /\ c.urb # Null => /\ cached[c.urb] = Null /\ cached'[c.urb] # Null
                         /\ cached'[c.urb].pipe = c.got
                         /\ cached'[c.urb].intf = c.pipe.intf
                         /\ cached'[c.urb].owns <=> c.w = 0
  <2>1. PICK s : s = [pipe |-> c.got, owns |-> ~(c.w # 0), intf |-> c.pipe.intf]
    OBVIOUS
  <2>2. /\ s \in UrbStates /\ s.intf = c.pipe.intf /\ s.pipe = c.got /\ (s.owns <=> c.w = 0)
    BY <1>3, <2>1 DEF UrbStates
  <2>3. cached' = IF c.urb = Null THEN cached ELSE [cached EXCEPT ![c.urb] = s]
    BY <2>1 DEF StorePipe, Cache
  <2>4. c.urb # Null => cached[c.urb] = Null
    BY <1>1, <1>2 DEF Sound
  <2>5. /\ cached' \in [PipeUrbs -> UrbStates \cup {Null}]
        /\ \A v \in PipeUrbs : cached'[v] # cached[v] => c.urb # Null /\ v = c.urb
        /\ c.urb # Null => cached'[c.urb] = s /\ s # Null
    BY <1>0, <1>3, <2>2, <2>3, CacheEffect
  <2> QED BY <2>2, <2>4, <2>5
<1>6. raced' = IF c.w # 0 /\ wrapper[c.w].native_pipes[c.ep] # NoPipe
               THEN raced \cup {wrapper[c.w].native_pipes[c.ep]} ELSE raced
  BY DEF StorePipe
<1>7. Turns(t, "has", c.w, c.ep, c.got, (c.urb = Null /\ c.w = 0))
  <2>1. PICK own \in BOOLEAN : own = (c.urb = Null /\ ~(c.w # 0)) /\ own = (c.urb = Null /\ c.w = 0)
    OBVIOUS
  <2>2. pipeCall' = [pipeCall EXCEPT ![t].at = "has", ![t].got = c.got, ![t].own = own]
    BY <2>1 DEF StorePipe, HasPipe
  <2>3. Turned(c, "has", c.w, c.ep, c.got, own)
           = [c EXCEPT !.at = "has", !.got = c.got, !.own = own]
    BY <1>3 DEF PipeCalls, Turned
  <2>4. pipeCall' = [pipeCall EXCEPT ![t] = Turned(c, "has", c.w, c.ep, c.got, own)]
    BY <1>0, <2>2, <2>3 DEF UsbShape
  <2> QED BY <2>1, <2>4 DEF Turns
<1> QED BY <1>1, <1>2, <1>3, <1>4, <1>5, <1>6, <1>7

(* What was opened is stored.                                             *)
LEMMA StoreStep ==
  ASSUME BindingInv, NEW t \in UsbThreads, StorePipe(t)
  PROVE  BindingInv'
<1>1. PICK c : c = pipeCall[t]
  OBVIOUS
<1>2. /\ c # Null /\ c.at = "store" /\ c \in PipeCalls /\ Sound(t, c)
      /\ UNCHANGED <<binding, plugged, bound, removal, opened, live, holder, refused, left, untold>>
      /\ wrapper' \in [1 .. MaxWrappers -> SomeWrappers \cup {Null}]
      /\ UsedWrappers' = UsedWrappers
      /\ \A w \in UsedWrappers :
            /\ wrapper'[w].intf = wrapper[w].intf
            /\ DOMAIN wrapper'[w].native_pipes = DOMAIN wrapper[w].native_pipes
      /\ cached' \in [PipeUrbs -> UrbStates \cup {Null}]
      /\ \A u \in PipeUrbs : cached'[u] # cached[u] => c.urb # Null /\ u = c.urb
      /\ c.urb # Null => cached'[c.urb].intf = c.pipe.intf
      /\ Turns(t, "has", c.w, c.ep, c.got, (c.urb = Null /\ c.w = 0))
  BY <1>1, StoreEffect
<1>3. PICK own \in BOOLEAN : own = (c.urb = Null /\ c.w = 0)
  OBVIOUS
<1>4. CallMove(t, Turned(c, "has", c.w, c.ep, c.got, own))
  <2>1. pipeCall' = [pipeCall EXCEPT ![t] = Turned(c, "has", c.w, c.ep, c.got, own)]
    BY <1>1, <1>2, <1>3 DEF Turns
  <2> QED BY <1>1, <1>2, <2>1 DEF CallMove
<1>5. c.w \in 0 .. MaxWrappers /\ c.ep \in Nat /\ c.got \in Nat
  BY <1>2 DEF PipeCalls
<1>6. c.w # 0 => c.w \in UsedWrappers /\ wrapper[c.w].intf = c.pipe.intf
                 /\ c.ep \in DOMAIN wrapper[c.w].native_pipes
  BY <1>2 DEF Sound
<1> QED BY <1>1, <1>2, <1>4, <1>5, <1>6, TurnKeeps

(* lcompat_usb_sync_xfer and usb_submit_urb are done with the pipe.       *)
LEMMA UsedStep ==
  ASSUME BindingInv, NEW t \in UsbThreads, PipeUsed(t)
  PROVE  BindingInv'
  BY EndKeeps DEF PipeUsed

-----------------------------------------------------------------------------
PipesKnown ==
    /\ opened \in Nat /\ live \subseteq 1 .. opened /\ raced \subseteq live
    /\ \A w \in UsedWrappers : \A e \in DOMAIN wrapper[w].native_pipes :
          wrapper[w].native_pipes[e] \in 0 .. opened
    /\ \A u \in PipeUrbs : cached[u] # Null => cached[u].pipe \in 1 .. opened
    /\ \A t \in UsbThreads : pipeCall[t] # Null /\ pipeCall[t].at \in {"store", "has"} =>
          pipeCall[t].got \in 1 .. opened

Keeps(p, w, e) ==
    w \in UsedWrappers /\ e \in DOMAIN wrapper[w].native_pipes /\ wrapper[w].native_pipes[e] = p
UrbOwns(p, u) == u \in PipeUrbs /\ cached[u] # Null /\ cached[u].owns /\ cached[u].pipe = p
CallOwns(p, t) ==
    /\ t \in UsbThreads /\ pipeCall[t] # Null /\ pipeCall[t].got = p
    /\ pipeCall[t].at = "store" \/ pipeCall[t].own

Owns(p, x) ==
    \/ \E w, e : Keeps(p, w, e) /\ x = <<"wrapper", w, e>>
    \/ \E u : UrbOwns(p, u) /\ x = <<"urb", u>>
    \/ \E t : CallOwns(p, t) /\ x = <<"call", t>>

OneOwner ==
    \A p \in 1 .. opened :
        /\ \A x, y : Owns(p, x) /\ Owns(p, y) => x = y
        /\ p \in live \ raced <=> \E x : Owns(p, x)

(* What a pipe that an URB u or its call uses on interface i rests on.     *)
Backed(p, u, i) ==
    \/ p \in raced \/ UrbOwns(p, u)
    \/ \E w, e : Keeps(p, w, e) /\ wrapper[w].intf = i

UsesBacked ==
    /\ \A u \in PipeUrbs : cached[u] # Null /\ u \notin untold =>
          Backed(cached[u].pipe, u, cached[u].intf)
    /\ \A t \in UsbThreads : pipeCall[t] # Null /\ pipeCall[t].at = "has" /\ ~pipeCall[t].own =>
          Backed(pipeCall[t].got, pipeCall[t].urb, pipeCall[t].pipe.intf)
    /\ removal # Null /\ removal.at = "free" => \A u \in PipeUrbs :
          cached[u] # Null /\ cached[u].intf = wrapper[removal.w].intf => u \in untold

PipeInv == PipesKnown /\ OneOwner /\ UsesBacked

(* The owners of a pipe change with the slots, URBs and calls.             *)
LEMMA OwnersSame ==
  ASSUME NEW p, \A w, e : Keeps(p, w, e)' <=> Keeps(p, w, e),
         \A u : UrbOwns(p, u)' <=> UrbOwns(p, u), \A t : CallOwns(p, t)' <=> CallOwns(p, t)
  PROVE  \A x : Owns(p, x)' <=> Owns(p, x)
  BY DEF Owns

(* Nothing is opened, given up or handed on.                               *)
LEMMA OneOwnerKept ==
  ASSUME OneOwner, UNCHANGED <<opened, live, raced>>,
         \A p \in 1 .. opened : \A x : Owns(p, x)' <=> Owns(p, x)
  PROVE  OneOwner'
  BY DEF OneOwner

(* The owners D go, and their pipes with them.                             *)
LEMMA OneOwnerDropped ==
  ASSUME PipesKnown, OneOwner, UNCHANGED <<opened, raced>>, NEW D,
         \A p \in 1 .. opened : \A x : Owns(p, x)' <=> Owns(p, x) /\ x \notin D,
         \A p \in 1 .. opened : p \in live' <=> p \in live /\ ~\E x \in D : Owns(p, x),
         live' \subseteq live
  PROVE  OneOwner' /\ live' \subseteq 1 .. opened /\ raced \subseteq live'
<1>1. \A p \in 1 .. opened : \A x, y : Owns(p, x)' /\ Owns(p, y)' => x = y
  BY DEF OneOwner
<1>2. ASSUME NEW p \in 1 .. opened PROVE p \in live' \ raced <=> \E x : Owns(p, x)'
  <2>1. p \in live \ raced <=> \E x : Owns(p, x)
    BY DEF OneOwner
  <2>2. \A x, y : Owns(p, x) /\ Owns(p, y) => x = y
    BY DEF OneOwner
  <2> QED BY <2>1, <2>2
<1>3. raced \subseteq live'
  <2> SUFFICES ASSUME NEW p \in raced PROVE p \in live'
    OBVIOUS
  <2>1. p \in live /\ p \in 1 .. opened
    BY DEF PipesKnown
  <2>2. ~\E x : Owns(p, x)
    BY <2>1 DEF OneOwner
  <2> QED BY <2>1, <2>2
<1> QED BY <1>1, <1>2, <1>3 DEF OneOwner, PipesKnown

(* What owns a pipe, or is backed, is not freed.                           *)
LEMMA OwnedIsLive ==
  ASSUME BindingInv, PipeInv, NEW p
  PROVE  /\ p \in 1 .. opened /\ (\E x : Owns(p, x)) => p \in live
         /\ \A u, i : p \in 1 .. opened /\ Backed(p, u, i) => p \in live
<1>1. p \in 1 .. opened /\ (\E x : Owns(p, x)) => p \in live
  BY DEF PipeInv, OneOwner
<1>2. \A u, i : Backed(p, u, i) => p \in raced \/ \E x : Owns(p, x)
  BY DEF Backed, Owns
<1> QED BY <1>1, <1>2 DEF PipeInv, PipesKnown

(* A use that was backed is backed as long as what backs it is there.      *)
LEMMA BackedKept ==
  ASSUME NEW p, NEW u, NEW i, Backed(p, u, i), raced \subseteq raced',
         UrbOwns(p, u) => UrbOwns(p, u)',
         \A w, e : Keeps(p, w, e) /\ wrapper[w].intf = i =>
            p \in raced' \/ (Keeps(p, w, e)' /\ wrapper'[w].intf = i)
  PROVE  Backed(p, u, i)'
  BY DEF Backed

(* A step of the core or of the table of drivers leaves the pipes alone.   *)
LEMMA PipesUntouched ==
  ASSUME BindingInv, PipeInv, UNCHANGED <<opened, live, raced, cached, pipeCall>>,
         untold \subseteq untold',
         \A p \in 1 .. opened : \A w, e : Keeps(p, w, e)' <=> Keeps(p, w, e),
         \A w \in UsedWrappers' : \A e \in DOMAIN wrapper'[w].native_pipes :
            wrapper'[w].native_pipes[e] \in 0 .. opened,
         \A w \in UsedWrappers : wrapper'[w].intf = wrapper[w].intf,
         removal' # Null /\ removal'.at = "free" => removal' = removal
  PROVE  PipeInv'
<1>1. PipesKnown'
  BY DEF PipeInv, PipesKnown
<1>2. \A p : \A u : UrbOwns(p, u)' <=> UrbOwns(p, u)
  BY DEF UrbOwns
<1>3. \A p : \A t : CallOwns(p, t)' <=> CallOwns(p, t)
  BY DEF CallOwns
<1>4. OneOwner'
  <2>1. \A p \in 1 .. opened : \A x : Owns(p, x)' <=> Owns(p, x)
    BY <1>2, <1>3, OwnersSame
  <2> QED BY <2>1, OneOwnerKept DEF PipeInv
<1>5. ASSUME NEW p \in 1 .. opened, NEW u, NEW i, Backed(p, u, i) PROVE Backed(p, u, i)'
  <2>1. \A w, e : Keeps(p, w, e) /\ wrapper[w].intf = i => Keeps(p, w, e)' /\ wrapper'[w].intf = i
    BY DEF Keeps
  <2> QED BY <1>2, <1>5, <2>1 DEF Backed
<1>6. UsesBacked'
  <2>1. ASSUME NEW u \in PipeUrbs, cached'[u] # Null, u \notin untold'
        PROVE  Backed(cached[u].pipe, u, cached[u].intf)'
    BY <1>5, <2>1 DEF PipeInv, PipesKnown, UsesBacked
  <2>2. ASSUME NEW t \in UsbThreads, pipeCall'[t] # Null, pipeCall'[t].at = "has", ~pipeCall'[t].own
        PROVE  Backed(pipeCall[t].got, pipeCall[t].urb, pipeCall[t].pipe.intf)'
    BY <1>5, <2>2 DEF PipeInv, PipesKnown, UsesBacked
  <2>3. removal' # Null /\ removal'.at = "free" =>
           removal.w \in UsedWrappers /\ wrapper'[removal'.w].intf = wrapper[removal.w].intf
    BY DEF BindingInv, WrapInv
  <2>4. removal' # Null /\ removal'.at = "free" => \A u \in PipeUrbs :
           cached'[u] # Null /\ cached'[u].intf = wrapper'[removal'.w].intf => u \in untold'
    BY <2>3 DEF PipeInv, UsesBacked
  <2> QED BY <2>1, <2>2, <2>4 DEF UsesBacked
<1> QED BY <1>1, <1>4, <1>6 DEF PipeInv

(* The steps that do not touch a pipe.                                     *)
LEMMA PipesQuiet ==
  ASSUME BindingInv, PipeInv,
         \/ \E d \in UsbDrivers : RegisterUsb(d)
         \/ \E s \in DOMAIN binding : DeregisterUsb(s)
         \/ \E dev \in UsbDevices : Plug(dev) \/ Unplug(dev)
         \/ RemoveNext
  PROVE  PipeInv'
<1>1. UNCHANGED <<wrapper, opened, live, raced, cached, pipeCall>> /\ untold \subseteq untold'
  BY DEF RegisterUsb, DeregisterUsb, Plug, Unplug, RemoveNext
<1>2. UsedWrappers' = UsedWrappers
  BY <1>1 DEF UsedWrappers
<1>3. \A p \in 1 .. opened : \A w, e : Keeps(p, w, e)' <=> Keeps(p, w, e)
  BY <1>1, <1>2 DEF Keeps
<1>4. \A w \in UsedWrappers' : \A e \in DOMAIN wrapper'[w].native_pipes :
         wrapper'[w].native_pipes[e] \in 0 .. opened
  BY <1>1, <1>2 DEF PipeInv, PipesKnown
<1>5. removal' # Null /\ removal'.at = "free" => removal' = removal
  <2>1. CASE RemoveNext
    <3>1. removal' # Null => removal # Null /\ removal \in Removals
                             /\ removal'.at = "disconnect"
      BY <2>1 DEF RemoveNext, BindingInv, UsbShape, Removals
    <3> QED BY <3>1
  <2>2. ASSUME NEW dev \in UsbDevices, Plug(dev) \/ Unplug(dev)
        PROVE  removal' # Null => removal'.at = "next"
    BY <2>2 DEF Plug, Unplug
  <2> QED BY <2>1, <2>2 DEF RegisterUsb, DeregisterUsb
<1> QED BY <1>1, <1>3, <1>4, <1>5, PipesUntouched

(* A new wrapper has no pipes.                                            *)
LEMMA ProbePipes ==
  ASSUME BindingInv, PipeInv, NEW s \in DOMAIN binding, NEW i \in UsbIntfs, NativeProbe(s, i)
  PROVE  PipeInv'
<1>1. /\ UNCHANGED <<opened, live, raced, cached, pipeCall, untold, removal>>
      /\ Wrap(i) /\ UsbShape /\ opened \in Nat
  BY DEF NativeProbe, BindingInv, PipeInv, PipesKnown
<1>2. /\ \A w \in UsedWrappers : w \in UsedWrappers' /\ wrapper'[w] = wrapper[w]
      /\ \A w \in UsedWrappers' : w \in UsedWrappers \/ wrapper'[w] = NewWrapper(i)
  BY <1>1, WrapKeeps
<1>3. \A e \in DOMAIN NewWrapper(i).native_pipes : NewWrapper(i).native_pipes[e] = 0
  BY NewWrapperFits DEF NoPipe
<1>4. \A p \in 1 .. opened : \A w, e : Keeps(p, w, e)' <=> Keeps(p, w, e)
  BY <1>1, <1>2, <1>3 DEF Keeps
<1>5. \A w \in UsedWrappers' : \A e \in DOMAIN wrapper'[w].native_pipes :
         wrapper'[w].native_pipes[e] \in 0 .. opened
  BY <1>1, <1>2, <1>3 DEF PipeInv, PipesKnown
<1> QED BY <1>1, <1>2, <1>4, <1>5, PipesUntouched

(* The pipes that the URBs of a set own.                                   *)
LEMMA OwnedByUrbs ==
  ASSUME NEW U \in SUBSET PipeUrbs, NEW p
  PROVE  p \in OwnedBy(U) <=> \E u \in U : UrbOwns(p, u)
  BY DEF OwnedBy, UrbOwns

(* The states of the URBs of U go, and the pipes that are theirs.          *)
LEMMA UrbsDropped ==
  ASSUME PipeInv, NEW U \in SUBSET PipeUrbs, UNCHANGED <<opened, raced, wrapper, pipeCall>>,
         live' = live \ OwnedBy(U),
         cached' = [u \in PipeUrbs |-> IF u \in U THEN Null ELSE cached[u]]
  PROVE  OneOwner' /\ PipesKnown'
<1> DEFINE D == {<<"urb", u>> : u \in U}
<1>1. ASSUME NEW p PROVE \A x : Owns(p, x)' <=> Owns(p, x) /\ x \notin D
  <2>1. \A u : UrbOwns(p, u)' <=> UrbOwns(p, u) /\ u \notin U
    BY DEF UrbOwns
  <2>2. \A w, e : Keeps(p, w, e)' <=> Keeps(p, w, e)
    BY DEF Keeps, UsedWrappers
  <2>3. \A t : CallOwns(p, t)' <=> CallOwns(p, t)
    BY DEF CallOwns
  <2>4. \A u : <<"urb", u>> \in D <=> u \in U
    OBVIOUS
  <2>5. \A w, e : <<"wrapper", w, e>> \notin D
    OBVIOUS
  <2>6. \A t : <<"call", t>> \notin D
    OBVIOUS
  <2> HIDE DEF D
  <2> QED BY <2>1, <2>2, <2>3, <2>4, <2>5, <2>6 DEF Owns
<1>2. ASSUME NEW p PROVE p \in OwnedBy(U) <=> \E x \in D : Owns(p, x)
  <2>1. p \in OwnedBy(U) <=> \E u \in U : UrbOwns(p, u)
    BY OwnedByUrbs
  <2>2. \A u \in U : UrbOwns(p, u) <=> Owns(p, <<"urb", u>>)
    BY DEF Owns
  <2> QED BY <2>1, <2>2
<1>3. OneOwner' /\ live' \subseteq 1 .. opened /\ raced \subseteq live'
  <2>1. \A p : \A x : Owns(p, x)' <=> Owns(p, x) /\ x \notin D
    BY <1>1
  <2>2. \A p \in 1 .. opened : p \in live' <=> p \in live /\ ~\E x \in D : Owns(p, x)
    BY <1>2
  <2> HIDE DEF D
  <2> QED BY <2>1, <2>2, OneOwnerDropped DEF PipeInv
<1>4. PipesKnown'
  BY <1>3 DEF PipeInv, PipesKnown, UsedWrappers
<1> QED BY <1>3, <1>4

(* The URBs of a driver that is told take their pipes along; those of one *)
(* that is not told are untold.                                           *)
LEMMA DisconnectPipes ==
  ASSUME BindingInv, PipeInv, Disconnect
  PROVE  PipeInv'
<1>0. UsbShape /\ removal # Null /\ removal.at = "disconnect" /\ removal \in Removals
  BY DEF BindingInv, UsbShape, Disconnect
<1>1. PICK i, U : i = wrapper[removal.w].intf /\ U = UrbsOf(i)
  OBVIOUS
<1>2. /\ U \in SUBSET PipeUrbs
      /\ \A u \in PipeUrbs : u \in U <=> cached[u] # Null /\ cached[u].intf = i
  BY <1>1 DEF UrbsOf
<1>3. /\ UNCHANGED <<wrapper, opened, raced, pipeCall>>
      /\ removal' = [removal EXCEPT !.at = "free"]
      /\ \A t \in UsbThreads : pipeCall[t] # Null => pipeCall[t].pipe.intf # i
      /\ \/ /\ live' = live \ OwnedBy(U) /\ untold' = untold
            /\ cached' = [u \in PipeUrbs |-> IF u \in U THEN Null ELSE cached[u]]
         \/ untold' = untold \cup U /\ UNCHANGED <<live, cached>>
  BY <1>1 DEF Disconnect
<1>4. removal'.w = removal.w
  BY <1>0, <1>3 DEF Removals
<1>5. \A u \in PipeUrbs : cached'[u] # Null =>
         /\ cached'[u] = cached[u] /\ (cached[u].intf = i => u \in untold')
         /\ (u \notin untold' => u \notin untold)
  BY <1>2, <1>3
<1>6. OneOwner' /\ PipesKnown'
  <2>1. CASE live' = live \ OwnedBy(U)
             /\ cached' = [u \in PipeUrbs |-> IF u \in U THEN Null ELSE cached[u]]
    BY <1>2, <1>3, <2>1, UrbsDropped
  <2>2. CASE UNCHANGED <<live, cached>>
    <3>1. \A p : \A x : Owns(p, x)' <=> Owns(p, x)
      BY <1>3, <2>2, OwnersSame DEF Keeps, UrbOwns, CallOwns, UsedWrappers
    <3> QED BY <1>3, <2>2, <3>1, OneOwnerKept DEF PipeInv, PipesKnown, UsedWrappers
  <2> QED BY <1>3, <2>1, <2>2
<1>7. ASSUME NEW p, NEW u, NEW j, Backed(p, u, j), u \in PipeUrbs => cached'[u] = cached[u]
      PROVE  Backed(p, u, j)'
  BY <1>3, <1>7 DEF Backed, Keeps, UrbOwns, UsedWrappers
<1>8. UsesBacked'
  <2>1. ASSUME NEW u \in PipeUrbs, cached'[u] # Null, u \notin untold'
        PROVE  Backed(cached[u].pipe, u, cached[u].intf)'
    BY <1>5, <1>7, <2>1 DEF PipeInv, UsesBacked
  <2>2. ASSUME NEW t \in UsbThreads, pipeCall'[t] # Null, pipeCall'[t].at = "has", ~pipeCall'[t].own
        PROVE  Backed(pipeCall[t].got, pipeCall[t].urb, pipeCall[t].pipe.intf)'
    <3>1. Backed(pipeCall[t].got, pipeCall[t].urb, pipeCall[t].pipe.intf) /\ pipeCall' = pipeCall
      BY <1>3, <2>2 DEF PipeInv, UsesBacked
    <3>2. pipeCall[t].urb \in PipeUrbs => pipeCall[t].urb # Null
      BY UsbBindingAssumption
    <3>3. pipeCall[t].urb \in PipeUrbs /\ cached[pipeCall[t].urb] # Null => pipeCall[t].urb \notin U
      BY <1>2, <1>3, <2>2, <3>2 DEF BindingInv, CallsSound, Sound
    <3>4. pipeCall[t].urb \in PipeUrbs => cached'[pipeCall[t].urb] = cached[pipeCall[t].urb]
      BY <1>2, <1>3, <3>3
    <3> QED BY <1>7, <3>1, <3>4
  <2>3. \A u \in PipeUrbs :
           cached'[u] # Null /\ cached'[u].intf = wrapper'[removal'.w].intf => u \in untold'
    BY <1>1, <1>3, <1>4, <1>5
  <2> QED BY <2>1, <2>2, <2>3 DEF UsesBacked
<1> QED BY <1>6, <1>8 DEF PipeInv

(* usb_free_urb                                                            *)
LEMMA FreeUrbPipes ==
  ASSUME BindingInv, PipeInv, NEW u \in PipeUrbs, FreePipeUrb(u)
  PROVE  PipeInv'
<1>0. UsbShape
  BY DEF BindingInv
<1>1. /\ UNCHANGED <<wrapper, opened, raced, pipeCall, untold, removal>>
      /\ live' = live \ OwnedBy({u}) /\ cached' = [cached EXCEPT ![u] = Null]
      /\ \A t \in UsbThreads : pipeCall[t] # Null => pipeCall[t].urb # u
  BY DEF FreePipeUrb
<1>2. cached' = [v \in PipeUrbs |-> IF v \in {u} THEN Null ELSE cached[v]]
  BY <1>0, <1>1 DEF UsbShape
<1>3. OneOwner' /\ PipesKnown'
  BY <1>1, <1>2, UrbsDropped
<1>4. \A v \in PipeUrbs : cached'[v] # Null => cached'[v] = cached[v]
  BY <1>2
<1>5. ASSUME NEW p, NEW v, NEW j, Backed(p, v, j), v # u
      PROVE  Backed(p, v, j)'
  BY <1>1, <1>2, <1>5 DEF Backed, Keeps, UrbOwns, UsedWrappers
<1>6. UsesBacked'
  <2>1. ASSUME NEW v \in PipeUrbs, cached'[v] # Null, v \notin untold'
        PROVE  Backed(cached[v].pipe, v, cached[v].intf)'
    BY <1>1, <1>2, <1>5, <2>1 DEF PipeInv, UsesBacked
  <2>2. ASSUME NEW t \in UsbThreads, pipeCall'[t] # Null, pipeCall'[t].at = "has", ~pipeCall'[t].own
        PROVE  Backed(pipeCall[t].got, pipeCall[t].urb, pipeCall[t].pipe.intf)'
    BY <1>1, <1>5, <2>2 DEF PipeInv, UsesBacked
  <2>3. removal' # Null /\ removal'.at = "free" => \A v \in PipeUrbs :
           cached'[v] # Null /\ cached'[v].intf = wrapper'[removal'.w].intf => v \in untold'
    BY <1>1, <1>4 DEF PipeInv, UsesBacked
  <2> QED BY <2>1, <2>2, <2>3 DEF UsesBacked
<1> QED BY <1>3, <1>6 DEF PipeInv

(* The pipes of a wrapper go with it; nobody who was told uses them.       *)
LEMMA FreeWrapperPipes ==
  ASSUME BindingInv, PipeInv, FreeWrapper
  PROVE  PipeInv'
<1>0. UsbShape /\ removal # Null /\ removal.at = "free" /\ removal \in Removals
  BY DEF BindingInv, UsbShape, FreeWrapper
<1>1. PICK w, i : w = removal.w /\ i = wrapper[w].intf
  OBVIOUS
<1>2. /\ UNCHANGED <<opened, raced, cached, pipeCall, untold>>
      /\ live' = live \ WrapperPipes(w) /\ wrapper' = [wrapper EXCEPT ![w] = Null]
      /\ removal' = [removal EXCEPT !.at = "next"]
  BY <1>1 DEF FreeWrapper
<1>3. w \in UsedWrappers
  BY <1>0, <1>1 DEF BindingInv, WrapInv
<1>4. /\ UsedWrappers' = UsedWrappers \ {w}
      /\ \A x \in UsedWrappers' : x \in UsedWrappers /\ wrapper'[x] = wrapper[x]
  BY <1>0, <1>2, <1>3 DEF UsbShape, UsedWrappers
<1>5. \A x \in UsedWrappers : wrapper[x].intf # i => x \in UsedWrappers'
  BY <1>1, <1>4
<1>6. \A p, x, e : Keeps(p, x, e)' <=> Keeps(p, x, e) /\ x # w
  BY <1>4 DEF Keeps
<1>7. ASSUME NEW p \in 1 .. opened PROVE p \in WrapperPipes(w) <=> \E e : Keeps(p, w, e)
  BY <1>3 DEF WrapperPipes, Keeps, NoPipe
<1> DEFINE D == {<<"wrapper", w, e>> : e \in DOMAIN wrapper[w].native_pipes}
<1>8. ASSUME NEW p PROVE \A x : Owns(p, x)' <=> Owns(p, x) /\ x \notin D
  <2>1. \A u : UrbOwns(p, u)' <=> UrbOwns(p, u)
    BY <1>2 DEF UrbOwns
  <2>2. \A t : CallOwns(p, t)' <=> CallOwns(p, t)
    BY <1>2 DEF CallOwns
  <2>3. \A x, e : Keeps(p, x, e) => (<<"wrapper", x, e>> \in D <=> x = w)
    BY DEF Keeps
  <2>4. \A u : <<"urb", u>> \notin D
    OBVIOUS
  <2>5. \A t : <<"call", t>> \notin D
    OBVIOUS
  <2> HIDE DEF D
  <2> QED BY <1>6, <2>1, <2>2, <2>3, <2>4, <2>5 DEF Owns
<1>9. ASSUME NEW p \in 1 .. opened PROVE p \in WrapperPipes(w) <=> \E x \in D : Owns(p, x)
  <2>1. \A e : Keeps(p, w, e) => <<"wrapper", w, e>> \in D /\ Owns(p, <<"wrapper", w, e>>)
    BY DEF Owns, Keeps
  <2>2. \A x \in D : Owns(p, x) => \E e : Keeps(p, w, e)
    BY DEF Owns
  <2> HIDE DEF D
  <2> QED BY <1>7, <2>1, <2>2
<1>10. OneOwner' /\ live' \subseteq 1 .. opened /\ raced \subseteq live'
  <2>1. \A p \in 1 .. opened : \A x : Owns(p, x)' <=> Owns(p, x) /\ x \notin D
    BY <1>8
  <2>2. \A p \in 1 .. opened : p \in live' <=> p \in live /\ ~\E x \in D : Owns(p, x)
    BY <1>2, <1>9
  <2> HIDE DEF D
  <2> QED BY <1>2, <2>1, <2>2, OneOwnerDropped DEF PipeInv
<1>11. PipesKnown'
  BY <1>2, <1>4, <1>10 DEF PipeInv, PipesKnown
<1>12. ASSUME NEW p, NEW u, NEW j, Backed(p, u, j), j # i PROVE Backed(p, u, j)'
  <2>1. \A x, e : Keeps(p, x, e) /\ wrapper[x].intf = j => Keeps(p, x, e)' /\ wrapper'[x].intf = j
    BY <1>1, <1>4, <1>6, <1>12 DEF Keeps
  <2>2. UrbOwns(p, u) => UrbOwns(p, u)'
    BY <1>2 DEF UrbOwns
  <2> QED BY <1>2, <1>12, <2>1, <2>2 DEF Backed
<1>13. UsesBacked'
  <2>1. ASSUME NEW u \in PipeUrbs, cached'[u] # Null, u \notin untold'
        PROVE  Backed(cached[u].pipe, u, cached[u].intf)'
    <3>1. cached[u].intf # i
      BY <1>0, <1>1, <1>2, <2>1 DEF PipeInv, UsesBacked
    <3> QED BY <1>2, <1>12, <2>1, <3>1 DEF PipeInv, UsesBacked
  <2>2. ASSUME NEW t \in UsbThreads, pipeCall'[t] # Null, pipeCall'[t].at = "has", ~pipeCall'[t].own
        PROVE  Backed(pipeCall[t].got, pipeCall[t].urb, pipeCall[t].pipe.intf)'
    <3>1. pipeCall[t].pipe.intf # i
      BY <1>0, <1>1, <1>2, <2>2 DEF BindingInv, CallsSound, Sound
    <3> QED BY <1>2, <1>12, <2>2, <3>1 DEF PipeInv, UsesBacked
  <2>3. removal'.at = "next"
    BY <1>0, <1>2 DEF Removals
  <2> QED BY <2>1, <2>2, <2>3 DEF UsesBacked
<1> QED BY <1>10, <1>11, <1>13 DEF PipeInv

(* A call begins, ends or looks: no pipe gets another owner by it.         *)
LEMMA QuietCall ==
  ASSUME BindingInv, PipeInv, NEW t \in UsbThreads, NEW r,
         pipeCall' = [pipeCall EXCEPT ![t] = r],
         UNCHANGED <<wrapper, opened, live, raced, untold, removal>>,
         \A p : ~CallOwns(p, t),
         r # Null => /\ r.at \in {"look", "open", "has"} /\ ~r.own
                     /\ r.at = "has" => r.got \in 1 .. opened /\ Backed(r.got, r.urb, r.pipe.intf),
         \A u \in PipeUrbs : cached'[u] # cached[u] =>
            /\ cached[u] = Null /\ ~cached'[u].owns /\ cached'[u].pipe \in 1 .. opened
            /\ Backed(cached'[u].pipe, u, cached'[u].intf)
            /\ removal # Null /\ removal.at = "free" => cached'[u].intf # wrapper[removal.w].intf
  PROVE  PipeInv'
<1>0. UsbShape /\ UsedWrappers' = UsedWrappers
  BY DEF BindingInv, UsedWrappers
<1>1. /\ pipeCall'[t] = r
      /\ \A o \in UsbThreads : o # t => pipeCall'[o] = pipeCall[o]
  BY <1>0 DEF UsbShape
<1>2. PipesKnown'
  BY <1>0, <1>1 DEF PipeInv, PipesKnown
<1>3. ASSUME NEW p PROVE \A x : Owns(p, x)' <=> Owns(p, x)
  <2>1. \A w, e : Keeps(p, w, e)' <=> Keeps(p, w, e)
    BY <1>0 DEF Keeps
  <2>2. \A u : UrbOwns(p, u)' <=> UrbOwns(p, u)
    BY DEF UrbOwns
  <2>3. \A o : CallOwns(p, o)' <=> CallOwns(p, o)
    BY <1>1 DEF CallOwns
  <2> QED BY <2>1, <2>2, <2>3, OwnersSame
<1>4. OneOwner'
  BY <1>3, OneOwnerKept DEF PipeInv
<1>5. ASSUME NEW p, NEW u, NEW i, Backed(p, u, i) PROVE Backed(p, u, i)'
  BY <1>0, <1>5 DEF Backed, Keeps, UrbOwns
<1>6. ASSUME NEW u \in PipeUrbs, cached'[u] # Null, u \notin untold'
      PROVE  Backed(cached[u].pipe, u, cached[u].intf)'
  <2>1. Backed(cached'[u].pipe, u, cached'[u].intf)
    BY <1>6 DEF PipeInv, UsesBacked
  <2>2. PICK p, i : p = cached'[u].pipe /\ i = cached'[u].intf
    OBVIOUS
  <2>3. Backed(p, u, i)'
    BY <1>5, <2>1, <2>2
  <2> QED BY <2>2, <2>3 DEF Backed
<1>7. ASSUME NEW o \in UsbThreads, pipeCall'[o] # Null, pipeCall'[o].at = "has", ~pipeCall'[o].own
      PROVE  Backed(pipeCall[o].got, pipeCall[o].urb, pipeCall[o].pipe.intf)'
  <2>1. PICK p, u, i : p = pipeCall'[o].got /\ u = pipeCall'[o].urb /\ i = pipeCall'[o].pipe.intf
    OBVIOUS
  <2>2. Backed(p, u, i)
    BY <1>1, <1>7, <2>1 DEF PipeInv, UsesBacked
  <2>3. Backed(p, u, i)'
    BY <1>5, <2>2
  <2> QED BY <2>1, <2>3 DEF Backed
<1>8. UsesBacked'
  <2>1. removal' # Null /\ removal'.at = "free" => \A u \in PipeUrbs :
           cached'[u] # Null /\ cached'[u].intf = wrapper'[removal'.w].intf => u \in untold'
    BY DEF PipeInv, UsesBacked
  <2> QED BY <1>6, <1>7, <2>1 DEF UsesBacked
<1> QED BY <1>2, <1>4, <1>8 DEF PipeInv

(* A call begins with no pipe.                                            *)
LEMMA CallPipePipes ==
  ASSUME BindingInv, PipeInv, NEW t \in UsbThreads, NEW p \in UsbPipes,
         NEW u \in PipeUrbs \cup {Null}, CallPipe(t, p, u)
  PROVE  PipeInv'
<1>1. PICK r : r = [urb |-> u, pipe |-> p, at |-> "look", w |-> 0, ep |-> 0, got |-> NoPipe,
                    own |-> FALSE]
  OBVIOUS
<1>2. /\ pipeCall' = [pipeCall EXCEPT ![t] = r]
      /\ UNCHANGED <<wrapper, opened, live, raced, untold, removal, cached>>
      /\ pipeCall[t] = Null
  BY <1>1 DEF CallPipe
<1>3. r.at = "look" /\ ~r.own
  BY <1>1
<1>4. \A q : ~CallOwns(q, t)
  BY <1>2 DEF CallOwns
<1> QED BY <1>2, <1>3, <1>4, QuietCall

(* A call that finds a pipe uses what a wrapper or its URB has.           *)
LEMMA LookPipes ==
  ASSUME BindingInv, PipeInv, NEW t \in UsbThreads, LookForPipe(t)
  PROVE  PipeInv'
<1>0. UsbShape /\ CallsSound
  BY DEF BindingInv
<1>1. PICK c : c = pipeCall[t]
  OBVIOUS
<1>2. /\ c # Null /\ c.at = "look" /\ c.w = 0 /\ c.own = FALSE /\ c.got = NoPipe
      /\ UNCHANGED <<wrapper, opened, live, raced, untold, removal>>
  BY <1>0, <1>1, LookEffect
<1>3. /\ c \in PipeCalls /\ c.pipe.intf \in UsbIntfs /\ c.urb \in PipeUrbs \cup {Null}
      /\ c.ep \in Nat /\ Sound(t, c)
  BY <1>0, <1>1, <1>2, CallFields DEF PipeCalls, CallsSound
<1>4. \A p : ~CallOwns(p, t)
  BY <1>1, <1>2 DEF CallOwns
<1>5. 0 \in 0 .. MaxWrappers /\ NoPipe \in Nat /\ opened \in Nat
  BY UsbBindingAssumption DEF NoPipe, PipeInv, PipesKnown
<1>6. ASSUME c.urb # Null, cached[c.urb] # Null, UNCHANGED cached,
             Turns(t, "has", 0, c.ep, cached[c.urb].pipe, FALSE)
      PROVE  PipeInv'
  <2>1. PICK p, r : p = cached[c.urb].pipe /\ r = Turned(c, "has", 0, c.ep, p, FALSE)
    OBVIOUS
  <2>2. p \in 1 .. opened /\ p \in Nat
    BY <1>3, <1>5, <1>6, <2>1 DEF PipeInv, PipesKnown
  <2>3. r.urb = c.urb /\ r.pipe = c.pipe /\ r.at = "has" /\ r.got = p /\ ~r.own
    BY <1>3, <2>1 DEF PipeCalls, Turned
  <2>4. Backed(p, c.urb, c.pipe.intf)
    BY <1>3, <1>6, <2>1 DEF PipeInv, UsesBacked, Sound
  <2>5. pipeCall' = [pipeCall EXCEPT ![t] = r]
    BY <1>1, <1>6, <2>1 DEF Turns
  <2> QED BY <1>2, <1>4, <1>6, <2>2, <2>3, <2>4, <2>5, QuietCall
<1>7. ASSUME c.urb # Null => cached[c.urb] = Null,
             NEW w \in UsedWrappers, NEW e \in DOMAIN wrapper[w].native_pipes,
             wrapper[w].intf = c.pipe.intf, wrapper[w].native_pipes[e] # NoPipe,
             Cache(c.urb, wrapper[w].native_pipes[e], FALSE, c.pipe.intf),
             Turns(t, "has", 0, c.ep, wrapper[w].native_pipes[e], FALSE)
      PROVE  PipeInv'
  <2>1. PICK p, r, s : /\ p = wrapper[w].native_pipes[e]
                       /\ r = Turned(c, "has", 0, c.ep, p, FALSE)
                       /\ s = [pipe |-> p, owns |-> FALSE, intf |-> c.pipe.intf]
    OBVIOUS
  <2>2. p \in 1 .. opened /\ p \in Nat
    BY <1>5, <1>7, <2>1 DEF PipeInv, PipesKnown, NoPipe
  <2>3. r.urb = c.urb /\ r.pipe = c.pipe /\ r.at = "has" /\ r.got = p /\ ~r.own
    BY <1>3, <2>1 DEF PipeCalls, Turned
  <2>4. \A u : Backed(p, u, c.pipe.intf)
    BY <1>7, <2>1 DEF Backed, Keeps
  <2>5. pipeCall' = [pipeCall EXCEPT ![t] = r]
    BY <1>1, <1>7, <2>1 DEF Turns
  <2>6. s \in UrbStates /\ s.pipe = p /\ s.intf = c.pipe.intf /\ ~s.owns
    BY <1>3, <2>1, <2>2 DEF UrbStates
  <2>7. cached' = IF c.urb = Null THEN cached ELSE [cached EXCEPT ![c.urb] = s]
    BY <1>7, <2>1 DEF Cache
  <2>8. /\ \A v \in PipeUrbs : cached'[v] # cached[v] => c.urb # Null /\ v = c.urb
        /\ c.urb # Null => cached'[c.urb] = s
    BY <1>0, <1>3, <2>6, <2>7, CacheEffect
  <2>9. \A u \in PipeUrbs : cached'[u] # cached[u] =>
           /\ cached[u] = Null /\ ~cached'[u].owns /\ cached'[u].pipe \in 1 .. opened
           /\ Backed(cached'[u].pipe, u, cached'[u].intf)
           /\ removal # Null /\ removal.at = "free" => cached'[u].intf # wrapper[removal.w].intf
    BY <1>3, <1>7, <2>2, <2>4, <2>6, <2>8 DEF Sound
  <2> QED BY <1>2, <1>4, <2>2, <2>3, <2>4, <2>5, <2>9, QuietCall
<1>8. ASSUME UNCHANGED cached, NEW w \in 0 .. MaxWrappers, NEW e \in Nat,
             Turns(t, "open", w, e, NoPipe, FALSE)
      PROVE  PipeInv'
  <2>1. PICK r : r = Turned(c, "open", w, e, NoPipe, FALSE)
    OBVIOUS
  <2>2. r.at = "open" /\ ~r.own
    BY <1>3, <2>1 DEF PipeCalls, Turned
  <2>3. pipeCall' = [pipeCall EXCEPT ![t] = r]
    BY <1>1, <1>8, <2>1 DEF Turns
  <2> QED BY <1>2, <1>4, <1>8, <2>2, <2>3, QuietCall
<1> QED BY <1>0, <1>1, <1>6, <1>7, <1>8, LookEffect

(* An opened pipe is the call's that opened it.                            *)
LEMMA OpenPipes ==
  ASSUME BindingInv, PipeInv, NEW t \in UsbThreads, OpenPipe(t)
  PROVE  PipeInv'
<1>0. UsbShape /\ opened \in Nat
  BY DEF BindingInv, PipeInv, PipesKnown
<1>1. PICK c, q : c = pipeCall[t] /\ q = opened + 1
  OBVIOUS
<1>2. /\ c # Null /\ c.at = "open"
      /\ UNCHANGED <<wrapper, raced, untold, removal, cached>>
  BY <1>1 DEF OpenPipe
<1>3. c \in PipeCalls /\ c.got = NoPipe /\ ~c.own
  BY <1>0, <1>1, <1>2, CallFields DEF BindingInv, CallsSound, Sound
<1>4. \A p : ~CallOwns(p, t)
  BY <1>1, <1>2, <1>3 DEF CallOwns
<1>5. CASE UNCHANGED <<opened, live>> /\ EndCall(t)
  BY <1>2, <1>4, <1>5, QuietCall DEF EndCall
<1>6. ASSUME opened' = q, live' = live \cup {q},
             pipeCall' = [pipeCall EXCEPT ![t].at = "store", ![t].got = q]
      PROVE  PipeInv'
  <2>0. q \in Nat /\ q \notin 1 .. opened /\ 1 .. opened' = (1 .. opened) \cup {q}
    BY <1>0, <1>1, <1>6
  <2>1. UsedWrappers' = UsedWrappers
    BY <1>2 DEF UsedWrappers
  <2>2. PICK r : r = [c EXCEPT !.at = "store", !.got = q]
    OBVIOUS
  <2>3. /\ r.at = "store" /\ r.got = q /\ ~r.own /\ r # Null
        /\ pipeCall'[t] = r /\ \A o \in UsbThreads : o # t => pipeCall'[o] = pipeCall[o]
    <3>1. r \in PipeCalls
      BY <1>3, <2>0, <2>2 DEF PipeCalls
    <3>2. r # Null
      BY <3>1, NullAssumption
    <3>3. pipeCall' = [pipeCall EXCEPT ![t] = r]
      BY <1>0, <1>1, <1>6, <2>2 DEF UsbShape
    <3>4. pipeCall'[t] = r /\ \A o \in UsbThreads : o # t => pipeCall'[o] = pipeCall[o]
      BY <1>0, <3>3 DEF UsbShape
    <3> QED BY <1>3, <2>2, <3>2, <3>4 DEF PipeCalls
  <2>4. PipesKnown'
    <3>1. opened' \in Nat /\ live' \subseteq 1 .. opened' /\ raced' \subseteq live'
      BY <1>2, <1>6, <2>0 DEF PipeInv, PipesKnown
    <3>2. 0 .. opened \subseteq 0 .. opened'
      BY <1>0, <1>1, <1>6
    <3>3. \A w \in UsedWrappers' : \A e \in DOMAIN wrapper'[w].native_pipes :
             wrapper'[w].native_pipes[e] \in 0 .. opened'
      BY <1>2, <2>1, <3>2 DEF PipeInv, PipesKnown
    <3>4. \A u \in PipeUrbs : cached'[u] # Null => cached'[u].pipe \in 1 .. opened'
      BY <1>2, <2>0 DEF PipeInv, PipesKnown
    <3>5. \A o \in UsbThreads : pipeCall'[o] # Null /\ pipeCall'[o].at \in {"store", "has"} =>
             pipeCall'[o].got \in 1 .. opened'
      BY <1>6, <2>0, <2>3 DEF PipeInv, PipesKnown
    <3> QED BY <3>1, <3>3, <3>4, <3>5 DEF PipesKnown
  <2>5. ASSUME NEW p \in 1 .. opened PROVE \A x : Owns(p, x)' <=> Owns(p, x)
    <3>1. \A w, e : Keeps(p, w, e)' <=> Keeps(p, w, e)
      BY <1>2, <2>1 DEF Keeps
    <3>2. \A u : UrbOwns(p, u)' <=> UrbOwns(p, u)
      BY <1>2 DEF UrbOwns
    <3>3. \A o : CallOwns(p, o)' <=> CallOwns(p, o)
      BY <1>4, <2>0, <2>3 DEF CallOwns
    <3> QED BY <3>1, <3>2, <3>3, OwnersSame
  <2>6. \A x : Owns(q, x)' <=> x = <<"call", t>>
    <3>1. \A w, e : ~Keeps(q, w, e)'
      BY <1>0, <1>1, <1>2, <2>1 DEF Keeps, PipeInv, PipesKnown
    <3>2. \A u : ~UrbOwns(q, u)'
      BY <1>2, <2>0 DEF UrbOwns, PipeInv, PipesKnown
    <3>3. \A o : CallOwns(q, o)' <=> o = t
      <4>1. ASSUME NEW o, o # t PROVE ~CallOwns(q, o)'
        <5> SUFFICES ASSUME CallOwns(q, o)' PROVE FALSE
          OBVIOUS
        <5>1. o \in UsbThreads /\ pipeCall[o] # Null /\ pipeCall[o].got = q
              /\ (pipeCall[o].at = "store" \/ pipeCall[o].own)
          BY <2>3, <4>1 DEF CallOwns
        <5>2. pipeCall[o].at \in {"store", "has"}
          BY <5>1 DEF BindingInv, CallsSound, Sound
        <5> QED BY <2>0, <5>1, <5>2 DEF PipeInv, PipesKnown
      <4> QED BY <2>3, <4>1 DEF CallOwns
    <3> QED BY <3>1, <3>2, <3>3 DEF Owns
  <2>7. OneOwner'
    <3>1. ASSUME NEW p \in 1 .. opened'
          PROVE  /\ \A x, y : Owns(p, x)' /\ Owns(p, y)' => x = y
                 /\ p \in live' \ raced' <=> \E x : Owns(p, x)'
      <4>1. CASE p \in 1 .. opened
        BY <1>2, <1>6, <2>0, <2>5, <4>1 DEF PipeInv, OneOwner
      <4>2. CASE p = q
        <5>1. q \notin raced
          BY <2>0 DEF PipeInv, PipesKnown
        <5>2. \A x : Owns(p, x)' <=> x = <<"call", t>>
          BY <2>6, <4>2
        <5>3. p \in live' \ raced'
          BY <1>2, <1>6, <4>2, <5>1
        <5> QED BY <5>2, <5>3
      <4> QED BY <2>0, <4>1, <4>2
    <3> QED BY <3>1 DEF OneOwner
  <2>8. ASSUME NEW p, NEW u, NEW i, Backed(p, u, i) PROVE Backed(p, u, i)'
    BY <1>2, <2>1, <2>8 DEF Backed, Keeps, UrbOwns
  <2>9. UsesBacked'
    <3>1. ASSUME NEW u \in PipeUrbs, cached'[u] # Null, u \notin untold'
          PROVE  Backed(cached[u].pipe, u, cached[u].intf)'
      BY <1>2, <2>8, <3>1 DEF PipeInv, UsesBacked
    <3>2. ASSUME NEW o \in UsbThreads, pipeCall'[o] # Null, pipeCall'[o].at = "has",
                 ~pipeCall'[o].own
          PROVE  Backed(pipeCall[o].got, pipeCall[o].urb, pipeCall[o].pipe.intf)'
      <4>1. pipeCall'[o] = pipeCall[o]
        BY <2>3, <3>2
      <4>2. Backed(pipeCall[o].got, pipeCall[o].urb, pipeCall[o].pipe.intf)'
            <=> Backed(pipeCall[o].got, pipeCall[o].urb, pipeCall[o].pipe.intf)
        BY <1>2, <2>1, <4>1 DEF Backed, Keeps, UrbOwns
      <4> QED BY <3>2, <4>1, <4>2 DEF PipeInv, UsesBacked
    <3>3. removal' # Null /\ removal'.at = "free" => \A u \in PipeUrbs :
             cached'[u] # Null /\ cached'[u].intf = wrapper'[removal'.w].intf => u \in untold'
      BY <1>2 DEF PipeInv, UsesBacked
    <3> QED BY <3>1, <3>2, <3>3 DEF UsesBacked
  <2> QED BY <2>4, <2>7, <2>9 DEF PipeInv
<1> QED BY <1>1, <1>5, <1>6 DEF OpenPipe

(* The end of a call frees the pipe that is its own.                       *)
LEMMA UsedPipes ==
  ASSUME BindingInv, PipeInv, NEW t \in UsbThreads, PipeUsed(t)
  PROVE  PipeInv'
<1>0. UsbShape
  BY DEF BindingInv
<1>1. PICK c : c = pipeCall[t]
  OBVIOUS
<1>2. /\ c # Null /\ c.at = "has" /\ pipeCall' = [pipeCall EXCEPT ![t] = Null]
      /\ UNCHANGED <<wrapper, opened, raced, untold, removal, cached>>
      /\ live' = IF c.own THEN live \ {c.got} ELSE live
  BY <1>1 DEF PipeUsed, EndCall
<1>3. CASE ~c.own
  <2>1. \A p : ~CallOwns(p, t)
    BY <1>1, <1>2, <1>3 DEF CallOwns
  <2> QED BY <1>2, <1>3, <2>1, QuietCall
<1>4. CASE c.own
  <2>1. /\ UsedWrappers' = UsedWrappers /\ pipeCall'[t] = Null
        /\ \A o \in UsbThreads : o # t => pipeCall'[o] = pipeCall[o]
    BY <1>0, <1>2 DEF UsedWrappers, UsbShape
  <2>2. ASSUME NEW p PROVE \A x : Owns(p, x)' <=> Owns(p, x) /\ x \notin {<<"call", t>>}
    <3>1. \A w, e : Keeps(p, w, e)' <=> Keeps(p, w, e)
      BY <1>2, <2>1 DEF Keeps
    <3>2. \A u : UrbOwns(p, u)' <=> UrbOwns(p, u)
      BY <1>2 DEF UrbOwns
    <3>3. \A o : CallOwns(p, o)' <=> CallOwns(p, o) /\ o # t
      BY <2>1 DEF CallOwns
    <3> QED BY <3>1, <3>2, <3>3 DEF Owns
  <2>3. \A p : Owns(p, <<"call", t>>) <=> p = c.got
    BY <1>1, <1>2, <1>4 DEF Owns, CallOwns
  <2>4. OneOwner' /\ live' \subseteq 1 .. opened /\ raced \subseteq live'
    <3>1. \A p \in 1 .. opened :
             p \in live' <=> p \in live /\ ~\E x \in {<<"call", t>>} : Owns(p, x)
      BY <1>2, <1>4, <2>3
    <3>2. \A p \in 1 .. opened : \A x : Owns(p, x)' <=> Owns(p, x) /\ x \notin {<<"call", t>>}
      BY <2>2
    <3> QED BY <1>2, <3>1, <3>2, OneOwnerDropped DEF PipeInv
  <2>5. PipesKnown'
    BY <1>2, <2>1, <2>4 DEF PipeInv, PipesKnown
  <2>6. ASSUME NEW p, NEW u, NEW i, Backed(p, u, i) PROVE Backed(p, u, i)'
    BY <1>2, <2>1, <2>6 DEF Backed, Keeps, UrbOwns
  <2>7. UsesBacked'
    <3>1. ASSUME NEW u \in PipeUrbs, cached'[u] # Null, u \notin untold'
          PROVE  Backed(cached[u].pipe, u, cached[u].intf)'
      BY <1>2, <2>6, <3>1 DEF PipeInv, UsesBacked
    <3>2. ASSUME NEW o \in UsbThreads, pipeCall'[o] # Null, pipeCall'[o].at = "has",
                 ~pipeCall'[o].own
          PROVE  Backed(pipeCall[o].got, pipeCall[o].urb, pipeCall[o].pipe.intf)'
      <4>1. pipeCall'[o] = pipeCall[o]
        BY <2>1, <3>2
      <4>2. Backed(pipeCall[o].got, pipeCall[o].urb, pipeCall[o].pipe.intf)'
            <=> Backed(pipeCall[o].got, pipeCall[o].urb, pipeCall[o].pipe.intf)
        BY <1>2, <2>1, <4>1 DEF Backed, Keeps, UrbOwns
      <4> QED BY <3>2, <4>1, <4>2 DEF PipeInv, UsesBacked
    <3>3. removal' # Null /\ removal'.at = "free" => \A u \in PipeUrbs :
             cached'[u] # Null /\ cached'[u].intf = wrapper'[removal'.w].intf => u \in untold'
      BY <1>2 DEF PipeInv, UsesBacked
    <3> QED BY <3>1, <3>2, <3>3 DEF UsesBacked
  <2> QED BY <2>4, <2>5, <2>7 DEF PipeInv
<1> QED BY <1>3, <1>4

(* The storing hands the pipe on to the wrapper, to the URB, or to the     *)
(* call for good; what the wrapper had is nobody's from then on.           *)
LEMMA StorePipes ==
  ASSUME BindingInv, PipeInv, NEW t \in UsbThreads, StorePipe(t)
  PROVE  PipeInv'
<1>0. UsbShape /\ opened \in Nat
  BY DEF BindingInv, PipeInv, PipesKnown
<1>1. PICK c, q, old : /\ c = pipeCall[t] /\ q = c.got
                       /\ old = IF c.w # 0 THEN wrapper[c.w].native_pipes[c.ep] ELSE NoPipe
  OBVIOUS
<1>2. /\ c # Null /\ c.at = "store" /\ c \in PipeCalls /\ Sound(t, c)
      /\ UNCHANGED <<opened, live, untold, removal>> /\ UsedWrappers' = UsedWrappers
      /\ \A w \in UsedWrappers :
            /\ wrapper'[w].intf = wrapper[w].intf
            /\ DOMAIN wrapper'[w].native_pipes = DOMAIN wrapper[w].native_pipes
            /\ \A e \in DOMAIN wrapper[w].native_pipes :
                  wrapper'[w].native_pipes[e] =
                     IF w = c.w /\ e = c.ep THEN q ELSE wrapper[w].native_pipes[e]
      /\ \A u \in PipeUrbs : cached'[u] # cached[u] => c.urb # Null /\ u = c.urb
      /\ c.urb # Null => /\ cached[c.urb] = Null /\ cached'[c.urb] # Null
                         /\ cached'[c.urb].pipe = q
                         /\ cached'[c.urb].intf = c.pipe.intf
                         /\ cached'[c.urb].owns <=> c.w = 0
      /\ Turns(t, "has", c.w, c.ep, q, (c.urb = Null /\ c.w = 0))
  BY <1>1, StoreEffect
<1>3. raced' = IF old # NoPipe THEN raced \cup {old} ELSE raced
  <2>1. raced' = IF c.w # 0 /\ wrapper[c.w].native_pipes[c.ep] # NoPipe
                 THEN raced \cup {wrapper[c.w].native_pipes[c.ep]} ELSE raced
    BY <1>1, StoreEffect
  <2> QED BY <1>1, <2>1
<1>4. PICK r : /\ pipeCall'[t] = r /\ r # Null
               /\ r.urb = c.urb /\ r.pipe = c.pipe /\ r.at = "has" /\ r.got = q
               /\ r.own <=> c.urb = Null /\ c.w = 0
  <2>0. PICK own \in BOOLEAN : own = (c.urb = Null /\ c.w = 0)
    OBVIOUS
  <2>1. PICK r : r = Turned(c, "has", c.w, c.ep, q, own)
    OBVIOUS
  <2>2. pipeCall' = [pipeCall EXCEPT ![t] = r]
    BY <1>1, <1>2, <2>0, <2>1 DEF Turns
  <2>3. pipeCall'[t] = r
    BY <1>0, <2>2 DEF UsbShape
  <2>4. r.urb = c.urb /\ r.pipe = c.pipe /\ r.at = "has" /\ r.got = q /\ r.own = own
    BY <1>2, <2>1 DEF PipeCalls, Turned
  <2>5. r \in PipeCalls
    BY <1>1, <1>2, <2>1 DEF PipeCalls, Turned
  <2>6. r # Null
    BY <2>5, NullAssumption
  <2> QED BY <2>0, <2>3, <2>4, <2>6
<1>5. \A o \in UsbThreads : o # t => pipeCall'[o] = pipeCall[o]
  BY <1>0, <1>2 DEF Turns, UsbShape
<1>6. /\ q \in 1 .. opened /\ c.urb \in PipeUrbs \cup {Null} /\ Null \notin PipeUrbs
      /\ c.w # 0 => c.w \in UsedWrappers /\ wrapper[c.w].intf = c.pipe.intf
                    /\ c.ep \in DOMAIN wrapper[c.w].native_pipes
      /\ c.w = 0 => c.w \notin UsedWrappers
  <2>1. \A w \in UsedWrappers : w # 0
    BY <1>0, UsbBindingAssumption DEF UsbShape, UsedWrappers
  <2> QED BY <1>1, <1>2, <2>1, UsbBindingAssumption DEF PipeInv, PipesKnown, PipeCalls, Sound
<1>7. old \in 0 .. opened
  BY <1>0, <1>1, <1>6 DEF PipeInv, PipesKnown, NoPipe
(* Owners before and after.                                                *)
<1>8. \A x : Owns(q, x) <=> x = <<"call", t>>
  <2>1. CallOwns(q, t)
    BY <1>1, <1>2 DEF CallOwns
  <2>2. Owns(q, <<"call", t>>)
    BY <2>1 DEF Owns
  <2> QED BY <1>6, <2>2 DEF PipeInv, OneOwner
<1>9. old # NoPipe => \A x : Owns(old, x) <=> x = <<"wrapper", c.w, c.ep>>
  <2> SUFFICES ASSUME old # NoPipe PROVE \A x : Owns(old, x) <=> x = <<"wrapper", c.w, c.ep>>
    OBVIOUS
  <2>1. Keeps(old, c.w, c.ep)
    BY <1>1, <1>6 DEF Keeps
  <2>2. Owns(old, <<"wrapper", c.w, c.ep>>)
    BY <2>1 DEF Owns
  <2>3. old \in 1 .. opened
    BY <1>0, <1>7 DEF NoPipe
  <2> QED BY <2>2, <2>3 DEF PipeInv, OneOwner
<1>10. old # q /\ (old # NoPipe => old \in 1 .. opened /\ old \in live)
  <2>1. old # q
    <3>1. old # NoPipe => Owns(old, <<"wrapper", c.w, c.ep>>)
      BY <1>9
    <3>2. <<"wrapper", c.w, c.ep>> # <<"call", t>>
      OBVIOUS
    <3> QED BY <1>0, <1>6, <1>8, <3>1, <3>2 DEF NoPipe
  <2>2. old # NoPipe => old \in 1 .. opened
    BY <1>0, <1>7 DEF NoPipe
  <2> QED BY <1>9, <2>1, <2>2 DEF PipeInv, OneOwner
<1>11. \A p, w, e : Keeps(p, w, e)' <=>
          IF c.w # 0 /\ w = c.w /\ e = c.ep THEN p = q ELSE Keeps(p, w, e)
  BY <1>2, <1>6 DEF Keeps
<1>12. \A p, u : UrbOwns(p, u)' <=>
          IF c.w = 0 /\ c.urb # Null /\ u = c.urb THEN p = q ELSE UrbOwns(p, u)
  <2>1. \A p, u : c.urb # Null /\ u = c.urb =>
           ~UrbOwns(p, u) /\ (UrbOwns(p, u)' <=> c.w = 0 /\ p = q)
    BY <1>2, <1>6 DEF UrbOwns
  <2>2. \A p, u : ~(c.urb # Null /\ u = c.urb) => (UrbOwns(p, u)' <=> UrbOwns(p, u))
    BY <1>2 DEF UrbOwns
  <2> QED BY <2>1, <2>2
<1>13. \A p, o : CallOwns(p, o)' <=>
          IF o = t THEN c.w = 0 /\ c.urb = Null /\ p = q ELSE CallOwns(p, o)
  <2>1. \A p : CallOwns(p, t)' <=> c.w = 0 /\ c.urb = Null /\ p = q
    BY <1>4 DEF CallOwns
  <2>2. \A p, o : o # t => (CallOwns(p, o)' <=> CallOwns(p, o))
    BY <1>5 DEF CallOwns
  <2> QED BY <2>1, <2>2
<1>14. PICK y : y = IF c.w # 0 THEN <<"wrapper", c.w, c.ep>>
                    ELSE IF c.urb # Null THEN <<"urb", c.urb>> ELSE <<"call", t>>
  OBVIOUS
<1>15. /\ \A w, e : ~Keeps(q, w, e)
       /\ \A u : ~UrbOwns(q, u)
       /\ \A o : CallOwns(q, o) => o = t
  <2>1. \A w, e : Keeps(q, w, e) => <<"wrapper", w, e>> = <<"call", t>>
    BY <1>8 DEF Owns
  <2>2. \A u : UrbOwns(q, u) => <<"urb", u>> = <<"call", t>>
    BY <1>8 DEF Owns
  <2>3. \A o : CallOwns(q, o) => <<"call", o>> = <<"call", t>>
    BY <1>8 DEF Owns
  <2> QED BY <2>1, <2>2, <2>3
<1>16. \A x : Owns(q, x)' <=> x = y
  <2>1. \A w, e : Keeps(q, w, e)' <=> c.w # 0 /\ w = c.w /\ e = c.ep
    BY <1>11, <1>15
  <2>2. \A u : UrbOwns(q, u)' <=> c.w = 0 /\ c.urb # Null /\ u = c.urb
    BY <1>12, <1>15
  <2>3. \A o : CallOwns(q, o)' <=> c.w = 0 /\ c.urb = Null /\ o = t
    BY <1>13, <1>15
  <2> QED BY <1>14, <2>1, <2>2, <2>3 DEF Owns
<1>17. old # NoPipe => \A x : ~Owns(old, x)'
  <2> SUFFICES ASSUME old # NoPipe PROVE \A x : ~Owns(old, x)'
    OBVIOUS
  <2>1. \A w, e : Keeps(old, w, e) => <<"wrapper", w, e>> = <<"wrapper", c.w, c.ep>>
    BY <1>9 DEF Owns
  <2>2. \A w, e : ~Keeps(old, w, e)'
    BY <1>1, <1>10, <1>11, <2>1
  <2>3. \A u : UrbOwns(old, u) => <<"urb", u>> = <<"wrapper", c.w, c.ep>>
    BY <1>9 DEF Owns
  <2>4. \A u : ~UrbOwns(old, u)'
    BY <1>10, <1>12, <2>3
  <2>5. \A o : CallOwns(old, o) => <<"call", o>> = <<"wrapper", c.w, c.ep>>
    BY <1>9 DEF Owns
  <2>6. \A o : ~CallOwns(old, o)'
    BY <1>10, <1>13, <2>5
  <2> QED BY <2>2, <2>4, <2>6 DEF Owns
<1>18. ASSUME NEW p \in 1 .. opened, p # q, p # old PROVE \A x : Owns(p, x)' <=> Owns(p, x)
  <2>1. c.w # 0 => ~Keeps(p, c.w, c.ep)
    BY <1>1, <1>18 DEF Keeps
  <2>2. \A w, e : Keeps(p, w, e)' <=> Keeps(p, w, e)
    BY <1>11, <1>18, <2>1
  <2>3. c.urb # Null => ~UrbOwns(p, c.urb)
    BY <1>2 DEF UrbOwns
  <2>4. \A u : UrbOwns(p, u)' <=> UrbOwns(p, u)
    BY <1>12, <1>18, <2>3
  <2>5. ~CallOwns(p, t)
    BY <1>1, <1>18 DEF CallOwns
  <2>6. \A o : CallOwns(p, o)' <=> CallOwns(p, o)
    BY <1>13, <1>18, <2>5
  <2> QED BY <2>2, <2>4, <2>6, OwnersSame
<1>19. OneOwner'
  <2>1. ASSUME NEW p \in 1 .. opened
        PROVE  /\ \A x, z : Owns(p, x)' /\ Owns(p, z)' => x = z
               /\ p \in live \ raced' <=> \E x : Owns(p, x)'
    <3>1. CASE p = q
      <4>1. p \in live \ raced
        BY <1>8, <3>1 DEF PipeInv, OneOwner
      <4>2. p \in live \ raced'
        BY <1>3, <1>10, <3>1, <4>1
      <4> QED BY <1>16, <3>1, <4>2
    <3>2. CASE p = old
      <4>1. old # NoPipe
        BY <3>2 DEF NoPipe
      <4> QED BY <1>3, <1>17, <3>2, <4>1
    <3>3. CASE p # q /\ p # old
      BY <1>3, <1>18, <3>3 DEF PipeInv, OneOwner
    <3> QED BY <3>1, <3>2, <3>3
  <2> QED BY <1>2, <2>1 DEF OneOwner
<1>20. PipesKnown'
  <2>1. raced' \subseteq live'
    BY <1>2, <1>3, <1>10 DEF PipeInv, PipesKnown
  <2>2. \A w \in UsedWrappers' : \A e \in DOMAIN wrapper'[w].native_pipes :
           wrapper'[w].native_pipes[e] \in 0 .. opened
    BY <1>0, <1>2, <1>6 DEF PipeInv, PipesKnown
  <2>3. \A u \in PipeUrbs : cached'[u] # Null => cached'[u].pipe \in 1 .. opened
    BY <1>2, <1>6 DEF PipeInv, PipesKnown
  <2>4. \A o \in UsbThreads : pipeCall'[o] # Null /\ pipeCall'[o].at \in {"store", "has"} =>
           pipeCall'[o].got \in 1 .. opened
    BY <1>4, <1>5, <1>6 DEF PipeInv, PipesKnown
  <2> QED BY <1>2, <2>1, <2>2, <2>3, <2>4 DEF PipeInv, PipesKnown
<1>21. ASSUME NEW p \in 1 .. opened, NEW u, NEW i, Backed(p, u, i) PROVE Backed(p, u, i)'
  <2>1. raced \subseteq raced'
    BY <1>3
  <2>2. UrbOwns(p, u) => UrbOwns(p, u)'
    BY <1>2, <1>12 DEF UrbOwns
  <2>3. \A w, e : Keeps(p, w, e) /\ wrapper[w].intf = i =>
           p \in raced' \/ (Keeps(p, w, e)' /\ wrapper'[w].intf = i)
    <3> SUFFICES ASSUME NEW w, NEW e, Keeps(p, w, e), wrapper[w].intf = i
                 PROVE  p \in raced' \/ (Keeps(p, w, e)' /\ wrapper'[w].intf = i)
      OBVIOUS
    <3>1. wrapper'[w].intf = i
      BY <1>2 DEF Keeps
    <3>2. CASE c.w # 0 /\ w = c.w /\ e = c.ep
      <4>1. p = old
        BY <1>1, <3>2 DEF Keeps
      <4>2. p # NoPipe
        BY DEF NoPipe
      <4> QED BY <1>3, <4>1, <4>2
    <3>3. CASE ~(c.w # 0 /\ w = c.w /\ e = c.ep)
      BY <1>11, <3>1, <3>3
    <3> QED BY <3>2, <3>3
  <2> QED BY <1>21, <2>1, <2>2, <2>3, BackedKept
<1>22. Backed(q, c.urb, c.pipe.intf)' \/ (c.w = 0 /\ c.urb = Null)
  <2>1. CASE c.w # 0
    <3>1. Keeps(q, c.w, c.ep)' /\ wrapper'[c.w].intf = c.pipe.intf
      BY <1>2, <1>6, <1>11, <2>1
    <3> QED BY <3>1 DEF Backed
  <2>2. CASE c.w = 0 /\ c.urb # Null
    <3>1. UrbOwns(q, c.urb)'
      BY <1>12, <2>2
    <3> QED BY <3>1 DEF Backed
  <2> QED BY <2>1, <2>2
<1>23. UsesBacked'
  <2>1. ASSUME NEW u \in PipeUrbs, cached'[u] # Null, u \notin untold'
        PROVE  Backed(cached[u].pipe, u, cached[u].intf)'
    <3>1. CASE cached'[u] = cached[u]
      <4>1. PICK p \in 1 .. opened : p = cached[u].pipe
        BY <2>1, <3>1 DEF PipeInv, PipesKnown
      <4>2. PICK i : i = cached[u].intf
        OBVIOUS
      <4>3. Backed(p, u, i)
        BY <1>2, <2>1, <3>1, <4>1, <4>2 DEF PipeInv, UsesBacked
      <4>4. Backed(p, u, i)' /\ p = cached'[u].pipe /\ i = cached'[u].intf
        BY <1>21, <3>1, <4>1, <4>2, <4>3
      <4> QED BY <4>4 DEF Backed
    <3>2. CASE cached'[u] # cached[u]
      <4>1. c.urb # Null /\ u = c.urb /\ cached'[u].pipe = q /\ cached'[u].intf = c.pipe.intf
        BY <1>2, <3>2
      <4>2. Backed(q, u, c.pipe.intf)'
        BY <1>22, <4>1
      <4> QED BY <4>1, <4>2 DEF Backed
    <3> QED BY <3>1, <3>2
  <2>2. ASSUME NEW o \in UsbThreads, pipeCall'[o] # Null, pipeCall'[o].at = "has", ~pipeCall'[o].own
        PROVE  Backed(pipeCall[o].got, pipeCall[o].urb, pipeCall[o].pipe.intf)'
    <3>1. CASE o = t
      <4>1. Backed(q, c.urb, c.pipe.intf)'
        BY <1>4, <1>22, <2>2, <3>1
      <4>2. pipeCall'[o].got = q /\ pipeCall'[o].urb = c.urb /\ pipeCall'[o].pipe = c.pipe
        BY <1>4, <3>1
      <4> QED BY <4>1, <4>2 DEF Backed
    <3>2. CASE o # t
      <4>0. pipeCall'[o] = pipeCall[o]
        BY <1>5, <3>2
      <4>1. PICK p \in 1 .. opened : p = pipeCall[o].got
        BY <2>2, <4>0 DEF PipeInv, PipesKnown
      <4>2. PICK u, i : u = pipeCall[o].urb /\ i = pipeCall[o].pipe.intf
        OBVIOUS
      <4>3. Backed(p, u, i)
        BY <2>2, <4>0, <4>1, <4>2 DEF PipeInv, UsesBacked
      <4>4. /\ Backed(p, u, i)' /\ p = pipeCall'[o].got /\ u = pipeCall'[o].urb
            /\ i = pipeCall'[o].pipe.intf
        BY <1>21, <4>0, <4>1, <4>2, <4>3
      <4> QED BY <4>4 DEF Backed
    <3> QED BY <3>1, <3>2
  <2>3. ASSUME removal' # Null, removal'.at = "free", NEW u \in PipeUrbs,
               cached'[u] # Null, cached'[u].intf = wrapper'[removal'.w].intf
        PROVE  u \in untold'
    <3>1. removal' = removal /\ removal.w \in UsedWrappers
      BY <1>2, <2>3 DEF BindingInv, WrapInv
    <3>2. cached'[u].intf = wrapper[removal.w].intf
      BY <1>2, <2>3, <3>1
    <3>3. cached'[u] = cached[u]
      BY <1>2, <2>3, <3>1, <3>2 DEF Sound
    <3> QED BY <1>2, <2>3, <3>1, <3>2, <3>3 DEF PipeInv, UsesBacked
  <2> QED BY <2>1, <2>2, <2>3 DEF UsesBacked
<1> QED BY <1>19, <1>20, <1>23 DEF PipeInv

(* Together they are inductive.                                            *)
UsbIInv == BindingInv /\ PipeInv

(* There is no pipe at first.                                             *)
LEMMA UsbInitInv == BindingInit => UsbIInv
<1> SUFFICES ASSUME BindingInit PROVE UsbIInv
  OBVIOUS
<1>1. BindingInv
  BY BindingInitially
<1>2. /\ opened = 0 /\ live = {} /\ raced = {} /\ UsedWrappers = {} /\ removal = Null
      /\ \A u \in PipeUrbs : cached[u] = Null
      /\ \A t \in UsbThreads : pipeCall[t] = Null
  BY DEF BindingInit, UsedWrappers
<1>3. PipesKnown
  BY <1>2 DEF PipesKnown
<1>4. OneOwner
  BY <1>2 DEF OneOwner
<1>5. UsesBacked
  BY <1>2 DEF UsesBacked
<1> QED BY <1>1, <1>3, <1>4, <1>5 DEF UsbIInv, PipeInv

(* Every step of the core and of the drivers keeps the invariant.         *)
LEMMA UsbNextInv ==
  ASSUME UsbIInv, [BindingNext]_bindingVars
  PROVE  UsbIInv'
<1>0. BindingInv /\ PipeInv /\ opened \in Nat
  BY DEF UsbIInv, PipeInv, PipesKnown
<1>1. CASE UNCHANGED bindingVars
  <2>1. BindingInv'
    BY <1>0, <1>1 DEF bindingVars, BindingInv, UsbShape, WrapInv, CallsSound, Sound, BoundInv,
                      Sole, Told, UsedWrappers, WrappersOf
  <2>2. PipeInv'
    BY <1>0, <1>1 DEF bindingVars, PipeInv, PipesKnown, OneOwner, UsesBacked, Backed, Owns,
                      Keeps, UrbOwns, CallOwns, UsedWrappers
  <2> QED BY <2>1, <2>2 DEF UsbIInv
<1>2. ASSUME NEW d \in UsbDrivers, RegisterUsb(d) PROVE UsbIInv'
  BY <1>0, <1>2, RegisterStep, PipesQuiet DEF UsbIInv
<1>3. ASSUME NEW s \in DOMAIN binding, DeregisterUsb(s) PROVE UsbIInv'
  BY <1>0, <1>3, DeregisterStep, PipesQuiet DEF UsbIInv
<1>4. ASSUME NEW dev \in UsbDevices, Plug(dev) \/ Unplug(dev) PROVE UsbIInv'
  BY <1>0, <1>4, PlugStep, PipesQuiet DEF UsbIInv
<1>5. ASSUME NEW s \in DOMAIN binding, NEW i \in UsbIntfs, NativeProbe(s, i) PROVE UsbIInv'
  BY <1>0, <1>5, ProbeStep, ProbePipes DEF UsbIInv
<1>6. CASE RemoveNext
  BY <1>0, <1>6, RemoveNextStep, PipesQuiet DEF UsbIInv
<1>7. CASE Disconnect
  BY <1>0, <1>7, DisconnectStep, DisconnectPipes DEF UsbIInv
<1>8. CASE FreeWrapper
  BY <1>0, <1>8, FreeWrapperStep, FreeWrapperPipes DEF UsbIInv
<1>9. ASSUME NEW t \in UsbThreads, DriverStep(t) PROVE UsbIInv'
  <2>1. ASSUME NEW p \in UsbPipes, NEW u \in PipeUrbs \cup {Null}, CallPipe(t, p, u)
        PROVE  UsbIInv'
    BY <1>0, <2>1, CallPipeStep, CallPipePipes DEF UsbIInv
  <2>2. CASE LookForPipe(t)
    BY <1>0, <2>2, LookStep, LookPipes DEF UsbIInv
  <2>3. CASE OpenPipe(t)
    BY <1>0, <2>3, OpenStep, OpenPipes DEF UsbIInv
  <2>4. CASE StorePipe(t)
    BY <1>0, <2>4, StoreStep, StorePipes DEF UsbIInv
  <2>5. CASE PipeUsed(t)
    BY <1>0, <2>5, UsedStep, UsedPipes DEF UsbIInv
  <2> QED BY <1>9, <2>1, <2>2, <2>3, <2>4, <2>5 DEF DriverStep
<1>10. ASSUME NEW u \in PipeUrbs, FreePipeUrb(u) PROVE UsbIInv'
  BY <1>0, <1>10, FreeUrbStep, FreeUrbPipes DEF UsbIInv
<1> QED BY <1>1, <1>2, <1>3, <1>4, <1>5, <1>6, <1>7, <1>8, <1>9, <1>10 DEF BindingNext, CoreStep

(* The invariant holds in every reachable state.                          *)
LEMMA UsbAlways == BindingSpec => []UsbIInv
  BY UsbInitInv, UsbNextInv, PTL DEF BindingSpec

(* usb_deregister forgets a driver without a word, lcompat_usb_native_probe *)
(* takes a wrapper before the driver has said yes, and                     *)
(* lcompat_usb_native_remove guesses the driver from the id tables: these  *)
(* are the only ways in which a device that has gone leaves something.     *)
THEOREM GoneIsForgotten == BindingSpec => []GoneLeavesNothing
<1>1. UsbIInv => GoneLeavesNothing
  <2> SUFFICES ASSUME BindingInv, removal = Null, NEW i \in UsbIntfs, DevOf[i] \notin plugged
               PROVE  /\ \A w \in UsedWrappers : wrapper[w].intf = i => i \in refused
                      /\ \/ holder[i] = Null \/ i \in left
                         \/ \E d \in UsbDrivers : d # holder[i] /\ Matches(d, i)
    BY DEF GoneLeavesNothing, UsbIInv
  <2>1. bound[i] = 0
    BY DEF BindingInv, BoundInv
  <2>2. ~Sole(i)
    BY <2>1 DEF BindingInv, BoundInv, Told
  <2> QED BY <2>1, <2>2 DEF BindingInv, BoundInv, Sole
<1>2. QED BY <1>1, UsbAlways, PTL

(* PipeOwners names a wrapper and not the slot in it.                      *)
LEMMA OwnersCounted ==
  ASSUME NEW p \in 1 .. opened, \A x, y : Owns(p, x) /\ Owns(p, y) => x = y
  PROVE  Cardinality(PipeOwners(p)) = IF \E x : Owns(p, x) THEN 1 ELSE 0
<1>1. \A z : z \in PipeOwners(p) <=>
         \/ \E w, e : Keeps(p, w, e) /\ z = <<"wrapper", w>>
         \/ \E u : UrbOwns(p, u) /\ z = <<"urb", u>>
         \/ \E t : CallOwns(p, t) /\ z = <<"call", t>>
  <2>1. \A w : w \in UsedWrappers /\ p \in WrapperPipes(w) <=> \E e : Keeps(p, w, e)
    BY DEF WrapperPipes, Keeps, NoPipe
  <2>2. \A u : u \in PipeUrbs /\ p \in OwnedBy({u}) <=> UrbOwns(p, u)
    BY DEF OwnedBy, UrbOwns
  <2>3. \A t : CallOwns(p, t) <=>
           t \in UsbThreads /\ pipeCall[t] # Null /\ pipeCall[t].got = p
           /\ (pipeCall[t].at = "store" \/ pipeCall[t].own)
    BY DEF CallOwns
  <2>4. \A z : z \in PipeOwners(p) <=>
           \/ \E w : w \in UsedWrappers /\ p \in WrapperPipes(w) /\ z = <<"wrapper", w>>
           \/ \E u : u \in PipeUrbs /\ p \in OwnedBy({u}) /\ z = <<"urb", u>>
           \/ \E t : CallOwns(p, t) /\ z = <<"call", t>>
    BY <2>3 DEF PipeOwners
  <2> QED BY <2>1, <2>2, <2>4
<1>2. (\E x : Owns(p, x)) <=> \E z : z \in PipeOwners(p)
  <2>1. (\E x : Owns(p, x)) <=>
           (\E w, e : Keeps(p, w, e)) \/ (\E u : UrbOwns(p, u)) \/ (\E t : CallOwns(p, t))
    <3>1. \A w, e : Keeps(p, w, e) => Owns(p, <<"wrapper", w, e>>)
      BY DEF Owns
    <3>2. \A u : UrbOwns(p, u) => Owns(p, <<"urb", u>>)
      BY DEF Owns
    <3>3. \A t : CallOwns(p, t) => Owns(p, <<"call", t>>)
      BY DEF Owns
    <3>4. \A x : Owns(p, x) =>
             (\E w, e : Keeps(p, w, e)) \/ (\E u : UrbOwns(p, u)) \/ (\E t : CallOwns(p, t))
      BY DEF Owns
    <3> QED BY <3>1, <3>2, <3>3, <3>4
  <2>2. (\E z : z \in PipeOwners(p)) <=>
           (\E w, e : Keeps(p, w, e)) \/ (\E u : UrbOwns(p, u)) \/ (\E t : CallOwns(p, t))
    BY <1>1
  <2> QED BY <2>1, <2>2
<1>3. \A y, z \in PipeOwners(p) : y = z
  <2>0. /\ \A w, e : Keeps(p, w, e) => Owns(p, <<"wrapper", w, e>>)
        /\ \A u : UrbOwns(p, u) => Owns(p, <<"urb", u>>)
        /\ \A t : CallOwns(p, t) => Owns(p, <<"call", t>>)
    BY DEF Owns
  <2>1. \A w, e, x, d : Keeps(p, w, e) /\ Keeps(p, x, d) => w = x
    <3>1. \A w, e, x, d : Keeps(p, w, e) /\ Keeps(p, x, d) =>
             <<"wrapper", w, e>> = <<"wrapper", x, d>>
      BY <2>0
    <3> QED BY <3>1
  <2>2. \A u, v : UrbOwns(p, u) /\ UrbOwns(p, v) => u = v
    <3>1. \A u, v : UrbOwns(p, u) /\ UrbOwns(p, v) => <<"urb", u>> = <<"urb", v>>
      BY <2>0
    <3> QED BY <3>1
  <2>3. \A t, o : CallOwns(p, t) /\ CallOwns(p, o) => t = o
    <3>1. \A t, o : CallOwns(p, t) /\ CallOwns(p, o) => <<"call", t>> = <<"call", o>>
      BY <2>0
    <3> QED BY <3>1
  <2>4. \A w, e, u : ~(Keeps(p, w, e) /\ UrbOwns(p, u))
    <3>1. \A w, e, u : Keeps(p, w, e) /\ UrbOwns(p, u) => <<"wrapper", w, e>> = <<"urb", u>>
      BY <2>0
    <3> QED BY <3>1
  <2>5. \A w, e, t : ~(Keeps(p, w, e) /\ CallOwns(p, t))
    <3>1. \A w, e, t : Keeps(p, w, e) /\ CallOwns(p, t) => <<"wrapper", w, e>> = <<"call", t>>
      BY <2>0
    <3> QED BY <3>1
  <2>6. \A u, t : ~(UrbOwns(p, u) /\ CallOwns(p, t))
    <3>1. \A u, t : UrbOwns(p, u) /\ CallOwns(p, t) => <<"urb", u>> = <<"call", t>>
      BY <2>0
    <3> QED BY <3>1
  <2> QED BY <1>1, <2>1, <2>2, <2>3, <2>4, <2>5, <2>6
<1>4. CASE \E x : Owns(p, x)
  <2>1. PICK z : z \in PipeOwners(p)
    BY <1>2, <1>4
  <2>2. PipeOwners(p) = {z}
    BY <1>3, <2>1
  <2> QED BY <1>4, <2>2, FS_Singleton
<1>5. CASE ~\E x : Owns(p, x)
  <2>1. PipeOwners(p) = {}
    BY <1>2, <1>5
  <2> QED BY <1>5, <2>1, FS_EmptySet
<1> QED BY <1>4, <1>5

(* lcompat_usb_get_native_pipe opens without a lock and stores without     *)
(* another look, and wrapper, URB and caller each free what is theirs:     *)
(* no pipe is freed twice, none but the replaced ones is forgotten, and    *)
(* none that is in use is freed, for a driver that was told.               *)
THEOREM PipesFreedOnce == BindingSpec => []PipesAccounted
<1>1. UsbIInv => PipesAccounted
  <2> SUFFICES ASSUME UsbIInv PROVE PipesAccounted
    OBVIOUS
  <2>0. BindingInv /\ PipeInv
    BY DEF UsbIInv
  <2>1. ASSUME NEW p \in 1 .. opened
        PROVE  Cardinality(PipeOwners(p)) = IF p \in live /\ p \notin raced THEN 1 ELSE 0
    <3>1. /\ \A x, y : Owns(p, x) /\ Owns(p, y) => x = y
          /\ p \in live \ raced <=> \E x : Owns(p, x)
      BY <2>0 DEF PipeInv, OneOwner
    <3>2. Cardinality(PipeOwners(p)) = IF \E x : Owns(p, x) THEN 1 ELSE 0
      BY <3>1, OwnersCounted
    <3> QED BY <3>1, <3>2
  <2>2. ASSUME NEW u \in PipeUrbs, cached[u] # Null, u \notin untold
        PROVE  cached[u].pipe \in live
    BY <2>0, <2>2, OwnedIsLive DEF PipeInv, PipesKnown, UsesBacked
  <2>3. ASSUME NEW t \in UsbThreads, pipeCall[t] # Null, pipeCall[t].got # NoPipe
        PROVE  pipeCall[t].got \in live
    <3>1. Sound(t, pipeCall[t]) /\ pipeCall[t].at \in {"look", "open", "store", "has"}
      BY <2>0, <2>3 DEF BindingInv, CallsSound, UsbShape, PipeCalls
    <3>2. pipeCall[t].at \in {"store", "has"} /\ pipeCall[t].got \in 1 .. opened
      BY <2>0, <2>3, <3>1 DEF Sound, PipeInv, PipesKnown
    <3>3. CASE pipeCall[t].at = "store" \/ pipeCall[t].own
      <4>1. CallOwns(pipeCall[t].got, t)
        BY <2>3, <3>3 DEF CallOwns
      <4>2. \E x : Owns(pipeCall[t].got, x)
        BY <4>1 DEF Owns
      <4> QED BY <2>0, <3>2, <4>2, OwnedIsLive
    <3>4. CASE pipeCall[t].at = "has" /\ ~pipeCall[t].own
      BY <2>0, <2>3, <3>2, <3>4, OwnedIsLive DEF PipeInv, UsesBacked
    <3> QED BY <3>2, <3>3, <3>4
  <2> QED BY <2>1, <2>2, <2>3 DEF PipesAccounted
<1>2. QED BY <1>1, UsbAlways, PTL

(***************************************************************************)
(* Kernel threads, for any number of threads, callers and calls.  What     *)
(* kthread_stop frees is not used any more: `exited` is the last thing a   *)
(* thread does, after it has left the list, and nothing is put on the list *)
(* that had been started before.  A wake-up, stop or park is not lost and  *)
(* a park holds: between a look at a flag and the sleep the flag cannot    *)
(* change without a wake-up that is outstanding or under way.              *)
(***************************************************************************)

(* Types of the variables the argument is about.                           *)
Shape ==
    /\ pc \in [Threads \cup Callers -> ThreadPlaces \cup CallPlaces]
    /\ target \in [Callers -> Threads \cup {None}]
    /\ then \in [Callers -> {"idle", "parkWait", "stopWait"}]

(* A thread that kthread_run is creating is on the list, not yet started,  *)
(* and created by one call only.                                           *)
Creating ==
    /\ \A c \in Callers : At(c, "create") =>
          target[c] \in Threads /\ target[c] \in listed /\ At(target[c], "none")
    /\ \A c, d \in Callers :
          At(c, "create") /\ At(d, "create") /\ target[c] = target[d] => c = d

(* The end of a thread: off the list, exited, freed.                       *)
Ending ==
    /\ \A t \in Threads : pc[t] \in {"exit", "done"} => t \notin listed
    /\ exited \subseteq Threads
    /\ \A t \in exited : At(t, "done")
    /\ freed \subseteq exited

LifeInv == Shape /\ Creating /\ Ending

-----------------------------------------------------------------------------
LEMMA LifeInit == Init => LifeInv
BY KthreadAssumption
   DEF Init, LifeInv, Shape, Creating, Ending, At, ThreadPlaces, CallPlaces

(* The steps of kthread_run.                                               *)
LEMMA LifeRun ==
    ASSUME LifeInv, NEW c \in Callers,
           \/ \E t \in Threads : KthreadRun(c, t)
           \/ TaskCreate(c) \/ TaskCreateFails(c) \/ SetTask(c)
    PROVE  LifeInv'
<1> USE KthreadAssumption
    DEF LifeInv, Shape, Creating, Ending, At, Goto, ThreadPlaces, CallPlaces
<1>1. ASSUME NEW t \in Threads, KthreadRun(c, t) PROVE LifeInv'
  BY <1>1 DEF KthreadRun, flagVars, schedVars, histVars
<1>2. CASE TaskCreate(c)
  BY <1>2 DEF TaskCreate, flagVars, lifeVars, callVars
<1>3. CASE TaskCreateFails(c)
  BY <1>3 DEF TaskCreateFails, flagVars
<1>4. CASE SetTask(c)
  BY <1>4 DEF SetTask, flagVars
<1> QED BY <1>1, <1>2, <1>3, <1>4

(* The beginning of every other call.                                      *)
LEMMA LifeBegin ==
    ASSUME LifeInv, NEW c \in Callers, NEW t \in Threads,
           \/ WakeUpProcess(c, t) \/ KthreadPark(c, t)
           \/ KthreadUnpark(c, t) \/ KthreadStop(c, t)
    PROVE  LifeInv'
<1> USE KthreadAssumption
    DEF LifeInv, Shape, Creating, Ending, At, Goto, ThreadPlaces, CallPlaces
<1>1. /\ \E l \in {"setRunning", "clearPark"} : pc' = [pc EXCEPT ![c] = l]
      /\ target' = [target EXCEPT ![c] = t]
      /\ \E l \in {"idle", "parkWait", "stopWait"} : then' = [then EXCEPT ![c] = l]
      /\ UNCHANGED <<listed, exited, freed>>
  BY DEF WakeUpProcess, KthreadPark, KthreadUnpark, KthreadStop, BeginCall,
         flagVars, lifeVars
<1> QED BY <1>1

(* The other steps of a call: only StopReturns frees, and what it frees    *)
(* has exited.                                                             *)
LEMMA LifeCall ==
    ASSUME LifeInv, NEW c \in Callers,
           \/ ClearPark(c) \/ SetRunning(c) \/ Unblock(c)
           \/ ParkReturns(c) \/ StopReturns(c)
    PROVE  LifeInv'
<1> USE KthreadAssumption
    DEF LifeInv, Shape, Creating, Ending, At, Goto, ThreadPlaces, CallPlaces
<1>1. CASE ClearPark(c) \/ SetRunning(c)
  BY <1>1 DEF ClearPark, SetRunning, lifeVars, callVars, flagVars
<1>2. CASE Unblock(c)
  BY <1>2 DEF Unblock, lifeVars, flagVars
<1>3. CASE ParkReturns(c)
  BY <1>3 DEF ParkReturns, lifeVars, flagVars
<1>4. CASE StopReturns(c)
  BY <1>4 DEF StopReturns, flagVars
<1> QED BY <1>1, <1>2, <1>3, <1>4

(* A step of the thread itself: RemoveThread and Exit come in this order.  *)
LEMMA LifeThread ==
    ASSUME LifeInv, NEW t \in Threads, ThreadStep(t)
    PROVE  LifeInv'
<1> USE KthreadAssumption
    DEF LifeInv, Shape, Creating, Ending, At, Goto, ThreadPlaces, CallPlaces
<1>1. CASE RemoveThread(t)
  BY <1>1 DEF RemoveThread, callVars, flagVars
<1>2. CASE Exit(t)
  BY <1>2 DEF Exit, callVars, lifeVars
<1>3. CASE ~RemoveThread(t) /\ ~Exit(t)
  <2>1. /\ pc[t] \notin {"none", "exit", "done"}
        /\ \E l \in ThreadPlaces \ {"none", "exit", "done"} : pc' = [pc EXCEPT ![t] = l]
        /\ UNCHANGED <<listed, exited, freed, target, then>>
    <3>1. CASE Entry(t) \/ KthreadShouldStop(t) \/ FunctionReturns(t) \/ KthreadShouldPark(t)
      BY <3>1 DEF Entry, KthreadShouldStop, FunctionReturns, KthreadShouldPark,
                  flagVars, lifeVars, callVars
    <3>2. CASE SetParked(t) \/ ParkLoop(t) \/ ParkStop(t) \/ ParkSleepy(t)
      BY <3>2 DEF SetParked, ParkLoop, ParkStop, ParkSleepy, flagVars, lifeVars, callVars
    <3>3. CASE ParkBlock(t) \/ ClearParked(t) \/ LeavePark(t)
      BY <3>3 DEF ParkBlock, ClearParked, LeavePark, flagVars, lifeVars, callVars
    <3>4. CASE SetCurrentState(t) \/ TakeWork(t) \/ NoWork(t)
      BY <3>4 DEF SetCurrentState, TakeWork, NoWork, flagVars, lifeVars, callVars
    <3>5. CASE ScheduleState(t) \/ ScheduleStop(t) \/ ScheduleBlock(t) \/ Woken(t)
      BY <3>5 DEF ScheduleState, ScheduleStop, ScheduleBlock, Woken,
                  flagVars, lifeVars, callVars
    <3> QED BY <1>3, <3>1, <3>2, <3>3, <3>4, <3>5 DEF ThreadStep
  <2> QED BY <2>1
<1> QED BY <1>1, <1>2, <1>3

LEMMA LifeStep == LifeInv /\ [Next]_vars => LifeInv'
<1> SUFFICES ASSUME LifeInv, [Next]_vars PROVE LifeInv'
  OBVIOUS
<1>1. CASE UNCHANGED vars
  BY <1>1 DEF vars, flagVars, lifeVars, callVars, LifeInv, Shape, Creating, Ending, At
<1>2. ASSUME NEW c \in Callers, CallStep(c) PROVE LifeInv'
  BY <1>2, LifeRun, LifeCall DEF CallStep
<1>3. ASSUME NEW c \in Callers, NEW t \in Threads,
             \/ KthreadRun(c, t) \/ WakeUpProcess(c, t) \/ KthreadPark(c, t)
             \/ KthreadUnpark(c, t) \/ KthreadStop(c, t)
      PROVE  LifeInv'
  BY <1>3, LifeRun, LifeBegin
<1> QED BY <1>1, <1>2, <1>3, LifeThread DEF Next

(* kthread_stop frees a thread only after its entry function has made the  *)
(* last access to it and current() has stopped finding it.                 *)
THEOREM StopFreesTheDead == Spec => []FreedIsDone
<1>1. LifeInv => FreedIsDone
  BY DEF LifeInv, Ending, FreedIsDone, At
<1> QED BY <1>1, LifeInit, LifeStep, PTL DEF Spec

-----------------------------------------------------------------------------
(* A call that has told thread t to park and has not returned.             *)
Parking(c, t) ==
    target[c] = t /\ then[c] = "parkWait" /\ pc[c] \in {"setRunning", "unblock", "parkWait"}

(* What a call in progress has stored and nobody else takes back: the      *)
(* discipline between callers keeps unpark and stop away from a park.      *)
CallsInv ==
    /\ \A c \in Callers : At(c, "parkWait") => then[c] = "parkWait"
    /\ \A c \in Callers :
          At(c, "clearPark") => target[c] \in shouldStop /\ then[c] = "stopWait"
    /\ \A c \in Callers, t \in Threads : Parking(c, t) => t \in shouldPark \ shouldStop

InLoop == {"parkLoop", "parkStop", "parkSleepy", "parkBlock"}

(* A park has returned and is not undone.  Between its two stores of       *)
(* `parked` a thread that is not to be parked has been let go or told to   *)
(* stop; one that has been let go and is to be parked again is `hasty`.    *)
ParkInv ==
    \A t \in Threads :
        /\ t \in parked <=> pc[t] \in InLoop \cup {"unpark"}
        /\ t \in quiet => t \in shouldPark \ shouldStop
        /\ t \in quiet \ hasty => pc[t] \in InLoop
        /\ t \in shouldPark \ (shouldStop \cup quiet \cup exited) =>
              \E c \in Callers : Parking(c, t)
        /\ t \in returning \cap shouldPark => t \in hasty
        /\ t \notin shouldPark \cup hasty /\ pc[t] \in InLoop \cup {"parkme"} =>
              t \in returning \cup shouldStop
        /\ t \notin hasty /\ At(t, "unpark") => t \in returning \cup shouldStop

(* With no wake-up outstanding and none under way nothing has changed      *)
(* since the thread looked.                                                *)
Calm(t) == t \notin token /\ ~WakerComing(t)

Unstopped == {"poll", "prepare", "check", "schedule", "stopping", "block",
              "parkSleepy", "parkBlock"}
Unparked  == {"prepare", "check", "schedule", "stopping", "block"}
Idle      == {"schedule", "stopping", "block"}
Kept      == {"parkStop", "parkSleepy", "parkBlock"}

WakeInv ==
    \A t \in Threads : Calm(t) =>
        /\ pc[t] \in Unstopped => t \notin shouldStop
        /\ pc[t] \in Unparked => t \notin shouldPark
        /\ pc[t] \in Idle => t \notin work
        /\ pc[t] \in Kept => t \in shouldPark

(* The list holds a thread before its entry function makes it current.     *)
EntryListed == \A t \in Threads : At(t, "entry") => t \in listed

ControlInv == TypeOK /\ EntryListed /\ CallsInv /\ ParkInv /\ WakeInv

-----------------------------------------------------------------------------
LEMMA ControlInit == Init => ControlInv
<1> SUFFICES ASSUME Init PROVE ControlInv
  OBVIOUS
<1>1. TypeOK
  BY KthreadAssumption DEF Init, TypeOK, At, ThreadPlaces, CallPlaces
<1>2. EntryListed /\ CallsInv
  BY KthreadAssumption DEF Init, EntryListed, CallsInv, Parking, At
<1>3. ParkInv
  BY KthreadAssumption DEF Init, ParkInv, InLoop, At
<1>4. WakeInv
  BY KthreadAssumption DEF Init, WakeInv, Unstopped, Unparked, Idle, Kept
<1> QED BY <1>1, <1>2, <1>3, <1>4 DEF ControlInv

(* The steps of kthread_run: nobody uses the thread yet.                   *)
LEMMA ControlRun ==
    ASSUME LifeInv, ControlInv, NEW c \in Callers,
           \/ \E t \in Threads : KthreadRun(c, t)
           \/ TaskCreate(c) \/ TaskCreateFails(c) \/ SetTask(c)
    PROVE  ControlInv'
<1> USE KthreadAssumption
    DEF ControlInv, At, Goto, flagVars, lifeVars, schedVars, callVars, histVars
<1>1. ASSUME NEW t \in Threads, KthreadRun(c, t) PROVE ControlInv'
  <2>1. TypeOK' /\ EntryListed'
    BY <1>1 DEF KthreadRun, TypeOK, EntryListed, Found, ThreadPlaces, CallPlaces
  <2>2. CallsInv'
    BY <1>1 DEF KthreadRun, TypeOK, CallsInv, Parking
  <2>3. ParkInv'
    BY <1>1 DEF KthreadRun, TypeOK, ParkInv, Parking, InLoop
  <2>4. WakeInv'
    BY <1>1 DEF KthreadRun, TypeOK, WakeInv, Calm, WakerComing, Using, Unstopped, Unparked,
                Idle, Kept
  <2> QED BY <2>1, <2>2, <2>3, <2>4
<1>2. CASE TaskCreate(c)
  <2>0. target[c] \in Threads /\ target[c] \in listed /\ pc[target[c]] = "none"
    BY <1>2 DEF TaskCreate, LifeInv, Creating
  <2>1. TypeOK' /\ EntryListed'
    BY <1>2, <2>0 DEF TaskCreate, TypeOK, EntryListed, Found, ThreadPlaces, CallPlaces
  <2>2. CallsInv'
    BY <1>2, <2>0 DEF TaskCreate, TypeOK, CallsInv, Parking
  <2>3. ParkInv'
    BY <1>2, <2>0 DEF TaskCreate, TypeOK, ParkInv, Parking, InLoop
  <2>4. WakeInv'
    BY <1>2, <2>0 DEF TaskCreate, TypeOK, WakeInv, Calm, WakerComing, Using, Unstopped,
                      Unparked, Idle, Kept
  <2> QED BY <2>1, <2>2, <2>3, <2>4
<1>3. CASE TaskCreateFails(c) \/ SetTask(c)
  <2>0. TaskCreateFails(c) => target[c] \in Threads /\ pc[target[c]] = "none"
    BY <1>3 DEF TaskCreateFails, LifeInv, Creating
  <2>1. TypeOK' /\ EntryListed'
    BY <1>3, <2>0 DEF TaskCreateFails, SetTask, TypeOK, EntryListed, Found, ThreadPlaces,
                      CallPlaces
  <2>2. CallsInv'
    BY <1>3 DEF TaskCreateFails, SetTask, TypeOK, CallsInv, Parking
  <2>3. ParkInv'
    BY <1>3 DEF TaskCreateFails, SetTask, TypeOK, ParkInv, Parking, InLoop
  <2>4. WakeInv'
    BY <1>3 DEF TaskCreateFails, SetTask, TypeOK, WakeInv, Calm, WakerComing, Using,
                Unstopped, Unparked, Idle, Kept
  <2> QED BY <2>1, <2>2, <2>3, <2>4
<1> QED BY <1>1, <1>2, <1>3

(* The beginning of every other call: who changes what a thread has to     *)
(* look at is going to wake it.                                            *)
LEMMA ControlBegin ==
    ASSUME LifeInv, ControlInv, NEW c \in Callers, NEW t \in Threads,
           \/ WakeUpProcess(c, t) \/ KthreadPark(c, t)
           \/ KthreadUnpark(c, t) \/ KthreadStop(c, t)
    PROVE  ControlInv'
<1> USE KthreadAssumption
    DEF ControlInv, At, Goto, flagVars, lifeVars, schedVars, callVars, histVars
<1>0. /\ At(c, "idle") /\ t \in ready \ shouldStop /\ target' = [target EXCEPT ![c] = t]
      /\ \E l \in {"setRunning", "clearPark"} : pc' = [pc EXCEPT ![c] = l]
      /\ token' = token /\ exited' = exited /\ parked' = parked
  BY DEF WakeUpProcess, KthreadPark, KthreadUnpark, KthreadStop, BeginCall
<1>1. TypeOK' /\ EntryListed'
  BY DEF WakeUpProcess, KthreadPark, KthreadUnpark, KthreadStop, BeginCall, TypeOK,
         EntryListed, Found, ThreadPlaces, CallPlaces
<1>2. WakeInv'
  <2>1. ASSUME NEW u \in Threads PROVE Calm(u)' => Calm(u) /\ u # t
    BY <1>0, <2>1 DEF TypeOK, Calm, WakerComing, Using
  <2>2. \A u \in Threads \ {t} :
           /\ u \in shouldStop' <=> u \in shouldStop
           /\ u \in shouldPark' <=> u \in shouldPark
           /\ u \in work' <=> u \in work
    BY DEF WakeUpProcess, KthreadPark, KthreadUnpark, KthreadStop
  <2>3. \A u \in Threads : pc'[u] = pc[u]
    BY <1>0 DEF TypeOK
  <2> QED BY <2>1, <2>2, <2>3 DEF WakeInv
<1>3. CASE WakeUpProcess(c, t)
  <2>1. CallsInv'
    BY <1>3 DEF WakeUpProcess, BeginCall, TypeOK, CallsInv, Parking
  <2>2. ParkInv'
    BY <1>3 DEF WakeUpProcess, BeginCall, TypeOK, ParkInv, Parking, InLoop
  <2> QED BY <1>1, <1>2, <2>1, <2>2
<1>4. CASE KthreadPark(c, t)
  <2>1. CallsInv'
    BY <1>4 DEF KthreadPark, BeginCall, TypeOK, CallsInv, Parking
  <2>2. Parking(c, t)'
    BY <1>4 DEF KthreadPark, BeginCall, TypeOK, Parking
  <2>3. \A d \in Callers, u \in Threads : Parking(d, u) => Parking(d, u)'
    BY <1>4 DEF KthreadPark, BeginCall, TypeOK, Parking
  <2>4. ParkInv'
    BY <1>4, <2>2, <2>3 DEF KthreadPark, BeginCall, TypeOK, ParkInv, InLoop
  <2> QED BY <1>1, <1>2, <2>1, <2>4
<1>5. CASE KthreadUnpark(c, t)
  <2>0. \A d \in Callers : ~Parking(d, t)
    BY <1>5 DEF KthreadUnpark, Controlled, Using, Parking
  <2>1. CallsInv'
    BY <1>5, <2>0 DEF KthreadUnpark, BeginCall, TypeOK, CallsInv, Parking
  <2>2. \A d \in Callers, u \in Threads : Parking(d, u) => Parking(d, u)'
    BY <1>5 DEF KthreadUnpark, BeginCall, TypeOK, Parking
  <2>3. t \in quiet \cup exited
    BY <1>5, <2>0 DEF KthreadUnpark, BeginCall, ParkInv
  <2>4. t \in exited => At(t, "done")
    BY DEF LifeInv, Ending
  <2>5. ParkInv'
    BY <1>5, <2>0, <2>2, <2>3, <2>4 DEF KthreadUnpark, BeginCall, TypeOK, ParkInv, InLoop
  <2> QED BY <1>1, <1>2, <2>1, <2>5
<1>6. CASE KthreadStop(c, t)
  <2>0. \A d \in Callers : ~Parking(d, t)
    BY <1>6 DEF KthreadStop, Using, Parking
  <2>1. CallsInv'
    BY <1>6, <2>0 DEF KthreadStop, BeginCall, TypeOK, CallsInv, Parking
  <2>2. \A d \in Callers, u \in Threads : Parking(d, u) => Parking(d, u)'
    BY <1>6 DEF KthreadStop, BeginCall, TypeOK, Parking
  <2>3. ParkInv'
    BY <1>6, <2>0, <2>2 DEF KthreadStop, BeginCall, TypeOK, ParkInv, InLoop
  <2> QED BY <1>1, <1>2, <2>1, <2>3
<1> QED BY <1>3, <1>4, <1>5, <1>6

(* The other steps of a call.  A wake-up ends with the thread's token set; *)
(* a park that finds `parked` finds it of a thread in the loop.            *)
LEMMA ControlCall ==
    ASSUME LifeInv, ControlInv, NEW c \in Callers,
           \/ ClearPark(c) \/ SetRunning(c) \/ Unblock(c)
           \/ ParkReturns(c) \/ StopReturns(c)
    PROVE  ControlInv'
<1> USE KthreadAssumption
    DEF ControlInv, At, Goto, flagVars, lifeVars, schedVars, callVars, histVars
<1>0. target[c] \in Threads
  BY DEF ClearPark, SetRunning, Unblock, ParkReturns, StopReturns, TypeOK
<1>1. CASE ClearPark(c)
  <2>1. TypeOK' /\ EntryListed'
    BY <1>0, <1>1 DEF ClearPark, TypeOK, EntryListed, Found, ThreadPlaces, CallPlaces
  <2>2. CallsInv'
    BY <1>0, <1>1 DEF ClearPark, TypeOK, CallsInv, Parking
  <2>3. ParkInv'
    <3>1. target[c] \in shouldStop
      BY <1>1 DEF ClearPark, CallsInv
    <3>2. \A d \in Callers, u \in Threads : Parking(d, u) => Parking(d, u)'
      BY <1>1 DEF ClearPark, TypeOK, Parking
    <3> QED BY <1>0, <1>1, <3>1, <3>2 DEF ClearPark, TypeOK, ParkInv, InLoop
  <2>4. WakeInv'
    BY <1>0, <1>1 DEF ClearPark, TypeOK, WakeInv, Calm, WakerComing, Using, Unstopped,
                      Unparked, Idle, Kept
  <2> QED BY <2>1, <2>2, <2>3, <2>4
<1>2. CASE SetRunning(c)
  <2>1. TypeOK' /\ EntryListed'
    BY <1>0, <1>2 DEF SetRunning, TypeOK, EntryListed, Found, ThreadPlaces, CallPlaces
  <2>2. CallsInv'
    BY <1>0, <1>2 DEF SetRunning, TypeOK, CallsInv, Parking
  <2>3. ParkInv'
    BY <1>0, <1>2 DEF SetRunning, TypeOK, ParkInv, Parking, InLoop
  <2>4. WakeInv'
    BY <1>0, <1>2 DEF SetRunning, TypeOK, WakeInv, Calm, WakerComing, Using, Unstopped,
                      Unparked, Idle, Kept
  <2> QED BY <2>1, <2>2, <2>3, <2>4
<1>3. CASE Unblock(c)
  <2>1. TypeOK' /\ EntryListed'
    BY <1>0, <1>3 DEF Unblock, TypeOK, EntryListed, Found, ThreadPlaces, CallPlaces
  <2>2. CallsInv'
    BY <1>0, <1>3 DEF Unblock, TypeOK, CallsInv, Parking
  <2>3. ParkInv'
    BY <1>0, <1>3 DEF Unblock, TypeOK, ParkInv, Parking, InLoop
  <2>4. WakeInv'
    BY <1>0, <1>3 DEF Unblock, TypeOK, WakeInv, Calm, WakerComing, Using, Unstopped,
                      Unparked, Idle, Kept
  <2> QED BY <2>1, <2>2, <2>3, <2>4
<1>4. CASE ParkReturns(c)
  <2>1. TypeOK' /\ EntryListed'
    BY <1>0, <1>4 DEF ParkReturns, TypeOK, EntryListed, Found, ThreadPlaces, CallPlaces
  <2>2. CallsInv'
    BY <1>0, <1>4 DEF ParkReturns, TypeOK, CallsInv, Parking
  <2>3. ParkInv'
    <3>1. target[c] \in shouldPark \ shouldStop
      BY <1>0, <1>4 DEF ParkReturns, CallsInv, Parking
    <3>2. target[c] \in parked \ hasty => pc[target[c]] \in InLoop
      BY <1>0, <3>1 DEF ParkInv
    <3>3. \A d \in Callers, u \in Threads : Parking(d, u) /\ u # target[c] => Parking(d, u)'
      BY <1>4 DEF ParkReturns, TypeOK, Parking
    <3> QED BY <1>0, <1>4, <3>1, <3>2, <3>3 DEF ParkReturns, TypeOK, ParkInv, InLoop
  <2>4. WakeInv'
    BY <1>0, <1>4 DEF ParkReturns, TypeOK, WakeInv, Calm, WakerComing, Using, Unstopped,
                      Unparked, Idle, Kept
  <2> QED BY <2>1, <2>2, <2>3, <2>4
<1>5. CASE StopReturns(c)
  <2>1. TypeOK' /\ EntryListed'
    BY <1>0, <1>5 DEF StopReturns, TypeOK, EntryListed, Found, ThreadPlaces, CallPlaces
  <2>2. CallsInv'
    BY <1>0, <1>5 DEF StopReturns, TypeOK, CallsInv, Parking
  <2>3. ParkInv'
    BY <1>0, <1>5 DEF StopReturns, TypeOK, ParkInv, Parking, InLoop
  <2>4. WakeInv'
    BY <1>0, <1>5 DEF StopReturns, TypeOK, WakeInv, Calm, WakerComing, Using, Unstopped,
                      Unparked, Idle, Kept
  <2> QED BY <2>1, <2>2, <2>3, <2>4
<1> QED BY <1>1, <1>2, <1>3, <1>4, <1>5

(* The loop of the thread outside kthread_parkme, up to its end: it goes   *)
(* to sleep only past all of its looks.                                    *)
LEMMA ControlLoop ==
    ASSUME LifeInv, ControlInv, NEW t \in Threads,
           \/ Entry(t) \/ KthreadShouldStop(t) \/ FunctionReturns(t) \/ KthreadShouldPark(t)
           \/ SetCurrentState(t) \/ TakeWork(t) \/ NoWork(t)
           \/ ScheduleState(t) \/ ScheduleStop(t) \/ ScheduleBlock(t) \/ Woken(t)
           \/ RemoveThread(t) \/ Exit(t)
    PROVE  ControlInv'
<1> USE KthreadAssumption
    DEF ControlInv, At, Goto, flagVars, lifeVars, schedVars, callVars, histVars
<1>0. /\ pc[t] \notin InLoop \cup {"none", "parkme", "unpark"}
      /\ \E l \in ThreadPlaces \ (InLoop \cup {"none", "entry", "unpark"}) :
            /\ pc' = [pc EXCEPT ![t] = l]
            /\ l = "parkme" => t \in shouldPark
      /\ UNCHANGED <<shouldStop, shouldPark, parked, target, then, calls, ready, freed>>
      /\ UNCHANGED <<quiet, returning, hasty>>
  <2>1. CASE Entry(t) \/ KthreadShouldStop(t) \/ FunctionReturns(t) \/ KthreadShouldPark(t)
    BY <2>1 DEF Entry, KthreadShouldStop, FunctionReturns, KthreadShouldPark, InLoop,
                ThreadPlaces
  <2>2. CASE SetCurrentState(t) \/ TakeWork(t) \/ NoWork(t) \/ ScheduleState(t)
    BY <2>2 DEF SetCurrentState, TakeWork, NoWork, ScheduleState, InLoop, ThreadPlaces
  <2>3. CASE ScheduleStop(t) \/ ScheduleBlock(t) \/ Woken(t) \/ RemoveThread(t) \/ Exit(t)
    BY <2>3 DEF ScheduleStop, ScheduleBlock, Woken, RemoveThread, Exit, InLoop, ThreadPlaces
  <2> QED BY <2>1, <2>2, <2>3
<1>1. TypeOK' /\ EntryListed'
  <2>1. CASE Entry(t)
    BY <2>1 DEF Entry, TypeOK, EntryListed, Found, ThreadPlaces, CallPlaces
  <2>2. CASE KthreadShouldStop(t) \/ FunctionReturns(t) \/ KthreadShouldPark(t)
    BY <2>2 DEF KthreadShouldStop, FunctionReturns, KthreadShouldPark, TypeOK, EntryListed,
                Found, ThreadPlaces, CallPlaces
  <2>3. CASE SetCurrentState(t) \/ TakeWork(t) \/ NoWork(t) \/ ScheduleState(t)
    BY <2>3 DEF SetCurrentState, TakeWork, NoWork, ScheduleState, TypeOK, EntryListed,
                Found, ThreadPlaces, CallPlaces
  <2>4. CASE ScheduleStop(t) \/ ScheduleBlock(t) \/ Woken(t)
    BY <2>4 DEF ScheduleStop, ScheduleBlock, Woken, TypeOK, EntryListed, Found,
                ThreadPlaces, CallPlaces
  <2>5. CASE RemoveThread(t) \/ Exit(t)
    BY <2>5 DEF RemoveThread, Exit, TypeOK, EntryListed, Found, ThreadPlaces, CallPlaces
  <2> QED BY <2>1, <2>2, <2>3, <2>4, <2>5
<1>2. CallsInv' /\ \A d \in Callers, u \in Threads : Parking(d, u)' <=> Parking(d, u)
  BY <1>0 DEF TypeOK, CallsInv, Parking
<1>3. ParkInv'
  <2>1. exited \subseteq exited'
    BY DEF Entry, KthreadShouldStop, FunctionReturns, KthreadShouldPark, SetCurrentState,
           TakeWork, NoWork, ScheduleState, ScheduleStop, ScheduleBlock, Woken,
           RemoveThread, Exit
  <2> QED BY <1>0, <1>2, <2>1 DEF TypeOK, ParkInv, InLoop
<1>4. WakeInv'
  <2>0. \A u \in Threads : WakerComing(u)' <=> WakerComing(u)
    BY <1>0 DEF TypeOK, WakerComing, Using
  <2>1. CASE Entry(t) \/ FunctionReturns(t) \/ TakeWork(t) \/ Woken(t)
    BY <2>0, <2>1 DEF Entry, FunctionReturns, TakeWork, Woken, TypeOK, WakeInv, Calm,
                      Unstopped, Unparked, Idle, Kept
  <2>2. CASE KthreadShouldStop(t) \/ KthreadShouldPark(t)
    BY <2>0, <2>2 DEF KthreadShouldStop, KthreadShouldPark, TypeOK, WakeInv, Calm, Found,
                      Unstopped, Unparked, Idle, Kept
  <2>3. CASE SetCurrentState(t) \/ NoWork(t)
    BY <2>0, <2>3 DEF SetCurrentState, NoWork, TypeOK, WakeInv, Calm,
                      Unstopped, Unparked, Idle, Kept
  <2>4. CASE ScheduleState(t) \/ ScheduleStop(t)
    BY <2>0, <2>4 DEF ScheduleState, ScheduleStop, TypeOK, WakeInv, Calm,
                      Unstopped, Unparked, Idle, Kept
  <2>5. CASE ScheduleBlock(t) \/ RemoveThread(t) \/ Exit(t)
    BY <2>0, <2>5 DEF ScheduleBlock, RemoveThread, Exit, TypeOK, WakeInv, Calm,
                      Unstopped, Unparked, Idle, Kept
  <2> QED BY <2>1, <2>2, <2>3, <2>4, <2>5
<1> QED BY <1>1, <1>2, <1>3, <1>4

(* kthread_parkme.                                                         *)
LEMMA ControlParkme ==
    ASSUME LifeInv, ControlInv, NEW t \in Threads,
           \/ SetParked(t) \/ ParkLoop(t) \/ ParkStop(t) \/ ParkSleepy(t) \/ ParkBlock(t)
           \/ ClearParked(t) \/ LeavePark(t)
    PROVE  ControlInv'
<1> USE KthreadAssumption
    DEF ControlInv, At, Goto, flagVars, lifeVars, schedVars, callVars, histVars
<1>0. /\ pc' = [pc EXCEPT ![t] = pc'[t]]
      /\ UNCHANGED <<shouldStop, shouldPark, exited, listed, hasTask, work>>
      /\ UNCHANGED <<target, then, quiet, hasty>>
  BY DEF SetParked, ParkLoop, ParkStop, ParkSleepy, ParkBlock, ClearParked, LeavePark, TypeOK
<1>1. TypeOK' /\ EntryListed'
  <2>1. CASE SetParked(t) \/ ParkLoop(t) \/ ParkStop(t)
    BY <2>1 DEF SetParked, ParkLoop, ParkStop, TypeOK, EntryListed, Found,
                ThreadPlaces, CallPlaces
  <2>2. CASE ParkSleepy(t) \/ ParkBlock(t)
    BY <2>2 DEF ParkSleepy, ParkBlock, TypeOK, EntryListed, Found, ThreadPlaces, CallPlaces
  <2>3. CASE ClearParked(t) \/ LeavePark(t)
    BY <2>3 DEF ClearParked, LeavePark, TypeOK, EntryListed, Found, ThreadPlaces, CallPlaces
  <2> QED BY <2>1, <2>2, <2>3
<1>2. CallsInv' /\ \A d \in Callers, u \in Threads : Parking(d, u)' <=> Parking(d, u)
  BY <1>0 DEF TypeOK, CallsInv, Parking
<1>3. ParkInv'
  <2>1. CASE SetParked(t)
    BY <1>2, <2>1 DEF SetParked, TypeOK, ParkInv, InLoop
  <2>2. CASE ParkLoop(t)
    BY <1>2, <2>2 DEF ParkLoop, TypeOK, ParkInv, InLoop
  <2>3. CASE ParkStop(t)
    BY <1>2, <2>3 DEF ParkStop, TypeOK, ParkInv, InLoop
  <2>4. CASE ParkSleepy(t) \/ ParkBlock(t)
    BY <1>2, <2>4 DEF ParkSleepy, ParkBlock, TypeOK, ParkInv, InLoop
  <2>5. CASE ClearParked(t)
    BY <1>2, <2>5 DEF ClearParked, TypeOK, ParkInv, InLoop
  <2>6. CASE LeavePark(t)
    BY <1>2, <2>6 DEF LeavePark, TypeOK, ParkInv, InLoop
  <2> QED BY <2>1, <2>2, <2>3, <2>4, <2>5, <2>6
<1>4. WakeInv'
  <2>0. \A u \in Threads : WakerComing(u)' <=> WakerComing(u)
    BY <1>0 DEF TypeOK, WakerComing, Using
  <2>1. CASE SetParked(t) \/ ParkBlock(t) \/ ClearParked(t) \/ LeavePark(t)
    BY <2>0, <2>1 DEF SetParked, ParkBlock, ClearParked, LeavePark, TypeOK, WakeInv, Calm,
                      Unstopped, Unparked, Idle, Kept
  <2>2. CASE ParkLoop(t) \/ ParkStop(t) \/ ParkSleepy(t)
    BY <2>0, <2>2 DEF ParkLoop, ParkStop, ParkSleepy, TypeOK, WakeInv, Calm,
                      Unstopped, Unparked, Idle, Kept
  <2> QED BY <2>1, <2>2
<1> QED BY <1>1, <1>2, <1>3, <1>4

LEMMA ControlStep == LifeInv /\ ControlInv /\ [Next]_vars => ControlInv'
<1> SUFFICES ASSUME LifeInv, ControlInv, [Next]_vars PROVE ControlInv'
  OBVIOUS
<1>1. CASE UNCHANGED vars
  BY <1>1 DEF vars, flagVars, lifeVars, schedVars, callVars, histVars, ControlInv, TypeOK,
              EntryListed, CallsInv, ParkInv, WakeInv, Parking, Calm, WakerComing, Using,
              Found, At
<1>2. ASSUME NEW c \in Callers, CallStep(c) PROVE ControlInv'
  BY <1>2, ControlRun, ControlCall DEF CallStep
<1>3. ASSUME NEW c \in Callers, NEW t \in Threads,
             \/ KthreadRun(c, t) \/ WakeUpProcess(c, t) \/ KthreadPark(c, t)
             \/ KthreadUnpark(c, t) \/ KthreadStop(c, t)
      PROVE  ControlInv'
  BY <1>3, ControlRun, ControlBegin
<1>4. ASSUME NEW t \in Threads, ThreadStep(t) PROVE ControlInv'
  BY <1>4, ControlLoop, ControlParkme DEF ThreadStep
<1> QED BY <1>1, <1>2, <1>3, <1>4 DEF Next

(* A thread of a driver keeps what it relies on: current() finds it while  *)
(* its function runs, no wake-up is lost between its looks and its sleep,  *)
(* and it stays parked until it is unparked or stopped.                    *)
THEOREM ThreadsControlled == Spec => []KthreadInv
<1>1. ControlInv => KthreadInv
  <2> SUFFICES ASSUME ControlInv PROVE KthreadInv
    OBVIOUS
  <2>1. ParkHolds
    BY DEF ControlInv, TypeOK, ParkHolds, ParkInv, InLoop
  <2>2. NoLostWakeUp
    BY DEF ControlInv, NoLostWakeUp, WakeInv, Calm, Unstopped, Unparked, Idle, Kept, At
  <2> QED BY <2>1, <2>2 DEF ControlInv, KthreadInv
<1>2. Init => LifeInv /\ ControlInv
  BY LifeInit, ControlInit
<1>3. LifeInv /\ ControlInv /\ [Next]_vars => (LifeInv /\ ControlInv)'
  BY LifeStep, ControlStep
<1> QED BY <1>1, <1>2, <1>3, PTL DEF Spec
=============================================================================
