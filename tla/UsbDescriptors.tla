---------------------------- MODULE UsbDescriptors ----------------------------
(***************************************************************************)
(* How src/usb.c reads ids and descriptors.  An id of a driver's table is  *)
(* a function on the fields its match_flags name; an id that names none    *)
(* ends the table.  The bytes behind an interface descriptor are the       *)
(* sequence of its descriptors: `short` marks a length below 2, `cut` one  *)
(* that the end of the configuration cuts off.                             *)
(***************************************************************************)
EXTENDS Naturals, SequencesExt

CONSTANT MaxEndpoints  \* LCOMPAT_MAX_USB_ENDPOINTS

First(S) == IF S = {} THEN 0 ELSE Min(S)

(* The place of the first id that fits, 0 for none.                        *)
MatchOne(ids, fields) ==
    LET Ends(i) == DOMAIN ids[i] = {}
        Fits(i) == \A f \in DOMAIN ids[i] : ids[i][f] = fields[f]
    IN First({i \in DOMAIN ids : Fits(i) /\ \A j \in 1 .. i : ~Ends(j)})

(* What can be read before a short descriptor or the next interface.       *)
Readable(descs) ==
    LET stops == {i \in DOMAIN descs : descs[i].type \in {"interface", "short"}}
    IN IF stops = {} THEN descs ELSE SubSeq(descs, 1, Min(stops) - 1)

IsEndpoint(desc) == desc.type = "endpoint" /\ ~desc.cut

(* The endpoints a wrapper has room for.                                   *)
CollectEndpoints(descs) ==
    LET all == SelectSeq(Readable(descs), IsEndpoint)
    IN SubSeq(all, 1, Min({Len(all), MaxEndpoints}))

(* A pipe that is not of the interrupt type is looked up as bulk.          *)
IsFor(desc, pipe) ==
    desc.addr = pipe.addr /\ desc.xfer = IF pipe.type = "int" THEN "int" ELSE "bulk"

FindEpInIface(descs, pipe) ==
    LET own == Readable(descs)
    IN First({i \in DOMAIN own : IsEndpoint(own[i]) /\ IsFor(own[i], pipe)})

FindWrapperEp(endpoints, pipe) ==
    First({i \in DOMAIN endpoints : IsFor(endpoints[i], pipe)})
=============================================================================
