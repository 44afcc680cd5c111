------------------------------ MODULE UsbBuffers ------------------------------
(***************************************************************************)
(* The bytes of one URB of src/usb.c: a plain buffer or a scatterlist,     *)
(* whose bytes pass through state->sg_buffer.  That buffer is kept from    *)
(* one submission to the next and only ever grows.  A byte is named by the *)
(* place a driver wrote it to, <<fragment, offset>>, or by <<0, place>> in *)
(* what the device sent; addresses and the native transfer are left out.   *)
(***************************************************************************)
EXTENDS Integers, SequencesExt

CONSTANTS FragLists, \* scatterlists, sequences of lengths; <<>>: none
          TransferLengths, \* values of transfer_buffer_length
          MaxUses    \* bound on the submissions of the URB

ASSUME UsbBuffersAssumption ==
    /\ FragLists \subseteq Seq(Nat)
    /\ TransferLengths \subseteq Int
    /\ MaxUses \in Nat

VARIABLES
    frags,    \* [fragment -> length] of urb->sg
    tlen,     \* transfer_buffer_length
    dirIn,    \* direction of the pipe
    sgbuf,    \* bytes of sg_buffer; its length is sg_buffer_len
    ustate,   \* "idle", "filled", "submitted" or "done"
    slen,     \* submitted_length
    wire,     \* bytes the native core was given (OUT)
    answer,   \* [status, actual_length, bytes the driver finds] of the URB
    uses,     \* submissions left
    sync      \* the last synchronous call: [native, actual, result, length]

bufferVars == <<frags, tlen, dirIn, sgbuf, ustate, slen, wire, answer, uses, sync>>

Lesser(a, b) == IF a < b THEN a ELSE b
IsSg == frags # <<>>
NoBytes == <<>>
NoAnswer == [status |-> 0, actual |-> 0, bytes |-> <<>>]
NoSync == [native |-> "success", actual |-> 0, result |-> 0, length |-> 0]
Fresh == <<0, 0>>   \* a byte nobody has written

FragBytes(k) == [j \in 1 .. frags[k] |-> <<k, j>>]
SumOf(lengths) == FoldLeft(LAMBDA n, f : n + f, 0, lengths)
Total == SumOf(frags)
UrbBytes == FlattenSeq([k \in DOMAIN frags |-> FragBytes(k)])

(* lcompat_usb_urb_data_len; a negative answer is an error.                *)
DataLen ==
    IF ~IsSg THEN tlen
    ELSE IF tlen <= 0 THEN Total
    ELSE IF tlen > Total THEN -22 ELSE tlen

(* krealloc keeps the old bytes.                                           *)
Grown(len) ==
    IF len <= Len(sgbuf) THEN sgbuf
    ELSE sgbuf \o [j \in 1 .. (len - Len(sgbuf)) |-> Fresh]

(* memcpy of a prefix.                                                     *)
Over(bytes, buf) == bytes \o SubSeq(buf, Len(bytes) + 1, Len(buf))

(* Mutant: every fragment is copied from the start of the buffer.          *)
PiecesRestart(len) == [k \in DOMAIN frags |-> <<Lesser(frags[k], len), 0>>]

(* lcompat_usb_sg_copy_from_urb and lcompat_usb_sg_copy_to_urb take        *)
(* min(fragment, rest) of each fragment in turn: <<taken, copied before>>. *)
Pieces(len) ==
    LET Before(k) == SumOf(SubSeq(frags, 1, k - 1))
    IN [k \in DOMAIN frags |->
          IF Before(k) >= len THEN <<0, len>> ELSE <<Lesser(frags[k], len - Before(k)), Before(k)>>]

SgCopyFrom(len) ==
    FlattenSeq([k \in DOMAIN frags |-> SubSeq(FragBytes(k), 1, Pieces(len)[k][1])])

SgCopyTo(buf, len) ==
    [k \in DOMAIN frags |->
        LET p == Pieces(len)[k]
        IN Over(SubSeq(buf, p[2] + 1, p[2] + p[1]), FragBytes(k))]

-----------------------------------------------------------------------------
(* The driver fills an URB that is not in use.                             *)
FillUrb(fs, n, in) ==
    /\ ustate = "idle"
    /\ frags' = fs /\ tlen' = n /\ dirIn' = in
    /\ ustate' = "filled"
    /\ wire' = NoBytes /\ answer' = NoAnswer /\ sync' = NoSync
    /\ UNCHANGED <<sgbuf, slen, uses>>

(* lcompat_usb_submit_native_urb: what the device is given.                *)
SubmitNativeUrb(buf, len) ==
    wire' = IF dirIn THEN NoBytes
            ELSE IF IsSg THEN SubSeq(buf, 1, len) ELSE [j \in 1 .. len |-> <<1, j>>]

(* lcompat_usb_prepare_urb_buffer and the submission to the native core,   *)
(* which may refuse the URB after its buffer was prepared.                 *)
SubmitBuffer ==
    LET len == DataLen
        buf == IF dirIn THEN Grown(len) ELSE Over(SgCopyFrom(len), Grown(len))
    IN
    /\ ustate = "filled" /\ uses > 0
    /\ uses' = uses - 1
    /\ \/ /\ len < 0 \/ (IsSg /\ len > Len(sgbuf))  \* refused, or krealloc fails
          /\ ustate' = "idle"
          /\ slen' = IF len < 0 THEN slen ELSE len
          /\ UNCHANGED <<sgbuf, wire>>
       \/ /\ len >= 0
          /\ slen' = len
          /\ sgbuf' = IF IsSg THEN buf ELSE sgbuf
          /\ \/ ustate' = "submitted" /\ SubmitNativeUrb(buf, len)
             \/ ustate' = "idle" /\ UNCHANGED wire
    /\ UNCHANGED <<frags, tlen, dirIn, answer, sync>>

(* lcompat_usb_urb_status: what the native events become.                  *)
UrbStatus(event) ==
    CASE event \in {"success", "short"} -> 0
      [] event = "stall"   -> -32
      [] event = "babble"  -> -75
      [] event = "timeout" -> -110
      [] event = "error"   -> -71
      [] OTHER -> -5

NativeEvents == {"success", "short", "stall", "babble", "timeout", "error", "other"}

(* A length above what was submitted is cut and reported.                  *)
Clamped(status, n) ==
    IF status = 0 /\ n > slen THEN <<-75, slen>> ELSE <<status, n>>

(* lcompat_usb_urb_complete; the device wrote n bytes, or reports them.    *)
CompleteBuffer(event, n) ==
    LET r == Clamped(UrbStatus(event), n)
        wrote == [j \in 1 .. Lesser(n, slen) |-> <<0, j>>]
        buf == IF dirIn /\ IsSg THEN Over(wrote, sgbuf) ELSE sgbuf
        copied == r[1] = 0 /\ dirIn /\ r[2] > 0
    IN
    /\ ustate = "submitted"
    /\ n <= slen + 1
    /\ ustate' = "done"
    /\ sgbuf' = buf
    /\ answer' = [status |-> IF copied /\ IsSg /\ Total < r[2] THEN -22 ELSE r[1],
                  actual |-> r[2],
                  bytes |-> IF ~IsSg THEN IF dirIn THEN <<wrote>> ELSE <<>>
                            ELSE IF copied THEN SgCopyTo(buf, r[2])
                            ELSE [k \in DOMAIN frags |-> FragBytes(k)]]
    /\ UNCHANGED <<frags, tlen, dirIn, slen, wire, uses, sync>>

(* The driver has read the result; the URB can be filled once more.        *)
Reuse ==
    /\ ustate = "done"
    /\ ustate' = "idle"
    /\ frags' = <<>> /\ tlen' = 0 /\ dirIn' = FALSE /\ wire' = NoBytes /\ answer' = NoAnswer
    /\ UNCHANGED <<sgbuf, slen, uses, sync>>

-----------------------------------------------------------------------------
(* lcompat_usb_sync_retlen, which is only asked about failures; a code     *)
(* above -5 is the native core's own and becomes EIO.                      *)
SyncRetlen(native) ==
    CASE native = "babble"  -> -75
      [] native = "timeout" -> -110
      [] native = "error"   -> -71
      [] native = "errno"   -> -22
      [] OTHER -> -5

(* lcompat_usb_sync_xfer: the actual length is the native core's.          *)
SyncXfer(native, n) == IF native # "success" THEN SyncRetlen(native) ELSE n

(* usb_control_msg returns the length, usb_bulk_msg stores it.             *)
ControlMsg(native, n) ==
    /\ sync' = [native |-> native, actual |-> n, result |-> SyncXfer(native, n), length |-> 0]
    /\ UNCHANGED <<frags, tlen, dirIn, sgbuf, ustate, slen, wire, answer, uses>>

BulkMsg(native, n) ==
    LET ret == SyncXfer(native, n) IN
    /\ sync' = [native |-> native, actual |-> n, result |-> Lesser(ret, 0),
                length |-> IF ret < 0 THEN 0 ELSE ret]
    /\ UNCHANGED <<frags, tlen, dirIn, sgbuf, ustate, slen, wire, answer, uses>>

-----------------------------------------------------------------------------
BuffersInit ==
    /\ frags = <<>> /\ tlen = 0 /\ dirIn = FALSE
    /\ sgbuf = <<>> /\ ustate = "idle" /\ slen = 0 /\ wire = NoBytes
    /\ answer = NoAnswer /\ sync = NoSync
    /\ uses = MaxUses

BuffersNext ==
    \/ \E fs \in FragLists, n \in TransferLengths, in \in BOOLEAN : FillUrb(fs, n, in)
    \/ SubmitBuffer \/ Reuse
    \/ \E event \in NativeEvents, n \in 0 .. slen + 1 : CompleteBuffer(event, n)
    \/ /\ ustate = "idle" /\ uses = MaxUses
       /\ \E native \in {"success", "babble", "timeout", "error", "errno", "other"}, n \in 0 .. 1 :
             ControlMsg(native, n) \/ BulkMsg(native, n)

BuffersSpec == BuffersInit /\ [][BuffersNext]_bufferVars

-----------------------------------------------------------------------------
FirstBytes(n) == [j \in 1 .. n |-> <<0, j>>]

(* However the shape and length of an URB change between submissions, the  *)
(* device is given the driver's bytes in their order, no more and no less; *)
(* a transfer that is reported as complete has put the device's bytes in   *)
(* their places and left the others alone, and its length is not above     *)
(* what was submitted (usb.c:387); one that is reported as failed, for     *)
(* being longer too, has left a scatterlist alone.  The length of a failed *)
(* transfer is the host's and may be any.                                  *)
BytesArrive ==
    /\ ustate = "submitted" /\ ~dirIn =>
          wire = IF IsSg THEN SubSeq(UrbBytes, 1, slen) ELSE [j \in 1 .. slen |-> <<1, j>>]
    /\ ustate = "submitted" /\ IsSg => Len(sgbuf) >= slen
    /\ ustate = "done" /\ answer.status = 0 =>
          /\ answer.actual <= slen
          /\ dirIn => FlattenSeq(answer.bytes) =
                IF IsSg THEN Over(FirstBytes(answer.actual), UrbBytes)
                ELSE FirstBytes(answer.actual)
    /\ ustate = "done" /\ answer.status # 0 /\ IsSg => FlattenSeq(answer.bytes) = UrbBytes
    /\ sync.native # "success" => sync.result < 0 /\ sync.length = 0
=============================================================================
