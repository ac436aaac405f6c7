------------------------------ MODULE UsbStream ------------------------------
(***************************************************************************)
(* Read and Close of the USB transport (internal/transport/usb/usb_cgo.go) *)
(* against the AT library's reader, which calls Read until it fails.  A    *)
(* transfer fills the staging buffer with a packet, and pending, a slice   *)
(* of that buffer, is handed out in pieces.  The modem's bytes are the     *)
(* numbers 1, 2, 3, ...                                                    *)
(***************************************************************************)
EXTENDS Integers, Sequences

CONSTANTS
  StageSize,  \* stageBufferSize
  BufSize,    \* the largest len(p) of the reader
  MaxBytes    \* bound: bytes the modem sends

ASSUME StreamAssumption ==
  StageSize \in Nat \ {0} /\ BufSize \in Nat \ {0} /\ MaxBytes \in Nat

VARIABLES
  cancelled,  \* rctx is cancelled: Close has begun
  unplugged,  \* the device is gone
  faulted,    \* history: a transfer failed while the device was there
  stage,      \* t.stage
  lo, hi,     \* t.pending is stage[lo + 1 .. hi]
  reader,     \* where the reader is; "eof" and "error" are Read's failures
  received,   \* bytes transferred so far
  delivered   \* history: what Read has returned

streamVars == <<cancelled, unplugged, faulted, stage, lo, hi, reader, received,
                delivered>>

Least(a, b) == IF a < b THEN a ELSE b

StreamInit ==
  /\ cancelled = FALSE /\ unplugged = FALSE /\ faulted = FALSE
  /\ stage = [i \in 1..StageSize |-> 0]
  /\ lo = 0 /\ hi = 0
  /\ reader = "idle"
  /\ received = 0 /\ delivered = <<>>

\* Mutation: every Read asks the device.
ReadAlwaysTransfers ==
  /\ reader = "idle"
  /\ reader' = "check"
  /\ UNCHANGED <<cancelled, unplugged, faulted, stage, lo, hi, received, delivered>>

\* Read is called.
Read ==
  /\ reader = "idle"
  /\ reader' = IF lo = hi THEN "check" ELSE "copy"
  /\ UNCHANGED <<cancelled, unplugged, faulted, stage, lo, hi, received, delivered>>

Check ==
  /\ reader = "check"
  /\ reader' = IF cancelled THEN "eof" ELSE "transfer"
  /\ UNCHANGED <<cancelled, unplugged, faulted, stage, lo, hi, received, delivered>>

\* ReadContext returns bytes, perhaps together with an error that is ignored.
TransferData ==
  /\ reader = "transfer"
  /\ \E n \in 1..Least(StageSize, MaxBytes - received) :
       /\ stage' = [i \in 1..StageSize |-> IF i <= n THEN received + i ELSE stage[i]]
       /\ lo' = 0 /\ hi' = n
       /\ received' = received + n
  /\ reader' = "copy"
  /\ UNCHANGED <<cancelled, unplugged, faulted, delivered>>

\* A packet of length zero.
TransferEmpty ==
  /\ reader = "transfer" /\ ~unplugged
  /\ reader' = "check"
  /\ UNCHANGED <<cancelled, unplugged, faulted, stage, lo, hi, received, delivered>>

\* Mutation: the transfer does not watch rctx.
TransferIgnoresClose ==
  /\ reader = "transfer" /\ unplugged
  /\ reader' = "judge"
  /\ UNCHANGED <<cancelled, unplugged, faulted, stage, lo, hi, received, delivered>>

\* The transfer is ended by Close, or because the device is gone.
TransferFails ==
  /\ reader = "transfer" /\ (cancelled \/ unplugged)
  /\ reader' = "judge"
  /\ UNCHANGED <<cancelled, unplugged, faulted, stage, lo, hi, received, delivered>>

\* The transfer fails for a reason of its own: a stall, a bus error.
TransferFaults ==
  /\ reader = "transfer" /\ ~unplugged
  /\ reader' = "judge"
  /\ faulted' = TRUE
  /\ UNCHANGED <<cancelled, unplugged, stage, lo, hi, received, delivered>>

\* Mutation: the transfer's error is returned as it is.
JudgeNothing ==
  /\ reader = "judge"
  /\ reader' = "error"
  /\ UNCHANGED <<cancelled, unplugged, faulted, stage, lo, hi, received, delivered>>

Judge ==
  /\ reader = "judge"
  /\ reader' = IF cancelled THEN "eof" ELSE "error"
  /\ UNCHANGED <<cancelled, unplugged, faulted, stage, lo, hi, received, delivered>>

\* Mutation: the rest of the packet is forgotten.
CopyOnce ==
  /\ reader = "copy"
  /\ \E len \in 1..BufSize :
       LET n == Least(len, hi - lo)
       IN  delivered' = delivered \o [i \in 1..n |-> stage[lo + i]]
  /\ lo' = hi
  /\ reader' = "idle"
  /\ UNCHANGED <<cancelled, unplugged, faulted, stage, hi, received>>

\* Read copies to a buffer of some length and returns.
Copy ==
  /\ reader = "copy"
  /\ \E len \in 1..BufSize :
       LET n == Least(len, hi - lo)
       IN  /\ delivered' = delivered \o [i \in 1..n |-> stage[lo + i]]
           /\ lo' = lo + n
  /\ reader' = "idle"
  /\ UNCHANGED <<cancelled, unplugged, faulted, stage, hi, received>>

\* Close cancels rctx first; module UsbLink models the rest of it.
CloseStream ==
  /\ ~cancelled
  /\ cancelled' = TRUE
  /\ UNCHANGED <<unplugged, faulted, stage, lo, hi, reader, received, delivered>>

Unplug ==
  /\ ~unplugged
  /\ unplugged' = TRUE
  /\ UNCHANGED <<cancelled, faulted, stage, lo, hi, reader, received, delivered>>

Failed == reader \in {"eof", "error"} /\ UNCHANGED streamVars

Reader == Read \/ Check \/ Judge \/ Copy
StreamNext == \/ Reader \/ TransferData \/ TransferEmpty \/ TransferFails
              \/ TransferFaults \/ CloseStream \/ Unplug \/ Failed
StreamSpec == StreamInit /\ [][StreamNext]_streamVars
\* The reader runs, and libusb ends the transfer of a cancelled context or of
\* a device that is gone.  The modem need not send anything.
FairStreamSpec == StreamSpec /\ WF_streamVars(Reader) /\ WF_streamVars(TransferFails)

-----------------------------------------------------------------------------
(* Properties.                                                             *)

\* Every variable has its type, and pending is a slice of the stage.
StreamTypeOK ==
  /\ cancelled \in BOOLEAN /\ unplugged \in BOOLEAN /\ faulted \in BOOLEAN
  /\ stage \in [1..StageSize -> Nat]
  /\ hi \in 0..StageSize /\ lo \in 0..hi
  /\ reader \in {"idle", "check", "transfer", "judge", "copy", "eof", "error"}
  /\ received \in 0..MaxBytes
  /\ delivered \in Seq(Nat)

\* The reader gets the modem's bytes once each and in order, however packets
\* and buffers cut them, and what it has not got yet is pending.
StreamIntact ==
  /\ \A i \in 1..Len(delivered) : delivered[i] = i
  /\ Len(delivered) + (hi - lo) = received

\* Closing the link never shows as an error of the modem: an error means that
\* the device is gone or that a transfer failed by itself.  End of file comes
\* only after Close and after every byte that was received.
FailureIsTrue ==
  /\ reader = "error" => unplugged \/ faulted
  /\ reader = "eof" => cancelled /\ Len(delivered) = received

\* A reader that waits for a silent modem is let go when the link is closed.
ReaderReleased == cancelled ~> (reader \in {"eof", "error"})
=============================================================================
