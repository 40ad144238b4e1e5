---------------------------- MODULE Transports -----------------------------
(***************************************************************************)
(* One transport to one printer, of any of the four kinds of the program:  *)
(*   serial  internal/transport/serial.go                                  *)
(*   rfcomm  internal/platform/linux/rfcomm.go                             *)
(*   gatt    internal/platform/linux/gatt.go                               *)
(*   mock    internal/transport/mock.go                                    *)
(* Write cuts a document into chunks.  Each chunk is written by a          *)
(* goroutine of its own (for gatt by a call of BlueZ), which the caller    *)
(* awaits together with a timer and the context of the worker.  When the   *)
(* caller gives up, the goroutine may hang on, and the device may take     *)
(* bytes from it that nobody counts.                                       *)
(*                                                                         *)
(* The caller's program counter: "idle" outside of Connect and Write,      *)
(* "opening" in Connect, "loop" at the for of Write, "wait" in the select  *)
(* of writeChunk, "delay" between two chunks of gatt.  Two of its waits    *)
(* have no timer, only the context of the worker: "dial", in which         *)
(* ConnectGATT has called Device1.Connect of BlueZ, and "hang", of a mock  *)
(* that simulates a stalled link.  Sizes are in bytes, scaled down.        *)
(***************************************************************************)
EXTENDS Naturals

CONSTANTS
    Size,             \* length of a document
    ChunkSize,        \* largest chunk
    Handles,          \* operating system handles: ports, sockets, connections
    NoHandle,         \* a nil port, socket or connection
    LateGattErrors    \* whether BlueZ may report an error for a value it delivered

ASSUME TransportsAssumption ==
    /\ Size \in Nat \ {0} /\ ChunkSize \in Nat \ {0}
    /\ NoHandle \notin Handles
    /\ LateGattErrors \in BOOLEAN

VARIABLES
    kind,       \* the kind of the worker's transport
    pc,         \* the caller
    port,       \* the field port, socket or connection of the transport
    handle,     \* handle[h]: state of an operating system handle
    cancelled,  \* whether the worker's context is cancelled
    written,    \* bytes that Write has counted
    flight,     \* the goroutine that writes a chunk
    reached,    \* history: bytes of the current document the device has taken
    result      \* answer of the last Write

vars == <<kind, pc, port, handle, cancelled, written, flight, reached, result>>

Kinds == {"serial", "rfcomm", "gatt", "mock"}

\* "orphan": an abandoned open; "late": opened after it was abandoned;
\* "dead": the device is gone or the broker has closed the socket.
HandleStates == {"free", "opening", "open", "dead", "orphan", "late"}

\* st: "running", "answered" to the caller or "lost" to it; want: bytes of the
\* chunk; took: bytes the device has taken; err: whether the write failed.
NoFlight == [st |-> "none", want |-> 0, took |-> 0, err |-> FALSE]
Flights == [st : {"none", "running", "answered", "lost"}, want : 0..Size,
            took : 0..Size, err : BOOLEAN]

-----------------------------------------------------------------------------
(* Connect and Close *)

\* The worker makes a new transport, before every Connect.
NewTransport ==
    /\ pc = "idle" /\ port = NoHandle
    /\ kind' \in Kinds
    /\ UNCHANGED <<pc, port, handle, cancelled, written, flight, reached, result>>

\* Connect on a transport that has no port; with one it returns at once.
ConnectBegin(h) ==
    /\ pc = "idle" /\ port = NoHandle
    /\ handle[h] = "free"
    /\ pc' = IF kind = "gatt" THEN "dial" ELSE "opening"
    /\ handle' = [handle EXCEPT ![h] = "opening"]
    /\ result' = "none"
    /\ UNCHANGED <<kind, port, cancelled, written, flight, reached>>

\* BlueZ reports that the device is connected; the 30 seconds for its services
\* to be resolved begin only now.
DialAnswers ==
    /\ pc = "dial"
    /\ pc' = "opening"
    /\ UNCHANGED <<kind, port, handle, cancelled, written, flight, reached, result>>

\* BlueZ reports an error, or the context is cancelled.
DialFails(h) ==
    /\ pc = "dial" /\ handle[h] = "opening"
    /\ pc' = "idle"
    /\ handle' = [handle EXCEPT ![h] = "free"]
    /\ UNCHANGED <<kind, port, cancelled, written, flight, reached, result>>

\* The endpoint is open.
ConnectOk(h) ==
    /\ pc = "opening" /\ handle[h] = "opening"
    /\ pc' = "idle"
    /\ port' = h
    /\ handle' = [handle EXCEPT ![h] = "open"]
    /\ UNCHANGED <<kind, cancelled, written, flight, reached, result>>

\* The open fails.  The open of serial may also hang: after 30 seconds or a
\* cancellation it is abandoned.
ConnectFail(h) ==
    /\ pc = "opening" /\ handle[h] = "opening"
    /\ pc' = "idle"
    /\ \E s \in {"free"} \cup (IF kind = "serial" THEN {"orphan"} ELSE {}) :
          handle' = [handle EXCEPT ![h] = s]
    /\ UNCHANGED <<kind, port, cancelled, written, flight, reached, result>>

\* An abandoned open returns: with an error, or with a port ...
OrphanOpens(h) ==
    /\ handle[h] = "orphan"
    /\ \E s \in {"free", "late"} : handle' = [handle EXCEPT ![h] = s]
    /\ UNCHANGED <<kind, pc, port, cancelled, written, flight, reached, result>>

\* ... that its goroutine closes.
OrphanCloses(h) ==
    /\ handle[h] = "late"
    /\ handle' = [handle EXCEPT ![h] = "free"]
    /\ UNCHANGED <<kind, pc, port, cancelled, written, flight, reached, result>>

\* Close: idempotent.
ClosePort ==
    /\ port' = NoHandle
    /\ handle' = IF port = NoHandle THEN handle ELSE [handle EXCEPT ![port] = "free"]

\* The worker closes the transport.
Close ==
    /\ pc = "idle" /\ port # NoHandle
    /\ ClosePort
    /\ UNCHANGED <<kind, pc, cancelled, written, flight, reached, result>>

\* The device disappears, or BlueZ asks the profile broker for the socket.
LinkDrops ==
    /\ port # NoHandle /\ handle[port] = "open"
    /\ handle' = [handle EXCEPT ![port] = "dead"]
    /\ UNCHANGED <<kind, pc, port, cancelled, written, flight, reached, result>>

\* The worker is stopped.
CancelContext ==
    /\ ~cancelled
    /\ cancelled' = TRUE
    /\ UNCHANGED <<kind, pc, port, handle, written, flight, reached, result>>

-----------------------------------------------------------------------------
(* Write *)

\* Faulty variant: a timeout counts as a failure like any other.
AmbiguousByBytes(bytes, gaveUp) == bytes > 0

\* The outcome that every Write computes, and WriteError.Ambiguous() reads:
\* bytes were counted, or the caller gave up waiting (ErrWriteTimeout,
\* context.Canceled).
Ambiguous(bytes, gaveUp) == bytes > 0 \/ gaveUp

\* Write returns an error: it has closed the transport.
Fail(bytes, gaveUp) ==
    /\ result' = IF Ambiguous(bytes, gaveUp) THEN "ambiguous" ELSE "not_sent"
    /\ written' = bytes
    /\ pc' = "idle"
    /\ ClosePort

\* Write of the next document.  What an earlier write still has in flight
\* belongs to a document whose fate is settled as uncertain.
WriteBegin ==
    /\ pc = "idle"
    /\ reached' = 0 /\ written' = 0 /\ flight' = NoFlight
    /\ IF port = NoHandle
       THEN pc' = "idle" /\ result' = "not_sent"
       ELSE pc' = "loop" /\ result' = "none"
    /\ UNCHANGED <<kind, port, handle, cancelled>>

ChunkLength == IF Size - written < ChunkSize THEN Size - written ELSE ChunkSize

\* writeChunk starts the goroutine; gatt calls WriteValue.
ChunkBegin ==
    /\ pc = "loop" /\ kind # "mock" /\ written < Size
    /\ flight' = [st |-> "running", want |-> ChunkLength, took |-> 0, err |-> FALSE]
    /\ pc' = "wait"
    /\ UNCHANGED <<kind, port, handle, cancelled, written, reached, result>>

WriteEnd ==
    /\ pc = "loop" /\ kind # "mock" /\ written >= Size
    /\ result' = "ok" /\ pc' = "idle"
    /\ UNCHANGED <<kind, port, handle, cancelled, written, flight, reached>>

\* The device takes bytes from the goroutine: some of them, or for gatt the
\* whole value.  A goroutine the caller gave up on may still get rid of them.
DeviceTakes(n) ==
    /\ \/ flight.st = "running" /\ handle[port] = "open"
       \/ flight.st = "lost"
    /\ n \in 1 .. flight.want - flight.took
    /\ kind = "gatt" => n = flight.want
    /\ flight' = [flight EXCEPT !.took = @ + n]
    /\ reached' = reached + n
    /\ UNCHANGED <<kind, pc, port, handle, cancelled, written, result>>

\* The write returns: an error, or success, which for the operating system may
\* be a short write and for BlueZ means that the value was delivered.
WriteAnswers(err) ==
    /\ flight.st = "running"
    /\ ~err => handle[port] = "open" \/ flight.took = flight.want
    /\ kind = "gatt" /\ ~err => flight.took = flight.want
    /\ kind = "gatt" /\ err => flight.took = 0 \/ LateGattErrors
    /\ flight' = [flight EXCEPT !.st = "answered", !.err = err]
    /\ UNCHANGED <<kind, pc, port, handle, cancelled, written, reached, result>>

\* Faulty variant: the bytes of a failed write are not counted.
BytesCountedIfOk == IF flight.err THEN 0 ELSE flight.took

\* How many bytes of the chunk count as written: what the operating system said,
\* an error or not; BlueZ says nothing about them.
BytesCounted == IF kind = "gatt" /\ flight.err THEN 0 ELSE flight.took

\* The caller receives the answer first.  For gatt the deadline of the call may
\* have passed by now, and a cancelled context is looked at.
ChunkEnd ==
    /\ pc = "wait" /\ flight.st = "answered"
    /\ \/ /\ flight.err \/ flight.took < flight.want
          /\ \E gaveUp \in IF kind = "gatt" THEN {cancelled, TRUE} ELSE {FALSE} :
                Fail(written + BytesCounted, gaveUp)
       \/ /\ ~flight.err /\ flight.took = flight.want
          /\ written' = written + BytesCounted
          /\ pc' = IF kind = "gatt" /\ written' < Size THEN "delay" ELSE "loop"
          /\ UNCHANGED <<port, handle, result>>
    /\ flight' = NoFlight
    /\ UNCHANGED <<kind, cancelled, reached>>

\* The caller gives up on the chunk: it closes the handle and waits two more
\* seconds for the goroutine, which ends by then or is lost.
GiveUp ==
    /\ Fail(written, TRUE)
    /\ \/ flight' = NoFlight
       \/ flight.st = "running" /\ flight' = [flight EXCEPT !.st = "lost"]
    /\ UNCHANGED <<kind, cancelled, reached>>

\* Faulty variant: the timer does not end the wait.
ChunkNeverTimesOut == FALSE

ChunkTimesOut ==
    /\ pc = "wait"
    /\ GiveUp

ChunkCancelled ==
    /\ pc = "wait" /\ cancelled
    /\ GiveUp

\* gatt pauses between two chunks; a cancellation ends the pause.
DelayEnds ==
    /\ pc = "delay"
    /\ pc' = "loop"
    /\ UNCHANGED <<kind, port, handle, cancelled, written, flight, reached, result>>

DelayCancelled ==
    /\ pc = "delay" /\ cancelled
    /\ Fail(written, TRUE)
    /\ UNCHANGED <<kind, cancelled, flight, reached>>

\* The mock accepts the document or fails after n bytes with a scripted error ...
MockWrite ==
    /\ pc = "loop" /\ kind = "mock"
    /\ \/ /\ reached' = Size /\ written' = Size
          /\ result' = "ok" /\ pc' = "idle"
          /\ UNCHANGED <<port, handle>>
       \/ \E n \in 0..Size, scriptedTimeout \in BOOLEAN :
             reached' = n /\ Fail(n, scriptedTimeout)
    /\ UNCHANGED <<kind, cancelled, flight>>

\* ... or hangs (HangOnWrite) until the context is cancelled.
MockHangs ==
    /\ pc = "loop" /\ kind = "mock"
    /\ pc' = "hang"
    /\ UNCHANGED <<kind, port, handle, cancelled, written, flight, reached, result>>

MockCancelled ==
    /\ pc = "hang" /\ cancelled
    /\ Fail(0, TRUE)
    /\ UNCHANGED <<kind, cancelled, flight, reached>>

-----------------------------------------------------------------------------

Init ==
    /\ kind \in Kinds
    /\ pc = "idle" /\ port = NoHandle
    /\ handle = [h \in Handles |-> "free"]
    /\ cancelled = FALSE
    /\ written = 0 /\ flight = NoFlight /\ reached = 0
    /\ result = "none"

\* Steps of Write.
WriteProceeds ==
    \/ ChunkBegin \/ WriteEnd \/ ChunkEnd \/ ChunkTimesOut \/ ChunkCancelled
    \/ DelayEnds \/ DelayCancelled \/ MockWrite \/ MockHangs \/ MockCancelled

\* Steps of the caller's goroutine in a call that nobody else need help with.
CallerStep ==
    \/ \E h \in Handles : ConnectOk(h) \/ ConnectFail(h) \/ (cancelled /\ DialFails(h))
    \/ WriteProceeds

Next ==
    \/ \E h \in Handles :
          ConnectBegin(h) \/ DialFails(h) \/ OrphanOpens(h) \/ OrphanCloses(h)
    \/ DialAnswers
    \/ CallerStep
    \/ NewTransport \/ Close \/ LinkDrops \/ CancelContext \/ WriteBegin
    \/ \E n \in 1..ChunkSize : DeviceTakes(n)
    \/ \E err \in BOOLEAN : WriteAnswers(err)

Spec == Init /\ [][Next]_vars

\* The caller's goroutine runs, and its timers fire; the goroutine of a chunk,
\* BlueZ and the device need not do anything.
FairSpec == Spec /\ WF_vars(CallerStep)

-----------------------------------------------------------------------------
(* Properties *)

\* The variables have their types.
TransportTypeOK ==
    /\ kind \in Kinds
    /\ pc \in {"idle", "dial", "opening", "loop", "wait", "delay", "hang"}
    /\ port \in Handles \cup {NoHandle}
    /\ handle \in [Handles -> HandleStates]
    /\ cancelled \in BOOLEAN
    /\ written \in 0..Size
    /\ flight \in Flights
    /\ reached \in 0..Size
    /\ result \in {"none", "ok", "not_sent", "ambiguous"}

\* Where the bytes of the document are, at each point of the caller.
BytesAddUp ==
    /\ flight.took <= flight.want
    /\ pc \in {"loop", "hang"} => flight = NoFlight /\ reached = written
    /\ pc = "delay" => flight = NoFlight /\ reached = written /\ written > 0
    /\ pc = "wait" =>
          /\ flight.st \in {"running", "answered"}
          /\ reached = written + flight.took
          /\ flight.want > 0 /\ written + flight.want <= Size
          /\ flight.st = "answered" /\ flight.err /\ kind = "gatt" => flight.took = 0
    /\ kind = "mock" => pc \notin {"wait", "delay"} /\ (pc = "loop" => written = 0)
    /\ pc = "hang" => written = 0
    /\ pc \in {"idle", "dial", "opening"} => flight.st \in {"none", "lost"}
    /\ flight.st = "lost" => reached + flight.want - flight.took <= Size

\* A transport in Write has a port; an error leaves none, and whatever the
\* operating system holds open belongs to the transport, or to the goroutine of
\* an abandoned open that is about to close it.
HandlesAccounted ==
    /\ pc \in {"loop", "wait", "delay", "hang"} => port # NoHandle
    /\ pc \in {"dial", "opening"} => port = NoHandle
    /\ result \in {"not_sent", "ambiguous"} => port = NoHandle
    /\ \A h \in Handles :
          /\ handle[h] \in {"open", "dead"} <=> port = h
          /\ handle[h] = "opening" =>
                pc \in {"dial", "opening"} /\ \A g \in Handles : handle[g] = "opening" => g = h

\* The answer of Write agrees with what the device got, also when the caller
\* gave up and the bytes arrive later: success means all of the document, an
\* unambiguous error means nothing of it, now or later.
AnswerIsTrue ==
    /\ pc # "idle" => result = "none"
    /\ result = "ok" => reached = Size /\ flight.st = "none"
    /\ result = "not_sent" => reached = 0 /\ flight.st = "none"

TransportInv == TransportTypeOK /\ BytesAddUp /\ HandlesAccounted /\ AnswerIsTrue

\* The contract's view of the current document.
Writing == pc \in {"loop", "wait", "delay", "hang"}
Phase == IF Writing THEN "writing" ELSE IF result = "none" THEN "idle" ELSE result
Sent == (Writing \/ result # "none") /\ reached > 0

Contract == INSTANCE WriteContract WITH phase <- Phase, sent <- Sent

\* Each kind of transport implements the contract the worker relies on.
KeepsContract == Contract!Spec

\* Connect and Write return whatever the device does; where they wait without a
\* timer, for Device1.Connect of BlueZ and in the mock, they return once the
\* context is cancelled.
CallsReturn ==
    pc # "idle" ~> (pc = "idle" \/ (pc \in {"dial", "hang"} /\ ~cancelled))
=============================================================================
