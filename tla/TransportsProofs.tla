-------------------------- MODULE TransportsProofs --------------------------
(***************************************************************************)
(* Proofs about module Transports, for documents, chunks and sets of       *)
(* handles of any size.                                                    *)
(*                                                                         *)
(* TransportInv is inductive as it stands: the bytes that reached the      *)
(* device are those counted plus those of the chunk under way (BytesAddUp),*)
(* no handle is open that the transport does not hold (HandlesAccounted),  *)
(* and an answer of Write agrees with the bytes (AnswerIsTrue).  There is  *)
(* one lemma per action.  The second part shows that a transport           *)
(* implements module WriteContract, which is all the worker relies on.     *)
(*                                                                         *)
(* Both theorems assume ~LateGattErrors: that BlueZ reports no error for a *)
(* value that it has delivered.  gatt.go counts such a value as not sent,  *)
(* and the contract does not hold without the assumption.                  *)
(***************************************************************************)
EXTENDS Transports, TLAPS

-----------------------------------------------------------------------------
(* TransportInv holds initially, and each action keeps it *)

\* A new transport, with no handle open and nothing written, satisfies the invariant.
LEMMA InitTransport == Init => TransportInv
<1>. SUFFICES ASSUME Init PROVE TransportInv
  OBVIOUS
<1>. USE TransportsAssumption DEF Init
<1>1. flight \in Flights
  BY DEF NoFlight, Flights
<1>2. TransportTypeOK
  <2>1. handle \in [Handles -> HandleStates] /\ cancelled \in BOOLEAN
    BY DEF HandleStates
  <2>2. kind \in Kinds /\ port \in Handles \cup {NoHandle}
    OBVIOUS
  <2>3. written \in 0..Size /\ reached \in 0..Size
    OBVIOUS
  <2>4. QED
    BY <1>1, <2>1, <2>2, <2>3 DEF TransportTypeOK
<1>3. BytesAddUp
  BY DEF BytesAddUp, NoFlight
<1>4. HandlesAccounted /\ AnswerIsTrue
  BY DEF HandlesAccounted, AnswerIsTrue
<1>5. QED
  BY <1>2, <1>3, <1>4 DEF TransportInv

\* The next connection starts with a fresh transport only when none is in use.
LEMMA NewTransportKeeps ==
    ASSUME TransportInv, NewTransport, ~LateGattErrors
    PROVE  TransportInv'
<1>. USE TransportsAssumption DEF TransportInv, NewTransport
<1>1. TransportTypeOK'
  BY DEF TransportTypeOK, BytesAddUp, HandlesAccounted, AnswerIsTrue, NoFlight, Flights,
     HandleStates, Kinds
<1>2. BytesAddUp'
  BY DEF TransportTypeOK, BytesAddUp, HandlesAccounted, NoFlight, Flights
<1>3. HandlesAccounted'
  BY DEF TransportTypeOK, HandlesAccounted, AnswerIsTrue, HandleStates
<1>4. AnswerIsTrue'
  BY DEF TransportTypeOK, BytesAddUp, AnswerIsTrue, NoFlight, Flights
<1>5. QED
  BY <1>1, <1>2, <1>3, <1>4

\* Connect takes a free handle and owns it while it opens.
LEMMA ConnectBeginKeeps ==
    ASSUME TransportInv, NEW h \in Handles, ConnectBegin(h), ~LateGattErrors
    PROVE  TransportInv'
<1>. USE TransportsAssumption DEF TransportInv, ConnectBegin
<1>1. TransportTypeOK'
  BY DEF TransportTypeOK, BytesAddUp, HandlesAccounted, AnswerIsTrue, NoFlight, Flights,
     HandleStates, Kinds
<1>2. BytesAddUp'
  BY DEF TransportTypeOK, BytesAddUp, HandlesAccounted, NoFlight, Flights
<1>3. HandlesAccounted'
  BY DEF TransportTypeOK, HandlesAccounted, AnswerIsTrue, HandleStates
<1>4. AnswerIsTrue'
  BY DEF TransportTypeOK, BytesAddUp, AnswerIsTrue, NoFlight, Flights
<1>5. QED
  BY <1>1, <1>2, <1>3, <1>4

\* The answer of Device1.Connect opens nothing yet.
LEMMA DialAnswersKeeps ==
    ASSUME TransportInv, DialAnswers, ~LateGattErrors
    PROVE  TransportInv'
<1>. USE TransportsAssumption DEF TransportInv, DialAnswers
<1>1. TransportTypeOK'
  BY DEF TransportTypeOK, BytesAddUp, HandlesAccounted, AnswerIsTrue, NoFlight, Flights,
     HandleStates, Kinds
<1>2. BytesAddUp'
  BY DEF TransportTypeOK, BytesAddUp, HandlesAccounted, NoFlight, Flights
<1>3. HandlesAccounted'
  BY DEF TransportTypeOK, HandlesAccounted, AnswerIsTrue, HandleStates
<1>4. AnswerIsTrue'
  BY DEF TransportTypeOK, BytesAddUp, AnswerIsTrue, NoFlight, Flights
<1>5. QED
  BY <1>1, <1>2, <1>3, <1>4

\* A connection that BlueZ refuses, or that is cancelled, frees the handle.
LEMMA DialFailsKeeps ==
    ASSUME TransportInv, NEW h \in Handles, DialFails(h), ~LateGattErrors
    PROVE  TransportInv'
<1>. USE TransportsAssumption DEF TransportInv, DialFails
<1>1. TransportTypeOK'
  BY DEF TransportTypeOK, BytesAddUp, HandlesAccounted, AnswerIsTrue, NoFlight, Flights,
     HandleStates, Kinds
<1>2. BytesAddUp'
  BY DEF TransportTypeOK, BytesAddUp, HandlesAccounted, NoFlight, Flights
<1>3. HandlesAccounted'
  BY DEF TransportTypeOK, HandlesAccounted, AnswerIsTrue, HandleStates
<1>4. AnswerIsTrue'
  BY DEF TransportTypeOK, BytesAddUp, AnswerIsTrue, NoFlight, Flights
<1>5. QED
  BY <1>1, <1>2, <1>3, <1>4

\* The opened handle becomes the port of the transport.
LEMMA ConnectOkKeeps ==
    ASSUME TransportInv, NEW h \in Handles, ConnectOk(h), ~LateGattErrors
    PROVE  TransportInv'
<1>. USE TransportsAssumption DEF TransportInv, ConnectOk
<1>1. TransportTypeOK'
  BY DEF TransportTypeOK, BytesAddUp, HandlesAccounted, AnswerIsTrue, NoFlight, Flights,
     HandleStates, Kinds
<1>2. BytesAddUp'
  BY DEF TransportTypeOK, BytesAddUp, HandlesAccounted, NoFlight, Flights
<1>3. HandlesAccounted'
  BY DEF TransportTypeOK, HandlesAccounted, AnswerIsTrue, HandleStates
<1>4. AnswerIsTrue'
  BY DEF TransportTypeOK, BytesAddUp, AnswerIsTrue, NoFlight, Flights
<1>5. QED
  BY <1>1, <1>2, <1>3, <1>4

\* A failed open frees the handle; a serial open given up on is orphaned.
LEMMA ConnectFailKeeps ==
    ASSUME TransportInv, NEW h \in Handles, ConnectFail(h), ~LateGattErrors
    PROVE  TransportInv'
<1>. USE TransportsAssumption DEF TransportInv, ConnectFail
<1>1. TransportTypeOK'
  BY DEF TransportTypeOK, BytesAddUp, HandlesAccounted, AnswerIsTrue, NoFlight, Flights,
     HandleStates, Kinds
<1>2. BytesAddUp'
  BY DEF TransportTypeOK, BytesAddUp, HandlesAccounted, NoFlight, Flights
<1>3. HandlesAccounted'
  BY DEF TransportTypeOK, HandlesAccounted, AnswerIsTrue, HandleStates
<1>4. AnswerIsTrue'
  BY DEF TransportTypeOK, BytesAddUp, AnswerIsTrue, NoFlight, Flights
<1>5. QED
  BY <1>1, <1>2, <1>3, <1>4

\* An orphaned open that succeeds late never becomes the port.
LEMMA OrphanOpensKeeps ==
    ASSUME TransportInv, NEW h \in Handles, OrphanOpens(h), ~LateGattErrors
    PROVE  TransportInv'
<1>. USE TransportsAssumption DEF TransportInv, OrphanOpens
<1>1. TransportTypeOK'
  BY DEF TransportTypeOK, BytesAddUp, HandlesAccounted, AnswerIsTrue, NoFlight, Flights,
     HandleStates, Kinds
<1>2. BytesAddUp'
  BY DEF TransportTypeOK, BytesAddUp, HandlesAccounted, NoFlight, Flights
<1>3. HandlesAccounted'
  BY DEF TransportTypeOK, HandlesAccounted, AnswerIsTrue, HandleStates
<1>4. AnswerIsTrue'
  BY DEF TransportTypeOK, BytesAddUp, AnswerIsTrue, NoFlight, Flights
<1>5. QED
  BY <1>1, <1>2, <1>3, <1>4

\* The cleanup of a late open closes the orphan and nothing else.
LEMMA OrphanClosesKeeps ==
    ASSUME TransportInv, NEW h \in Handles, OrphanCloses(h), ~LateGattErrors
    PROVE  TransportInv'
<1>. USE TransportsAssumption DEF TransportInv, OrphanCloses
<1>1. TransportTypeOK'
  BY DEF TransportTypeOK, BytesAddUp, HandlesAccounted, AnswerIsTrue, NoFlight, Flights,
     HandleStates, Kinds
<1>2. BytesAddUp'
  BY DEF TransportTypeOK, BytesAddUp, HandlesAccounted, NoFlight, Flights
<1>3. HandlesAccounted'
  BY DEF TransportTypeOK, HandlesAccounted, AnswerIsTrue, HandleStates
<1>4. AnswerIsTrue'
  BY DEF TransportTypeOK, BytesAddUp, AnswerIsTrue, NoFlight, Flights
<1>5. QED
  BY <1>1, <1>2, <1>3, <1>4

\* Close releases the port, and only the port.
LEMMA CloseKeeps ==
    ASSUME TransportInv, Close, ~LateGattErrors
    PROVE  TransportInv'
<1>. USE TransportsAssumption DEF TransportInv, Close, ClosePort
<1>1. TransportTypeOK'
  BY DEF TransportTypeOK, BytesAddUp, HandlesAccounted, AnswerIsTrue, NoFlight, Flights,
     HandleStates, Kinds
<1>2. BytesAddUp'
  BY DEF TransportTypeOK, BytesAddUp, HandlesAccounted, NoFlight, Flights
<1>3. HandlesAccounted'
  BY DEF TransportTypeOK, HandlesAccounted, AnswerIsTrue, HandleStates
<1>4. AnswerIsTrue'
  BY DEF TransportTypeOK, BytesAddUp, AnswerIsTrue, NoFlight, Flights
<1>5. QED
  BY <1>1, <1>2, <1>3, <1>4

\* The peer may break the link of an open port; its handle stays owned.
LEMMA LinkDropsKeeps ==
    ASSUME TransportInv, LinkDrops, ~LateGattErrors
    PROVE  TransportInv'
<1>. USE TransportsAssumption DEF TransportInv, LinkDrops
<1>1. TransportTypeOK'
  BY DEF TransportTypeOK, BytesAddUp, HandlesAccounted, AnswerIsTrue, NoFlight, Flights,
     HandleStates, Kinds
<1>2. BytesAddUp'
  BY DEF TransportTypeOK, BytesAddUp, HandlesAccounted, NoFlight, Flights
<1>3. HandlesAccounted'
  BY DEF TransportTypeOK, HandlesAccounted, AnswerIsTrue, HandleStates
<1>4. AnswerIsTrue'
  BY DEF TransportTypeOK, BytesAddUp, AnswerIsTrue, NoFlight, Flights
<1>5. QED
  BY <1>1, <1>2, <1>3, <1>4

\* Cancelling the context of the write touches no handle and no byte.
LEMMA CancelContextKeeps ==
    ASSUME TransportInv, CancelContext, ~LateGattErrors
    PROVE  TransportInv'
<1>. USE TransportsAssumption DEF TransportInv, CancelContext
<1>1. TransportTypeOK'
  BY DEF TransportTypeOK, BytesAddUp, HandlesAccounted, AnswerIsTrue, NoFlight, Flights,
     HandleStates, Kinds
<1>2. BytesAddUp'
  BY DEF TransportTypeOK, BytesAddUp, HandlesAccounted, NoFlight, Flights
<1>3. HandlesAccounted'
  BY DEF TransportTypeOK, HandlesAccounted, AnswerIsTrue, HandleStates
<1>4. AnswerIsTrue'
  BY DEF TransportTypeOK, BytesAddUp, AnswerIsTrue, NoFlight, Flights
<1>5. QED
  BY <1>1, <1>2, <1>3, <1>4

\* A write starts counting at zero, with no answer yet.
LEMMA WriteBeginKeeps ==
    ASSUME TransportInv, WriteBegin, ~LateGattErrors
    PROVE  TransportInv'
<1>. USE TransportsAssumption DEF TransportInv, WriteBegin
<1>1. TransportTypeOK'
  BY DEF TransportTypeOK, BytesAddUp, HandlesAccounted, AnswerIsTrue, NoFlight, Flights,
     HandleStates, Kinds
<1>2. BytesAddUp'
  BY DEF TransportTypeOK, BytesAddUp, HandlesAccounted, NoFlight, Flights
<1>3. HandlesAccounted'
  BY DEF TransportTypeOK, HandlesAccounted, AnswerIsTrue, HandleStates
<1>4. AnswerIsTrue'
  BY DEF TransportTypeOK, BytesAddUp, AnswerIsTrue, NoFlight, Flights
<1>5. QED
  BY <1>1, <1>2, <1>3, <1>4

\* The next chunk is put in flight behind the bytes already confirmed.
LEMMA ChunkBeginKeeps ==
    ASSUME TransportInv, ChunkBegin, ~LateGattErrors
    PROVE  TransportInv'
<1>. USE TransportsAssumption DEF TransportInv, ChunkBegin, ChunkLength
<1>1. TransportTypeOK'
  BY DEF TransportTypeOK, BytesAddUp, HandlesAccounted, AnswerIsTrue, NoFlight, Flights,
     HandleStates, Kinds
<1>2. BytesAddUp'
  BY DEF TransportTypeOK, BytesAddUp, HandlesAccounted, NoFlight, Flights
<1>3. HandlesAccounted'
  BY DEF TransportTypeOK, HandlesAccounted, AnswerIsTrue, HandleStates
<1>4. AnswerIsTrue'
  BY DEF TransportTypeOK, BytesAddUp, AnswerIsTrue, NoFlight, Flights
<1>5. QED
  BY <1>1, <1>2, <1>3, <1>4

\* The write answers success only with every byte confirmed.
LEMMA WriteEndKeeps ==
    ASSUME TransportInv, WriteEnd, ~LateGattErrors
    PROVE  TransportInv'
<1>. USE TransportsAssumption DEF TransportInv, WriteEnd
<1>1. TransportTypeOK'
  BY DEF TransportTypeOK, BytesAddUp, HandlesAccounted, AnswerIsTrue, NoFlight, Flights,
     HandleStates, Kinds
<1>2. BytesAddUp'
  BY DEF TransportTypeOK, BytesAddUp, HandlesAccounted, NoFlight, Flights
<1>3. HandlesAccounted'
  BY DEF TransportTypeOK, HandlesAccounted, AnswerIsTrue, HandleStates
<1>4. AnswerIsTrue'
  BY DEF TransportTypeOK, BytesAddUp, AnswerIsTrue, NoFlight, Flights
<1>5. QED
  BY <1>1, <1>2, <1>3, <1>4

\* The device takes bytes of the chunk in flight, never more than it holds.
LEMMA DeviceTakesKeeps ==
    ASSUME TransportInv, NEW n \in 1..ChunkSize, DeviceTakes(n), ~LateGattErrors
    PROVE  TransportInv'
<1>. USE TransportsAssumption DEF TransportInv, DeviceTakes
<1>1. TransportTypeOK'
  BY DEF TransportTypeOK, BytesAddUp, HandlesAccounted, AnswerIsTrue, NoFlight, Flights,
     HandleStates, Kinds
<1>2. BytesAddUp'
  BY DEF TransportTypeOK, BytesAddUp, HandlesAccounted, NoFlight, Flights
<1>3. HandlesAccounted'
  BY DEF TransportTypeOK, HandlesAccounted, AnswerIsTrue, HandleStates
<1>4. AnswerIsTrue'
  BY DEF TransportTypeOK, BytesAddUp, AnswerIsTrue, NoFlight, Flights
<1>5. QED
  BY <1>1, <1>2, <1>3, <1>4

\* The answer of the low-level write settles the chunk in flight.
LEMMA WriteAnswersKeeps ==
    ASSUME TransportInv, NEW e \in BOOLEAN, WriteAnswers(e), ~LateGattErrors
    PROVE  TransportInv'
<1>. USE TransportsAssumption DEF TransportInv, WriteAnswers
<1>1. TransportTypeOK'
  BY DEF TransportTypeOK, BytesAddUp, HandlesAccounted, AnswerIsTrue, NoFlight, Flights,
     HandleStates, Kinds
<1>2. BytesAddUp'
  BY DEF TransportTypeOK, BytesAddUp, HandlesAccounted, NoFlight, Flights
<1>3. HandlesAccounted'
  BY DEF TransportTypeOK, HandlesAccounted, AnswerIsTrue, HandleStates
<1>4. AnswerIsTrue'
  BY DEF TransportTypeOK, BytesAddUp, AnswerIsTrue, NoFlight, Flights
<1>5. QED
  BY <1>1, <1>2, <1>3, <1>4

\* A failing Write leaves the transport without a port and with a settled answer.
LEMMA FailKeeps ==
    ASSUME TransportInv, pc \in {"loop", "wait", "delay"},
           NEW b \in 0..Size, NEW g \in BOOLEAN, Fail(b, g)
    PROVE  /\ pc' = "idle" /\ port' = NoHandle /\ written' = b
           /\ handle' \in [Handles -> HandleStates]
           /\ \A h \in Handles : handle'[h] \notin {"open", "dead", "opening"}
           /\ result' \in {"not_sent", "ambiguous"}
           /\ result' = "not_sent" => b = 0 /\ ~g
<1>. USE DEF TransportInv, TransportTypeOK, HandlesAccounted, HandleStates
<1>1. pc' = "idle" /\ port' = NoHandle /\ written' = b
  BY DEF Fail, ClosePort
<1>2. /\ handle' \in [Handles -> HandleStates]
      /\ \A h \in Handles : handle'[h] \notin {"open", "dead", "opening"}
  BY TransportsAssumption DEF Fail, ClosePort
<1>3. /\ result' \in {"not_sent", "ambiguous"}
      /\ result' = "not_sent" => b = 0 /\ ~g
  BY DEF Fail, Ambiguous
<1>4. QED
  BY <1>1, <1>2, <1>3

\* The goroutine has answered: its count is the number of bytes the device took.
LEMMA ChunkEndKeeps ==
    ASSUME TransportInv, ChunkEnd, ~LateGattErrors
    PROVE  TransportInv'
<1>. USE TransportsAssumption
<1>. DEFINE bytes == written + BytesCounted
<1>1. /\ flight' = NoFlight /\ kind' = kind /\ cancelled' = cancelled
      /\ reached' = reached /\ pc = "wait" /\ result = "none"
      /\ flight.st = "answered" /\ port # NoHandle
  BY DEF ChunkEnd, TransportInv, AnswerIsTrue, HandlesAccounted
<1>2. /\ flight.took \in Nat /\ flight.want \in Nat /\ flight.err \in BOOLEAN
      /\ flight.took <= flight.want /\ written + flight.want <= Size
      /\ reached = written + flight.took
      /\ flight.err /\ kind = "gatt" => flight.took = 0
  BY <1>1 DEF TransportInv, TransportTypeOK, BytesAddUp, Flights
<1>3. bytes \in 0..Size /\ reached = bytes
  BY <1>2 DEF BytesCounted, TransportInv, TransportTypeOK
<1>4. flight' \in Flights /\ flight'.st = "none" /\ flight'.took = 0 /\ flight'.want = 0
  BY <1>1 DEF NoFlight, Flights
<1>. HIDE DEF bytes
<1>5. CASE \E g \in BOOLEAN : Fail(bytes, g)
  <2>1. PICK g \in BOOLEAN : Fail(bytes, g)
    BY <1>5
  <2>2. /\ pc' = "idle" /\ port' = NoHandle /\ written' = bytes
        /\ handle' \in [Handles -> HandleStates]
        /\ \A h \in Handles : handle'[h] \notin {"open", "dead", "opening"}
        /\ result' \in {"not_sent", "ambiguous"}
        /\ result' = "not_sent" => bytes = 0 /\ ~g
    BY <1>1, <1>3, <2>1, FailKeeps
  <2>3. TransportTypeOK'
    BY <1>1, <1>3, <1>4, <2>2 DEF TransportInv, TransportTypeOK
  <2>4. BytesAddUp'
    BY <1>4, <2>2 DEF BytesAddUp
  <2>5. HandlesAccounted'
    BY <2>2 DEF HandlesAccounted
  <2>6. AnswerIsTrue'
    BY <1>1, <1>3, <1>4, <2>2 DEF AnswerIsTrue
  <2>7. QED
    BY <2>3, <2>4, <2>5, <2>6 DEF TransportInv
<1>6. CASE /\ ~flight.err /\ flight.took = flight.want
           /\ written' = bytes
           /\ pc' = IF kind = "gatt" /\ written' < Size THEN "delay" ELSE "loop"
           /\ UNCHANGED <<port, handle, result>>
  <2>1. TransportTypeOK'
    BY <1>1, <1>3, <1>4, <1>6 DEF TransportInv, TransportTypeOK
  <2>2. flight.want > 0
    BY <1>1 DEF TransportInv, BytesAddUp
  <2>3. BytesAddUp'
    BY <1>1, <1>2, <1>3, <1>4, <1>6, <2>2 DEF BytesAddUp, NoFlight, bytes, TransportInv,
       TransportTypeOK, BytesCounted
  <2>4. HandlesAccounted'
    BY <1>1, <1>6 DEF TransportInv, HandlesAccounted
  <2>5. AnswerIsTrue'
    BY <1>1, <1>6 DEF AnswerIsTrue
  <2>6. QED
    BY <2>1, <2>3, <2>4, <2>5 DEF TransportInv
<1>7. QED
  <2>1. cancelled \in BOOLEAN
    BY DEF TransportInv, TransportTypeOK
  <2>2. (\E g \in BOOLEAN : Fail(bytes, g)) \/
        /\ ~flight.err /\ flight.took = flight.want
        /\ written' = bytes
        /\ pc' = IF kind = "gatt" /\ written' < Size THEN "delay" ELSE "loop"
        /\ UNCHANGED <<port, handle, result>>
    BY <2>1 DEF ChunkEnd, bytes
  <2>3. QED
    BY <1>5, <1>6, <2>2

\* The caller does not wait for the goroutine: the answer is ambiguous.
LEMMA GiveUpKeeps ==
    ASSUME TransportInv, pc = "wait", GiveUp
    PROVE  TransportInv'
<1>. USE TransportsAssumption
<1>1. /\ written \in 0..Size /\ flight \in Flights /\ kind' = kind
      /\ cancelled' = cancelled /\ reached' = reached
  BY DEF GiveUp, TransportInv, TransportTypeOK
<1>2. /\ pc' = "idle" /\ port' = NoHandle /\ written' = written
      /\ handle' \in [Handles -> HandleStates]
      /\ \A h \in Handles : handle'[h] \notin {"open", "dead", "opening"}
      /\ result' = "ambiguous"
  BY <1>1, FailKeeps DEF GiveUp
<1>3. /\ flight' \in Flights /\ flight'.st \in {"none", "lost"}
      /\ flight'.took <= flight'.want
      /\ flight'.st = "lost" => flight'.want = flight.want /\ flight'.took = flight.took
  <2>1. CASE flight' = NoFlight
    BY <2>1 DEF NoFlight, Flights
  <2>2. CASE flight' = [flight EXCEPT !.st = "lost"]
    BY <1>1, <2>2 DEF Flights, TransportInv, BytesAddUp
  <2>3. QED
    BY <2>1, <2>2 DEF GiveUp
<1>4. TransportTypeOK'
  BY <1>1, <1>2, <1>3 DEF TransportInv, TransportTypeOK
<1>5. BytesAddUp'
  BY <1>1, <1>2, <1>3 DEF TransportInv, TransportTypeOK, BytesAddUp, Flights
<1>6. HandlesAccounted' /\ AnswerIsTrue'
  BY <1>2 DEF HandlesAccounted, AnswerIsTrue
<1>7. QED
  BY <1>4, <1>5, <1>6 DEF TransportInv

\* The pause between two chunks ends with nothing in flight.
LEMMA DelayEndsKeeps ==
    ASSUME TransportInv, DelayEnds, ~LateGattErrors
    PROVE  TransportInv'
<1>. USE TransportsAssumption DEF TransportInv, DelayEnds
<1>1. TransportTypeOK'
  BY DEF TransportTypeOK, BytesAddUp, HandlesAccounted, AnswerIsTrue, NoFlight, Flights,
     HandleStates, Kinds
<1>2. BytesAddUp'
  BY DEF TransportTypeOK, BytesAddUp, HandlesAccounted, NoFlight, Flights
<1>3. HandlesAccounted'
  BY DEF TransportTypeOK, HandlesAccounted, AnswerIsTrue, HandleStates
<1>4. AnswerIsTrue'
  BY DEF TransportTypeOK, BytesAddUp, AnswerIsTrue, NoFlight, Flights
<1>5. QED
  BY <1>1, <1>2, <1>3, <1>4

\* A cancellation in the pause reports the bytes confirmed so far.
LEMMA DelayCancelledKeeps ==
    ASSUME TransportInv, DelayCancelled, ~LateGattErrors
    PROVE  TransportInv'
<1>. USE TransportsAssumption DEF TransportInv, DelayCancelled, Fail, ClosePort, Ambiguous
<1>1. TransportTypeOK'
  BY DEF TransportTypeOK, BytesAddUp, HandlesAccounted, AnswerIsTrue, NoFlight, Flights,
     HandleStates, Kinds
<1>2. BytesAddUp'
  BY DEF TransportTypeOK, BytesAddUp, HandlesAccounted, NoFlight, Flights
<1>3. HandlesAccounted'
  BY DEF TransportTypeOK, HandlesAccounted, AnswerIsTrue, HandleStates
<1>4. AnswerIsTrue'
  BY DEF TransportTypeOK, BytesAddUp, AnswerIsTrue, NoFlight, Flights
<1>5. QED
  BY <1>1, <1>2, <1>3, <1>4

\* The mock transport answers for the bytes it recorded.
LEMMA MockWriteKeeps ==
    ASSUME TransportInv, MockWrite, ~LateGattErrors
    PROVE  TransportInv'
<1>. USE TransportsAssumption DEF TransportInv, MockWrite, Fail, ClosePort, Ambiguous
<1>1. TransportTypeOK'
  BY DEF TransportTypeOK, BytesAddUp, HandlesAccounted, AnswerIsTrue, NoFlight, Flights,
     HandleStates, Kinds
<1>2. BytesAddUp'
  BY DEF TransportTypeOK, BytesAddUp, HandlesAccounted, NoFlight, Flights
<1>3. HandlesAccounted'
  BY DEF TransportTypeOK, HandlesAccounted, AnswerIsTrue, HandleStates
<1>4. AnswerIsTrue'
  BY DEF TransportTypeOK, BytesAddUp, AnswerIsTrue, NoFlight, Flights
<1>5. QED
  BY <1>1, <1>2, <1>3, <1>4

\* A mock that hangs has recorded nothing.
LEMMA MockHangsKeeps ==
    ASSUME TransportInv, MockHangs, ~LateGattErrors
    PROVE  TransportInv'
<1>. USE TransportsAssumption DEF TransportInv, MockHangs
<1>1. TransportTypeOK'
  BY DEF TransportTypeOK, BytesAddUp, HandlesAccounted, AnswerIsTrue, NoFlight, Flights,
     HandleStates, Kinds
<1>2. BytesAddUp'
  BY DEF TransportTypeOK, BytesAddUp, HandlesAccounted, NoFlight, Flights
<1>3. HandlesAccounted'
  BY DEF TransportTypeOK, HandlesAccounted, AnswerIsTrue, HandleStates
<1>4. AnswerIsTrue'
  BY DEF TransportTypeOK, BytesAddUp, AnswerIsTrue, NoFlight, Flights
<1>5. QED
  BY <1>1, <1>2, <1>3, <1>4

\* A cancellation ends the wait of the mock with an ambiguous answer.
LEMMA MockCancelledKeeps ==
    ASSUME TransportInv, MockCancelled, ~LateGattErrors
    PROVE  TransportInv'
<1>. USE TransportsAssumption DEF TransportInv, MockCancelled, Fail, ClosePort, Ambiguous
<1>1. TransportTypeOK'
  BY DEF TransportTypeOK, BytesAddUp, HandlesAccounted, AnswerIsTrue, NoFlight, Flights,
     HandleStates, Kinds
<1>2. BytesAddUp'
  BY DEF TransportTypeOK, BytesAddUp, HandlesAccounted, NoFlight, Flights
<1>3. HandlesAccounted'
  BY DEF TransportTypeOK, HandlesAccounted, AnswerIsTrue, HandleStates
<1>4. AnswerIsTrue'
  BY DEF TransportTypeOK, BytesAddUp, AnswerIsTrue, NoFlight, Flights
<1>5. QED
  BY <1>1, <1>2, <1>3, <1>4

-----------------------------------------------------------------------------
(* The invariant *)

\* Every step of a transport keeps the invariant.
LEMMA TransportStep ==
    ASSUME TransportInv, [Next]_vars, ~LateGattErrors
    PROVE  TransportInv'
<1>1. CASE UNCHANGED vars
  BY <1>1 DEF vars, TransportInv, TransportTypeOK, BytesAddUp, HandlesAccounted,
     AnswerIsTrue
<1>2. ASSUME NEW h \in Handles,
             ConnectBegin(h) \/ DialFails(h) \/ OrphanOpens(h) \/ OrphanCloses(h)
      PROVE  TransportInv'
  BY <1>2, ConnectBeginKeeps, DialFailsKeeps, OrphanOpensKeeps, OrphanClosesKeeps
<1>3. ASSUME NEW h \in Handles, ConnectOk(h) \/ ConnectFail(h)
      PROVE  TransportInv'
  BY <1>3, ConnectOkKeeps, ConnectFailKeeps
<1>4. CASE ChunkBegin \/ WriteEnd \/ ChunkEnd
  BY <1>4, ChunkBeginKeeps, WriteEndKeeps, ChunkEndKeeps
<1>5. CASE ChunkTimesOut \/ ChunkCancelled
  BY <1>5, GiveUpKeeps DEF ChunkTimesOut, ChunkCancelled
<1>6. CASE DialAnswers \/ DelayEnds \/ DelayCancelled \/ MockWrite \/ MockHangs
           \/ MockCancelled
  BY <1>6, DialAnswersKeeps, DelayEndsKeeps, DelayCancelledKeeps, MockWriteKeeps,
     MockHangsKeeps, MockCancelledKeeps
<1>7. CASE NewTransport \/ Close \/ LinkDrops \/ CancelContext \/ WriteBegin
  BY <1>7, NewTransportKeeps, CloseKeeps, LinkDropsKeeps, CancelContextKeeps,
     WriteBeginKeeps
<1>8. ASSUME NEW n \in 1..ChunkSize, DeviceTakes(n)
      PROVE  TransportInv'
  BY <1>8, DeviceTakesKeeps
<1>9. ASSUME NEW e \in BOOLEAN, WriteAnswers(e)
      PROVE  TransportInv'
  BY <1>9, WriteAnswersKeeps
<1>10. QED
  BY <1>1, <1>2, <1>3, <1>4, <1>5, <1>6, <1>7, <1>8, <1>9
     DEF Next, CallerStep, WriteProceeds

\* A Write that reports success has sent every byte, one that reports an error with
\* no bytes and no ambiguity has sent none, and no port, socket or connection is
\* left open behind a transport that was closed or that gave up (serial.go,
\* rfcomm.go, gatt.go and mock.go).
THEOREM TransportIsSafe ==
    ASSUME ~LateGattErrors
    PROVE  Spec => []TransportInv
<1>1. Init => TransportInv
  BY InitTransport
<1>2. TransportInv /\ [Next]_vars => TransportInv'
  BY TransportStep
<1>3. QED
  BY <1>1, <1>2, PTL DEF Spec

-----------------------------------------------------------------------------
(* The refinement of WriteContract *)

\* A new transport has the write contract in its initial state.
LEMMA ContractInit == Init => Contract!Init
BY DEF Init, Contract!Init, Phase, Sent, Writing

\* Every step of a transport is one of its contract, or leaves it alone.
LEMMA ContractStep ==
    ASSUME TransportInv, TransportInv', [Next]_vars
    PROVE  [Contract!Next]_(Contract!contractVars)
<1>. USE DEF Phase, Sent, Writing, Contract!contractVars
<1>. SUFFICES ASSUME ~UNCHANGED <<Phase, Sent>> PROVE Contract!Next
  OBVIOUS
<1>1. CASE UNCHANGED vars
  BY <1>1 DEF vars
<1>2. ASSUME NEW h \in Handles, ConnectBegin(h)
      PROVE  Contract!Next
  BY <1>2 DEF ConnectBegin, Contract!Next, Contract!Forget
<1>3. ASSUME NEW h \in Handles,
             OrphanOpens(h) \/ OrphanCloses(h) \/ ConnectOk(h) \/ ConnectFail(h)
             \/ DialFails(h)
      PROVE  Contract!Next
  BY <1>3 DEF OrphanOpens, OrphanCloses, ConnectOk, ConnectFail, DialFails
<1>4. CASE NewTransport \/ Close \/ LinkDrops \/ CancelContext \/ ChunkBegin \/ DelayEnds
           \/ DialAnswers \/ MockHangs
  BY <1>4 DEF NewTransport, Close, LinkDrops, CancelContext, ChunkBegin, DelayEnds,
     DialAnswers, MockHangs
<1>5. CASE WriteBegin
  BY <1>5 DEF WriteBegin, TransportInv, TransportTypeOK, Contract!Next, Contract!Begin
<1>6. ASSUME NEW n \in 1..ChunkSize, DeviceTakes(n)
      PROVE  Contract!Next
  BY <1>6, TransportsAssumption DEF DeviceTakes, TransportInv, TransportTypeOK,
     BytesAddUp, AnswerIsTrue, Flights, Contract!Next, Contract!Deliver
<1>7. ASSUME NEW e \in BOOLEAN, WriteAnswers(e)
      PROVE  Contract!Next
  BY <1>7 DEF WriteAnswers
\* The steps that end a call of Write, or go on with it.
<1>8. ASSUME Writing, reached' >= reached, Writing' => reached' = reached,
             ~Writing' => result' # "none"
      PROVE  Contract!Next
  <2>1. ~Writing' /\ result' \in {"ok", "not_sent", "ambiguous"}
    BY <1>8 DEF TransportInv, TransportTypeOK
  <2>2. reached \in Nat /\ reached' \in Nat /\ Size > 0
    BY TransportsAssumption DEF TransportInv, TransportTypeOK
  <2>3. Phase = "writing" /\ Phase' = result' /\ (Sent => Sent')
    BY <1>8, <2>1, <2>2
  <2>4. (result' = "ok" => Sent') /\ (result' = "not_sent" => ~Sent')
    BY <2>1, <2>2 DEF TransportInv, AnswerIsTrue
  <2>5. Sent \in BOOLEAN /\ Sent' \in BOOLEAN
    OBVIOUS
  <2>6. Sent' \in {Sent, TRUE}
    BY <2>3, <2>5
  <2>. HIDE DEF Phase, Sent, Writing
  <2>7. Contract!Return
    BY <2>1, <2>3, <2>4, <2>6 DEF Contract!Return
  <2>8. QED
    BY <2>7 DEF Contract!Next
<1>9. CASE WriteEnd \/ ChunkEnd \/ ChunkTimesOut \/ ChunkCancelled \/ DelayCancelled
           \/ MockCancelled
  <2>1. reached' = reached
    BY <1>9 DEF WriteEnd, ChunkEnd, ChunkTimesOut, ChunkCancelled, DelayCancelled, GiveUp,
       MockCancelled
  <2>5. reached \in Nat
    BY TransportsAssumption DEF TransportInv, TransportTypeOK
  <2>2. Writing
    BY <1>9 DEF WriteEnd, ChunkEnd, ChunkTimesOut, ChunkCancelled, DelayCancelled,
       MockCancelled
  <2>3. ~Writing' => result' # "none"
    BY <1>9 DEF WriteEnd, ChunkEnd, ChunkTimesOut, ChunkCancelled, DelayCancelled, GiveUp,
       MockCancelled, Fail
  <2>4. QED
    BY <1>8, <2>1, <2>2, <2>3, <2>5
<1>10. CASE MockWrite
  <2>1. reached = 0
    BY <1>10 DEF MockWrite, TransportInv, BytesAddUp
  <2>2. Writing /\ ~Writing' /\ result' # "none"
    BY <1>10 DEF MockWrite, Fail
  <2>3. reached' \in Nat
    BY TransportsAssumption DEF TransportInv, TransportTypeOK
  <2>4. QED
    BY <1>8, <2>1, <2>2, <2>3
<1>11. QED
  BY <1>1, <1>2, <1>3, <1>4, <1>5, <1>6, <1>7, <1>9, <1>10
     DEF Next, CallerStep, WriteProceeds

\* What a caller of Transport.Write can see of any of the four transports is a
\* behaviour of WriteContract: an outcome that says the document was not sent is true
\* when it is given and stays true (transport.go, WriteError.Ambiguous).
THEOREM TransportKeepsContract ==
    ASSUME ~LateGattErrors
    PROVE  Spec => KeepsContract
<1>1. Spec => []TransportInv
  BY TransportIsSafe
<1>2. Init => Contract!Init
  BY ContractInit
<1>3. TransportInv /\ TransportInv' /\ [Next]_vars => [Contract!Next]_(Contract!contractVars)
  BY ContractStep
<1>4. QED
  BY <1>1, <1>2, <1>3, PTL DEF Spec, KeepsContract, Contract!Spec
=============================================================================
