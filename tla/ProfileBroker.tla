--------------------------- MODULE ProfileBroker ---------------------------
(***************************************************************************)
(* The broker of RFCOMM connections on Linux                               *)
(* (internal/platform/linux/profile.go).  BlueZ does not return a          *)
(* connection from ConnectProfile: it calls the agent back with a file     *)
(* descriptor (NewConnection), which the broker hands to the printer       *)
(* worker that waits for it.  Meanwhile the wait may time out, BlueZ may   *)
(* take the connection back, and the Bluetooth daemon may restart.         *)
(*                                                                         *)
(* An attempt is one call of Connect.  Its number identifies the pending   *)
(* connection, the token of its ConnectProfile call and the socket it may  *)
(* get.  A caller is a printer worker; two printers may be configured with *)
(* the same Bluetooth address.  Its program counter:                       *)
(*   idle      no connection              await   the second select        *)
(*   register  calling registerProfile    cancel  in cancelPending         *)
(*   lock      registered, before mu      drain   waiter removed           *)
(*   stale     closing stale sockets      settle  result drained           *)
(*   check     ensureRegistered is done   open    the transport has it     *)
(*   select    the first select           notify  closed, BlueZ not told   *)
(* A step is a section under the mutex mu, or one receive or send.         *)
(***************************************************************************)
EXTENDS Naturals, FiniteSets

CONSTANTS
    Printers,      \* the callers
    Addresses,     \* Bluetooth addresses, each with its object path
    AddressOf,     \* AddressOf[p]: the address printer p is configured with
    MaxAttempts,   \* bound: calls of Connect
    MaxRestarts    \* bound: restarts of the daemon and releases of the profile

ASSUME BrokerAssumption ==
    /\ Addresses # {} /\ AddressOf \in [Printers -> Addresses]
    /\ MaxAttempts \in Nat /\ MaxRestarts \in Nat

VARIABLES
    bus,           \* the daemon's current owner name and bus connection
    registration,  \* the broker's registration, 0 for nil
    registerMu,    \* whether a caller is in ensureRegistered
    waiters,       \* waiters[a]: the attempt waiting for address a, or 0
    active,        \* active[a]: the socket in use for address a, or 0
    connectCalls,  \* connectCalls[a]: token of the call that has not returned
    states,        \* states[a]: what ConnectionState reports
    caller,        \* caller[p]: where worker p is, and with which attempt
    attempts,      \* number of attempts so far
    attempt,       \* attempt[i]: the objects of attempt i
    asked,         \* asked[a]: connections BlueZ was asked for and may still open
    handing,       \* sockets between NewConnection's unlock and its send
    closing,       \* sockets somebody has looked up in order to close them
    told           \* sockets BlueZ has been asked to disconnect

brokerVars == <<bus, registration, registerMu, waiters, active, connectCalls, states,
                caller, attempts, attempt, asked, handing, closing, told>>

AttemptIds == 1..MaxAttempts

\* call: the ConnectProfile goroutine, orphaned when its token was discarded;
\* result: the buffered channel; file: the descriptor; stale: the sockets this
\* attempt's ensureRegistered has to close.
Attempt == [address : Addresses, call : {"none", "running", "orphaned", "returned"},
            result : {"empty", "full", "drained"},
            file : {"none", "open", "closed"}, stale : SUBSET AttemptIds]

Caller == [pc : {"idle", "register", "lock", "stale", "check", "select", "await",
                 "cancel", "drain", "settle", "open", "notify"},
           att : 0..MaxAttempts, reg : Nat]

Go(p, pc) == caller' = [caller EXCEPT ![p].pc = pc]

\* Connect returns an error, or the transport is closed.
Idle(p) == caller' = [caller EXCEPT ![p] = [pc |-> "idle", att |-> 0, reg |-> 0]]

Addr(i) == attempt[i].address

-----------------------------------------------------------------------------
(* Closing a socket *)

\* Faulty variant: the broker forgets the newest socket of the device.
ClosedActiveAny(i) == [active EXCEPT ![Addr(i)] = 0]

ClosedActive(i) ==
    IF active[Addr(i)] = i THEN [active EXCEPT ![Addr(i)] = 0] ELSE active

ClosedStates(i) == [states EXCEPT ![Addr(i)] = "down"]

\* profileSocket.close: the first call does the work, later ones wait for it.
CloseSocket(i) ==
    IF attempt[i].file = "open"
    THEN /\ active' = ClosedActive(i)
         /\ states' = ClosedStates(i)
         /\ attempt' = [attempt EXCEPT ![i].file = "closed"]
    ELSE UNCHANGED <<active, states, attempt>>

-----------------------------------------------------------------------------
(* Connect *)

\* A call of Connect for a device that is known and eligible.
ConnectBegin(p) ==
    /\ caller[p].pc = "idle" /\ ~registerMu /\ attempts < MaxAttempts
    /\ attempts' = attempts + 1
    /\ attempt' = [attempt EXCEPT ![attempts + 1].address = AddressOf[p]]
    /\ registerMu' = TRUE
    /\ caller' = [caller EXCEPT ![p] =
                     [pc |-> "register", att |-> attempts + 1, reg |-> 0]]
    /\ UNCHANGED <<bus, registration, waiters, active, connectCalls, states, asked,
                   handing, closing, told>>

\* registerProfile fails: no bus, no daemon, or BlueZ refuses.
RegisterFails(p) ==
    /\ caller[p].pc = "register"
    /\ registerMu' = FALSE
    /\ Idle(p)
    /\ UNCHANGED <<bus, registration, waiters, active, connectCalls, states, attempts,
                   attempt, asked, handing, closing, told>>

\* registerProfile returns the registration with the daemon as it is now, the
\* previous one if that is still the daemon.
RegisterProfile(p) ==
    /\ caller[p].pc = "register"
    /\ caller' = [caller EXCEPT ![p].pc = "lock", ![p].reg = bus]
    /\ UNCHANGED <<bus, registration, registerMu, waiters, active, connectCalls, states,
                   attempts, attempt, asked, handing, closing, told>>

\* The sockets in use: those of a registration that BlueZ has discarded are stale.
Sockets == {active[a] : a \in Addresses} \ {0}

\* ensureRegistered takes the lock.  If another registration is replaced, its
\* sockets are collected and the tokens of its calls are discarded.
Registered(p) ==
    /\ caller[p].pc = "lock"
    /\ IF registration # 0 /\ registration # caller[p].reg
       THEN /\ attempt' = [i \in AttemptIds |->
                  [attempt[i] EXCEPT
                     !.stale = IF i = caller[p].att THEN Sockets ELSE @,
                     !.call = IF @ = "running" /\ connectCalls[Addr(i)] = i
                              THEN "orphaned" ELSE @]]
            /\ active' = [a \in Addresses |-> 0]
            /\ connectCalls' = [a \in Addresses |-> 0]
       ELSE UNCHANGED <<attempt, active, connectCalls>>
    /\ registration' = caller[p].reg
    /\ Go(p, "stale")
    /\ UNCHANGED <<bus, registerMu, waiters, states, attempts, asked, handing, closing,
                   told>>

\* ensureRegistered closes one of the stale sockets.
CloseStale(p, i) ==
    LET taken == [attempt EXCEPT ![caller[p].att].stale = @ \ {i}]
    IN  /\ caller[p].pc = "stale" /\ i \in attempt[caller[p].att].stale
        /\ IF attempt[i].file = "open"
           THEN /\ active' = ClosedActive(i)
                /\ states' = ClosedStates(i)
                /\ attempt' = [taken EXCEPT ![i].file = "closed"]
           ELSE attempt' = taken /\ UNCHANGED <<active, states>>
        /\ UNCHANGED <<bus, registration, registerMu, waiters, connectCalls, caller,
                       attempts, asked, handing, closing, told>>

RegisterEnd(p) ==
    /\ caller[p].pc = "stale" /\ attempt[caller[p].att].stale = {}
    /\ registerMu' = FALSE
    /\ Go(p, "check")
    /\ UNCHANGED <<bus, registration, waiters, active, connectCalls, states, attempts,
                   attempt, asked, handing, closing, told>>

\* Connect installs the waiter and calls BlueZ, unless the device is connected,
\* connecting, or an earlier call has not returned.
Install(p) ==
    LET i == caller[p].att
        a == Addr(i)
    IN  /\ caller[p].pc = "check"
        /\ IF active[a] # 0 \/ waiters[a] # 0 \/ connectCalls[a] # 0
           THEN Idle(p) /\ UNCHANGED <<waiters, connectCalls, attempt, asked>>
           ELSE /\ waiters' = [waiters EXCEPT ![a] = i]
                /\ connectCalls' = [connectCalls EXCEPT ![a] = i]
                /\ attempt' = [attempt EXCEPT ![i].call = "running"]
                /\ asked' = [asked EXCEPT ![a] = @ + 1]
                /\ Go(p, "select")
        /\ UNCHANGED <<bus, registration, registerMu, active, states, attempts, handing,
                       closing, told>>

\* Faulty variant: a call that returns late removes its successor's token.
TokensAfterAny(i) == [connectCalls EXCEPT ![Addr(i)] = 0]

TokensAfter(i) ==
    IF connectCalls[Addr(i)] = i THEN [connectCalls EXCEPT ![Addr(i)] = 0] ELSE connectCalls

\* The goroutine of Connect: ConnectProfile returns.
CallReturns(i) ==
    /\ attempt[i].call \in {"running", "orphaned"}
    /\ connectCalls' = TokensAfter(i)
    /\ attempt' = [attempt EXCEPT ![i].call = "returned"]
    /\ UNCHANGED <<bus, registration, registerMu, waiters, active, states, caller, attempts,
                   asked, handing, closing, told>>

\* A select of Connect receives the socket.
Receive(p) ==
    /\ caller[p].pc \in {"select", "await"} /\ attempt[caller[p].att].result = "full"
    /\ attempt' = [attempt EXCEPT ![caller[p].att].result = "drained"]
    /\ Go(p, "open")
    /\ UNCHANGED <<bus, registration, registerMu, waiters, active, connectCalls, states,
                   attempts, asked, handing, closing, told>>

\* The first select receives the answer of ConnectProfile, an error or none.  A
\* socket that has arrived meanwhile wins over it (Receive).
TakeAnswer(p) ==
    LET i == caller[p].att
    IN  /\ caller[p].pc = "select" /\ attempt[i].call = "returned"
        /\ attempt[i].result = "empty"
        /\ \E pc \in {"cancel", "await"} : Go(p, pc)
        /\ UNCHANGED <<bus, registration, registerMu, waiters, active, connectCalls, states,
                       attempts, attempt, asked, handing, closing, told>>

\* connectCtx is done: the connect timeout, or the agent stops.
Timeout(p) ==
    /\ caller[p].pc \in {"select", "await"}
    /\ Go(p, "cancel")
    /\ UNCHANGED <<bus, registration, registerMu, waiters, active, connectCalls, states,
                   attempts, attempt, asked, handing, closing, told>>

-----------------------------------------------------------------------------
(* cancelPending, in its four steps *)

\* Faulty variant: the waiter stays.
RemoveWaiterNot(p) ==
    /\ caller[p].pc = "cancel"
    /\ Go(p, "drain")
    /\ UNCHANGED <<bus, registration, registerMu, waiters, active, connectCalls, states,
                   attempts, attempt, asked, handing, closing, told>>

RemoveWaiter(p) ==
    LET i == caller[p].att
    IN  /\ caller[p].pc = "cancel"
        /\ waiters' = IF waiters[Addr(i)] = i
                      THEN [waiters EXCEPT ![Addr(i)] = 0] ELSE waiters
        /\ Go(p, "drain")
        /\ UNCHANGED <<bus, registration, registerMu, active, connectCalls, states, attempts,
                       attempt, asked, handing, closing, told>>

\* receiveNow: a socket that is already in the channel is closed.
Drain(p) ==
    LET i == caller[p].att
    IN  /\ caller[p].pc = "drain"
        /\ IF attempt[i].result = "full"
           THEN /\ attempt' = [attempt EXCEPT ![i].result = "drained", ![i].file = "closed"]
                /\ IF attempt[i].file = "open"
                   THEN active' = ClosedActive(i) /\ states' = ClosedStates(i)
                   ELSE UNCHANGED <<active, states>>
           ELSE UNCHANGED <<active, states, attempt>>
        /\ Go(p, "settle")
        /\ UNCHANGED <<bus, registration, registerMu, waiters, connectCalls, attempts, asked,
                       handing, closing, told>>

\* setState(false); DisconnectProfile and the return come next.
Settle(p) ==
    /\ caller[p].pc = "settle"
    /\ states' = [states EXCEPT ![Addr(caller[p].att)] = "down"]
    /\ Go(p, "notify")
    /\ UNCHANGED <<bus, registration, registerMu, waiters, active, connectCalls, attempts,
                   attempt, asked, handing, closing, told>>

\* Faulty variant: BlueZ is not told.
ToldNot(a) == told

ToldAbout(a) == told \cup ({active[a]} \ {0})

\* disconnectProfile: BlueZ is to disconnect whatever is connected now.
Notify(p) ==
    /\ caller[p].pc = "notify"
    /\ told' = ToldAbout(Addr(caller[p].att))
    /\ Idle(p)
    /\ UNCHANGED <<bus, registration, registerMu, waiters, active, connectCalls, states,
                   attempts, attempt, asked, handing, closing>>

\* The transport closes its socket.  Only the call that closes it tells BlueZ.
CloseTransport(p) ==
    LET i == caller[p].att
    IN  /\ caller[p].pc = "open"
        /\ CloseSocket(i)
        /\ IF attempt[i].file = "open" THEN Go(p, "notify") ELSE Idle(p)
        /\ UNCHANGED <<bus, registration, registerMu, waiters, connectCalls, attempts, asked,
                       handing, closing, told>>

-----------------------------------------------------------------------------
(* BlueZ: the calls of org.bluez.Profile1, and a restart of the daemon *)

\* NewConnection closes the descriptor at once unless somebody waits for it.
NewConnection(a) ==
    /\ asked[a] > 0
    /\ asked' = [asked EXCEPT ![a] = @ - 1]
    /\ IF waiters[a] = 0 \/ active[a] # 0
       THEN UNCHANGED <<waiters, active, states, attempt, handing>>
       ELSE LET i == waiters[a]
            IN  /\ waiters' = [waiters EXCEPT ![a] = 0]
                /\ active' = [active EXCEPT ![a] = i]
                /\ states' = [states EXCEPT ![a] = "up"]
                /\ attempt' = [attempt EXCEPT ![i].file = "open"]
                /\ handing' = handing \cup {i}
    /\ UNCHANGED <<bus, registration, registerMu, connectCalls, caller, attempts, closing,
                   told>>

\* NewConnection sends the socket, after the lock is released.
HandOver(i) ==
    /\ i \in handing
    /\ handing' = handing \ {i}
    /\ attempt' = [attempt EXCEPT ![i].result = "full"]
    /\ UNCHANGED <<bus, registration, registerMu, waiters, active, connectCalls, states,
                   caller, attempts, asked, closing, told>>

\* RequestDisconnection looks the socket up and closes it afterwards.
RequestDisconnection(a) ==
    /\ active[a] # 0 /\ active[a] \notin closing
    /\ closing' = closing \cup {active[a]}
    /\ UNCHANGED <<bus, registration, registerMu, waiters, active, connectCalls, states,
                   caller, attempts, attempt, asked, handing, told>>

\* Release, when the daemon stops: every socket is dropped and then closed.
Release ==
    /\ registration = bus /\ bus <= MaxRestarts
    /\ closing' = closing \cup Sockets
    /\ states' = [a \in Addresses |-> IF active[a] # 0 THEN "down" ELSE states[a]]
    /\ active' = [a \in Addresses |-> 0]
    /\ registration' = 0
    /\ UNCHANGED <<bus, registerMu, waiters, connectCalls, caller, attempts, attempt, asked,
                   handing, told>>

CloseCaptured(i) ==
    /\ i \in closing
    /\ closing' = closing \ {i}
    /\ CloseSocket(i)
    /\ UNCHANGED <<bus, registration, registerMu, waiters, connectCalls, caller, attempts,
                   asked, handing, told>>

\* The daemon restarts, or the bus connection is replaced.
BusRestart ==
    /\ bus <= MaxRestarts
    /\ bus' = bus + 1
    /\ asked' = [a \in Addresses |-> 0]
    /\ UNCHANGED <<registration, registerMu, waiters, active, connectCalls, states, caller,
                   attempts, attempt, handing, closing, told>>

-----------------------------------------------------------------------------
BrokerInit ==
    /\ bus = 1 /\ registration = 0 /\ registerMu = FALSE
    /\ waiters = [a \in Addresses |-> 0]
    /\ active = [a \in Addresses |-> 0]
    /\ connectCalls = [a \in Addresses |-> 0]
    /\ states = [a \in Addresses |-> "unknown"]
    /\ caller = [p \in Printers |-> [pc |-> "idle", att |-> 0, reg |-> 0]]
    /\ attempts = 0
    /\ attempt = [i \in AttemptIds |->
                     [address |-> CHOOSE a \in Addresses : TRUE, call |-> "none",
                      result |-> "empty", file |-> "none", stale |-> {}]]
    /\ asked = [a \in Addresses |-> 0]
    /\ handing = {} /\ closing = {} /\ told = {}

\* What Connect does until it returns.
CallerStep(p) ==
    \/ RegisterFails(p) \/ RegisterProfile(p) \/ Registered(p) \/ RegisterEnd(p)
    \/ \E i \in AttemptIds : CloseStale(p, i)
    \/ Install(p) \/ Receive(p) \/ TakeAnswer(p) \/ Timeout(p)
    \/ RemoveWaiter(p) \/ Drain(p) \/ Settle(p) \/ Notify(p)

BrokerNext ==
    \/ \E p \in Printers : ConnectBegin(p) \/ CallerStep(p) \/ CloseTransport(p)
    \/ \E i \in AttemptIds : CallReturns(i) \/ HandOver(i) \/ CloseCaptured(i)
    \/ \E a \in Addresses : NewConnection(a) \/ RequestDisconnection(a)
    \/ Release \/ BusRestart

BrokerSpec == BrokerInit /\ [][BrokerNext]_brokerVars

-----------------------------------------------------------------------------
(* Properties *)

\* No descriptor is lost: an open one is the active socket of its device, or
\* somebody is about to close it (profile.go closeSocket, Release, the stale
\* sockets of ensureRegistered), whatever restarts and closes overtake each other.
DescriptorsAccounted ==
    \A i \in AttemptIds : attempt[i].file = "open" =>
        \/ active[Addr(i)] = i
        \/ i \in closing
        \/ \E p \in Printers : /\ caller[p].pc = "stale"
                               /\ i \in attempt[caller[p].att].stale

\* A waiter belongs to a Connect that still waits or is about to remove it, so
\* NewConnection never gives a socket to an attempt that has ended
\* (profile.go removeWaiter).
WaiterHasCaller ==
    \A a \in Addresses : waiters[a] # 0 =>
        \E p \in Printers : /\ caller[p].att = waiters[a]
                            /\ caller[p].pc \in {"select", "await", "cancel"}

\* An active socket has a worker, or somebody closes it, or BlueZ has been told to
\* disconnect it.  The last case is a real one: NewConnection has taken the waiter,
\* the wait times out before the send, and the send goes to a channel nobody reads
\* (profile.go:313 against cancelPending); DisconnectProfile is then all there is.
ActiveIsOwned ==
    \A a \in Addresses : active[a] # 0 =>
        \/ \E p \in Printers : caller[p].att = active[a]
        \/ active[a] \in closing \cup told

\* A device has at most one ConnectProfile call that counts: connectCalls holds the
\* token of exactly the call that has not returned, although calls return late and
\* a new registration discards the tokens of the old one.
TokenIsTheRunningCall ==
    \A i \in AttemptIds : attempt[i].call = "running" <=> connectCalls[Addr(i)] = i
=============================================================================
