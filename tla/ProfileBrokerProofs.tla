------------------------ MODULE ProfileBrokerProofs ------------------------
(***************************************************************************)
(* The broker of RFCOMM connections, for all sets of printers and          *)
(* addresses and all numbers of attempts and restarts: BrokerInv is an     *)
(* inductive invariant, and it contains the properties of ProfileBroker.   *)
(*                                                                         *)
(* The properties are not inductive by themselves.  What they need is that *)
(* an attempt has one caller, that the three tables hold an attempt only   *)
(* under its own address and in the right part of its life (a waiter has   *)
(* no descriptor yet, an active socket has an open one), and that an       *)
(* attempt whose waiter is not installed yet is untouched.                 *)
(***************************************************************************)
EXTENDS ProfileBroker, TLAPS

-----------------------------------------------------------------------------
(* The inductive invariant *)

\* ensureRegistered, and before the waiter is installed.
Early == {"register", "lock", "stale", "check"}
\* Connect waits, or is about to remove its waiter.
Waits == {"select", "await", "cancel"}

BrokerTypes ==
    /\ bus \in Nat
    /\ waiters \in [Addresses -> 0..MaxAttempts]
    /\ active \in [Addresses -> 0..MaxAttempts]
    /\ connectCalls \in [Addresses -> 0..MaxAttempts]
    /\ caller \in [Printers -> Caller]
    /\ attempts \in 0..MaxAttempts
    /\ attempt \in [AttemptIds -> Attempt]
    /\ handing \subseteq AttemptIds /\ closing \subseteq AttemptIds
    /\ told \subseteq AttemptIds

Untouched(t) == t.call = "none" /\ t.result = "empty" /\ t.file = "none"

\* An attempt has one caller, and is untouched until its waiter is installed.
CallerInv ==
    /\ \A p \in Printers :
          /\ caller[p].pc = "idle" <=> caller[p].att = 0
          /\ caller[p].att <= attempts
          /\ caller[p].pc \in Early =>
                /\ Untouched(attempt[caller[p].att])
                /\ caller[p].pc # "stale" => attempt[caller[p].att].stale = {}
    /\ \A p, q \in Printers : caller[p].att = caller[q].att /\ caller[p].att # 0 => p = q

\* Numbers that were not given out yet.
FreshInv ==
    \A i \in AttemptIds : i > attempts => Untouched(attempt[i]) /\ attempt[i].stale = {}

\* The tables of the broker.
TableInv ==
    /\ \A a \in Addresses : waiters[a] # 0 =>
          Addr(waiters[a]) = a /\ waiters[a] <= attempts /\ attempt[waiters[a]].file = "none"
    /\ \A a \in Addresses : active[a] # 0 =>
          Addr(active[a]) = a /\ active[a] <= attempts /\ attempt[active[a]].file = "open"
    /\ \A a \in Addresses : connectCalls[a] # 0 =>
          Addr(connectCalls[a]) = a /\ connectCalls[a] <= attempts
    /\ \A i \in AttemptIds : attempt[i].result = "full" \/ i \in handing =>
          attempt[i].file # "none"

BrokerInv ==
    /\ BrokerTypes
    /\ CallerInv
    /\ FreshInv
    /\ TableInv
    /\ DescriptorsAccounted
    /\ WaiterHasCaller
    /\ ActiveIsOwned
    /\ TokenIsTheRunningCall

-----------------------------------------------------------------------------
(* Steps of one caller that touch no descriptor and no call *)

\* What the invariant says of the types of single values.
LEMMA Members ==
    ASSUME BrokerInv
    PROVE  /\ MaxAttempts \in Nat /\ attempts \in Nat /\ attempts <= MaxAttempts
           /\ \A p \in Printers :
                 /\ caller[p] \in Caller /\ caller[p].att \in Nat
                 /\ caller[p].att # 0 => caller[p].att \in AttemptIds
           /\ \A i \in AttemptIds : attempt[i] \in Attempt
           /\ \A a \in Addresses :
                 /\ waiters[a] \in Nat /\ active[a] \in Nat /\ connectCalls[a] \in Nat
                 /\ waiters[a] # 0 => waiters[a] \in AttemptIds
                 /\ active[a] # 0 => active[a] \in AttemptIds
                 /\ connectCalls[a] # 0 => connectCalls[a] \in AttemptIds
  <1>1. MaxAttempts \in Nat BY BrokerAssumption
  <1>2. BrokerTypes BY DEF BrokerInv
  <1>3. \A x \in 0..MaxAttempts : x \in Nat /\ (x # 0 => x \in AttemptIds)
    BY <1>1 DEF AttemptIds
  <1>4. \A p \in Printers : caller[p] \in Caller /\ caller[p].att \in 0..MaxAttempts
    BY <1>2 DEF BrokerTypes, Caller
  <1>5. attempts \in Nat /\ attempts <= MaxAttempts BY <1>1, <1>2 DEF BrokerTypes
  <1> QED BY <1>1, <1>2, <1>3, <1>4, <1>5 DEF BrokerTypes

\* Caller p moves to v, perhaps removing its waiter or telling BlueZ about a socket.
CallerMoves(p, v) ==
    /\ caller' = [caller EXCEPT ![p] = v] /\ v \in Caller
    /\ v.pc = "idle" <=> v.att = 0
    /\ v.att \in {0, caller[p].att}
    /\ v.pc \in Early =>
          caller[p].pc \in Early /\ (v.pc # "stale" => attempt[caller[p].att].stale = {})
    /\ caller[p].pc = "stale" => attempt[caller[p].att].stale = {}
    /\ waiters' \in [Addresses -> 0..MaxAttempts]
    /\ \A a \in Addresses : waiters'[a] \in {0, waiters[a]}
    /\ \A a \in Addresses : waiters'[a] # 0 /\ waiters'[a] = caller[p].att =>
          v.att = caller[p].att /\ v.pc \in Waits
    /\ \A a \in Addresses : active[a] # 0 /\ active[a] = caller[p].att =>
          v.att = caller[p].att \/ active[a] \in told'
    /\ told \subseteq told' /\ told' \subseteq AttemptIds
    /\ UNCHANGED <<bus, active, connectCalls, attempts, attempt, handing, closing>>

\* Such a move keeps the invariant.
LEMMA CallerMovesKeep ==
    ASSUME BrokerInv, NEW p \in Printers, NEW v, CallerMoves(p, v)
    PROVE  BrokerInv'
  <1>1. \A q \in Printers : caller'[q] = IF q = p THEN v ELSE caller[q]
    BY DEF BrokerInv, BrokerTypes, CallerMoves
  <1>2. UNCHANGED <<bus, active, connectCalls, attempts, attempt, handing, closing>>
    BY DEF CallerMoves
  <1>3. BrokerTypes' BY <1>2 DEF BrokerInv, BrokerTypes, CallerMoves
  <1>4. CallerInv'
    <2>1. v.pc = "idle" <=> v.att = 0 BY DEF CallerMoves
    <2>2. v.att <= attempts BY Members DEF BrokerInv, CallerInv, CallerMoves
    <2>3. v.pc \in Early => v.att = caller[p].att
      BY <2>1 DEF CallerMoves, Early
    <2>4. v.pc \in Early =>
             Untouched(attempt[v.att]) /\ (v.pc # "stale" => attempt[v.att].stale = {})
      BY <2>3 DEF BrokerInv, CallerInv, CallerMoves
    <2>5. \A q \in Printers : caller'[q].att # 0 => caller'[q].att = caller[q].att
      BY <1>1 DEF CallerMoves
    <2> QED BY <1>1, <1>2, <2>1, <2>2, <2>4, <2>5 DEF BrokerInv, CallerInv, Untouched
  <1>5. FreshInv' BY <1>2 DEF BrokerInv, FreshInv, Untouched
  <1>6. TableInv' BY <1>2 DEF BrokerInv, TableInv, CallerMoves, Addr
  <1>7. DescriptorsAccounted'
    <2>1. \A q \in Printers : caller[q].pc = "stale" /\ attempt[caller[q].att].stale # {}
             => caller'[q] = caller[q]
      BY <1>1 DEF CallerMoves
    <2> QED BY <1>2, <2>1 DEF BrokerInv, DescriptorsAccounted, Addr
  <1>8. WaiterHasCaller' BY <1>1 DEF BrokerInv, WaiterHasCaller, CallerMoves, Waits
  <1>9. ActiveIsOwned' BY <1>1, <1>2 DEF BrokerInv, ActiveIsOwned, CallerMoves
  <1>10. TokenIsTheRunningCall' BY <1>2 DEF BrokerInv, TokenIsTheRunningCall, Addr
  <1> QED BY <1>3, <1>4, <1>5, <1>6, <1>7, <1>8, <1>9, <1>10 DEF BrokerInv

\* Waiters and sockets of an attempt tell where its caller is.
LEMMA TablesKnowCallers ==
    ASSUME BrokerInv, NEW p \in Printers, NEW a \in Addresses, caller[p].att # 0
    PROVE  /\ waiters[a] = caller[p].att => caller[p].pc \in Waits
           /\ active[a] = caller[p].att => attempt[caller[p].att].file = "open"
           /\ waiters[a] = caller[p].att \/ active[a] = caller[p].att
                => caller[p].pc \notin Early /\ Addr(caller[p].att) = a
  <1>1. waiters[a] = caller[p].att => caller[p].pc \in Waits
    BY DEF BrokerInv, WaiterHasCaller, CallerInv, Waits
  <1>2. active[a] = caller[p].att => attempt[caller[p].att].file = "open"
    BY DEF BrokerInv, TableInv
  <1> QED BY <1>1, <1>2 DEF BrokerInv, CallerInv, TableInv, Untouched, Early, Waits

\* The returns with an error before the waiter is installed, and the steps of
\* ensureRegistered that touch the registration only.
LEMMA EarlyMoves ==
    ASSUME BrokerInv, NEW p \in Printers,
           \/ RegisterFails(p) \/ RegisterProfile(p) \/ RegisterEnd(p)
           \/ caller[p].pc = "check" /\ Idle(p)
              /\ UNCHANGED <<bus, waiters, active, connectCalls, attempts, attempt,
                             handing, closing, told>>
    PROVE  BrokerInv'
  <1> DEFINE c == caller[p]
  <1>0. /\ c \in Caller /\ c.pc \in Early /\ c.att # 0 /\ bus \in Nat
        /\ waiters \in [Addresses -> 0..MaxAttempts] /\ told \subseteq AttemptIds
        /\ c.pc # "stale" => attempt[c.att].stale = {}
    BY DEF RegisterFails, RegisterProfile, RegisterEnd, BrokerInv, BrokerTypes,
       CallerInv, Early
  <1>1. UNCHANGED <<bus, waiters, active, connectCalls, attempts, attempt, handing,
                    closing, told>>
    BY DEF RegisterFails, RegisterProfile, RegisterEnd
  <1>2. \A a \in Addresses : waiters[a] # c.att /\ active[a] # c.att
    BY <1>0, TablesKnowCallers
  <1>3. attempt[c.att].stale = {} BY <1>0 DEF RegisterFails, RegisterProfile, RegisterEnd
  <1>4. CASE RegisterProfile(p)
    <2> DEFINE v == [c EXCEPT !.pc = "lock", !.reg = bus]
    <2>1. caller' = [caller EXCEPT ![p] = v] BY <1>4 DEF RegisterProfile
    <2>2. v \in Caller /\ v.pc = "lock" /\ v.att = c.att BY <1>0 DEF Caller
    <2> HIDE DEF v
    <2>3. CallerMoves(p, v)
      BY <1>0, <1>1, <1>2, <1>3, <2>1, <2>2 DEF CallerMoves, Early
    <2> QED BY <2>3, CallerMovesKeep
  <1>5. CASE RegisterEnd(p)
    <2> DEFINE v == [c EXCEPT !.pc = "check"]
    <2>1. caller' = [caller EXCEPT ![p] = v] BY <1>5 DEF RegisterEnd, Go
    <2>2. v \in Caller /\ v.pc = "check" /\ v.att = c.att BY <1>0 DEF Caller
    <2> HIDE DEF v
    <2>3. CallerMoves(p, v)
      BY <1>0, <1>1, <1>2, <1>3, <2>1, <2>2 DEF CallerMoves, Early
    <2> QED BY <2>3, CallerMovesKeep
  <1>6. CASE Idle(p)
    <2> DEFINE v == [pc |-> "idle", att |-> 0, reg |-> 0]
    <2>1. caller' = [caller EXCEPT ![p] = v] BY <1>6 DEF Idle
    <2>2. v \in Caller /\ v.pc = "idle" /\ v.att = 0 BY BrokerAssumption DEF Caller
    <2> HIDE DEF v
    <2>3. CallerMoves(p, v)
      BY <1>0, <1>1, <1>2, <1>3, <2>1, <2>2 DEF CallerMoves, Early
    <2> QED BY <2>3, CallerMovesKeep
  <1> QED BY <1>4, <1>5, <1>6 DEF RegisterFails

\* The selects of Connect and the steps of cancelPending without the descriptor.
LEMMA LateMoves ==
    ASSUME BrokerInv, NEW p \in Printers,
           TakeAnswer(p) \/ Timeout(p) \/ RemoveWaiter(p) \/ Settle(p) \/ Notify(p)
    PROVE  BrokerInv'
  <1> DEFINE c == caller[p]
  <1>0. /\ c \in Caller /\ c.pc \in {"select", "await", "cancel", "settle", "notify"}
        /\ c.att # 0 /\ waiters \in [Addresses -> 0..MaxAttempts]
        /\ told \subseteq AttemptIds
    BY DEF TakeAnswer, Timeout, RemoveWaiter, Settle, Notify, BrokerInv, BrokerTypes,
       CallerInv
  <1>1. UNCHANGED <<bus, active, connectCalls, attempts, attempt, handing, closing>>
    BY DEF TakeAnswer, Timeout, RemoveWaiter, Settle, Notify
  <1>2. ASSUME NEW pc \in Waits \cup {"drain", "notify"}, Go(p, pc), told' = told,
               waiters' \in [Addresses -> 0..MaxAttempts],
               \A a \in Addresses : waiters'[a] \in {0, waiters[a]},
               \A a \in Addresses : waiters'[a] = c.att => pc \in Waits
        PROVE  BrokerInv'
    <2> DEFINE v == [c EXCEPT !.pc = pc]
    <2>1. caller' = [caller EXCEPT ![p] = v] BY <1>2 DEF Go
    <2>2. v \in Caller /\ v.pc = pc /\ v.att = c.att BY <1>0 DEF Caller, Waits
    <2>3. pc # "idle" /\ pc \notin Early BY DEF Waits, Early
    <2> HIDE DEF v
    <2>4. CallerMoves(p, v) BY <1>0, <1>1, <1>2, <2>1, <2>2, <2>3 DEF CallerMoves
    <2> QED BY <2>4, CallerMovesKeep
  <1>3. CASE TakeAnswer(p) \/ Timeout(p)
    <2>1. waiters' = waiters /\ told' = told BY <1>3 DEF TakeAnswer, Timeout
    <2>2. PICK pc \in {"cancel", "await"} : Go(p, pc) BY <1>3 DEF TakeAnswer, Timeout
    <2> QED BY <1>0, <1>2, <2>1, <2>2 DEF Waits
  <1>4. CASE RemoveWaiter(p)
    <2>1. waiters' \in [Addresses -> 0..MaxAttempts]
      <3>1. 0 \in 0..MaxAttempts BY BrokerAssumption
      <3>2. PICK b : b = Addr(c.att) OBVIOUS
      <3>3. waiters' = waiters \/ waiters' = [waiters EXCEPT ![b] = 0]
        BY <1>4, <3>2 DEF RemoveWaiter
      <3>4. [waiters EXCEPT ![b] = 0] \in [Addresses -> 0..MaxAttempts] BY <1>0, <3>1
      <3> QED BY <1>0, <3>3, <3>4
    <2>2. \A a \in Addresses : waiters'[a] \in {0, waiters[a]} /\ waiters'[a] # c.att
      <3> SUFFICES ASSUME NEW a \in Addresses
                   PROVE  waiters'[a] \in {0, waiters[a]} /\ waiters'[a] # c.att
        OBVIOUS
      <3>1. waiters[a] = c.att => Addr(c.att) = a BY <1>0, TablesKnowCallers
      <3> QED BY <1>0, <1>4, <3>1 DEF RemoveWaiter
    <2>3. told' = told /\ Go(p, "drain") BY <1>4 DEF RemoveWaiter
    <2> QED BY <1>2, <2>1, <2>2, <2>3
  <1>5. CASE Settle(p)
    <2>1. waiters' = waiters /\ told' = told /\ Go(p, "notify") /\ c.pc = "settle"
      BY <1>5 DEF Settle
    <2>2. \A a \in Addresses : waiters[a] # c.att
      BY <1>0, <2>1, TablesKnowCallers DEF Waits
    <2> QED BY <1>0, <1>2, <2>1, <2>2
  <1>6. CASE Notify(p)
    <2> DEFINE v == [pc |-> "idle", att |-> 0, reg |-> 0]
    <2>1. /\ caller' = [caller EXCEPT ![p] = v] /\ waiters' = waiters /\ c.pc = "notify"
          /\ told' = told \cup ({active[Addr(c.att)]} \ {0})
      BY <1>6 DEF Notify, Idle, ToldAbout
    <2>2. v \in Caller /\ v.pc = "idle" /\ v.att = 0 BY BrokerAssumption DEF Caller
    <2>3. \A a \in Addresses : waiters[a] # c.att
      BY <1>0, <2>1, TablesKnowCallers DEF Waits
    <2>4. \A a \in Addresses : active[a] = c.att => active[a] \in told'
      BY <1>0, <2>1, TablesKnowCallers
    <2>5. told' \subseteq AttemptIds
      <3>1. c.att \in AttemptIds BY <1>0, Members
      <3>2. Addr(c.att) \in Addresses BY <3>1, Members DEF Addr, Attempt
      <3> QED BY <1>0, <2>1, <3>2, Members
    <2> HIDE DEF v
    <2>6. CallerMoves(p, v)
      BY <1>0, <1>1, <2>1, <2>2, <2>3, <2>4, <2>5 DEF CallerMoves, Early
    <2> QED BY <2>6, CallerMovesKeep
  <1> QED BY <1>3, <1>4, <1>5, <1>6

-----------------------------------------------------------------------------
(* Closing a socket *)

\* Somebody closes socket i: its descriptor is closed if it had one, it is not the
\* active socket any more, and whoever did it moves on.
Closes(i) ==
    /\ attempt' \in [AttemptIds -> Attempt]
    /\ \A j \in AttemptIds :
          /\ Addr(j)' = Addr(j) /\ attempt'[j].call = attempt[j].call
          /\ attempt'[j].result \in {attempt[j].result, "drained"}
          /\ attempt[j].result = "empty" => attempt'[j].result = "empty"
          /\ attempt'[j].stale \subseteq attempt[j].stale
          /\ attempt[j].stale \subseteq attempt'[j].stale \cup {i}
          /\ attempt'[j].file = IF j = i /\ attempt[i].file # "none"
                                THEN "closed" ELSE attempt[j].file
    /\ active' \in [Addresses -> 0..MaxAttempts]
    /\ \A a \in Addresses : active'[a] = IF active[a] = i THEN 0 ELSE active[a]
    /\ closing' \subseteq closing /\ closing \subseteq closing' \cup {i}
    /\ caller' \in [Printers -> Caller]
    /\ \A q \in Printers :
          \/ caller'[q] = caller[q]
          \/ /\ caller[q].pc \in {"open", "drain"} /\ caller'[q].pc \in {"settle", "notify"}
             /\ caller'[q].att = caller[q].att
          \/ /\ caller[q].pc = "open" /\ caller'[q].pc = "idle"
             /\ caller'[q].att = 0 /\ caller[q].att = i
    /\ UNCHANGED <<bus, waiters, connectCalls, attempts, handing, told>>

\* A close keeps the invariant, whoever does it.
LEMMA ClosesKeep ==
    ASSUME BrokerInv, NEW i \in AttemptIds, Closes(i)
    PROVE  BrokerInv'
  <1>1. UNCHANGED <<bus, waiters, connectCalls, attempts, handing, told>> BY DEF Closes
  <1>2. BrokerTypes' BY <1>1 DEF BrokerInv, BrokerTypes, Closes
  <1>3. \A j \in AttemptIds : Untouched(attempt[j]) => Untouched(attempt'[j])
    BY DEF Closes, Untouched
  <1>4. \A q \in Printers :
           /\ caller'[q].att # 0 => caller'[q].att = caller[q].att
           /\ caller'[q].pc \in Early => caller'[q] = caller[q]
           /\ caller[q].pc \in Early \cup Waits => caller'[q] = caller[q]
           /\ caller'[q].att = caller[q].att \/ caller[q].att = i
           /\ caller'[q].att <= attempts
           /\ caller'[q].pc = "idle" <=> caller'[q].att = 0
    BY Members DEF Closes, Early, Waits, BrokerInv, CallerInv
  <1>5. CallerInv'
    <2>1. ASSUME NEW q \in Printers, caller'[q].pc \in Early
          PROVE  /\ Untouched(attempt'[caller'[q].att])
                 /\ caller'[q].pc # "stale" => attempt'[caller'[q].att].stale = {}
      <3>1. caller'[q] = caller[q] /\ caller[q].pc \in Early BY <1>4, <2>1
      <3>2. caller[q].att \in AttemptIds
        BY <3>1, Members DEF BrokerInv, CallerInv, Early
      <3>3. Untouched(attempt[caller[q].att])
            /\ (caller[q].pc # "stale" => attempt[caller[q].att].stale = {})
        BY <3>1 DEF BrokerInv, CallerInv
      <3> QED BY <1>3, <3>1, <3>2, <3>3 DEF Closes
    <2> QED BY <1>1, <1>4, <2>1 DEF BrokerInv, CallerInv, Untouched
  <1>6. FreshInv'
    <2>1. \A j \in AttemptIds : attempt[j].stale = {} => attempt'[j].stale = {}
      BY DEF Closes
    <2> QED BY <1>1, <1>3, <2>1 DEF BrokerInv, FreshInv, Untouched
  <1>7. TableInv'
    <2>1. \A a \in Addresses : waiters[a] # 0 =>
             attempt'[waiters[a]].file = "none" /\ attempt'[waiters[a]].address = a
      BY Members DEF BrokerInv, TableInv, Closes, Addr
    <2>2. \A a \in Addresses : active'[a] # 0 =>
             /\ attempt'[active'[a]].file = "open" /\ attempt'[active'[a]].address = a
             /\ active'[a] <= attempts
      BY Members DEF BrokerInv, TableInv, Closes, Addr
    <2>3. \A a \in Addresses : connectCalls[a] # 0 => attempt'[connectCalls[a]].address = a
      BY Members DEF BrokerInv, TableInv, Closes, Addr
    <2>4. \A j \in AttemptIds : attempt'[j].result = "full" \/ j \in handing =>
             attempt'[j].file # "none"
      BY DEF BrokerInv, TableInv, Closes
    <2> QED BY <1>1, <2>1, <2>2, <2>3, <2>4 DEF BrokerInv, TableInv, Addr
  <1>8. DescriptorsAccounted'
    <2> SUFFICES ASSUME NEW j \in AttemptIds, attempt'[j].file = "open"
                 PROVE  \/ active'[attempt'[j].address] = j
                        \/ j \in closing'
                        \/ \E p \in Printers : /\ caller'[p].pc = "stale"
                                               /\ j \in attempt'[caller'[p].att].stale
      BY DEF DescriptorsAccounted, Addr
    <2>1. j # i /\ attempt[j].file = "open" /\ attempt'[j].address = attempt[j].address
      BY DEF Closes, Addr
    <2>2. CASE active[Addr(j)] = j
      <3>1. Addr(j) \in Addresses BY Members DEF Addr, Attempt
      <3> QED BY <2>1, <2>2, <3>1 DEF Closes, Addr
    <2>3. CASE j \in closing BY <2>1, <2>3 DEF Closes
    <2>4. ASSUME NEW p \in Printers, caller[p].pc = "stale",
                 j \in attempt[caller[p].att].stale
          PROVE  caller'[p].pc = "stale" /\ j \in attempt'[caller'[p].att].stale
      <3>1. caller'[p] = caller[p] BY <1>4, <2>4 DEF Early
      <3>2. caller[p].att \in AttemptIds BY <2>4, Members DEF BrokerInv, CallerInv
      <3> QED BY <2>1, <2>4, <3>1, <3>2 DEF Closes
    <2> QED BY <2>1, <2>2, <2>3, <2>4 DEF BrokerInv, DescriptorsAccounted
  <1>9. WaiterHasCaller' BY <1>1, <1>4 DEF BrokerInv, WaiterHasCaller, Waits
  <1>10. ActiveIsOwned'
    <2> SUFFICES ASSUME NEW a \in Addresses, active'[a] # 0
                 PROVE  \/ \E p \in Printers : caller'[p].att = active'[a]
                        \/ active'[a] \in closing' \cup told
      BY <1>1 DEF ActiveIsOwned
    <2>1. active'[a] = active[a] /\ active[a] # i BY DEF Closes
    <2>2. ASSUME NEW p \in Printers, caller[p].att = active[a]
          PROVE  caller'[p].att = active'[a]
      BY <1>4, <2>1, <2>2
    <2>3. active[a] \in closing => active'[a] \in closing' BY <2>1 DEF Closes
    <2> QED BY <2>1, <2>2, <2>3 DEF BrokerInv, ActiveIsOwned
  <1>11. TokenIsTheRunningCall'
    BY <1>1 DEF BrokerInv, TokenIsTheRunningCall, Closes, Addr
  <1> QED BY <1>2, <1>5, <1>6, <1>7, <1>8, <1>9, <1>10, <1>11 DEF BrokerInv

\* The socket is forgotten only by its own device.
LEMMA ClosedActiveIs ==
    ASSUME BrokerInv, NEW i \in AttemptIds
    PROVE  /\ ClosedActive(i) \in [Addresses -> 0..MaxAttempts]
           /\ \A a \in Addresses :
                 ClosedActive(i)[a] = IF active[a] = i THEN 0 ELSE active[a]
           /\ attempt[i].file # "open" => \A a \in Addresses : active[a] # i
  <1>1. active \in [Addresses -> 0..MaxAttempts] /\ 0 \in 0..MaxAttempts /\ i # 0
    BY BrokerAssumption DEF BrokerInv, BrokerTypes, AttemptIds
  <1>2. \A a \in Addresses : active[a] = i => Addr(i) = a /\ attempt[i].file = "open"
    BY <1>1 DEF BrokerInv, TableInv
  <1> QED BY <1>1, <1>2 DEF ClosedActive

\* profileSocket.close.
LEMMA CloseSocketIs ==
    ASSUME BrokerInv, NEW i \in AttemptIds, CloseSocket(i)
    PROVE  /\ attempt' \in [AttemptIds -> Attempt]
           /\ \A j \in AttemptIds :
                 /\ Addr(j)' = Addr(j) /\ attempt'[j].call = attempt[j].call
                 /\ attempt'[j].result = attempt[j].result
                 /\ attempt'[j].stale = attempt[j].stale
                 /\ attempt'[j].file = IF j = i /\ attempt[i].file # "none"
                                       THEN "closed" ELSE attempt[j].file
           /\ active' \in [Addresses -> 0..MaxAttempts]
           /\ \A a \in Addresses : active'[a] = IF active[a] = i THEN 0 ELSE active[a]
  <1>1. attempt \in [AttemptIds -> Attempt] /\ active \in [Addresses -> 0..MaxAttempts]
    BY DEF BrokerInv, BrokerTypes
  <1>2. CASE attempt[i].file = "open"
    <2>1. active' = ClosedActive(i) /\ attempt' = [attempt EXCEPT ![i].file = "closed"]
      BY <1>2 DEF CloseSocket
    <2>2. attempt' \in [AttemptIds -> Attempt] BY <1>1, <2>1 DEF Attempt
    <2>3. \A j \in AttemptIds :
             /\ attempt'[j].address = attempt[j].address
             /\ attempt'[j].call = attempt[j].call
             /\ attempt'[j].result = attempt[j].result
             /\ attempt'[j].stale = attempt[j].stale
             /\ attempt'[j].file = IF j = i THEN "closed" ELSE attempt[j].file
      BY <1>1, <2>1 DEF Attempt
    <2> QED BY <1>2, <2>1, <2>2, <2>3, ClosedActiveIs DEF Addr
  <1>3. CASE attempt[i].file # "open"
    <2>1. active' = active /\ attempt' = attempt BY <1>3 DEF CloseSocket
    <2>2. attempt[i].file \in {"none", "closed"} BY <1>1, <1>3 DEF Attempt
    <2> QED BY <1>1, <1>3, <2>1, <2>2, ClosedActiveIs DEF Addr
  <1> QED BY <1>2, <1>3

\* The transport, RequestDisconnection and Release close a socket.
LEMMA CloseMoves ==
    ASSUME BrokerInv,
           \/ \E i \in AttemptIds : CloseCaptured(i)
           \/ \E p \in Printers : CloseTransport(p)
    PROVE  BrokerInv'
  <1>0. caller \in [Printers -> Caller] BY DEF BrokerInv, BrokerTypes
  <1>1. ASSUME NEW i \in AttemptIds, CloseCaptured(i) PROVE BrokerInv'
    <2>1. /\ CloseSocket(i) /\ caller' = caller /\ closing' = closing \ {i}
          /\ UNCHANGED <<bus, waiters, connectCalls, attempts, handing, told>>
      BY <1>1 DEF CloseCaptured
    <2>2. Closes(i) BY <1>0, <2>1, CloseSocketIs DEF Closes
    <2> QED BY <2>2, ClosesKeep
  <1>2. ASSUME NEW p \in Printers, CloseTransport(p) PROVE BrokerInv'
    <2>1. PICK i : i = caller[p].att OBVIOUS
    <2>2. i \in AttemptIds /\ caller[p].pc = "open"
      BY <1>2, <2>1, Members DEF CloseTransport, BrokerInv, CallerInv
    <2>3. /\ CloseSocket(i) /\ closing' = closing
          /\ UNCHANGED <<bus, waiters, connectCalls, attempts, handing, told>>
          /\ Go(p, "notify") \/ Idle(p)
      BY <1>2, <2>1 DEF CloseTransport
    <2>4. /\ caller' \in [Printers -> Caller]
          /\ \A q \in Printers \ {p} : caller'[q] = caller[q]
          /\ \/ caller'[p].pc = "notify" /\ caller'[p].att = caller[p].att
             \/ caller'[p].pc = "idle" /\ caller'[p].att = 0
      <3>1. CASE Go(p, "notify")
        BY <1>0, <3>1 DEF Go, Caller
      <3>2. CASE Idle(p)
        <4> DEFINE v == [pc |-> "idle", att |-> 0, reg |-> 0]
        <4>1. v \in Caller /\ v.pc = "idle" /\ v.att = 0 BY BrokerAssumption DEF Caller
        <4>2. caller' = [caller EXCEPT ![p] = v] BY <3>2 DEF Idle
        <4> HIDE DEF v
        <4> QED BY <1>0, <4>1, <4>2
      <3> QED BY <2>3, <3>1, <3>2
    <2>5. \A q \in Printers :
             \/ caller'[q] = caller[q]
             \/ /\ caller[q].pc \in {"open", "drain"}
                /\ caller'[q].pc \in {"settle", "notify"}
                /\ caller'[q].att = caller[q].att
             \/ /\ caller[q].pc = "open" /\ caller'[q].pc = "idle"
                /\ caller'[q].att = 0 /\ caller[q].att = i
      BY <2>1, <2>2, <2>4
    <2>6. Closes(i) BY <2>2, <2>3, <2>4, <2>5, CloseSocketIs DEF Closes
    <2> QED BY <2>2, <2>6, ClosesKeep
  <1> QED BY <1>1, <1>2

\* cancelPending finds a socket in the channel and closes it.
LEMMA DrainMoves ==
    ASSUME BrokerInv, NEW p \in Printers, Drain(p)
    PROVE  BrokerInv'
  <1>0. /\ caller \in [Printers -> Caller] /\ active \in [Addresses -> 0..MaxAttempts]
        /\ attempt \in [AttemptIds -> Attempt]
    BY DEF BrokerInv, BrokerTypes
  <1>1. PICK i : i = caller[p].att OBVIOUS
  <1>2. i \in AttemptIds /\ caller[p].pc = "drain"
    BY <1>1, Members DEF Drain, BrokerInv, CallerInv
  <1>3. /\ Go(p, "settle")
        /\ UNCHANGED <<bus, waiters, connectCalls, attempts, handing, closing, told>>
    BY DEF Drain
  <1>4. caller' = [caller EXCEPT ![p] = [caller[p] EXCEPT !.pc = "settle"]]
    BY <1>3 DEF Go
  <1>5. /\ [caller[p] EXCEPT !.pc = "settle"] \in Caller
        /\ caller' \in [Printers -> Caller]
        /\ \A q \in Printers \ {p} : caller'[q] = caller[q]
        /\ caller'[p].pc = "settle" /\ caller'[p].att = caller[p].att
    BY <1>0, <1>4 DEF Caller
  <1>6. CASE attempt[i].result = "full"
    <2>1. /\ attempt' = [attempt EXCEPT ![i].result = "drained", ![i].file = "closed"]
          /\ IF attempt[i].file = "open" THEN active' = ClosedActive(i) ELSE active' = active
      BY <1>1, <1>6 DEF Drain
    <2>2. attempt[i].file # "none" BY <1>2, <1>6 DEF BrokerInv, TableInv
    <2>3. attempt' \in [AttemptIds -> Attempt] BY <1>0, <2>1 DEF Attempt
    <2>4. \A j \in AttemptIds :
             /\ attempt'[j].address = attempt[j].address
             /\ attempt'[j].call = attempt[j].call
             /\ attempt'[j].result = IF j = i THEN "drained" ELSE attempt[j].result
             /\ attempt'[j].stale = attempt[j].stale
             /\ attempt'[j].file = IF j = i THEN "closed" ELSE attempt[j].file
      BY <1>0, <2>1 DEF Attempt
    <2>5. /\ active' \in [Addresses -> 0..MaxAttempts]
          /\ \A a \in Addresses : active'[a] = IF active[a] = i THEN 0 ELSE active[a]
      BY <1>0, <1>2, <2>1, ClosedActiveIs
    <2>6. \A j \in AttemptIds :
             /\ Addr(j)' = Addr(j) /\ attempt'[j].call = attempt[j].call
             /\ attempt'[j].result \in {attempt[j].result, "drained"}
             /\ attempt[j].result = "empty" => attempt'[j].result = "empty"
             /\ attempt'[j].stale \subseteq attempt[j].stale
             /\ attempt[j].stale \subseteq attempt'[j].stale \cup {i}
             /\ attempt'[j].file = IF j = i /\ attempt[i].file # "none"
                                   THEN "closed" ELSE attempt[j].file
      BY <1>6, <2>2, <2>4 DEF Addr
    <2>7. Closes(i) BY <1>2, <1>3, <1>5, <2>3, <2>5, <2>6 DEF Closes
    <2> QED BY <1>2, <2>7, ClosesKeep
  <1>7. CASE attempt[i].result # "full"
    <2> DEFINE v == [caller[p] EXCEPT !.pc = "settle"]
    <2>1. UNCHANGED <<active, attempt>> BY <1>1, <1>7 DEF Drain
    <2>2. v \in Caller /\ v.pc = "settle" /\ v.att = caller[p].att /\ v.att # 0
      BY <1>0, <1>1, <1>2 DEF Caller, AttemptIds
    <2>3. \A a \in Addresses : waiters[a] # caller[p].att
      BY <1>2, <2>2, TablesKnowCallers DEF Waits
    <2>4. waiters \in [Addresses -> 0..MaxAttempts] /\ told \subseteq AttemptIds
      BY DEF BrokerInv, BrokerTypes
    <2> HIDE DEF v
    <2>5. caller' = [caller EXCEPT ![p] = v] BY <1>4 DEF v
    <2>6. CallerMoves(p, v)
      BY <1>2, <1>3, <2>1, <2>2, <2>3, <2>4, <2>5 DEF CallerMoves, Early
    <2> QED BY <2>6, CallerMovesKeep
  <1> QED BY <1>6, <1>7

\* ensureRegistered closes a socket of the registration before.
LEMMA CloseStaleMoves ==
    ASSUME BrokerInv, NEW p \in Printers, NEW i \in AttemptIds, CloseStale(p, i)
    PROVE  BrokerInv'
  <1> DEFINE taken == [attempt EXCEPT ![caller[p].att].stale = @ \ {i}]
  <1>0. /\ caller \in [Printers -> Caller] /\ active \in [Addresses -> 0..MaxAttempts]
        /\ attempt \in [AttemptIds -> Attempt]
    BY DEF BrokerInv, BrokerTypes
  <1>1. PICK k : k = caller[p].att OBVIOUS
  <1>2. k \in AttemptIds
    BY <1>1, Members DEF CloseStale, BrokerInv, CallerInv
  <1>3. /\ caller' = caller /\ closing' = closing
        /\ UNCHANGED <<bus, waiters, connectCalls, attempts, handing, told>>
    BY DEF CloseStale
  <1>4. taken = [attempt EXCEPT ![k].stale = attempt[k].stale \ {i}] BY <1>1
  <1>5. /\ taken \in [AttemptIds -> Attempt]
        /\ \A j \in AttemptIds :
              /\ taken[j].address = attempt[j].address /\ taken[j].call = attempt[j].call
              /\ taken[j].result = attempt[j].result /\ taken[j].file = attempt[j].file
              /\ taken[j].stale = IF j = k THEN attempt[j].stale \ {i} ELSE attempt[j].stale
    <2>1. PICK S : S = attempt[k].stale \ {i} OBVIOUS
    <2>2. S \in SUBSET AttemptIds BY <1>0, <1>2, <2>1 DEF Attempt
    <2>3. PICK v : v = [attempt[k] EXCEPT !.stale = S] OBVIOUS
    <2>4. /\ v \in Attempt /\ v.stale = S
          /\ v.address = attempt[k].address /\ v.call = attempt[k].call
          /\ v.result = attempt[k].result /\ v.file = attempt[k].file
      <3>1. attempt[k] \in Attempt BY <1>0, <1>2
      <3> QED BY <2>2, <2>3, <3>1 DEF Attempt
    <2>5. taken = [attempt EXCEPT ![k] = v] BY <1>4, <2>1, <2>3
    <2> HIDE DEF taken
    <2> QED BY <1>0, <1>2, <2>1, <2>4, <2>5
  <1> HIDE DEF taken
  <1>6. /\ attempt' \in [AttemptIds -> Attempt]
        /\ \A j \in AttemptIds :
              /\ attempt'[j].address = taken[j].address /\ attempt'[j].call = taken[j].call
              /\ attempt'[j].result = taken[j].result /\ attempt'[j].stale = taken[j].stale
              /\ attempt'[j].file = IF j = i /\ attempt[i].file # "none"
                                    THEN "closed" ELSE taken[j].file
        /\ active' \in [Addresses -> 0..MaxAttempts]
        /\ \A a \in Addresses : active'[a] = IF active[a] = i THEN 0 ELSE active[a]
    <2>1. CASE attempt[i].file = "open"
      <3>1. active' = ClosedActive(i) /\ attempt' = [taken EXCEPT ![i].file = "closed"]
        BY <2>1 DEF CloseStale, taken
      <3>2. attempt' \in [AttemptIds -> Attempt] BY <1>5, <3>1 DEF Attempt
      <3>3. \A j \in AttemptIds :
               /\ attempt'[j].address = taken[j].address
               /\ attempt'[j].call = taken[j].call
               /\ attempt'[j].result = taken[j].result
               /\ attempt'[j].stale = taken[j].stale
               /\ attempt'[j].file = IF j = i THEN "closed" ELSE taken[j].file
        BY <1>5, <3>1 DEF Attempt
      <3> QED BY <2>1, <3>1, <3>2, <3>3, ClosedActiveIs
    <2>2. CASE attempt[i].file # "open"
      <3>1. active' = active /\ attempt' = taken BY <2>2 DEF CloseStale, taken
      <3>2. attempt[i].file \in {"none", "closed"} BY <1>0, <2>2 DEF Attempt
      <3> QED BY <1>0, <1>5, <2>2, <3>1, <3>2, ClosedActiveIs
    <2> QED BY <2>1, <2>2
  <1>7. \A j \in AttemptIds :
           /\ Addr(j)' = Addr(j) /\ attempt'[j].call = attempt[j].call
           /\ attempt'[j].result \in {attempt[j].result, "drained"}
           /\ attempt[j].result = "empty" => attempt'[j].result = "empty"
           /\ attempt'[j].stale \subseteq attempt[j].stale
           /\ attempt[j].stale \subseteq attempt'[j].stale \cup {i}
           /\ attempt'[j].file = IF j = i /\ attempt[i].file # "none"
                                 THEN "closed" ELSE attempt[j].file
    BY <1>5, <1>6 DEF Addr
  <1>8. Closes(i) BY <1>0, <1>3, <1>6, <1>7 DEF Closes
  <1> QED BY <1>8, ClosesKeep

-----------------------------------------------------------------------------
(* The other steps *)

\* Connect takes the next number.
LEMMA BeginMoves ==
    ASSUME BrokerInv, NEW p \in Printers, ConnectBegin(p)
    PROVE  BrokerInv'
  <1> DEFINE n == attempts + 1
             v == [pc |-> "register", att |-> n, reg |-> 0]
  <1>0. /\ caller \in [Printers -> Caller] /\ attempt \in [AttemptIds -> Attempt]
        /\ n \in AttemptIds /\ n \in 0..MaxAttempts /\ n \in Nat /\ n # 0
        /\ AddressOf[p] \in Addresses /\ attempts \in Nat
    <2>1. attempts \in Nat /\ attempts < MaxAttempts /\ MaxAttempts \in Nat
      BY Members DEF ConnectBegin
    <2>2. n \in AttemptIds /\ n \in 0..MaxAttempts /\ n \in Nat /\ n # 0
      BY <2>1 DEF AttemptIds
    <2>3. AddressOf[p] \in Addresses BY BrokerAssumption
    <2> QED BY <2>1, <2>2, <2>3 DEF BrokerInv, BrokerTypes
  <1>1. /\ attempts' = n /\ caller' = [caller EXCEPT ![p] = v]
        /\ attempt' = [attempt EXCEPT ![n].address = AddressOf[p]]
        /\ UNCHANGED <<bus, waiters, active, connectCalls, handing, closing, told>>
    BY DEF ConnectBegin
  <1>2. v \in Caller /\ v.pc = "register" /\ v.att = n BY <1>0 DEF Caller
  <1>3. attempt' \in [AttemptIds -> Attempt] BY <1>0, <1>1 DEF Attempt
  <1>4. /\ \A j \in AttemptIds :
              /\ attempt'[j].call = attempt[j].call /\ attempt'[j].result = attempt[j].result
              /\ attempt'[j].file = attempt[j].file /\ attempt'[j].stale = attempt[j].stale
              /\ j # n => attempt'[j].address = attempt[j].address
    BY <1>0, <1>1 DEF Attempt
  <1> HIDE DEF v, n
  <1>5. n = attempts + 1 BY DEF n
  <1>6. \A q \in Printers : caller'[q] = IF q = p THEN v ELSE caller[q] BY <1>0, <1>1
  <1>7. \A q \in Printers : caller[q].att <= attempts /\ caller[q].att # n
        /\ caller[q].att \in Nat
    BY <1>0, <1>5, Members DEF BrokerInv, CallerInv
  <1>8. Untouched(attempt[n]) /\ attempt[n].stale = {}
    BY <1>0, <1>5 DEF BrokerInv, FreshInv
  <1>9. BrokerTypes' BY <1>0, <1>1, <1>2, <1>3 DEF BrokerInv, BrokerTypes
  <1>10. \A q \in Printers : caller[q].pc \in Early => caller[q].att \in AttemptIds
    BY Members DEF BrokerInv, CallerInv, Early
  <1>11. CallerInv'
    <2>1. \A q \in Printers : caller'[q].att <= n /\ (caller'[q].pc = "idle" <=> caller'[q].att = 0)
      BY <1>0, <1>2, <1>5, <1>6, <1>7 DEF BrokerInv, CallerInv
    <2>2. \A q \in Printers : caller'[q].pc \in Early =>
             /\ Untouched(attempt'[caller'[q].att])
             /\ caller'[q].pc # "stale" => attempt'[caller'[q].att].stale = {}
      <3> SUFFICES ASSUME NEW q \in Printers, caller'[q].pc \in Early
                   PROVE  /\ Untouched(attempt'[caller'[q].att])
                          /\ caller'[q].pc # "stale" => attempt'[caller'[q].att].stale = {}
        OBVIOUS
      <3>1. \A j \in AttemptIds : Untouched(attempt[j]) => Untouched(attempt'[j])
        BY <1>4 DEF Untouched
      <3>2. CASE q = p
        <4>1. caller'[q].att = n BY <1>2, <1>6, <3>2
        <4> QED BY <1>0, <1>4, <1>8, <3>1, <4>1
      <3>3. CASE q # p
        <4>1. caller'[q] = caller[q] /\ caller[q].pc \in Early BY <1>6, <3>3
        <4>2. /\ caller[q].att \in AttemptIds /\ Untouched(attempt[caller[q].att])
              /\ caller[q].pc # "stale" => attempt[caller[q].att].stale = {}
          BY <1>10, <4>1 DEF BrokerInv, CallerInv
        <4> QED BY <1>4, <3>1, <4>1, <4>2
      <3> QED BY <3>2, <3>3
    <2>3. \A q, s \in Printers :
             caller'[q].att = caller'[s].att /\ caller'[q].att # 0 => q = s
      BY <1>2, <1>6, <1>7 DEF BrokerInv, CallerInv
    <2>4. attempts' = n BY <1>1
    <2> QED BY <2>1, <2>2, <2>3, <2>4 DEF CallerInv, Untouched
  <1>12. FreshInv'
    <2>1. \A j \in AttemptIds : j > n => j > attempts BY <1>0, <1>5 DEF AttemptIds
    <2>2. \A j \in AttemptIds : j > n => Untouched(attempt'[j]) /\ attempt'[j].stale = {}
      BY <1>4, <2>1 DEF BrokerInv, FreshInv, Untouched
    <2>3. attempts' = n BY <1>1
    <2> QED BY <2>2, <2>3 DEF FreshInv, Untouched
  <1>13. /\ \A a \in Addresses : waiters[a] # n /\ active[a] # n /\ connectCalls[a] # n
         /\ \A a \in Addresses : waiters[a] # 0 => waiters[a] <= n
         /\ \A a \in Addresses : active[a] # 0 => active[a] <= n
         /\ \A a \in Addresses : connectCalls[a] # 0 => connectCalls[a] <= n
    BY <1>0, <1>5, Members DEF BrokerInv, TableInv
  <1>14. TableInv' BY <1>1, <1>4, <1>13, Members DEF BrokerInv, TableInv, Addr
  <1>15. DescriptorsAccounted'
    <2>1. \A q \in Printers : caller[q].pc = "stale" =>
             caller'[q] = caller[q] /\ caller[q].att \in AttemptIds
      BY <1>6, <1>10 DEF ConnectBegin, Early
    <2> QED BY <1>1, <1>4, <1>8, <2>1 DEF BrokerInv, DescriptorsAccounted, Addr, Untouched
  <1>16. \A q \in Printers : caller[q].att # 0 => caller'[q] = caller[q]
    BY <1>6 DEF ConnectBegin, BrokerInv, CallerInv
  <1>17. WaiterHasCaller' BY <1>1, <1>16 DEF BrokerInv, WaiterHasCaller
  <1>18. ActiveIsOwned' BY <1>1, <1>16 DEF BrokerInv, ActiveIsOwned
  <1>19. TokenIsTheRunningCall'
    <2>1. attempt[n].call # "running" BY <1>8 DEF Untouched
    <2>2. AddressOf[p] \in Addresses /\ attempt'[n].address = AddressOf[p]
      BY <1>0, <1>1 DEF Attempt
    <2> QED BY <1>1, <1>4, <1>13, <2>1, <2>2 DEF BrokerInv, TokenIsTheRunningCall, Addr
  <1> QED BY <1>9, <1>11, <1>12, <1>14, <1>15, <1>17, <1>18, <1>19 DEF BrokerInv

\* A new registration replaces another one: its sockets are collected by the caller
\* that closes them next, and the tokens of its calls are discarded.
LEMMA RegisteredMoves ==
    ASSUME BrokerInv, NEW p \in Printers, Registered(p)
    PROVE  BrokerInv'
  <1> DEFINE k == caller[p].att
             v == [caller[p] EXCEPT !.pc = "stale"]
  <1>0. /\ caller \in [Printers -> Caller] /\ attempt \in [AttemptIds -> Attempt]
        /\ caller[p].pc = "lock" /\ k # 0 /\ k \in AttemptIds
        /\ attempt[k].stale = {} /\ Untouched(attempt[k])
        /\ waiters \in [Addresses -> 0..MaxAttempts] /\ told \subseteq AttemptIds
    BY Members DEF BrokerInv, BrokerTypes, Registered, CallerInv, Early
  <1>1. /\ caller' = [caller EXCEPT ![p] = v]
        /\ UNCHANGED <<bus, waiters, attempts, handing, closing, told>>
    BY DEF Registered, Go
  <1>2. v \in Caller /\ v.pc = "stale" /\ v.att = k BY <1>0 DEF Caller
  <1> HIDE DEF v
  <1>3. CASE UNCHANGED <<attempt, active, connectCalls>>
    <2>1. \A a \in Addresses : waiters[a] # k /\ active[a] # k
      BY <1>0, TablesKnowCallers DEF Early
    <2>2. CallerMoves(p, v)
      BY <1>0, <1>1, <1>2, <1>3, <2>1 DEF CallerMoves, Early
    <2> QED BY <2>2, CallerMovesKeep
  <1>4. CASE registration # 0 /\ registration # caller[p].reg
    <2>1. attempt' = [i \in AttemptIds |->
                  [attempt[i] EXCEPT
                     !.stale = IF i = k THEN Sockets ELSE @,
                     !.call = IF @ = "running" /\ connectCalls[Addr(i)] = i
                              THEN "orphaned" ELSE @]]
      BY <1>4 DEF Registered
    <2>2. active' = [a \in Addresses |-> 0] /\ connectCalls' = [a \in Addresses |-> 0]
      BY <1>4 DEF Registered
    <2>3. Sockets \in SUBSET AttemptIds BY Members DEF Sockets
    <2>4. PICK S \in SUBSET AttemptIds : S = Sockets BY <2>3
    <2>5. ASSUME NEW i \in AttemptIds
          PROVE  /\ attempt'[i] \in Attempt
                 /\ attempt'[i].address = attempt[i].address
                 /\ attempt'[i].result = attempt[i].result
                 /\ attempt'[i].file = attempt[i].file
                 /\ attempt'[i].stale = IF i = k THEN S ELSE attempt[i].stale
                 /\ attempt'[i].call =
                       IF attempt[i].call = "running" /\ connectCalls[Addr(i)] = i
                       THEN "orphaned" ELSE attempt[i].call
      <3>1. PICK T : T = IF i = k THEN S ELSE attempt[i].stale OBVIOUS
      <3>2. PICK c : c = IF attempt[i].call = "running" /\ connectCalls[Addr(i)] = i
                         THEN "orphaned" ELSE attempt[i].call
        OBVIOUS
      <3>3. attempt'[i] = [attempt[i] EXCEPT !.stale = T, !.call = c]
        BY <2>1, <2>4, <3>1, <3>2
      <3>4. T \in SUBSET AttemptIds BY <1>0, <2>4, <3>1 DEF Attempt
      <3>5. c \in {"none", "running", "orphaned", "returned"} BY <1>0, <3>2 DEF Attempt
      <3>6. attempt[i] \in Attempt BY <1>0
      <3>7. /\ attempt'[i].address = attempt[i].address
            /\ attempt'[i].result = attempt[i].result
            /\ attempt'[i].file = attempt[i].file
            /\ attempt'[i].stale = T /\ attempt'[i].call = c
        BY <3>3, <3>6 DEF Attempt
      <3>8. attempt'[i] \in Attempt BY <3>3, <3>4, <3>5, <3>6 DEF Attempt
      <3> QED BY <3>1, <3>2, <3>7, <3>8
    <2>6. \A i \in AttemptIds : attempt'[i].call # "running"
      <3>1. \A i \in AttemptIds : attempt[i].call = "running" => connectCalls[Addr(i)] = i
        BY DEF BrokerInv, TokenIsTheRunningCall
      <3> QED BY <2>5, <3>1
    <2>7. \A i \in AttemptIds : Untouched(attempt[i]) => Untouched(attempt'[i])
      BY <2>5 DEF Untouched
    <2>8. \A q \in Printers : caller'[q] = IF q = p THEN v ELSE caller[q] BY <1>0, <1>1
    <2>9. BrokerTypes'
      <3>1. attempt' \in [AttemptIds -> Attempt] BY <2>1, <2>5
      <3> QED BY <1>0, <1>1, <1>2, <2>2, <3>1, BrokerAssumption DEF BrokerInv, BrokerTypes
    <2>10. \A q \in Printers : caller'[q].att = caller[q].att BY <1>2, <2>8
    <2>11. CallerInv'
      <3>1. \A q \in Printers : q # p => caller[q].att # k
        BY <1>0 DEF BrokerInv, CallerInv
      <3>2. \A q \in Printers : caller[q].pc \in Early => caller[q].att \in AttemptIds
        BY Members DEF BrokerInv, CallerInv, Early
      <3>3. \A q \in Printers : caller'[q].pc \in Early =>
               /\ Untouched(attempt'[caller'[q].att])
               /\ caller'[q].pc # "stale" => attempt'[caller'[q].att].stale = {}
        BY <1>0, <1>2, <2>5, <2>7, <2>8, <3>1, <3>2 DEF BrokerInv, CallerInv
      <3>4. \A q \in Printers : caller'[q].pc = "idle" <=> caller'[q].att = 0
        BY <1>0, <1>2, <2>8 DEF BrokerInv, CallerInv
      <3> QED BY <1>1, <2>10, <3>3, <3>4 DEF BrokerInv, CallerInv, Untouched
    <2>12. FreshInv'
      <3>1. k <= attempts /\ k \in Nat /\ attempts \in Nat
        BY Members DEF BrokerInv, CallerInv
      <3>2. \A i \in AttemptIds : i > attempts => i # k BY <3>1 DEF AttemptIds
      <3> QED BY <1>1, <2>5, <2>7, <3>2 DEF BrokerInv, FreshInv, Untouched
    <2>13. TableInv' BY <1>1, <2>2, <2>5, Members DEF BrokerInv, TableInv, Addr
    <2>14. DescriptorsAccounted'
      <3> SUFFICES ASSUME NEW i \in AttemptIds, attempt'[i].file = "open"
                   PROVE  \/ i \in closing'
                          \/ \E q \in Printers : /\ caller'[q].pc = "stale"
                                                 /\ i \in attempt'[caller'[q].att].stale
        BY DEF DescriptorsAccounted
      <3>1. attempt[i].file = "open" BY <2>5
      <3>2. CASE active[Addr(i)] = i
        <4>1. Addr(i) \in Addresses /\ i # 0 BY Members DEF Addr, Attempt, AttemptIds
        <4>2. i \in S BY <2>4, <3>2, <4>1 DEF Sockets
        <4>3. caller'[p].pc = "stale" /\ caller'[p].att = k BY <1>2, <2>8
        <4> QED BY <1>0, <2>5, <4>2, <4>3
      <3>3. CASE i \in closing BY <1>1, <3>3
      <3>4. ASSUME NEW q \in Printers, caller[q].pc = "stale",
                   i \in attempt[caller[q].att].stale
            PROVE  caller'[q].pc = "stale" /\ i \in attempt'[caller'[q].att].stale
        <4>1. q # p /\ caller[q].att # k /\ caller[q].att \in AttemptIds
          BY <1>0, <3>4, Members DEF BrokerInv, CallerInv
        <4> QED BY <2>5, <2>8, <3>4, <4>1
      <3> QED BY <3>1, <3>2, <3>3, <3>4 DEF BrokerInv, DescriptorsAccounted
    <2>15. WaiterHasCaller'
      BY <1>0, <1>1, <2>8 DEF BrokerInv, WaiterHasCaller
    <2>16. ActiveIsOwned' BY <2>2 DEF ActiveIsOwned
    <2>17. TokenIsTheRunningCall'
      <3>1. \A i \in AttemptIds : attempt'[i].address \in Addresses /\ i # 0
        BY <2>5 DEF Attempt, AttemptIds
      <3> QED BY <2>2, <2>6, <3>1 DEF TokenIsTheRunningCall, Addr
    <2> QED BY <2>9, <2>11, <2>12, <2>13, <2>14, <2>15, <2>16, <2>17 DEF BrokerInv
  <1> QED BY <1>3, <1>4 DEF Registered

\* Connect installs its waiter and starts ConnectProfile.
LEMMA InstallMoves ==
    ASSUME BrokerInv, NEW p \in Printers, Install(p)
    PROVE  BrokerInv'
  <1> DEFINE i == caller[p].att
             a == Addr(i)
             v == [caller[p] EXCEPT !.pc = "select"]
  <1>0. /\ caller \in [Printers -> Caller] /\ attempt \in [AttemptIds -> Attempt]
        /\ waiters \in [Addresses -> 0..MaxAttempts]
        /\ connectCalls \in [Addresses -> 0..MaxAttempts]
        /\ caller[p].pc = "check" /\ i \in AttemptIds /\ i # 0
        /\ Untouched(attempt[i]) /\ i <= attempts /\ i \in 0..MaxAttempts
    BY Members DEF BrokerInv, BrokerTypes, Install, CallerInv, Early, Caller
  <1>1. a \in Addresses BY <1>0 DEF Attempt, Addr
  <1>2. CASE Idle(p) /\ UNCHANGED <<waiters, connectCalls, attempt, asked>>
    BY <1>0, <1>2, EarlyMoves DEF Install
  <1>3. CASE ~(active[a] # 0 \/ waiters[a] # 0 \/ connectCalls[a] # 0)
    <2>1. /\ waiters' = [waiters EXCEPT ![a] = i]
          /\ connectCalls' = [connectCalls EXCEPT ![a] = i]
          /\ attempt' = [attempt EXCEPT ![i].call = "running"]
          /\ caller' = [caller EXCEPT ![p] = v]
          /\ UNCHANGED <<bus, active, attempts, handing, closing, told>>
      BY <1>3 DEF Install, Go
    <2>2. v \in Caller /\ v.pc = "select" /\ v.att = i BY <1>0 DEF Caller
    <2>3. attempt' \in [AttemptIds -> Attempt] BY <1>0, <2>1 DEF Attempt
    <2>4. \A j \in AttemptIds :
             /\ attempt'[j].address = attempt[j].address
             /\ attempt'[j].result = attempt[j].result
             /\ attempt'[j].file = attempt[j].file
             /\ attempt'[j].stale = attempt[j].stale
             /\ attempt'[j].call = IF j = i THEN "running" ELSE attempt[j].call
      BY <1>0, <2>1 DEF Attempt
    <2> HIDE DEF v
    <2>5. /\ \A q \in Printers : caller'[q] = IF q = p THEN v ELSE caller[q]
          /\ \A b \in Addresses : waiters'[b] = IF b = a THEN i ELSE waiters[b]
          /\ \A b \in Addresses : connectCalls'[b] = IF b = a THEN i ELSE connectCalls[b]
      BY <1>0, <1>1, <2>1
    <2>6. BrokerTypes' BY <1>0, <1>1, <2>1, <2>2, <2>3 DEF BrokerInv, BrokerTypes
    <2>7. /\ \A q \in Printers : caller'[q].att = caller[q].att
          /\ \A q \in Printers : q # p => caller[q].att # i
          /\ \A q \in Printers : caller[q].pc \in Early => caller[q].att \in AttemptIds
      BY <1>0, <2>2, <2>5, Members DEF BrokerInv, CallerInv, Early
    <2>8. CallerInv'
      <3>1. \A q \in Printers : caller'[q].pc \in Early =>
               /\ Untouched(attempt'[caller'[q].att])
               /\ caller'[q].pc # "stale" => attempt'[caller'[q].att].stale = {}
        BY <2>2, <2>4, <2>5, <2>7 DEF BrokerInv, CallerInv, Untouched, Early
      <3>2. \A q \in Printers : caller'[q].pc = "idle" <=> caller'[q].att = 0
        BY <1>0, <2>2, <2>5 DEF BrokerInv, CallerInv
      <3>3. attempts' = attempts BY <2>1
      <3>4. \A q, s \in Printers :
               caller'[q].att = caller'[s].att /\ caller'[q].att # 0 => q = s
        BY <2>7 DEF BrokerInv, CallerInv
      <3>5. \A q \in Printers : caller'[q].att <= attempts
        BY <2>7 DEF BrokerInv, CallerInv
      <3> QED BY <3>1, <3>2, <3>3, <3>4, <3>5 DEF CallerInv, Untouched
    <2>9. FreshInv'
      <3>1. \A j \in AttemptIds : j > attempts => j # i
        BY <1>0, Members DEF AttemptIds
      <3> QED BY <2>1, <2>4, <3>1 DEF BrokerInv, FreshInv, Untouched
    <2>10. TableInv'
      BY <1>0, <2>1, <2>4, <2>5, Members DEF BrokerInv, TableInv, Addr, Untouched
    <2>11. DescriptorsAccounted'
      <3>1. \A q \in Printers : caller[q].pc = "stale" =>
               caller'[q] = caller[q] /\ caller[q].att \in AttemptIds
        BY <1>0, <2>5, <2>7 DEF Early
      <3> QED BY <2>1, <2>4, <3>1 DEF BrokerInv, DescriptorsAccounted, Addr
    <2>12. WaiterHasCaller'
      <3>1. \A q \in Printers : caller[q].pc \in Waits => caller'[q] = caller[q]
        BY <1>0, <2>5 DEF Waits
      <3> QED BY <2>2, <2>5, <3>1 DEF BrokerInv, WaiterHasCaller, Waits
    <2>13. ActiveIsOwned' BY <2>1, <2>7 DEF BrokerInv, ActiveIsOwned
    <2>14. TokenIsTheRunningCall'
      <3>1. \A j \in AttemptIds : j # 0 /\ Addr(j) \in Addresses BY Members DEF AttemptIds, Addr, Attempt
      <3> QED BY <1>0, <1>3, <2>4, <2>5, <3>1 DEF BrokerInv, TokenIsTheRunningCall, Addr
    <2> QED BY <2>6, <2>8, <2>9, <2>10, <2>11, <2>12, <2>13, <2>14 DEF BrokerInv
  <1> QED BY <1>2, <1>3 DEF Install

\* ConnectProfile returns; its token is removed unless it is somebody else's.
LEMMA ReturnMoves ==
    ASSUME BrokerInv, NEW i \in AttemptIds, CallReturns(i)
    PROVE  BrokerInv'
  <1>0. /\ attempt \in [AttemptIds -> Attempt] /\ i # 0 /\ 0 \in 0..MaxAttempts
        /\ connectCalls \in [Addresses -> 0..MaxAttempts] /\ attempt[i].call # "none"
    BY BrokerAssumption DEF BrokerInv, BrokerTypes, AttemptIds, CallReturns
  <1>1. /\ connectCalls' = TokensAfter(i)
        /\ attempt' = [attempt EXCEPT ![i].call = "returned"]
        /\ UNCHANGED <<bus, waiters, active, caller, attempts, handing, closing, told>>
    BY DEF CallReturns
  <1>2. /\ attempt' \in [AttemptIds -> Attempt]
        /\ \A j \in AttemptIds :
              /\ attempt'[j].address = attempt[j].address
              /\ attempt'[j].result = attempt[j].result
              /\ attempt'[j].file = attempt[j].file
              /\ attempt'[j].stale = attempt[j].stale
              /\ attempt'[j].call = IF j = i THEN "returned" ELSE attempt[j].call
    BY <1>0, <1>1 DEF Attempt
  <1>3. \A b \in Addresses : connectCalls[b] = i => Addr(i) = b
    BY <1>0 DEF BrokerInv, TableInv
  <1>4. connectCalls' \in [Addresses -> 0..MaxAttempts] BY <1>0, <1>1 DEF TokensAfter
  <1>5. \A b \in Addresses : connectCalls'[b] = IF connectCalls[b] = i THEN 0
                                                ELSE connectCalls[b]
    BY <1>0, <1>1, <1>3 DEF TokensAfter
  <1>6. UNCHANGED <<bus, waiters, active, caller, attempts, handing, closing, told>>
    BY <1>1
  <1>7. BrokerTypes' BY <1>2, <1>4, <1>6 DEF BrokerInv, BrokerTypes
  <1>8. \A j \in AttemptIds : Untouched(attempt[j]) => Untouched(attempt'[j])
    BY <1>0, <1>2 DEF Untouched
  <1>9. CallerInv'
    <2>1. \A q \in Printers : caller[q].pc \in Early =>
             /\ caller[q].att \in AttemptIds /\ Untouched(attempt[caller[q].att])
             /\ caller[q].pc # "stale" => attempt[caller[q].att].stale = {}
      BY Members DEF BrokerInv, CallerInv, Early
    <2>2. \A q \in Printers : caller[q].pc \in Early =>
             /\ Untouched(attempt'[caller[q].att])
             /\ caller[q].pc # "stale" => attempt'[caller[q].att].stale = {}
      BY <1>2, <1>8, <2>1
    <2> QED BY <1>6, <2>2 DEF BrokerInv, CallerInv, Untouched
  <1>10. FreshInv' BY <1>2, <1>6, <1>8 DEF BrokerInv, FreshInv, Untouched
  <1>11. TableInv' BY <1>2, <1>5, <1>6, Members DEF BrokerInv, TableInv, Addr
  <1>12. DescriptorsAccounted'
    <2>1. \A q \in Printers : caller[q].pc = "stale" => caller[q].att \in AttemptIds
      BY Members DEF BrokerInv, CallerInv
    <2> QED BY <1>2, <1>6, <2>1 DEF BrokerInv, DescriptorsAccounted, Addr
  <1>13. WaiterHasCaller' BY <1>6 DEF BrokerInv, WaiterHasCaller
  <1>14. ActiveIsOwned' BY <1>6 DEF BrokerInv, ActiveIsOwned
  <1>15. TokenIsTheRunningCall'
    <2>1. \A j \in AttemptIds : j # 0 /\ Addr(j) \in Addresses
      BY Members DEF AttemptIds, Addr, Attempt
    <2> QED BY <1>2, <1>5, <2>1 DEF BrokerInv, TokenIsTheRunningCall, Addr
  <1> QED BY <1>7, <1>9, <1>10, <1>11, <1>12, <1>13, <1>14, <1>15 DEF BrokerInv

\* The socket is put into the channel of its attempt, or taken out of it by the
\* caller that becomes its owner.
LEMMA ResultMoves ==
    ASSUME BrokerInv,
           \/ \E i \in AttemptIds : HandOver(i)
           \/ \E p \in Printers : Receive(p)
    PROVE  BrokerInv'
  <1>0. /\ attempt \in [AttemptIds -> Attempt] /\ caller \in [Printers -> Caller]
        /\ handing \subseteq AttemptIds
    BY DEF BrokerInv, BrokerTypes
  <1>1. ASSUME NEW i \in AttemptIds, NEW result \in {"full", "drained"},
               attempt[i].file # "none",
               attempt' = [attempt EXCEPT ![i].result = result],
               handing' \subseteq handing, caller' \in [Printers -> Caller],
               \A q \in Printers :
                  \/ caller'[q] = caller[q]
                  \/ /\ caller[q].pc \in {"select", "await"} /\ caller'[q].pc = "open"
                     /\ caller'[q].att = caller[q].att /\ caller[q].att = i,
               UNCHANGED <<bus, waiters, active, connectCalls, attempts, closing, told>>
        PROVE  BrokerInv'
    <2>1. /\ attempt' \in [AttemptIds -> Attempt]
          /\ \A j \in AttemptIds :
                /\ attempt'[j].address = attempt[j].address
                /\ attempt'[j].call = attempt[j].call
                /\ attempt'[j].file = attempt[j].file
                /\ attempt'[j].stale = attempt[j].stale
                /\ attempt'[j].result = IF j = i THEN result ELSE attempt[j].result
      BY <1>0, <1>1 DEF Attempt
    <2>2. BrokerTypes' BY <1>0, <1>1, <2>1 DEF BrokerInv, BrokerTypes
    <2>3. \A j \in AttemptIds : Untouched(attempt[j]) => Untouched(attempt'[j])
      BY <1>1, <2>1 DEF Untouched
    <2>4. \A q \in Printers :
             /\ caller'[q].att = caller[q].att
             /\ caller'[q].pc \in Early => caller'[q] = caller[q]
             /\ caller[q].pc = "stale" => caller'[q] = caller[q]
             /\ caller'[q].pc = "idle" <=> caller'[q].att = 0
             /\ caller'[q] = caller[q] \/ caller[q].att = i
      BY <1>1 DEF Early, BrokerInv, CallerInv
    <2>5. CallerInv'
      <3>1. \A q \in Printers : caller[q].pc \in Early =>
               /\ caller[q].att \in AttemptIds /\ Untouched(attempt[caller[q].att])
               /\ caller[q].pc # "stale" => attempt[caller[q].att].stale = {}
        BY Members DEF BrokerInv, CallerInv, Early
      <3>2. \A q \in Printers : caller'[q].pc \in Early =>
               /\ Untouched(attempt'[caller'[q].att])
               /\ caller'[q].pc # "stale" => attempt'[caller'[q].att].stale = {}
        BY <2>1, <2>3, <2>4, <3>1
      <3>3. \A q, s \in Printers :
               caller'[q].att = caller'[s].att /\ caller'[q].att # 0 => q = s
        BY <2>4 DEF BrokerInv, CallerInv
      <3>4. \A q \in Printers : caller'[q].att <= attempts
        BY <2>4 DEF BrokerInv, CallerInv
      <3>5. attempts' = attempts BY <1>1
      <3> QED BY <2>4, <3>2, <3>3, <3>4, <3>5 DEF CallerInv, Untouched
    <2>6. FreshInv' BY <1>1, <2>1, <2>3 DEF BrokerInv, FreshInv, Untouched
    <2>7. TableInv' BY <1>1, <2>1, Members DEF BrokerInv, TableInv, Addr
    <2>8. DescriptorsAccounted'
      <3>1. \A q \in Printers : caller[q].pc = "stale" => caller[q].att \in AttemptIds
        BY Members DEF BrokerInv, CallerInv
      <3> QED BY <1>1, <2>1, <2>4, <3>1 DEF BrokerInv, DescriptorsAccounted, Addr
    <2>9. WaiterHasCaller'
      <3>1. \A b \in Addresses : waiters[b] # i BY <1>1 DEF BrokerInv, TableInv, AttemptIds
      <3>2. UNCHANGED waiters BY <1>1
      <3> QED BY <2>4, <3>1, <3>2 DEF BrokerInv, WaiterHasCaller
    <2>10. ActiveIsOwned' BY <1>1, <2>4 DEF BrokerInv, ActiveIsOwned
    <2>11. TokenIsTheRunningCall'
      BY <1>1, <2>1 DEF BrokerInv, TokenIsTheRunningCall, Addr
    <2> QED BY <2>2, <2>5, <2>6, <2>7, <2>8, <2>9, <2>10, <2>11 DEF BrokerInv
  <1>2. ASSUME NEW i \in AttemptIds, HandOver(i) PROVE BrokerInv'
    <2>1. attempt[i].file # "none" BY <1>2 DEF HandOver, BrokerInv, TableInv
    <2>2. /\ attempt' = [attempt EXCEPT ![i].result = "full"]
          /\ handing' \subseteq handing /\ caller' = caller
          /\ UNCHANGED <<bus, waiters, active, connectCalls, attempts, closing, told>>
      BY <1>2 DEF HandOver
    <2> QED BY <1>0, <1>1, <2>1, <2>2
  <1>3. ASSUME NEW p \in Printers, Receive(p) PROVE BrokerInv'
    <2>1. PICK i : i = caller[p].att OBVIOUS
    <2>2. /\ i \in AttemptIds /\ caller[p].pc \in {"select", "await"}
          /\ attempt[i].result = "full"
      BY <1>3, <2>1, Members DEF Receive, BrokerInv, CallerInv
    <2>3. attempt[i].file # "none" BY <2>2 DEF BrokerInv, TableInv
    <2>4. /\ attempt' = [attempt EXCEPT ![i].result = "drained"]
          /\ caller' = [caller EXCEPT ![p] = [caller[p] EXCEPT !.pc = "open"]]
          /\ handing' = handing
          /\ UNCHANGED <<bus, waiters, active, connectCalls, attempts, closing, told>>
      BY <1>3, <2>1 DEF Receive, Go
    <2>5. /\ caller' \in [Printers -> Caller]
          /\ \A q \in Printers \ {p} : caller'[q] = caller[q]
          /\ caller'[p].pc = "open" /\ caller'[p].att = caller[p].att
      BY <1>0, <2>4 DEF Caller
    <2>6. \A q \in Printers :
             \/ caller'[q] = caller[q]
             \/ /\ caller[q].pc \in {"select", "await"} /\ caller'[q].pc = "open"
                /\ caller'[q].att = caller[q].att /\ caller[q].att = i
      BY <2>1, <2>2, <2>5
    <2> QED BY <1>1, <2>2, <2>3, <2>4, <2>5, <2>6
  <1> QED BY <1>2, <1>3

\* BlueZ calls NewConnection: the socket goes to the attempt that waits for it.
LEMMA ConnectionMoves ==
    ASSUME BrokerInv, NEW a \in Addresses, NewConnection(a)
    PROVE  BrokerInv'
  <1>0. /\ attempt \in [AttemptIds -> Attempt] /\ 0 \in 0..MaxAttempts
        /\ waiters \in [Addresses -> 0..MaxAttempts]
        /\ active \in [Addresses -> 0..MaxAttempts]
        /\ handing \subseteq AttemptIds
    BY BrokerAssumption DEF BrokerInv, BrokerTypes
  <1>1. UNCHANGED <<bus, connectCalls, caller, attempts, closing, told>>
    BY DEF NewConnection
  <1>2. CASE waiters[a] = 0 \/ active[a] # 0
    <2>1. UNCHANGED <<waiters, active, attempt, handing>> BY <1>2 DEF NewConnection
    <2>2. BrokerTypes' BY <1>1, <2>1 DEF BrokerInv, BrokerTypes
    <2>3. CallerInv' /\ FreshInv'
      BY <1>1, <2>1 DEF BrokerInv, CallerInv, FreshInv, Untouched
    <2>4. TableInv' BY <1>1, <2>1 DEF BrokerInv, TableInv, Addr
    <2>5. DescriptorsAccounted' BY <1>1, <2>1 DEF BrokerInv, DescriptorsAccounted, Addr
    <2>6. WaiterHasCaller' /\ ActiveIsOwned'
      BY <1>1, <2>1 DEF BrokerInv, WaiterHasCaller, ActiveIsOwned
    <2>7. TokenIsTheRunningCall'
      BY <1>1, <2>1 DEF BrokerInv, TokenIsTheRunningCall, Addr
    <2> QED BY <2>2, <2>3, <2>4, <2>5, <2>6, <2>7 DEF BrokerInv
  <1>3. CASE ~(waiters[a] = 0 \/ active[a] # 0)
    <2>1. PICK i : i = waiters[a] OBVIOUS
    <2>2. /\ waiters' = [waiters EXCEPT ![a] = 0]
          /\ active' = [active EXCEPT ![a] = i]
          /\ attempt' = [attempt EXCEPT ![i].file = "open"]
          /\ handing' = handing \cup {i}
      BY <1>3, <2>1 DEF NewConnection
    <2>3. /\ i \in AttemptIds /\ i \in 0..MaxAttempts /\ i # 0 /\ i <= attempts
          /\ attempt[i].file = "none" /\ attempt[i].address = a
      BY <1>0, <1>3, <2>1, Members DEF BrokerInv, TableInv, Addr
    <2>4. /\ attempt' \in [AttemptIds -> Attempt]
          /\ \A j \in AttemptIds :
                /\ attempt'[j].address = attempt[j].address
                /\ attempt'[j].call = attempt[j].call
                /\ attempt'[j].result = attempt[j].result
                /\ attempt'[j].stale = attempt[j].stale
                /\ attempt'[j].file = IF j = i THEN "open" ELSE attempt[j].file
      BY <1>0, <2>2, <2>3 DEF Attempt
    <2>5. /\ \A b \in Addresses : waiters'[b] = IF b = a THEN 0 ELSE waiters[b]
          /\ \A b \in Addresses : active'[b] = IF b = a THEN i ELSE active[b]
          /\ waiters' \in [Addresses -> 0..MaxAttempts]
          /\ active' \in [Addresses -> 0..MaxAttempts]
      BY <1>0, <2>2, <2>3
    <2>6. PICK p \in Printers : caller[p].att = i /\ caller[p].pc \in Waits
      BY <1>3, <2>1 DEF BrokerInv, WaiterHasCaller, Waits
    <2>7. BrokerTypes'
      <3>1. handing' \subseteq AttemptIds BY <1>0, <2>2, <2>3
      <3> QED BY <1>1, <2>4, <2>5, <3>1 DEF BrokerInv, BrokerTypes
    <2>8. CallerInv'
      <3>1. \A q \in Printers : caller[q].pc \in Early =>
               /\ caller[q].att \in AttemptIds /\ Untouched(attempt[caller[q].att])
               /\ caller[q].pc # "stale" => attempt[caller[q].att].stale = {}
        BY Members DEF BrokerInv, CallerInv, Early
      <3>2. \A q \in Printers : caller[q].pc \in Early => caller[q].att # i
        BY <2>3, <2>6 DEF BrokerInv, CallerInv, Early, Waits
      <3>3. \A q \in Printers : caller[q].pc \in Early =>
               /\ Untouched(attempt'[caller[q].att])
               /\ caller[q].pc # "stale" => attempt'[caller[q].att].stale = {}
        BY <2>4, <3>1, <3>2 DEF Untouched
      <3> QED BY <1>1, <3>3 DEF BrokerInv, CallerInv, Untouched
    <2>9. FreshInv'
      <3>1. \A j \in AttemptIds : j > attempts => j # i
        BY <2>3, Members DEF AttemptIds
      <3> QED BY <1>1, <2>4, <3>1 DEF BrokerInv, FreshInv, Untouched
    <2>10. TableInv'
      <3>1. \A b \in Addresses : waiters'[b] # 0 =>
               /\ attempt'[waiters'[b]].address = b /\ waiters'[b] <= attempts
               /\ attempt'[waiters'[b]].file = "none"
        BY <2>3, <2>4, <2>5, Members DEF BrokerInv, TableInv, Addr
      <3>2. \A b \in Addresses : active'[b] # 0 =>
               /\ attempt'[active'[b]].address = b /\ active'[b] <= attempts
               /\ attempt'[active'[b]].file = "open"
        BY <2>3, <2>4, <2>5, Members DEF BrokerInv, TableInv, Addr
      <3>3. \A b \in Addresses : connectCalls[b] # 0 =>
               attempt'[connectCalls[b]].address = b /\ connectCalls[b] <= attempts
        BY <2>4, Members DEF BrokerInv, TableInv, Addr
      <3>4. \A j \in AttemptIds : attempt'[j].result = "full" \/ j \in handing' =>
               attempt'[j].file # "none"
        BY <2>2, <2>4 DEF BrokerInv, TableInv
      <3> QED BY <1>1, <3>1, <3>2, <3>3, <3>4 DEF TableInv, Addr
    <2>11. DescriptorsAccounted'
      <3>1. \A q \in Printers : caller[q].pc = "stale" => caller[q].att \in AttemptIds
        BY Members DEF BrokerInv, CallerInv
      <3>2. \A j \in AttemptIds : attempt[j].address \in Addresses BY <1>0 DEF Attempt
      <3>3. \A j \in AttemptIds : active[attempt[j].address] = j =>
               active'[attempt'[j].address] = j
        <4>1. \A j \in AttemptIds : j # 0 BY DEF AttemptIds
        <4> QED BY <1>3, <2>4, <2>5, <3>2, <4>1
      <3>4. active'[attempt'[i].address] = i BY <2>3, <2>4, <2>5
      <3> QED BY <1>1, <2>4, <3>1, <3>3, <3>4 DEF BrokerInv, DescriptorsAccounted, Addr
    <2>12. WaiterHasCaller' BY <1>1, <2>5 DEF BrokerInv, WaiterHasCaller
    <2>13. ActiveIsOwned' BY <1>1, <2>5, <2>6 DEF BrokerInv, ActiveIsOwned
    <2>14. TokenIsTheRunningCall'
      BY <1>1, <2>4 DEF BrokerInv, TokenIsTheRunningCall, Addr
    <2> QED BY <2>7, <2>8, <2>9, <2>10, <2>11, <2>12, <2>13, <2>14 DEF BrokerInv
  <1> QED BY <1>2, <1>3

\* Sockets are captured in order to be closed, and perhaps dropped at once.
LEMMA CaptureMoves ==
    ASSUME BrokerInv,
           \/ \E a \in Addresses : RequestDisconnection(a)
           \/ Release \/ BusRestart \/ UNCHANGED brokerVars
    PROVE  BrokerInv'
  <1>0. /\ active \in [Addresses -> 0..MaxAttempts] /\ 0 \in 0..MaxAttempts
        /\ closing \subseteq AttemptIds
    BY BrokerAssumption DEF BrokerInv, BrokerTypes
  <1>1. ASSUME UNCHANGED <<waiters, connectCalls, caller, attempts, attempt, handing, told>>,
               bus' \in Nat, closing \subseteq closing', closing' \subseteq AttemptIds,
               active' \in [Addresses -> 0..MaxAttempts],
               \A a \in Addresses : active'[a] = active[a]
                                    \/ (active'[a] = 0 /\ active[a] \in closing' \cup {0})
        PROVE  BrokerInv'
    <2>1. BrokerTypes' BY <1>1 DEF BrokerInv, BrokerTypes
    <2>2. CallerInv' /\ FreshInv'
      BY <1>1 DEF BrokerInv, CallerInv, FreshInv, Untouched
    <2>3. TableInv' BY <1>1 DEF BrokerInv, TableInv, Addr
    <2>4. DescriptorsAccounted'
      <3>1. \A i \in AttemptIds : Addr(i) \in Addresses /\ i # 0
        BY Members DEF Addr, Attempt, AttemptIds
      <3>2. \A i \in AttemptIds : active[Addr(i)] = i =>
               active'[Addr(i)] = i \/ i \in closing'
        BY <1>1, <3>1
      <3> QED BY <1>1, <3>2 DEF BrokerInv, DescriptorsAccounted, Addr
    <2>5. WaiterHasCaller' BY <1>1 DEF BrokerInv, WaiterHasCaller
    <2>6. ActiveIsOwned' BY <1>1 DEF BrokerInv, ActiveIsOwned
    <2>7. TokenIsTheRunningCall' BY <1>1 DEF BrokerInv, TokenIsTheRunningCall, Addr
    <2> QED BY <2>1, <2>2, <2>3, <2>4, <2>5, <2>6, <2>7 DEF BrokerInv
  <1>2. bus \in Nat BY DEF BrokerInv, BrokerTypes
  <1>3. ASSUME NEW a \in Addresses, RequestDisconnection(a) PROVE BrokerInv'
    <2>1. active[a] \in AttemptIds BY <1>3, Members DEF RequestDisconnection
    <2> QED BY <1>0, <1>1, <1>2, <1>3, <2>1 DEF RequestDisconnection
  <1>4. CASE Release
    <2>1. Sockets \subseteq AttemptIds BY Members DEF Sockets
    <2>2. /\ closing' = closing \cup Sockets /\ active' = [a \in Addresses |-> 0]
          /\ UNCHANGED <<bus, waiters, connectCalls, caller, attempts, attempt, handing, told>>
      BY <1>4 DEF Release
    <2>3. \A a \in Addresses : active[a] \in closing' \cup {0} BY <2>2 DEF Sockets
    <2> QED BY <1>0, <1>1, <1>2, <2>1, <2>2, <2>3
  <1>5. CASE BusRestart BY <1>0, <1>1, <1>2, <1>5 DEF BusRestart
  <1>6. CASE UNCHANGED brokerVars BY <1>0, <1>1, <1>2, <1>6 DEF brokerVars
  <1> QED BY <1>3, <1>4, <1>5, <1>6

-----------------------------------------------------------------------------
(* Theorems *)

\* Every step preserves the inductive invariant.
LEMMA BrokerPreserves == BrokerInv /\ [BrokerNext]_brokerVars => BrokerInv'
  <1> SUFFICES ASSUME BrokerInv, [BrokerNext]_brokerVars PROVE BrokerInv' OBVIOUS
  <1>1. ASSUME NEW p \in Printers, CallerStep(p) PROVE BrokerInv'
    BY <1>1, EarlyMoves, RegisteredMoves, CloseStaleMoves, InstallMoves, ResultMoves,
       LateMoves, DrainMoves DEF CallerStep
  <1>2. ASSUME NEW p \in Printers, ConnectBegin(p) \/ CloseTransport(p) PROVE BrokerInv'
    BY <1>2, BeginMoves, CloseMoves
  <1>3. ASSUME NEW i \in AttemptIds, CallReturns(i) \/ HandOver(i) \/ CloseCaptured(i)
        PROVE  BrokerInv'
    BY <1>3, ReturnMoves, ResultMoves, CloseMoves
  <1>4. ASSUME NEW a \in Addresses, NewConnection(a) \/ RequestDisconnection(a)
        PROVE  BrokerInv'
    BY <1>4, ConnectionMoves, CaptureMoves
  <1>5. CASE Release \/ BusRestart \/ UNCHANGED brokerVars BY <1>5, CaptureMoves
  <1> QED BY <1>1, <1>2, <1>3, <1>4, <1>5 DEF BrokerNext

\* A broker without connections satisfies the invariant.
LEMMA BrokerInitially == BrokerInit => BrokerInv
  <1> SUFFICES ASSUME BrokerInit PROVE BrokerInv OBVIOUS
  <1>1. PICK d \in Addresses : d = CHOOSE a \in Addresses : TRUE BY BrokerAssumption
  <1>2. /\ attempt = [i \in AttemptIds |-> [address |-> d, call |-> "none",
                         result |-> "empty", file |-> "none", stale |-> {}]]
        /\ caller = [p \in Printers |-> [pc |-> "idle", att |-> 0, reg |-> 0]]
    BY <1>1 DEF BrokerInit
  <1>3. attempt \in [AttemptIds -> Attempt] /\ caller \in [Printers -> Caller]
    BY <1>2, BrokerAssumption DEF Attempt, Caller
  <1>4. BrokerTypes BY <1>3, BrokerAssumption DEF BrokerInit, BrokerTypes
  <1>5. /\ \A i \in AttemptIds : /\ attempt[i].call = "none" /\ attempt[i].result = "empty"
                                 /\ attempt[i].file = "none" /\ attempt[i].stale = {}
                                 /\ attempt[i].address = d /\ i # 0
        /\ \A p \in Printers : caller[p].pc = "idle" /\ caller[p].att = 0
        /\ \A a \in Addresses : waiters[a] = 0 /\ active[a] = 0 /\ connectCalls[a] = 0
        /\ attempts = 0 /\ handing = {}
    <2>1. \A i \in AttemptIds : /\ attempt[i].call = "none" /\ attempt[i].result = "empty"
                                /\ attempt[i].file = "none" /\ attempt[i].stale = {}
                                /\ attempt[i].address = d
      BY <1>2
    <2>2. \A i \in AttemptIds : i # 0 BY DEF AttemptIds
    <2>3. \A p \in Printers : caller[p].pc = "idle" /\ caller[p].att = 0 BY <1>2
    <2> QED BY <2>1, <2>2, <2>3 DEF BrokerInit
  <1>6. CallerInv /\ FreshInv /\ TableInv
    BY <1>5 DEF CallerInv, FreshInv, TableInv, Untouched, Early
  <1>7. DescriptorsAccounted /\ WaiterHasCaller /\ ActiveIsOwned /\ TokenIsTheRunningCall
    BY <1>5 DEF DescriptorsAccounted, WaiterHasCaller, ActiveIsOwned,
       TokenIsTheRunningCall, Addr
  <1> QED BY <1>4, <1>6, <1>7 DEF BrokerInv

\* Whatever callbacks, timeouts, closes and restarts overtake each other, the broker is
\* in a state that satisfies the inductive invariant.
THEOREM BrokerInvariant == BrokerSpec => []BrokerInv
  <1> QED BY BrokerInitially, BrokerPreserves, PTL DEF BrokerSpec

\* An open descriptor is the active socket of its device or is about to be closed.
THEOREM NoDescriptorIsLost == BrokerSpec => []DescriptorsAccounted
  <1>1. BrokerInv => DescriptorsAccounted BY DEF BrokerInv
  <1> QED BY <1>1, BrokerInvariant, PTL

\* NewConnection never gives a socket to an attempt that has ended.
THEOREM WaitersAreAwaited == BrokerSpec => []WaiterHasCaller
  <1>1. BrokerInv => WaiterHasCaller BY DEF BrokerInv
  <1> QED BY <1>1, BrokerInvariant, PTL

\* An active socket has a worker, is being closed, or BlueZ was told to disconnect it.
THEOREM ActiveSocketsAreOwned == BrokerSpec => []ActiveIsOwned
  <1>1. BrokerInv => ActiveIsOwned BY DEF BrokerInv
  <1> QED BY <1>1, BrokerInvariant, PTL

\* connectCalls holds the token of exactly the call that counts and has not returned.
THEOREM TokensNameRunningCalls == BrokerSpec => []TokenIsTheRunningCall
  <1>1. BrokerInv => TokenIsTheRunningCall BY DEF BrokerInv
  <1> QED BY <1>1, BrokerInvariant, PTL
=============================================================================
