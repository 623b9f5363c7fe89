---------------------------- MODULE ServiceProofs ----------------------------
(***************************************************************************)
(* Proofs about Service, for any number of clients, controllers and        *)
(* signals: the threads and the lock are where they may be, no controller  *)
(* goes while it processes a SCSI command, and an orderly end saves what   *)
(* the hosts have written.                                                 *)
(***************************************************************************)
EXTENDS Service, SequenceTheorems, TLAPS

(* Queues without repetition. *)

\* A client that is not in the backlog yet is appended to it.
LEMMA Enqueued ==
  ASSUME NEW S, NEW s \in Seq(S), IsInjective(s), NEW c \in S, c \notin ToSet(s)
  PROVE  /\ Append(s, c) \in Seq(S) /\ IsInjective(Append(s, c))
         /\ ToSet(Append(s, c)) = ToSet(s) \cup {c}
<1>1. /\ Append(s, c) \in Seq(S) /\ Len(Append(s, c)) = Len(s) + 1 /\ Len(s) \in Nat
      /\ \A i \in 1..Len(s) : Append(s, c)[i] = s[i]
      /\ Append(s, c)[Len(s) + 1] = c
  BY AppendProperties, LenProperties
<1>2. /\ DOMAIN s = 1..Len(s)
      /\ DOMAIN Append(s, c) = 1..Len(s) \cup {Len(s) + 1}
  BY <1>1
<1>3. IsInjective(Append(s, c))
  BY <1>1, <1>2 DEF IsInjective, ToSet
<1>4. ToSet(Append(s, c)) = ToSet(s) \cup {c}
  BY <1>1, <1>2 DEF ToSet
<1>5. QED
  BY <1>1, <1>3, <1>4

\* The first client leaves the backlog.
LEMMA Dequeued ==
  ASSUME NEW S, NEW s \in Seq(S), IsInjective(s), s # <<>>
  PROVE  /\ Head(s) \in S /\ Head(s) \in ToSet(s)
         /\ Tail(s) \in Seq(S) /\ IsInjective(Tail(s))
         /\ ToSet(Tail(s)) = ToSet(s) \ {Head(s)}
<1>1. /\ Len(s) \in Nat \ {0} /\ DOMAIN s = 1..Len(s)
      /\ Head(s) \in S /\ Head(s) = s[1]
      /\ Tail(s) \in Seq(S) /\ DOMAIN Tail(s) = 1..(Len(s) - 1)
      /\ \A i \in 1..(Len(s) - 1) : Tail(s)[i] = s[i + 1]
  BY HeadTailProperties, EmptySeq, LenProperties
<1>2. IsInjective(Tail(s))
  BY <1>1 DEF IsInjective
<1>3. ToSet(Tail(s)) \subseteq ToSet(s) \ {Head(s)}
  BY <1>1 DEF IsInjective, ToSet
<1>4. ASSUME NEW x \in ToSet(s) \ {Head(s)}
      PROVE  x \in ToSet(Tail(s))
  <2>1. PICK i \in 2..Len(s) : x = s[i]
    BY <1>1 DEF ToSet
  <2>2. i - 1 \in 1..(Len(s) - 1) /\ Tail(s)[i - 1] = x
    BY <1>1, <2>1
  <2>3. QED
    BY <1>1, <2>2 DEF ToSet
<1>5. Head(s) \in ToSet(s)
  BY <1>1 DEF ToSet
<1>6. QED
  BY <1>1, <1>2, <1>3, <1>4, <1>5

-------------------------------------------------------------------------------
(* The inductive invariant. *)

\* The lock is held by the thread that needs it, from when it needs it.
LockHeld ==
  /\ main \in {"process", "nested"} => lock = "main"
  /\ service = "execute" => lock = "service"

\* A client that waits for the service thread has connected, and only once.
OnePlace ==
  /\ \A c \in ToSet(queue) : client[c] # "away"
  /\ service \in {"read", "dispatch", "lock", "execute", "reply"} =>
       serving \in Client \ ToSet(queue) /\ client[serving] # "away"

\* The service thread ends when the socket is closed, or closes it.
ClosedAtEnd == service \in {"ended", "detach", "bus"} => ~socket

\* CleanUp() has detached the devices, in the service thread or wherever it closed
\* the socket.
Done ==
  \/ service = "bus"
  \/ ~socket /\ handling # "detach" /\ service # "detach"

NothingLeft == Done /\ outcome # "crashed" /\ ~disturbed => attached = {} /\ unsaved = {}

IInv == TypeOK /\ LockHeld /\ OnePlace /\ ClosedAtEnd /\ NothingLeft /\ SavedAtEnd

\* Nothing happens once s2p has ended.
LEMMA OnlyRunning ==
  ASSUME Next
  PROVE  Running
BY DEF Next, Main, Loop, EnterWait, NotSelected, CommandEnds, Leave, Join, HostSelects, MainLock,
       HostDispatches, Signal, Handler, Handle, Resume, ServiceThread, Accept, AcceptEnds, Read,
       Dispatch, Execute, Reply, ShutDown, Exit, ServiceLock, Connect, Send, HangUp, MainRuns

\* The places of the two threads and of the handler, and the holder of the lock.
PlacesOK ==
  /\ main \in {"loop", "enter", "wait", "lock", "process", "nested", "leave",
               "bus_gone", "executor_gone", "join"}
  /\ handling \in CleaningUp \cup {"no"}
  /\ service \in {"accept", "read", "dispatch", "lock", "execute", "reply", "ended"} \cup CleaningUp
  /\ socket \in BOOLEAN
  /\ lock = "main" => main \in {"process", "nested"}
  /\ lock = "service" => service = "execute"
  /\ lock \in {None, "main", "service"}
  /\ using \in Target \cup {None} /\ (using # None <=> main \in {"process", "nested"})
  /\ attached \subseteq Target /\ unsaved \subseteq Target
  /\ destroyed \subseteq {"bus", "executor"}
  /\ polling \in BOOLEAN /\ signals \in 0..MaxSignals /\ disturbed \in BOOLEAN
  /\ outcome \in {"running", "returned", "exited", "crashed"}

\* The clients and their requests.
ClientsOK ==
  /\ serving \in Client \cup {None} /\ request \in Operation \cup {None}
  /\ client \in [Client -> {"away", "connected", "gone"} \cup Sent]
  /\ queue \in Seq(Client) /\ IsInjective(queue)

\* TypeOK falls into the places of the threads and those of the clients.
LEMMA TypeParts == TypeOK <=> PlacesOK /\ ClientsOK
BY DEF TypeOK, PlacesOK, ClientsOK

\* The main thread and the signal handler keep the execution lock with one holder.
LEMMA MainKeepsPlaces ==
  ASSUME PlacesOK, LockHeld,
         \/ Main \/ NotSelected \/ HostSelects \/ MainLock \/ HostDispatches
         \/ Signal \/ Handler
  PROVE  PlacesOK' /\ LockHeld'
<1>1. None \notin Target
  BY ServiceAssumption
<1>2. CASE Loop \/ EnterWait \/ NotSelected \/ HostSelects \/ HostDispatches \/ Resume
  <2>1. CASE Loop \/ EnterWait \/ NotSelected \/ HostSelects \/ HostDispatches
    <3>1. /\ main' \in {"loop", "enter", "wait", "lock", "leave", "process", "nested"}
          /\ main' \in {"process", "nested"} <=> main \in {"process", "nested"}
      BY <2>1 DEF Loop, EnterWait, NotSelected, HostSelects, HostDispatches, PlacesOK
    <3>2. UNCHANGED <<handling, service, shared, fixed>>
      BY <2>1 DEF Loop, EnterWait, NotSelected, HostSelects, HostDispatches
    <3>3. QED
      BY <3>1, <3>2 DEF PlacesOK, LockHeld, shared, fixed
  <2>2. CASE Resume
    <3>1. /\ handling' = "no" /\ main' = (IF main = "wait" THEN "loop" ELSE main)
          /\ UNCHANGED <<service, shared, fixed>>
      BY <2>2 DEF Resume
    <3>2. QED
      BY <3>1 DEF PlacesOK, LockHeld, shared, fixed
  <2>3. QED
    BY <1>2, <2>1, <2>2
<1>3. CASE MainLock
  <2>1. CASE main' = "loop" /\ UNCHANGED <<using, lock>>
    BY <1>3, <2>1 DEF MainLock, MainRuns, fixed, PlacesOK, LockHeld
  <2>2. CASE \E t \in attached : main' = "process" /\ using' = t /\ lock' = "main"
    BY <1>1, <1>3, <2>2, ServiceAssumption DEF MainLock, MainRuns, fixed, PlacesOK, LockHeld
  <2>3. QED
    BY <1>3, <2>1, <2>2 DEF MainLock
<1>4. CASE CommandEnds
  <2>1. unsaved' \subseteq Target /\ outcome' \in {"running", "crashed"} /\ main = "process"
    BY <1>4 DEF CommandEnds, MayCrash, MainRuns, Running, PlacesOK
  <2>2. service # "execute"
    BY <2>1, ServiceAssumption DEF LockHeld
  <2>3. QED
    BY <1>4, <2>1, <2>2, ServiceAssumption DEF CommandEnds, PlacesOK, LockHeld
<1>5. CASE Leave \/ Join
  BY <1>5 DEF Leave, Join, MainRuns, threads, shared, fixed, PlacesOK, LockHeld
<1>6. CASE Signal
  <2>1. signals' \in 0..MaxSignals
    BY <1>6, ServiceAssumption DEF Signal, PlacesOK
  <2>2. QED
    BY <1>6, <2>1 DEF Signal, shared, PlacesOK, LockHeld, CleaningUp
<1>7. CASE Handle
  <2>1. PICK then \in CleaningUp : CleanUp(handling, then) /\ handling' = then
    BY <1>7 DEF Handle
  <2>2. /\ socket' \in BOOLEAN /\ disturbed' \in BOOLEAN
        /\ attached' \subseteq Target /\ unsaved' \subseteq Target
        /\ outcome' \in {"running", "returned", "exited", "crashed"}
    BY <2>1 DEF CleanUp, Stop, DetachAll, PlacesOK
  <2>3. UNCHANGED <<main, service, lock, using, destroyed, polling, signals>>
    BY <1>7 DEF Handle
  <2>4. QED
    BY <2>1, <2>2, <2>3 DEF PlacesOK, LockHeld
<1>8. QED
  BY <1>2, <1>3, <1>4, <1>5, <1>6, <1>7 DEF Main, Handler

\* The service thread and the clients do, too.
LEMMA ServiceKeepsPlaces ==
  ASSUME PlacesOK, LockHeld,
         \/ ServiceThread \/ ServiceLock
         \/ \E c \in Client : Connect(c) \/ Send(c) \/ HangUp(c)
         \/ UNCHANGED vars
  PROVE  PlacesOK' /\ LockHeld'
<1>1. CASE Accept \/ AcceptEnds \/ Read \/ Reply \/ Exit
  <2>1. CASE Accept \/ AcceptEnds \/ Read \/ Reply
    <3>1. /\ service' \in {"accept", "read", "dispatch", "ended"} /\ service # "execute"
          /\ UNCHANGED <<main, handling, shared, fixed>>
      BY <2>1 DEF Accept, AcceptEnds, Read, Reply, Disconnect
    <3>2. QED
      BY <3>1 DEF PlacesOK, LockHeld, shared, fixed
  <2>2. CASE Exit
    BY <2>2 DEF Exit, threads, shared, PlacesOK, LockHeld
  <2>3. QED
    BY <1>1, <2>1, <2>2
<1>2. CASE Dispatch
  <2>1. service' \in {"reply", "lock", "stop", "detach", "accept"} /\ service = "dispatch"
    BY <1>2 DEF Dispatch, Disconnect
  <2>2. outcome' \in {"running", "crashed"}
    BY <1>2 DEF Dispatch, MayCrash, Running
  <2>3. UNCHANGED <<main, handling, shared, polling, signals, disturbed>>
    BY <1>2 DEF Dispatch
  <2>4. QED
    BY <2>1, <2>2, <2>3 DEF shared, PlacesOK, LockHeld, CleaningUp
<1>3. CASE Execute
  <2>1. /\ service = "execute" /\ service' = "reply" /\ lock' = None
        /\ UNCHANGED <<main, handling, socket, using, destroyed, polling, signals>>
    BY <1>3 DEF Execute, Release
  <2>2. attached' \subseteq Target /\ unsaved' \subseteq Target /\ disturbed' \in BOOLEAN
    BY <1>3 DEF Execute, PlacesOK
  <2>3. outcome' \in {"running", "crashed"}
    BY <1>3 DEF Execute, MayCrash, Running
  <2>4. main \notin {"process", "nested"}
    BY <2>1 DEF LockHeld
  <2>5. QED
    BY <2>1, <2>2, <2>3, <2>4, ServiceAssumption DEF PlacesOK, LockHeld
<1>4. CASE ShutDown
  <2>1. PICK then \in CleaningUp : CleanUp(service, then) /\ service' = then
    BY <1>4 DEF ShutDown
  <2>2. /\ socket' \in BOOLEAN /\ disturbed' \in BOOLEAN
        /\ attached' \subseteq Target /\ unsaved' \subseteq Target
        /\ outcome' \in {"running", "returned", "exited", "crashed"}
        /\ service \in {"stop", "detach"}
    BY <2>1 DEF CleanUp, Stop, DetachAll, PlacesOK
  <2>3. UNCHANGED <<main, handling, lock, using, destroyed, polling, signals>>
    BY <1>4 DEF ShutDown
  <2>4. QED
    BY <2>1, <2>2, <2>3 DEF PlacesOK, LockHeld, CleaningUp
<1>5. CASE ServiceLock
  <2>1. main \notin {"process", "nested"} \/ None = "main"
    BY <1>5 DEF ServiceLock, LockHeld
  <2>2. QED
    BY <1>5, <2>1, ServiceAssumption DEF ServiceLock, fixed, PlacesOK, LockHeld
<1>6. CASE (\E c \in Client : Connect(c) \/ Send(c) \/ HangUp(c)) \/ UNCHANGED vars
  <2>1. UNCHANGED <<main, handling, service, shared, fixed>>
    BY <1>6 DEF Connect, Send, HangUp, vars, threads
  <2>2. QED
    BY <2>1 DEF shared, fixed, PlacesOK, LockHeld
<1>7. QED
  BY <1>1, <1>2, <1>3, <1>4, <1>5, <1>6 DEF ServiceThread

\* The handler and SHUT_DOWN only get on with CleanUp().
LEMMA CleanUpOnClients ==
  ASSUME ClientsOK, OnePlace, NEW at, NEW then, CleanUp(at, then)
  PROVE  /\ client' \in [Client -> {"away", "connected", "gone"} \cup Sent]
         /\ queue' \in Seq(Client) /\ IsInjective(queue')
         /\ \A c \in ToSet(queue') : client'[c] # "away"
         /\ ToSet(queue') \subseteq ToSet(queue)
         /\ \A c \in Client : client[c] # "away" => client'[c] # "away"
<1>1. CASE Stop
  <2>1. /\ client' = [c \in Client |-> IF c \in ToSet(queue) THEN "gone" ELSE client[c]]
        /\ queue' = <<>>
    BY <1>1 DEF Stop
  <2>2. <<>> \in Seq(Client) /\ IsInjective(<<>>) /\ ToSet(<<>>) = {}
    BY EmptySeq DEF IsInjective, ToSet
  <2>3. client' \in [Client -> {"away", "connected", "gone"} \cup Sent]
    BY <2>1 DEF ClientsOK
  <2>4. \A c \in Client : client[c] # "away" => client'[c] # "away"
    BY <2>1
  <2>5. QED
    BY <2>1, <2>2, <2>3, <2>4
<1>2. CASE UNCHANGED clients
  BY <1>2 DEF clients, ClientsOK, OnePlace
<1>3. QED
  BY <1>1, <1>2 DEF CleanUp, clients

\* A client is in the backlog, is served, or is neither, in every step.
LEMMA KeepsClients ==
  ASSUME PlacesOK, ClientsOK, OnePlace, [Next]_vars
  PROVE  ClientsOK' /\ OnePlace'
<1>1. CASE \E c \in Client : Connect(c)
  <2>1. PICK c \in Client : Connect(c)
    BY <1>1
  <2>2. /\ client[c] = "away" /\ client' = [client EXCEPT ![c] = "connected"]
        /\ queue' = Append(queue, c)
        /\ UNCHANGED <<service, serving, request>>
    BY <2>1 DEF Connect, threads
  <2>3. /\ queue' \in Seq(Client) /\ IsInjective(queue')
        /\ ToSet(queue') = ToSet(queue) \cup {c}
    BY <2>2, Enqueued DEF ClientsOK, OnePlace
  <2>4. QED
    BY <2>2, <2>3 DEF ClientsOK, OnePlace
<1>2. CASE \E c \in Client : Send(c) \/ HangUp(c)
  <2>1. PICK c \in Client, s \in Operation \cup {"gone"} :
               client' = [client EXCEPT ![c] = s]
    BY <1>2 DEF Send, HangUp
  <2>2. UNCHANGED <<queue, service, serving, request>>
    BY <1>2 DEF Send, HangUp, threads
  <2>3. s # "away" /\ s \in {"away", "connected", "gone"} \cup Sent
    BY <2>1, ServiceAssumption DEF Sent
  <2>4. client' \in [Client -> {"away", "connected", "gone"} \cup Sent]
    BY <2>1, <2>3 DEF ClientsOK
  <2>5. \A e \in Client : client[e] # "away" => client'[e] # "away"
    BY <2>1, <2>3 DEF ClientsOK
  <2>6. ToSet(queue) \subseteq Client
    BY DEF ClientsOK, ToSet
  <2>7. QED
    BY <2>2, <2>4, <2>5, <2>6 DEF ClientsOK, OnePlace
<1>3. CASE Handle \/ ShutDown
  <2>1. PICK at, then : CleanUp(at, then)
    BY <1>3 DEF Handle, ShutDown
  <2>2. UNCHANGED <<serving, request>>
    BY <1>3 DEF Handle, ShutDown
  <2>3. service' = service \/ service' \in CleaningUp
    BY <1>3 DEF Handle, ShutDown
  <2>4. QED
    BY <2>1, <2>2, <2>3, CleanUpOnClients DEF ClientsOK, OnePlace, CleaningUp
<1>4. CASE Accept
  <2>1. /\ queue # <<>> /\ serving' = Head(queue) /\ queue' = Tail(queue)
        /\ UNCHANGED <<request, client>>
    BY <1>4 DEF Accept
  <2>2. /\ Head(queue) \in Client /\ Head(queue) \in ToSet(queue)
        /\ Tail(queue) \in Seq(Client) /\ IsInjective(Tail(queue))
        /\ ToSet(Tail(queue)) = ToSet(queue) \ {Head(queue)}
    BY <2>1, Dequeued DEF ClientsOK
  <2>3. QED
    BY <2>1, <2>2 DEF ClientsOK, OnePlace
<1>5. CASE Read \/ Dispatch \/ Reply
  <2>1. /\ service \in {"read", "dispatch", "reply"} /\ UNCHANGED queue
        /\ serving \in Client \ ToSet(queue)
    BY <1>5 DEF Read, Dispatch, Reply, OnePlace
  <2>2. CASE Disconnect
    <3>1. UNCHANGED <<main, handling>>
      BY <1>5 DEF Read, Dispatch, Reply
    <3>2. QED
      BY <2>1, <2>2, <3>1 DEF Disconnect, ClientsOK, OnePlace
  <2>3. CASE /\ service' \in CleaningUp /\ client' = [client EXCEPT ![serving] = "away"]
             /\ UNCHANGED <<serving, request>>
    BY <2>1, <2>3 DEF ClientsOK, OnePlace, CleaningUp
  <2>4. CASE /\ UNCHANGED serving /\ request' \in Operation \cup {None}
             /\ client' \in {client, [client EXCEPT ![serving] = "served"]}
    <3>1. client[serving] # "away" /\ \A c \in ToSet(queue) : client[c] # "away"
      BY <2>1 DEF OnePlace
    <3>2. client' \in [Client -> {"away", "connected", "gone"} \cup Sent]
      BY <2>4 DEF ClientsOK, Sent
    <3>3. \A c \in Client : client'[c] \in {client[c], "served"}
      BY <2>4 DEF ClientsOK
    <3>4. ToSet(queue) \subseteq Client
      BY DEF ClientsOK, ToSet
    <3>5. QED
      BY <2>1, <2>4, <3>1, <3>2, <3>3, <3>4 DEF ClientsOK, OnePlace
  <2>5. QED
    BY <1>5, <2>2, <2>3, <2>4 DEF Read, Dispatch, Reply, CleaningUp, ClientsOK
<1>6. CASE /\ UNCHANGED <<serving, request, client, queue>>
           /\ \/ UNCHANGED service \/ service' = "ended"
              \/ service \in {"lock", "execute"} /\ service' \in {"execute", "reply"}
  BY <1>6 DEF ClientsOK, OnePlace
<1>7. QED
  <2>1. CASE AcceptEnds \/ Execute \/ Exit \/ ServiceLock \/ UNCHANGED vars
    BY <1>6, <2>1
    DEF AcceptEnds, Execute, Exit, ServiceLock, vars, threads, clients
  <2>2. CASE Main \/ NotSelected \/ HostSelects \/ MainLock \/ HostDispatches \/ Signal \/ Resume
    BY <1>6, <2>2
    DEF Main, Loop, EnterWait, NotSelected, CommandEnds, Leave, Join, HostSelects, MainLock,
        HostDispatches, Signal, Resume, threads, clients
  <2>3. QED
    BY <1>1, <1>2, <1>3, <1>4, <1>5, <2>1, <2>2 DEF Next, Handler, ServiceThread

-------------------------------------------------------------------------------
(* The end. *)

\* The service is closed before the end, in every step.
LEMMA KeepsClosed ==
  ASSUME PlacesOK, ClosedAtEnd, [Next]_vars
  PROVE  ClosedAtEnd'
<1>1. CASE Handle \/ ShutDown
  <2>1. PICK at, then : CleanUp(at, then) /\ ((service' = then /\ service = at) \/ UNCHANGED service)
    BY <1>1 DEF Handle, ShutDown
  <2>2. socket' => socket
    BY <2>1 DEF CleanUp, Stop, DetachAll, PlacesOK
  <2>3. at = "detach" \/ ~socket'
    BY <2>1 DEF CleanUp, Stop
  <2>4. QED
    BY <2>1, <2>2, <2>3 DEF ClosedAtEnd
<1>2. CASE Dispatch \/ AcceptEnds
  BY <1>2 DEF Dispatch, Disconnect, AcceptEnds, shared, ClosedAtEnd
<1>3. CASE UNCHANGED socket /\ (UNCHANGED service \/ service' \notin {"ended", "detach", "bus"})
  BY <1>3 DEF ClosedAtEnd
<1>4. CASE Main \/ NotSelected \/ HostSelects \/ MainLock \/ HostDispatches \/ Signal \/ Resume
  BY <1>3, <1>4
  DEF Main, Loop, EnterWait, NotSelected, CommandEnds, Leave, Join, HostSelects, MainLock,
      HostDispatches, Signal, Resume, threads, shared
<1>5. CASE Accept \/ Read \/ Execute \/ Reply \/ Exit \/ ServiceLock
  BY <1>3, <1>5
  DEF Accept, Read, Execute, Reply, Exit, ServiceLock, Disconnect, threads, shared
<1>6. CASE (\E c \in Client : Connect(c) \/ Send(c) \/ HangUp(c)) \/ UNCHANGED vars
  BY <1>3, <1>6 DEF Connect, Send, HangUp, vars, threads, shared
<1>7. QED
  BY <1>1, <1>2, <1>4, <1>5, <1>6 DEF Next, Handler, ServiceThread

\* Once the devices are detached, only a command for a device that is attached leaves
\* data, and only a client attaches one.
LEMMA KeepsNothingLeft ==
  ASSUME PlacesOK, ClosedAtEnd, NothingLeft, [Next]_vars
  PROVE  NothingLeft'
<1> SUFFICES ASSUME Done', outcome' # "crashed", ~disturbed'
             PROVE  attached' = {} /\ unsaved' = {}
  BY DEF NothingLeft
<1>1. CASE Handle \/ ShutDown
  <2>1. PICK at, then : CleanUp(at, then)
                         /\ \/ handling' = then /\ handling = at /\ UNCHANGED service
                            \/ service' = then /\ service = at /\ UNCHANGED handling
    BY <1>1 DEF Handle, ShutDown
  <2>2. CASE DetachAll
    BY <2>2 DEF DetachAll
  <2>3. CASE Stop /\ at = "stop" /\ then = "detach" /\ UNCHANGED <<attached, unsaved, disturbed, outcome>>
    <3>1. Done
      BY <2>1, <2>3 DEF Done, ClosedAtEnd
    <3>2. QED
      BY <2>3, <3>1 DEF NothingLeft
  <2>4. QED
    BY <2>1, <2>2, <2>3 DEF CleanUp
<1>2. CASE ~(Handle \/ ShutDown)
  <2>1. Done /\ outcome # "crashed" /\ ~disturbed
    <3>1. CASE Signal \/ Resume
      BY <3>1 DEF Signal, Resume, MainRuns, shared, fixed, Done, Running
    <3>2. CASE Dispatch \/ Accept \/ AcceptEnds \/ Read \/ Reply \/ Exit \/ ServiceLock
      BY <3>2
      DEF Dispatch, Accept, AcceptEnds, Read, Reply, Exit, ServiceLock, Disconnect, threads, shared,
          fixed, Done, Running
    <3>3. CASE Execute
      BY <3>3 DEF Execute, Done, Running, PlacesOK
    <3>4. CASE Main \/ NotSelected \/ HostSelects \/ MainLock \/ HostDispatches
      BY <3>4
      DEF Main, Loop, EnterWait, NotSelected, CommandEnds, Leave, Join, HostSelects, MainLock,
          HostDispatches, MainRuns, threads, shared, fixed, Done, Running
    <3>5. CASE (\E c \in Client : Connect(c) \/ Send(c) \/ HangUp(c)) \/ UNCHANGED vars
      BY <3>5 DEF Connect, Send, HangUp, vars, threads, shared, fixed, Done
    <3>6. QED
      BY <1>2, <3>1, <3>2, <3>3, <3>4, <3>5 DEF Next, Handler, ServiceThread
  <2>2. attached = {} /\ unsaved = {}
    BY <2>1 DEF NothingLeft
  <2>3. CASE Execute
    <3>1. ~socket
      BY <2>1, <2>3 DEF Execute, Done
    <3>2. QED
      BY <2>2, <2>3, <3>1 DEF Execute
  <2>4. CASE CommandEnds \/ Leave
    BY <2>2, <2>4 DEF CommandEnds, Leave
  <2>5. CASE UNCHANGED <<attached, unsaved>>
    BY <2>2, <2>5
  <2>6. QED
    <3>1. CASE Signal \/ Resume \/ Dispatch \/ Accept \/ AcceptEnds \/ Read \/ Reply \/ Exit \/ ServiceLock
      BY <2>5, <3>1
      DEF Signal, Resume, Dispatch, Accept, AcceptEnds, Read, Reply, Exit, ServiceLock, shared
    <3>2. CASE Loop \/ EnterWait \/ Join \/ NotSelected \/ HostSelects \/ MainLock \/ HostDispatches
      BY <2>5, <3>2
      DEF Loop, EnterWait, Join, NotSelected, HostSelects, MainLock, HostDispatches, shared
    <3>3. CASE (\E c \in Client : Connect(c) \/ Send(c) \/ HangUp(c)) \/ UNCHANGED vars
      BY <2>5, <3>3 DEF Connect, Send, HangUp, vars, shared
    <3>4. QED
      BY <1>2, <2>3, <2>4, <3>1, <3>2, <3>3 DEF Next, Main, Handler, ServiceThread
<1>3. QED
  BY <1>1, <1>2

\* The properties are saved before the end, in every step.
LEMMA KeepsSaved ==
  ASSUME PlacesOK, ClosedAtEnd, NothingLeft, SavedAtEnd, [Next]_vars
  PROVE  SavedAtEnd'
<1> SUFFICES ASSUME outcome' \in {"returned", "exited"}, ~disturbed'
             PROVE  unsaved' = {}
  BY DEF SavedAtEnd
<1>1. CASE UNCHANGED vars
  BY <1>1 DEF vars, shared, fixed, SavedAtEnd
<1>2. CASE Next
  <2>1. Running
    BY <1>2, OnlyRunning
  <2>2. Join \/ Exit
    <3>1. ~(Handle \/ ShutDown)
      BY <2>1 DEF Handle, ShutDown, CleanUp, Running
    <3>2. ~(Dispatch \/ Execute \/ CommandEnds)
      BY <2>1 DEF Dispatch, Execute, CommandEnds, MayCrash, Running
    <3>3. QED
      BY <1>2, <2>1, <3>1, <3>2
      DEF Next, Main, Loop, EnterWait, NotSelected, Leave, HostSelects, MainLock, HostDispatches,
          Signal, Handler, Resume, ServiceThread, Accept, AcceptEnds, Read, Reply, ServiceLock,
          Connect, Send, HangUp, fixed, Running
  <2>3. Done /\ UNCHANGED <<unsaved, disturbed>>
    BY <2>2 DEF Join, Exit, MainRuns, shared, Done, ClosedAtEnd
  <2>4. QED
    BY <2>1, <2>3 DEF NothingLeft, Running
<1>3. QED
  BY <1>1, <1>2

-------------------------------------------------------------------------------

\* The invariant is inductive.
LEMMA KeepsIInv ==
  ASSUME IInv, [Next]_vars
  PROVE  IInv'
<1>1. PlacesOK /\ ClientsOK /\ LockHeld /\ OnePlace /\ ClosedAtEnd /\ NothingLeft /\ SavedAtEnd
  BY TypeParts DEF IInv
<1>2. PlacesOK' /\ LockHeld'
  BY <1>1, MainKeepsPlaces, ServiceKeepsPlaces DEF Next
<1>3. ClientsOK' /\ OnePlace'
  BY <1>1, KeepsClients
<1>4. ClosedAtEnd' /\ NothingLeft' /\ SavedAtEnd'
  BY <1>1, KeepsClosed, KeepsNothingLeft, KeepsSaved
<1>5. TypeOK'
  BY <1>2, <1>3 DEF TypeOK, PlacesOK, ClientsOK
<1>6. QED
  BY <1>2, <1>3, <1>4, <1>5 DEF IInv

\* The invariant holds at the start.
LEMMA InitIInv == Init => IInv
<1> SUFFICES ASSUME Init PROVE IInv
  OBVIOUS
<1>1. <<>> \in Seq(Client) /\ IsInjective(<<>>) /\ ToSet(<<>>) = {}
  BY EmptySeq DEF IsInjective, ToSet
<1>2. TypeOK
  <2>1. PlacesOK
    <3>1. signals \in 0..MaxSignals
      BY ServiceAssumption DEF Init
    <3>2. attached \subseteq Target /\ unsaved \subseteq Target /\ destroyed \subseteq {"bus", "executor"}
      BY DEF Init
    <3>3. lock \notin {"main", "service"}
      BY ServiceAssumption DEF Init
    <3>4. QED
      BY <3>1, <3>2, <3>3 DEF Init, PlacesOK
  <2>2. ClientsOK
    BY <1>1 DEF Init, ClientsOK
  <2>3. QED
    BY <2>1, <2>2, TypeParts
<1>3. LockHeld /\ OnePlace /\ ClosedAtEnd /\ NothingLeft /\ SavedAtEnd
  BY <1>1 DEF Init, LockHeld, OnePlace, ClosedAtEnd, NothingLeft, Done, SavedAtEnd
<1>4. QED
  BY <1>2, <1>3 DEF IInv

\* The invariant always holds.
LEMMA Invariance == Spec => []IInv
BY InitIInv, KeepsIInv, PTL DEF Spec

\* The threads and the lock are where they may be, and an orderly end has saved what
\* the hosts have written, whichever thread ends s2p and whatever signals come.
THEOREM EndIsOrderly == Spec => []EndsInOrder
<1>1. IInv => EndsInOrder
  BY DEF IInv, EndsInOrder
<1>2. QED
  BY <1>1, Invariance, PTL

\* Unless s2p is told to end, no controller goes while it processes a SCSI command.
THEOREM NoControllerGoes == Spec => ControllerStays
<1>1. ASSUME IInv, Next, ~Cleaning, using \in attached, main \in {"process", "nested"}
      PROVE  using \in attached'
  <2>1. ~Handle /\ ~ShutDown
    BY <1>1 DEF Handle, ShutDown, CleanUp, Cleaning, CleaningUp
  <2>2. ~Execute /\ ~Leave
    BY <1>1 DEF Execute, Leave, IInv, LockHeld
  <2>3. QED
    BY <1>1, <2>1, <2>2
    DEF Next, Main, Loop, EnterWait, NotSelected, CommandEnds, Join, HostSelects, MainLock,
        HostDispatches, Signal, Handler, Resume, ServiceThread, Accept, AcceptEnds, Read, Dispatch,
        Reply, Exit, ServiceLock, Connect, Send, HangUp, shared
<1>2. IInv /\ [Next]_vars =>
        [~Cleaning /\ using \in attached /\ main \in {"process", "nested"}
           => using \in attached']_vars
  BY <1>1
<1>3. QED
  BY <1>2, Invariance, PTL DEF Spec, ControllerStays
===============================================================================
