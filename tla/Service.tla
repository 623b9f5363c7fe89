------------------------------- MODULE Service -------------------------------
(***************************************************************************)
(* The threads of s2p (cpp/s2p/s2p_core.cpp, cpp/s2p/s2p_thread.cpp,       *)
(* cpp/command/command_dispatcher.cpp, command_context.cpp): the main      *)
(* thread serves the SCSI bus, the service thread serves the clients of    *)
(* the remote interface, one connection and one command at a time.  They   *)
(* share the controllers; the execution lock is to keep them apart.  A     *)
(* signal interrupts the main thread to clean up, SHUT_DOWN cleans up in   *)
(* the service thread.  Neither takes the lock.                            *)
(*                                                                         *)
(* What a command does to devices is the subject of Executor and Drives, a *)
(* SCSI command that of Controller: here a controller is attached or not,  *)
(* and a SCSI command leaves unsaved data or not.                          *)
(***************************************************************************)
EXTENDS Naturals, Sequences, SequencesExt

CONSTANTS Client,          \* programs that use the remote interface
          Target,          \* the controllers that can be attached
          Operation,       \* what clients ask for
          HostOperation,   \* what the host asks for with EXECUTE OPERATION
          MaxSignals,      \* how many INT and TERM signals arrive
          None

\* "info": an operation that only reads, or fails; "device": one that takes the lock.
ASSUME ServiceAssumption ==
  /\ Operation \subseteq {"info", "device", "shutdown"}
  /\ HostOperation \subseteq {"info", "device", "shutdown"}
  /\ MaxSignals \in Nat
  /\ None \notin Client \cup Target \cup Operation \cup {"main", "service"}

VARIABLES main,       \* where the main thread is
          handling,    \* where the signal handler is that interrupts it, or "no"
          service,    \* where the service thread is
          serving,    \* the client it serves
          request,    \* the operation the client asked for
          socket,     \* is the service socket open?
          lock,       \* who holds the execution lock
          using,      \* the controller that processes a SCSI command
          attached,   \* the controllers there are
          unsaved,    \* controllers with data that is not yet in the image files
          destroyed,  \* the parts of S2p that are gone
          client,     \* the state of each client
          queue,      \* connections not yet accepted
          polling,    \* does the bus wait with a timeout (in-process), or for an event?
          signals,    \* signals still to come
          disturbed,  \* was a host at work when CleanUp() detached all, or came a device after that?
          outcome

threads == <<main, handling, service, serving, request>>
clients == <<client, queue>>
shared == <<socket, lock, using, attached, unsaved, destroyed>>
fixed == <<polling, signals, disturbed, outcome>>
vars == <<threads, clients, shared, fixed>>

Running == outcome = "running"
CleaningUp == {"stop", "detach", "bus"}
Cleaning == handling \in CleaningUp \/ service \in CleaningUp

\* Clients whose command has not been answered.
Sent == Operation \cup {"served"}

Init ==
  /\ main = "loop" /\ handling = "no"
  /\ service = "accept" /\ serving = None /\ request = None
  /\ socket = TRUE /\ lock = None /\ using = None
  /\ attached \in SUBSET Target /\ unsaved = {} /\ destroyed = {}
  /\ client = [c \in Client |-> "away"] /\ queue = <<>>
  /\ polling \in BOOLEAN /\ signals = MaxSignals
  /\ disturbed = FALSE /\ outcome = "running"

\* Undefined behaviour: an object is used that is gone.  The process dies or carries on.
MayCrash == outcome' \in {"running", "crashed"}

-------------------------------------------------------------------------------
(* The clients. *)

Connect(c) ==
  /\ Running /\ socket /\ client[c] = "away"
  /\ client' = [client EXCEPT ![c] = "connected"]
  /\ queue' = Append(queue, c)
  /\ UNCHANGED <<threads, shared, fixed>>

Send(c) ==
  /\ Running /\ client[c] = "connected"
  /\ \E o \in Operation : client' = [client EXCEPT ![c] = o]
  /\ UNCHANGED <<threads, queue, shared, fixed>>

HangUp(c) ==
  /\ Running /\ client[c] \in {"connected", "served"}
  /\ client' = [client EXCEPT ![c] = "gone"]
  /\ UNCHANGED <<threads, queue, shared, fixed>>

-------------------------------------------------------------------------------
(* CleanUp(), in the signal handler or in the service thread. *)

\* Mutation: the drives do not save their caches.
DetachAllUnsaved ==
  attached' = {} /\ UNCHANGED unsaved

\* DetachAll() deletes all controllers, whoever uses them, after the drives' CleanUp().
DetachAll ==
  attached' = {} /\ unsaved' = {}

\* S2pThread::Stop(): connections not yet accepted are reset.
Stop ==
  /\ socket' = FALSE
  /\ client' = [c \in Client |-> IF c \in ToSet(queue) THEN "gone" ELSE client[c]]
  /\ queue' = <<>>

\* One step of CleanUp(); executor has been destroyed if the main thread was faster.
CleanUp(at, then) ==
  \/ /\ at = "stop" /\ then = "detach"
     /\ Stop
     /\ UNCHANGED <<attached, unsaved, disturbed, outcome>>
  \/ /\ at = "detach" /\ then = "bus"
     /\ "executor" \notin destroyed
     /\ DetachAll
     /\ disturbed' = (disturbed \/ main \in {"lock", "process", "nested"})
     /\ UNCHANGED <<socket, clients, outcome>>
  \/ /\ at = "detach" /\ then = "bus"
     /\ "executor" \in destroyed
     /\ outcome' = "crashed"
     /\ UNCHANGED <<socket, clients, attached, unsaved, disturbed>>

-------------------------------------------------------------------------------
(* The main thread. *)

MainRuns == Running /\ handling = "no"

\* ProcessScsiCommands(): IsRunning()
Loop ==
  /\ MainRuns /\ main = "loop"
  /\ main' = IF ~socket THEN "leave" ELSE "enter"
  /\ UNCHANGED <<handling, service, serving, request, clients, shared, fixed>>

\* WaitForSelection() is called ...
EnterWait ==
  /\ MainRuns /\ main = "enter"
  /\ main' = "wait"
  /\ UNCHANGED <<handling, service, serving, request, clients, shared, fixed>>

\* ... and returns without a selection, or WaitForNotBusy() gives up.
NotSelected ==
  /\ MainRuns /\ main = "wait"
  /\ main' = "loop"
  /\ UNCHANGED <<handling, service, serving, request, clients, shared, fixed>>

HostSelects ==
  /\ MainRuns /\ main = "wait"
  /\ main' = "lock"
  /\ UNCHANGED <<handling, service, serving, request, clients, shared, fixed>>

\* The lock, and ProcessOnController() for a controller, if one is addressed.
MainLock ==
  /\ MainRuns /\ main = "lock" /\ lock = None
  /\ \/ \E t \in attached :
          main' = "process" /\ using' = t /\ lock' = "main"
     \/ main' = "loop" /\ UNCHANGED <<using, lock>>
  /\ UNCHANGED <<handling, service, serving, request, clients,
                 socket, attached, unsaved, destroyed, fixed>>

\* The controller has processed the command.  The result of ShutDown() is ignored.
CommandEnds ==
  /\ MainRuns /\ main = "process"
  /\ \/ using \in attached /\ unsaved' \in {unsaved, unsaved \cup {using}} /\ UNCHANGED outcome
     \/ using \notin attached /\ MayCrash /\ UNCHANGED unsaved
  /\ main' = "loop" /\ using' = None /\ lock' = None
  /\ UNCHANGED <<handling, service, serving, request, clients,
                 socket, attached, destroyed, polling, signals, disturbed>>

\* EXECUTE OPERATION: HostServices calls DispatchCommand().  ExecuteWithLock() blocks
\* for good, since the lock is held by this thread and not recursive.  SHUT_DOWN has
\* no effect, because only S2p::ExecuteCommand() cleans up.
HostDispatches ==
  /\ MainRuns /\ main = "process" /\ using \in attached
  /\ \E o \in HostOperation : main' = IF o = "device" THEN "nested" ELSE "process"
  /\ UNCHANGED <<handling, service, serving, request, clients, shared, fixed>>

\* Run() returns, the members of S2p are destroyed in the reverse order of their
\* declaration.  The destructors of the controllers do not save anything.
Leave ==
  /\ MainRuns
  /\ \/ main = "leave" /\ main' = "bus_gone" /\ destroyed' = {"bus"} /\ UNCHANGED attached
     \/ main = "bus_gone" /\ main' = "executor_gone" /\ destroyed' = {"bus", "executor"}
        /\ UNCHANGED attached
     \/ main = "executor_gone" /\ main' = "join" /\ attached' = {} /\ UNCHANGED destroyed
  /\ UNCHANGED <<handling, service, serving, request, clients,
                 socket, lock, using, unsaved, fixed>>

\* The destructor of jthread waits for the thread.
Join ==
  /\ MainRuns /\ main = "join" /\ service = "ended"
  /\ outcome' = "returned"
  /\ UNCHANGED <<threads, clients, shared, polling, signals, disturbed>>

\* A signal arrives and interrupts the main thread.
Signal ==
  /\ MainRuns /\ signals > 0
  /\ signals' = signals - 1
  /\ handling' = IF socket THEN "stop" ELSE "detach"
  /\ UNCHANGED <<main, service, serving, request, clients, shared, polling, disturbed, outcome>>

\* TerminationHandler()
Handle ==
  /\ Running
  /\ \E then \in CleaningUp : CleanUp(handling, then) /\ handling' = then
  /\ UNCHANGED <<main, service, serving, request, lock, using, destroyed,
                 polling, signals>>

\* The handler returns.  A system call the main thread waits in is interrupted.
Resume ==
  /\ Running /\ handling = "bus"
  /\ handling' = "no"
  /\ main' = IF main = "wait" THEN "loop" ELSE main
  /\ UNCHANGED <<service, serving, request, clients, shared, fixed>>

-------------------------------------------------------------------------------
(* The service thread. *)

\* S2pThread::Execute()
Accept ==
  /\ Running /\ service = "accept" /\ socket /\ queue # <<>>
  /\ service' = "read" /\ serving' = Head(queue)
  /\ queue' = Tail(queue)
  /\ UNCHANGED <<main, handling, request, client, shared, fixed>>

\* Mutation: accept() only returns for a connection.
AcceptEndsNever ==
  /\ Running /\ service = "accept" /\ ~socket /\ queue # <<>>
  /\ service' = "ended" /\ UNCHANGED <<main, handling, serving, request, clients, shared, fixed>>

AcceptEnds ==
  /\ Running /\ service = "accept" /\ ~socket
  /\ service' = "ended" /\ UNCHANGED <<main, handling, serving, request, clients, shared, fixed>>

\* The connection is closed.
Disconnect ==
  /\ service' = "accept" /\ serving' = None /\ request' = None
  /\ client' = [client EXCEPT ![serving] = "away"]

\* Mutation: the end of the connection is not noticed.
ReadOnlySent ==
  /\ Running /\ service = "read"
  /\ client[serving] \in Operation
  /\ service' = "dispatch" /\ request' = client[serving]
  /\ client' = [client EXCEPT ![serving] = "served"]
  /\ UNCHANGED <<serving, main, handling, queue, shared, fixed>>

\* ReadCommand() blocks until the client sends or hangs up.
Read ==
  /\ Running /\ service = "read"
  /\ \/ /\ client[serving] \in Operation
        /\ service' = "dispatch" /\ request' = client[serving]
        /\ client' = [client EXCEPT ![serving] = "served"]
        /\ UNCHANGED serving
     \/ client[serving] = "gone" /\ Disconnect
  /\ UNCHANGED <<main, handling, queue, shared, fixed>>

\* DispatchCommand().  SHUT_DOWN is answered first; when that fails there is an
\* exception, and no shutdown.
Dispatch ==
  /\ Running /\ service = "dispatch"
  /\ \/ request = "info" /\ service' = "reply" /\ UNCHANGED <<serving, request, client>>
     \/ request = "device" /\ service' = "lock" /\ UNCHANGED <<serving, request, client>>
     \/ /\ request = "shutdown" /\ client[serving] # "gone"
        /\ service' = IF socket THEN "stop" ELSE "detach"
        /\ client' = [client EXCEPT ![serving] = "away"]
        /\ UNCHANGED <<serving, request>>
     \/ request = "shutdown" /\ client[serving] = "gone" /\ Disconnect
  /\ IF "executor" \in destroyed THEN MayCrash ELSE UNCHANGED outcome
  /\ UNCHANGED <<main, handling, queue, shared, polling, signals, disturbed>>

\* Mutation: ExecuteWithLock() does not wait.
ServiceLockNever ==
  /\ Running /\ service = "lock"
  /\ service' = "execute" /\ UNCHANGED lock
  /\ UNCHANGED <<main, handling, serving, request, clients, socket, using, attached,
                 unsaved, destroyed, fixed>>

\* ExecuteWithLock()
ServiceLock ==
  /\ Running /\ service = "lock" /\ lock = None
  /\ service' = "execute" /\ lock' = "service"
  /\ UNCHANGED <<main, handling, serving, request, clients, socket, using, attached,
                 unsaved, destroyed, fixed>>

\* The scoped lock ends with the function.
Release == lock' = None

\* ProcessCmd(): a controller comes or goes, or nothing changes.
Execute ==
  /\ Running /\ service = "execute"
  /\ \/ /\ \E t \in Target \ attached : attached' = attached \cup {t}
        /\ disturbed' = (disturbed \/ ~socket)
        /\ UNCHANGED unsaved
     \/ /\ \E t \in attached : attached' = attached \ {t} /\ unsaved' = unsaved \ {t}
        /\ UNCHANGED disturbed
     \/ UNCHANGED <<attached, unsaved, disturbed>>
  /\ IF "executor" \in destroyed THEN MayCrash ELSE UNCHANGED outcome
  /\ Release
  /\ service' = "reply"
  /\ UNCHANGED <<main, handling, serving, request, clients, socket, using, destroyed,
                 polling, signals>>

\* WriteResult(); a client that is gone is not told.
Reply ==
  /\ Running /\ service = "reply"
  /\ Disconnect
  /\ UNCHANGED <<main, handling, queue, shared, fixed>>

\* S2p::ExecuteCommand() after SHUT_DOWN
ShutDown ==
  /\ Running
  /\ \E then \in CleaningUp : CleanUp(service, then) /\ service' = then
  /\ UNCHANGED <<main, handling, serving, request, lock, using, destroyed,
                 polling, signals>>

\* exit() ends all threads.
Exit ==
  /\ Running /\ service = "bus"
  /\ outcome' = "exited"
  /\ UNCHANGED <<threads, clients, shared, polling, signals, disturbed>>

-------------------------------------------------------------------------------
Main == Loop \/ EnterWait \/ (polling /\ NotSelected) \/ CommandEnds \/ Leave \/ Join
Handler == Handle \/ Resume
ServiceThread == Accept \/ AcceptEnds \/ Read \/ Dispatch \/ Execute \/ Reply \/ ShutDown \/ Exit

Next ==
  \/ Main \/ NotSelected \/ HostSelects \/ MainLock \/ HostDispatches
  \/ Signal \/ Handler
  \/ ServiceThread \/ ServiceLock
  \/ \E c \in Client : Connect(c) \/ Send(c) \/ HangUp(c)

\* The threads are scheduled, the lock is free often enough for both, and a
\* client that connects sends a command or hangs up.
Fairness ==
  /\ WF_vars(Main) /\ WF_vars(Handler) /\ WF_vars(ServiceThread)
  /\ SF_vars(MainLock) /\ SF_vars(ServiceLock)
  /\ \A c \in Client : WF_vars(Send(c) \/ (client[c] = "connected" /\ HangUp(c)))

Spec == Init /\ [][Next]_vars /\ Fairness

-------------------------------------------------------------------------------
(* Properties. *)

\* The places of the threads, and that the holder of the lock is where it is needed.
TypeOK ==
  /\ main \in {"loop", "enter", "wait", "lock", "process", "nested", "leave",
               "bus_gone", "executor_gone", "join"}
  /\ handling \in CleaningUp \cup {"no"}
  /\ service \in {"accept", "read", "dispatch", "lock", "execute", "reply", "ended"} \cup CleaningUp
  /\ serving \in Client \cup {None} /\ request \in Operation \cup {None}
  /\ socket \in BOOLEAN
  /\ lock = "main" => main \in {"process", "nested"}
  /\ lock = "service" => service = "execute"
  /\ lock \in {None, "main", "service"}
  /\ using \in Target \cup {None} /\ (using # None <=> main \in {"process", "nested"})
  /\ attached \subseteq Target /\ unsaved \subseteq Target
  /\ destroyed \subseteq {"bus", "executor"}
  /\ client \in [Client -> {"away", "connected", "gone"} \cup Sent]
  /\ queue \in Seq(Client) /\ IsInjective(queue)
  /\ polling \in BOOLEAN /\ signals \in 0..MaxSignals /\ disturbed \in BOOLEAN
  /\ outcome \in {"running", "returned", "exited", "crashed"}

\* "The remaining commands may only be executed when the target is idle, which is
\* ensured by the lock" (DispatchCommand()): unless s2p is told to end, no controller
\* goes while it processes a SCSI command.
ControllerStays ==
  [][~Cleaning /\ using \in attached /\ main \in {"process", "nested"}
       => using \in attached']_vars

\* CleanUp(): s2p ends in order without having lost data, if no host had selected a
\* target when the devices were detached and no client attached another device then.
SavedAtEnd == outcome \in {"returned", "exited"} /\ ~disturbed => unsaved = {}

\* The threads and the lock are where they may be, and the end is orderly: both.
EndsInOrder == TypeOK /\ SavedAtEnd

\* S2pThread: a client that sent a command gets an answer, unless it hangs up or s2p ends.
Answered ==
  \A c \in Client : client[c] \in Sent ~> client[c] \in {"away", "gone"} \/ ~Running

\* EXECUTE OPERATION: "The remote interface commands that can be executed are defined in
\* the s2p_interface.proto file" (HostServices): every one of them ends.
OperationEnds == main = "nested" ~> main # "nested"

\* "Process will terminate automatically" (TerminationHandler()): after the socket is
\* closed s2p ends, unless a signal came just before it waits for an event on the bus.
Terminates == ~socket ~> ~Running \/ (~polling /\ main = "wait")
===============================================================================
