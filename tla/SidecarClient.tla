---------------------------- MODULE SidecarClient ----------------------------
(***************************************************************************)
(* ComputerSidecarClient (alice-computer-use-sidecar-client/src/lib.rs):   *)
(* threads of the host call one sidecar process over its pipes, a reader   *)
(* thread hands the responses out, a monitor thread waits for the exit,    *)
(* and whoever meets a failure first marks the client dead.                *)
(*                                                                         *)
(* The sidecar (alice-computer/src/main.rs, serve) handles one request at  *)
(* a time in the order of the pipe; it may hang, and exit at any moment.   *)
(* Abstracted: methods are actions, reads and the shutdown; a response is  *)
(* the request it answers, or Nil if it cannot be decoded.                 *)
(***************************************************************************)
EXTENDS Naturals, Sequences

CONSTANTS
  Callers,       \* host threads
  Reader, Monitor, Nil,
  Terminates,    \* terminate() can kill: TRUE on Windows, FALSE elsewhere
  Kinds,         \* kinds of methods called: "action", "read", "shutdown"
  PipeSize,      \* requests the stdin pipe holds before a write blocks; 0 if
                 \* each is larger than the pipe
  Rounds         \* bound: calls made by each thread

ASSUME AgentAssumption ==
  /\ Reader # Monitor /\ Reader # Nil /\ Monitor # Nil
  /\ Callers \intersect {Reader, Monitor, Nil} = {}
  /\ Nil \notin Callers \X (1..Rounds)
ASSUME KindsAssumption == Kinds \subseteq {"action", "read", "shutdown"}
ASSUME SizeAssumption ==
  Terminates \in BOOLEAN /\ PipeSize \in Nat /\ Rounds \in Nat

VARIABLES
  \* --- ClientInner
  alive,         \* state.alive
  pending,       \* the request ids in the pending map
  mail,          \* what has been sent on each response channel
  \* --- threads of the host
  pc, round,     \* where each caller is in its call, and the number of it
  kind,          \* the method of each call
  reader, monitor,
  draining,      \* thread in mark_dead that has yet to drain pending
  \* --- the sidecar process and its pipes
  up,
  pipe,          \* requests written, or being written, that it has not read
  out, serving,
  \* --- history
  performed,     \* actions the sidecar performed
  expired,       \* calls that returned Timeout
  answered       \* calls that returned the response of the sidecar

inner == <<alive, pending, mail>>
calls == <<pc, round, kind>>
threads == <<reader, monitor, draining>>
process == <<up, pipe, out, serving>>
history == <<performed, expired, answered>>
vars == <<inner, calls, threads, process, history>>

Ids   == Callers \X (1..Rounds)   \* request ids are unique
PC    == {"idle", "checked", "inserted", "writing", "waiting", "quarantine",
          "marking", "draining", "leaving"}

\* The request id of the call under way.
Id(c) == <<c, round[c]>>

Goto(c, there) == pc' = [pc EXCEPT ![c] = there]

-----------------------------------------------------------------------------
(* mark_dead: the first to come takes the alive flag, then the pending map. *)

\* Mutant: mark_dead does not look whether another thread was first.
TakeAliveAgain(agent) ==
  /\ alive' = FALSE
  /\ draining' = agent

\* The alive flag goes first: the thread that cleared it drains next.
TakeAlive(agent) ==
  /\ alive
  /\ alive' = FALSE
  /\ draining' = agent

\* Every pending call is told that the sidecar is gone.
Drain ==
  /\ mail' = [i \in Ids |-> IF i \in pending THEN "dead" ELSE mail[i]]
  /\ pending' = {}
  /\ draining' = Nil

-----------------------------------------------------------------------------
(* call_value.                                                             *)

\* A live client; on a dead one the call fails at once and changes nothing.
Call(c, k) ==
  /\ pc[c] = "idle" /\ alive /\ round[c] < Rounds
  /\ round' = [round EXCEPT ![c] = @ + 1]
  /\ kind' = [kind EXCEPT ![<<c, round[c] + 1>>] = k]
  /\ Goto(c, "checked")
  /\ UNCHANGED <<inner, threads, process, history>>

\* The client may have died, and been drained, since it was found alive.
Insert(c) ==
  /\ pc[c] = "checked"
  /\ pending' = pending \union {Id(c)}
  /\ Goto(c, "inserted")
  /\ UNCHANGED <<alive, mail, round, kind, threads, process, history>>

\* The writer lock, which a caller holds while it writes its frame.
WriterFree == \A c \in Callers : pc[c] # "writing"

\* write_frame begins: length and payload are on their way.
Write(c) ==
  /\ pc[c] = "inserted" /\ up /\ WriterFree
  /\ pipe' = Append(pipe, Id(c))
  /\ Goto(c, "writing")
  /\ UNCHANGED <<inner, round, kind, threads, up, out, serving, history>>

\* The last byte is in the pipe, or read already.  Until then the write blocks
\* without a deadline, also on a sidecar that stops in the middle of a frame.
Room == Len(pipe) <= PipeSize
Written(c) ==
  /\ pc[c] = "writing" /\ Room
  /\ Goto(c, "waiting")
  /\ UNCHANGED <<inner, round, kind, threads, process, history>>

\* A broken pipe: the entry is removed, then the client marked dead.
WriteFails(c) ==
  /\ ~up
  /\ \/ pc[c] = "inserted" /\ WriterFree
     \/ pc[c] = "writing" /\ \E k \in 1..Len(pipe) : pipe[k] = Id(c)
  /\ pending' = pending \ {Id(c)}
  /\ Goto(c, "marking")
  /\ UNCHANGED <<alive, mail, round, kind, threads, process, history>>

\* A response, or the news that the sidecar is gone; a shutdown that was
\* answered waits for the exit.  The channel goes with the call.
Receive(c) ==
  /\ pc[c] = "waiting" /\ mail[Id(c)] # "none"
  /\ Goto(c, IF kind[Id(c)] = "shutdown" /\ mail[Id(c)] = "reply"
               THEN "leaving" ELSE "idle")
  /\ mail' = [mail EXCEPT ![Id(c)] = "none"]
  /\ answered' = IF mail[Id(c)] = "reply" THEN answered \union {Id(c)} ELSE answered
  /\ UNCHANGED <<alive, pending, round, kind, threads, process, performed, expired>>

\* Mutant: the entry of a timed-out call stays in the map.
TimeOutLeaks(c) ==
  /\ pc[c] = "waiting" /\ mail[Id(c)] = "none"
  /\ Goto(c, "quarantine")
  /\ UNCHANGED <<inner, round, kind, threads, process, history>>

\* Mutant: actions wait without a deadline.
TimeOutReads(c) ==
  /\ pc[c] = "waiting" /\ mail[Id(c)] = "none" /\ kind[Id(c)] # "action"
  /\ pending' = pending \ {Id(c)}
  /\ Goto(c, "quarantine")
  /\ UNCHANGED <<alive, mail, round, kind, threads, process, history>>

\* recv_timeout runs into the deadline: whoever is about to answer finds
\* the entry gone, or sends to a channel nobody reads.
TimeOut(c) ==
  /\ pc[c] = "waiting" /\ mail[Id(c)] = "none"
  /\ pending' = pending \ {Id(c)}
  /\ Goto(c, "quarantine")
  /\ UNCHANGED <<alive, mail, round, kind, threads, process, history>>

\* Mutant: the client is marked dead, its process left alone.
QuarantineOnly(c) ==
  /\ pc[c] = "quarantine"
  /\ Goto(c, "marking")
  /\ expired' = expired \union {Id(c)}
  /\ UNCHANGED <<inner, round, kind, threads, process, performed, answered>>

\* terminate, then mark_dead: on a platform that cannot kill, a client that
\* is already dead is left as it is and a live one is only marked.
Quarantine(c) ==
  /\ pc[c] = "quarantine"
  /\ IF Terminates THEN up' = FALSE /\ serving' = Nil
                   ELSE UNCHANGED <<up, serving>>
  /\ Goto(c, "marking")
  /\ expired' = expired \union {Id(c)}
  /\ UNCHANGED <<inner, round, kind, threads, pipe, out, performed, answered>>

\* mark_dead by a caller, which then returns.
MarkDead(c) ==
  /\ pc[c] = "marking"
  /\ \/ TakeAlive(c) /\ Goto(c, "draining")
     \/ ~alive /\ Goto(c, "idle") /\ UNCHANGED <<alive, draining>>
  /\ UNCHANGED <<pending, mail, round, kind, reader, monitor, process,
                 history>>
DrainCaller(c) ==
  /\ pc[c] = "draining"
  /\ Drain
  /\ Goto(c, "idle")
  /\ UNCHANGED <<alive, round, kind, reader, monitor, process,
                 history>>

\* shutdown: the exit is noticed, or not within the deadline.
Leave(c) ==
  /\ pc[c] = "leaving"
  /\ Goto(c, "idle")
  /\ UNCHANGED <<inner, round, kind, threads, process, history>>

-----------------------------------------------------------------------------
(* The reader and the monitor thread.                                      *)

\* dispatch_response: an answer nobody waits for is dropped.
Dispatch ==
  /\ reader = "reading" /\ out # <<>> /\ Head(out) # Nil
  /\ out' = Tail(out)
  /\ pending' = pending \ {Head(out)}
  /\ mail' = IF Head(out) \in pending
               THEN [mail EXCEPT ![Head(out)] = "reply"] ELSE mail
  /\ UNCHANGED <<alive, calls, threads, up, pipe, serving, history>>

\* An undecodable response, or the end of the output, ends the reader.
ReaderEnds ==
  /\ reader = "reading"
  /\ \/ out # <<>> /\ Head(out) = Nil /\ out' = Tail(out)
     \/ out = <<>> /\ ~up /\ out' = out
  /\ \/ TakeAlive(Reader) /\ reader' = "draining"
     \/ ~alive /\ reader' = "ended" /\ UNCHANGED <<alive, draining>>
  /\ UNCHANGED <<pending, mail, calls, monitor, up, pipe, serving,
                 history>>
DrainReader ==
  /\ reader = "draining"
  /\ Drain
  /\ reader' = "ended"
  /\ UNCHANGED <<alive, calls, monitor, process, history>>

MonitorEnds ==
  /\ monitor = "waiting" /\ ~up
  /\ \/ TakeAlive(Monitor) /\ monitor' = "draining"
     \/ ~alive /\ monitor' = "ended" /\ UNCHANGED <<alive, draining>>
  /\ UNCHANGED <<pending, mail, calls, reader, process, history>>
DrainMonitor ==
  /\ monitor = "draining"
  /\ Drain
  /\ monitor' = "ended"
  /\ UNCHANGED <<alive, calls, reader, process, history>>

-----------------------------------------------------------------------------
(* The sidecar.                                                            *)

\* read_frame, to the end of the frame: the sidecar may stop before it, or
\* never begin.
ReadRequest ==
  /\ up /\ serving = Nil /\ pipe # <<>>
  /\ serving' = Head(pipe) /\ pipe' = Tail(pipe)
  /\ UNCHANGED <<inner, calls, threads, up, out, history>>

\* The desktop input of an action happens before its response is written.
Perform ==
  /\ up /\ serving # Nil /\ kind[serving] = "action" /\ serving \notin performed
  /\ performed' = performed \union {serving}
  /\ UNCHANGED <<inner, calls, threads, process, expired, answered>>

\* Mutant: the response is written before the request is handled.
RespondFirst ==
  /\ up /\ serving # Nil
  /\ \/ out' = Append(out, serving) /\ serving' = serving
     \/ out' = out /\ serving' = Nil
  /\ up' = (serving' # Nil \/ kind[serving] # "shutdown")
  /\ UNCHANGED <<inner, calls, threads, pipe, history>>

\* The response, possibly an error or garbage; serve ends after a shutdown.
Respond ==
  /\ up /\ serving # Nil
  /\ \E r \in {serving, Nil} : out' = Append(out, r)
  /\ serving' = Nil
  /\ up' = (kind[serving] # "shutdown")
  /\ UNCHANGED <<inner, calls, threads, pipe, history>>

ProcessDies ==
  /\ up
  /\ up' = FALSE /\ serving' = Nil
  /\ UNCHANGED <<inner, calls, threads, pipe, out, history>>

-----------------------------------------------------------------------------
Init ==
  /\ alive = TRUE /\ pending = {} /\ mail = [i \in Ids |-> "none"]
  /\ pc = [c \in Callers |-> "idle"] /\ round = [c \in Callers |-> 0]
  /\ kind = [i \in Ids |-> "read"]
  /\ reader = "reading" /\ monitor = "waiting" /\ draining = Nil
  /\ up = TRUE /\ pipe = <<>> /\ out = <<>> /\ serving = Nil
  /\ performed = {} /\ expired = {} /\ answered = {}

Continue(c) ==
  \/ Insert(c) \/ Write(c) \/ Written(c) \/ WriteFails(c) \/ Receive(c)
  \/ TimeOut(c) \/ Quarantine(c) \/ MarkDead(c) \/ DrainCaller(c) \/ Leave(c)
ReaderStep  == Dispatch \/ ReaderEnds \/ DrainReader
MonitorStep == MonitorEnds \/ DrainMonitor
Sidecar == ReadRequest \/ Perform \/ Respond \/ ProcessDies

Next ==
  \/ \E c \in Callers : Continue(c) \/ \E k \in Kinds : Call(c, k)
  \/ ReaderStep \/ MonitorStep \/ Sidecar

Spec == Init /\ [][Next]_vars

\* The threads of the host go on; the sidecar owes them nothing, neither an
\* answer nor to read what they write.
FairSpec ==
  /\ Spec
  /\ \A c \in Callers : WF_vars(Continue(c))
  /\ WF_vars(ReaderStep) /\ WF_vars(MonitorStep)

-----------------------------------------------------------------------------
(* Properties.                                                             *)

InnerTypeOK ==
  /\ alive \in BOOLEAN /\ pending \subseteq Ids
  /\ mail \in [Ids -> {"none", "reply", "dead"}]
CallsTypeOK ==
  /\ pc \in [Callers -> PC] /\ round \in [Callers -> 0..Rounds]
  /\ kind \in [Ids -> Kinds \union {"read"}]
  /\ \A c \in Callers : pc[c] # "idle" => round[c] # 0
ThreadsTypeOK ==
  /\ reader \in {"reading", "draining", "ended"}
  /\ monitor \in {"waiting", "draining", "ended"}
  /\ draining \in Callers \union {Reader, Monitor, Nil}
ProcessTypeOK ==
  /\ up \in BOOLEAN /\ serving \in Ids \union {Nil}
  /\ pipe \in Seq(Ids) /\ out \in Seq(Ids \union {Nil})
  /\ performed \subseteq Ids /\ expired \subseteq Ids /\ answered \subseteq Ids

\* Every variable has its type: the maps of the client, the calls, the
\* threads that mark it dead, and the sidecar with its pipes.
TypeOK == InnerTypeOK /\ CallsTypeOK /\ ThreadsTypeOK /\ ProcessTypeOK

\* The pending map does not leak: whatever dies when, an entry belongs to a
\* call that is still waiting for it and has not been answered.
PendingOwned ==
  \A i \in pending :
    /\ mail[i] = "none"
    /\ \E c \in Callers : Id(c) = i /\ pc[c] \in
         {"inserted", "writing", "waiting"}

\* call_value, "quarantine the entire process before returning. This prevents
\* a timed-out action from completing later": no action is performed after
\* its caller was told that it timed out.
QuarantineHolds ==
  [][\A i \in performed' \ performed : i \notin expired]_vars

\* The client seen as a RemoteCalls: the calls that began, and those still going.
Asked   == {i \in Ids : i[2] <= round[i[1]]}
Running == {Id(c) : c \in {d \in Callers : pc[d] # "idle"}}
Promise == INSTANCE RemoteCalls
             WITH Requests <- Ids, Quarantines <- Terminates, asked <- Asked,
                  running <- Running, timedOut <- expired

\* The client keeps the promise of RemoteCalls: whatever its threads and its
\* process do, no request is performed twice or after its answer, and none at
\* all after a timeout was reported by a client that can kill.
CallsSpec == Promise!Spec

\* The client gave its process up alive: nobody will end it.
GivenUp == ~alive /\ up

\* A sidecar that serves nothing has stopped reading, and nobody is waiting
\* for it: the frame in the pipe has no deadline, nor have those behind the lock.
Jammed ==
  /\ up /\ alive /\ serving = Nil /\ ~Room
  /\ ~WriterFree /\ \A c \in Callers : pc[c] \in {"idle", "inserted", "writing"}

\* Every call returns, even if the sidecar hangs with a full pipe and others
\* wait to write: whoever waits for an answer runs into its deadline and, by
\* ending the process, sets the writers free.  The exceptions are a process
\* given up alive, and a frame that jams for ever while nobody waits.
CallsReturn ==
  \A c \in Callers : pc[c] # "idle" ~> pc[c] = "idle" \/ GivenUp \/ []Jammed

-----------------------------------------------------------------------------
(* The inductive invariant behind the safety properties.                   *)

\* One thread at most is between clearing the alive flag and draining the
\* pending map.
OneDrains ==
  /\ \A c \in Callers : pc[c] = "draining" => draining = c
  /\ reader = "draining" => draining = Reader
  /\ monitor = "draining" => draining = Monitor
  /\ draining # Nil => ~alive

\* Nothing has been sent to a call that is not in the map yet.
FreshMail ==
  \A c \in Callers :
    /\ pc[c] = "checked" => mail[Id(c)] = "none"
    /\ \A n \in 1..Rounds : n > round[c] => mail[<<c, n>>] = "none"

\* Where the process can be killed, a call that timed out has killed it.
Killed == Terminates /\ expired # {} => ~up

\* The writing of a request began, or never will.
Begun(i) ==
  \/ i[2] < round[i[1]]
  \/ i[2] = round[i[1]] /\ pc[i[1]] \notin {"checked", "inserted"}

\* The sidecar neither has it nor will get it.
Over(i) == Begun(i) /\ serving # i /\ \A k \in 1..Len(pipe) : pipe[k] # i

\* A request is handled once: it is at one place on its way to the sidecar,
\* and nowhere on it when its answer is on the way back.
HandledOnce ==
  /\ \A k \in 1..Len(pipe) : Begun(pipe[k]) /\ pipe[k] # serving
  /\ \A k, l \in 1..Len(pipe) : pipe[k] = pipe[l] => k = l
  /\ serving # Nil => Begun(serving)
  /\ \A k \in 1..Len(out) : out[k] # Nil => Over(out[k])
  /\ \A i \in Ids : mail[i] = "reply" => Over(i)
  /\ \A i \in answered : Over(i)

\* A call that is under way has no outcome yet, and no call has two.
OneOutcome ==
  /\ \A c \in Callers :
       /\ pc[c] \notin {"idle", "leaving"} => Id(c) \notin answered
       /\ pc[c] \notin {"idle", "marking", "draining"} => Id(c) \notin expired
       /\ \A n \in 1..Rounds : n > round[c] => <<c, n>> \notin answered \union expired
  /\ answered \intersect expired = {}

IInv == TypeOK /\ OneDrains /\ FreshMail /\ PendingOwned /\ Killed /\ HandledOnce /\ OneOutcome
=============================================================================
