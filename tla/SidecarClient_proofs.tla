------------------------ MODULE SidecarClient_proofs ------------------------
(***************************************************************************)
(* Proofs about SidecarClient, for every set of callers, every size of the *)
(* pipe and any number of calls: the pending map does not leak, and where  *)
(* the sidecar can be killed nothing is performed after a timeout.         *)
(***************************************************************************)
EXTENDS SidecarClient, TLAPS

-----------------------------------------------------------------------------
(* Types.                                                                  *)

\* The request id of a call under way is a request id.
LEMMA IdTyped ==
  ASSUME TypeOK, NEW c \in Callers, pc[c] # "idle"
  PROVE  Id(c) \in Ids /\ Id(c) = <<c, round[c]>> /\ round[c] \in 1..Rounds
<1>1. round[c] \in 1..Rounds
  BY SizeAssumption DEF TypeOK, CallsTypeOK
<1> QED BY <1>1 DEF Id, Ids

\* A step of a call that stays under way, or returns, keeps the calls typed.
LEMMA GotoTyped ==
  ASSUME TypeOK, NEW c \in Callers, pc[c] # "idle", NEW p \in PC, Goto(c, p),
         UNCHANGED <<round, kind>>
  PROVE  CallsTypeOK'
BY DEF TypeOK, CallsTypeOK, Goto

\* Draining keeps the client typed.
LEMMA DrainTyped ==
  ASSUME TypeOK, Drain, UNCHANGED alive
  PROVE  InnerTypeOK'
BY DEF TypeOK, InnerTypeOK, Drain

\* Every step keeps every variable in its type.
LEMMA TypeStep ==
  ASSUME TypeOK, [Next]_vars
  PROVE  TypeOK'
<1>1. ASSUME NEW c \in Callers, NEW k \in Kinds, Call(c, k) PROVE TypeOK'
  <2>1. round[c] + 1 \in 1..Rounds /\ round[c] + 1 \in 0..Rounds
    BY <1>1, SizeAssumption DEF Call, TypeOK, CallsTypeOK
  <2>2. <<c, round[c] + 1>> \in Ids
    BY <2>1 DEF Ids
  <2>3. pc' \in [Callers -> PC]
    BY <1>1 DEF Call, Goto, TypeOK, CallsTypeOK, PC
  <2>4. round' \in [Callers -> 0..Rounds]
    BY <1>1, <2>1 DEF Call, TypeOK, CallsTypeOK
  <2>5. kind' \in [Ids -> Kinds \union {"read"}]
    BY <1>1, <2>2 DEF Call, TypeOK, CallsTypeOK
  <2>6. \A d \in Callers : pc'[d] # "idle" => round'[d] # 0
    BY <1>1, <2>1 DEF Call, Goto, TypeOK, CallsTypeOK
  <2> QED BY <1>1, <2>3, <2>4, <2>5, <2>6
       DEF Call, TypeOK, InnerTypeOK, CallsTypeOK, ThreadsTypeOK, ProcessTypeOK,
           inner, threads, process, history
<1>2. ASSUME NEW c \in Callers, Insert(c) \/ TimeOut(c) PROVE TypeOK'
  <2>1. pc[c] # "idle" /\ UNCHANGED <<round, kind>> /\ \E p \in PC : Goto(c, p)
    BY <1>2 DEF Insert, TimeOut, PC
  <2>2. CallsTypeOK'
    BY <2>1, GotoTyped
  <2>3. InnerTypeOK'
    BY <1>2, <2>1, IdTyped DEF Insert, TimeOut, TypeOK, InnerTypeOK
  <2> QED BY <1>2, <2>2, <2>3
       DEF Insert, TimeOut, TypeOK, ThreadsTypeOK, ProcessTypeOK, threads, process, history
<1>3. ASSUME NEW c \in Callers, Write(c) PROVE TypeOK'
  <2>1. pc[c] # "idle" /\ UNCHANGED <<round, kind>> /\ \E p \in PC : Goto(c, p)
    BY <1>3 DEF Write, PC
  <2>2. CallsTypeOK' /\ Id(c) \in Ids
    BY <2>1, GotoTyped, IdTyped
  <2>3. pipe' \in Seq(Ids)
    BY <1>3, <2>2 DEF Write, TypeOK, ProcessTypeOK
  <2> QED BY <1>3, <2>2, <2>3
       DEF Write, TypeOK, InnerTypeOK, ThreadsTypeOK, ProcessTypeOK, inner, threads, history
<1>4. ASSUME NEW c \in Callers, Written(c) \/ WriteFails(c) PROVE TypeOK'
  <2>1. pc[c] # "idle" /\ UNCHANGED <<round, kind>> /\ \E p \in PC : Goto(c, p)
    BY <1>4 DEF Written, WriteFails, PC
  <2>2. CallsTypeOK'
    BY <2>1, GotoTyped
  <2> QED BY <1>4, <2>2
       DEF Written, WriteFails, inner, TypeOK, InnerTypeOK, ThreadsTypeOK, ProcessTypeOK, threads,
           process, history
<1>5. ASSUME NEW c \in Callers, Receive(c) PROVE TypeOK'
  <2>1. pc[c] # "idle" /\ UNCHANGED <<round, kind>> /\ \E p \in PC : Goto(c, p)
    BY <1>5 DEF Receive, PC
  <2>2. CallsTypeOK' /\ Id(c) \in Ids
    BY <2>1, GotoTyped, IdTyped
  <2>3. InnerTypeOK'
    BY <1>5, <2>2 DEF Receive, TypeOK, InnerTypeOK
  <2> QED BY <1>5, <2>2, <2>3
       DEF Receive, TypeOK, ThreadsTypeOK, ProcessTypeOK, threads, process, history
<1>6. ASSUME NEW c \in Callers, Quarantine(c) PROVE TypeOK'
  <2>1. pc[c] # "idle" /\ UNCHANGED <<round, kind>> /\ \E p \in PC : Goto(c, p)
    BY <1>6 DEF Quarantine, PC
  <2>2. CallsTypeOK' /\ Id(c) \in Ids
    BY <2>1, GotoTyped, IdTyped
  <2> QED BY <1>6, <2>2
       DEF Quarantine, TypeOK, InnerTypeOK, ThreadsTypeOK, ProcessTypeOK, inner, threads
<1>7. ASSUME NEW c \in Callers, MarkDead(c) PROVE TypeOK'
  <2>1. pc[c] # "idle" /\ UNCHANGED <<round, kind>> /\ \E p \in PC : Goto(c, p)
    BY <1>7 DEF MarkDead, PC
  <2>2. CallsTypeOK'
    BY <2>1, GotoTyped
  <2> QED BY <1>7, <2>2
       DEF MarkDead, TakeAlive, TypeOK, InnerTypeOK, ThreadsTypeOK, ProcessTypeOK,
           process, history
<1>8. ASSUME NEW c \in Callers, DrainCaller(c) PROVE TypeOK'
  <2>1. pc[c] # "idle" /\ UNCHANGED <<round, kind>> /\ \E p \in PC : Goto(c, p)
    BY <1>8 DEF DrainCaller, PC
  <2>2. CallsTypeOK' /\ InnerTypeOK'
    BY <1>8, <2>1, GotoTyped, DrainTyped DEF DrainCaller
  <2> QED BY <1>8, <2>2
       DEF DrainCaller, Drain, TypeOK, ThreadsTypeOK, ProcessTypeOK, process, history
<1>9. ASSUME NEW c \in Callers, Leave(c) PROVE TypeOK'
  <2>1. pc[c] # "idle" /\ UNCHANGED <<round, kind>> /\ \E p \in PC : Goto(c, p)
    BY <1>9 DEF Leave, PC
  <2>2. CallsTypeOK'
    BY <2>1, GotoTyped
  <2> QED BY <1>9, <2>2
       DEF Leave, TypeOK, InnerTypeOK, ThreadsTypeOK, ProcessTypeOK, inner, threads,
           process, history
<1>10. ASSUME Dispatch PROVE TypeOK'
  <2>1. InnerTypeOK'
    BY <1>10 DEF Dispatch, TypeOK, InnerTypeOK
  <2>2. out' \in Seq(Ids \union {Nil})
    BY <1>10 DEF Dispatch, TypeOK, ProcessTypeOK
  <2> QED BY <1>10, <2>1, <2>2
       DEF Dispatch, TypeOK, CallsTypeOK, ThreadsTypeOK, ProcessTypeOK, calls, threads,
           history
<1>11. ASSUME ReaderEnds PROVE TypeOK'
  <2>1. out' \in Seq(Ids \union {Nil})
    <3>1. CASE out # <<>> /\ out' = Tail(out)
      BY <3>1 DEF TypeOK, ProcessTypeOK
    <3>2. CASE out' = out
      BY <3>2 DEF TypeOK, ProcessTypeOK
    <3> QED BY <1>11, <3>1, <3>2 DEF ReaderEnds
  <2> QED BY <1>11, <2>1
       DEF ReaderEnds, TakeAlive, TypeOK, InnerTypeOK, CallsTypeOK, ThreadsTypeOK,
           ProcessTypeOK, calls, history
<1>12. ASSUME MonitorEnds PROVE TypeOK'
  BY <1>12 DEF MonitorEnds, TakeAlive, TypeOK, InnerTypeOK, CallsTypeOK, ThreadsTypeOK,
               ProcessTypeOK, calls, process, history
<1>13. ASSUME DrainReader \/ DrainMonitor PROVE TypeOK'
  <2>1. InnerTypeOK'
    BY <1>13, DrainTyped DEF DrainReader, DrainMonitor
  <2> QED BY <1>13, <2>1
       DEF DrainReader, DrainMonitor, Drain, TypeOK, CallsTypeOK, ThreadsTypeOK,
           ProcessTypeOK, calls, process, history
<1>14. ASSUME ReadRequest PROVE TypeOK'
  <2>1. pipe' \in Seq(Ids) /\ serving' \in Ids
    BY <1>14 DEF ReadRequest, TypeOK, ProcessTypeOK
  <2> QED BY <1>14, <2>1
       DEF ReadRequest, TypeOK, InnerTypeOK, CallsTypeOK, ThreadsTypeOK, ProcessTypeOK,
           inner, calls, threads, history
<1>15. ASSUME Perform PROVE TypeOK'
  BY <1>15 DEF Perform, TypeOK, InnerTypeOK, CallsTypeOK, ThreadsTypeOK, ProcessTypeOK,
               inner, calls, threads, process
<1>16. ASSUME Respond PROVE TypeOK'
  <2>1. out' \in Seq(Ids \union {Nil}) /\ up' \in BOOLEAN
    BY <1>16 DEF Respond, TypeOK, ProcessTypeOK
  <2> QED BY <1>16, <2>1
       DEF Respond, TypeOK, InnerTypeOK, CallsTypeOK, ThreadsTypeOK, ProcessTypeOK,
           inner, calls, threads, history
<1>17. ASSUME ProcessDies PROVE TypeOK'
  BY <1>17 DEF ProcessDies, TypeOK, InnerTypeOK, CallsTypeOK, ThreadsTypeOK,
               ProcessTypeOK, inner, calls, threads, history
<1>18. CASE UNCHANGED vars
  BY <1>18 DEF vars, TypeOK, InnerTypeOK, CallsTypeOK, ThreadsTypeOK, ProcessTypeOK,
               inner, calls, threads, process, history
<1> QED BY <1>1, <1>2, <1>3, <1>4, <1>5, <1>6, <1>7, <1>8, <1>9, <1>10, <1>11, <1>12,
           <1>13, <1>14, <1>15, <1>16, <1>17, <1>18
     DEF Next, Continue, ReaderStep, MonitorStep, Sidecar

-----------------------------------------------------------------------------
(* The pending map.                                                        *)

Waits(c) == pc[c] \in {"inserted", "writing", "waiting"}

\* Request ids of different callers, or of different calls, are different.
LEMMA IdsDiffer ==
  ASSUME NEW c, NEW d, NEW m, NEW n, <<c, m>> = <<d, n>>
  PROVE  c = d /\ m = n
OBVIOUS

\* A step that adds no entry, answers only what it removes, and lets whoever
\* has an entry wait on, leaves the map in order.
LEMMA MapStep ==
  ASSUME TypeOK, FreshMail, PendingOwned,
         pending' \subseteq pending, round' = round,
         \A i \in Ids \ pending : mail[i] = "none" => mail'[i] = "none",
         \A i \in pending' : mail'[i] = mail[i],
         \A c \in Callers : pc'[c] = "checked" => pc[c] = "checked",
         \A c \in Callers : Waits(c) /\ Id(c) \in pending' => Waits(c)'
  PROVE  FreshMail' /\ PendingOwned'
<1>1. \A c : Id(c)' = Id(c)
  BY DEF Id
<1>2. PendingOwned'
  <2> SUFFICES ASSUME NEW i \in pending'
      PROVE  mail'[i] = "none" /\ \E c \in Callers : Id(c)' = i /\ Waits(c)'
    BY <1>1 DEF PendingOwned, Waits
  <2>1. mail[i] = "none"
    BY DEF PendingOwned
  <2>2. PICK c \in Callers : Id(c) = i /\ Waits(c)
    BY DEF PendingOwned, Waits
  <2> QED BY <1>1, <2>1, <2>2
<1>3. FreshMail'
  <2>1. ASSUME NEW c \in Callers, pc'[c] = "checked" PROVE mail'[Id(c)] = "none"
    <3>1. pc[c] = "checked" /\ mail[Id(c)] = "none" /\ Id(c) \in Ids
      BY <2>1, IdTyped DEF FreshMail
    <3>2. Id(c) \notin pending
      BY <3>1, IdsDiffer DEF PendingOwned, Id
    <3> QED BY <3>1, <3>2
  <2>2. ASSUME NEW c \in Callers, NEW n \in 1..Rounds, n > round[c]
        PROVE  mail'[<<c, n>>] = "none"
    <3>1. <<c, n>> \in Ids /\ mail[<<c, n>>] = "none"
      BY <2>2 DEF FreshMail, Ids
    <3>2. n # round[c]
      BY <2>2 DEF TypeOK, CallsTypeOK
    <3>3. <<c, n>> \notin pending
      BY <3>2, IdsDiffer DEF PendingOwned, Id
    <3> QED BY <3>1, <3>3
  <2> QED BY <1>1, <2>1, <2>2 DEF FreshMail
<1> QED BY <1>2, <1>3

\* A caller that moves on leaves every other caller where it is.
LEMMA OthersStay ==
  ASSUME TypeOK, NEW c \in Callers, NEW p, Goto(c, p)
  PROVE  pc'[c] = p /\ \A d \in Callers \ {c} : pc'[d] = pc[d]
BY DEF TypeOK, CallsTypeOK, Goto

\* The steps of a caller other than Call and Insert are such steps.
LEMMA CallerMap ==
  ASSUME TypeOK, FreshMail, PendingOwned, NEW c \in Callers,
         \/ Write(c) \/ Written(c) \/ WriteFails(c) \/ Receive(c) \/ TimeOut(c)
         \/ Quarantine(c) \/ MarkDead(c) \/ DrainCaller(c) \/ Leave(c)
  PROVE  FreshMail' /\ PendingOwned'
<1>1. ASSUME NEW p \in PC \ {"checked"}, Goto(c, p), round' = round, pc[c] # "idle",
             pending' \subseteq pending, Id(c) \notin pending' \/ ~Waits(c)
                                         \/ p \in {"writing", "waiting"},
             \A i \in Ids \ pending : mail[i] = "none" => mail'[i] = "none",
             \A i \in pending' : mail'[i] = mail[i]
      PROVE  FreshMail' /\ PendingOwned'
  <2>1. \A d \in Callers : pc'[d] = "checked" => pc[d] = "checked"
    BY <1>1, OthersStay
  <2>2. \A d \in Callers : Waits(d) /\ Id(d) \in pending' => Waits(d)'
    BY <1>1, OthersStay DEF Waits
  <2> QED BY <1>1, <2>1, <2>2, MapStep
<1>2. CASE Write(c) \/ Written(c)
  <2>1. PICK p \in {"writing", "waiting"} : Goto(c, p)
    BY <1>2 DEF Write, Written
  <2> QED BY <1>1, <1>2, <2>1 DEF Write, Written, inner, PC
<1>3. CASE WriteFails(c)
  BY <1>1, <1>3 DEF WriteFails, PC
<1>4. CASE Receive(c)
  <2>1. Id(c) \notin pending /\ Id(c) \in Ids
    BY <1>4, IdTyped DEF Receive, PendingOwned
  <2>2. /\ \A i \in Ids \ pending : mail[i] = "none" => mail'[i] = "none"
        /\ \A i \in pending : mail'[i] = mail[i]
    BY <1>4, <2>1 DEF Receive, TypeOK, InnerTypeOK
  <2>3. PICK p \in {"idle", "leaving"} : Goto(c, p)
    BY <1>4 DEF Receive
  <2> QED BY <1>1, <1>4, <2>1, <2>2, <2>3 DEF Receive, PC
<1>5. CASE TimeOut(c)
  BY <1>1, <1>5 DEF TimeOut, PC
<1>6. CASE Quarantine(c)
  BY <1>1, <1>6 DEF Quarantine, inner, PC, Waits
<1>7. CASE MarkDead(c)
  <2>1. PICK p \in {"idle", "draining"} : Goto(c, p)
    BY <1>7 DEF MarkDead
  <2> QED BY <1>1, <1>7, <2>1 DEF MarkDead, PC, Waits
<1>8. CASE DrainCaller(c)
  BY <1>1, <1>8 DEF DrainCaller, Drain, PC, Waits
<1>9. CASE Leave(c)
  BY <1>1, <1>9 DEF Leave, inner, PC, Waits
<1> QED BY <1>2, <1>3, <1>4, <1>5, <1>6, <1>7, <1>8, <1>9

\* Every step leaves the pending map in order.
LEMMA PendingStep ==
  ASSUME TypeOK, FreshMail, PendingOwned, [Next]_vars
  PROVE  FreshMail' /\ PendingOwned'
<1>1. ASSUME NEW c \in Callers, NEW k \in Kinds, Call(c, k)
      PROVE  FreshMail' /\ PendingOwned'
  <2>1. /\ pc[c] = "idle" /\ pc'[c] = "checked" /\ round[c] \in Nat
        /\ round'[c] = round[c] + 1 /\ round[c] + 1 \in 1..Rounds
        /\ \A d \in Callers \ {c} : pc'[d] = pc[d] /\ round'[d] = round[d]
        /\ mail' = mail /\ pending' = pending
    BY <1>1, OthersStay, SizeAssumption DEF Call, TypeOK, CallsTypeOK, inner
  <2>2. PendingOwned'
    BY <2>1 DEF PendingOwned, Id
  <2>3. FreshMail'
    <3>1. ASSUME NEW d \in Callers, pc'[d] = "checked" PROVE mail'[Id(d)'] = "none"
      <4>1. CASE d = c
        <5>1. mail[<<c, round[c] + 1>>] = "none"
          BY <2>1 DEF FreshMail
        <5>2. Id(d)' = <<c, round[c] + 1>>
          BY <2>1, <4>1 DEF Id
        <5> QED BY <2>1, <5>1, <5>2
      <4>2. CASE d # c
        <5>1. mail[<<d, round[d]>>] = "none"
          BY <2>1, <3>1, <4>2 DEF FreshMail, Id
        <5>2. Id(d)' = <<d, round[d]>>
          BY <2>1, <4>2 DEF Id
        <5> QED BY <2>1, <5>1, <5>2
      <4> QED BY <4>1, <4>2
    <3>2. ASSUME NEW d \in Callers, NEW n \in 1..Rounds, n > round'[d]
          PROVE  mail'[<<d, n>>] = "none"
      BY <2>1, <3>2 DEF FreshMail
    <3> QED BY <3>1, <3>2 DEF FreshMail
  <2> QED BY <2>2, <2>3
<1>2. ASSUME NEW c \in Callers, Insert(c) PROVE FreshMail' /\ PendingOwned'
  <2>1. /\ pc[c] = "checked" /\ pc'[c] = "inserted" /\ mail[Id(c)] = "none"
        /\ \A d \in Callers \ {c} : pc'[d] = pc[d]
        /\ mail' = mail /\ round' = round /\ pending' = pending \union {Id(c)}
    BY <1>2, OthersStay DEF Insert, FreshMail
  <2>2. \A d : Id(d)' = Id(d)
    BY <2>1 DEF Id
  <2>3. PendingOwned'
    BY <2>1, <2>2 DEF PendingOwned
  <2>4. FreshMail'
    BY <2>1, <2>2 DEF FreshMail
  <2> QED BY <2>3, <2>4
<1>3. ASSUME pc' = pc, round' = round, pending' \subseteq pending,
             \A i \in Ids \ pending : mail[i] = "none" => mail'[i] = "none",
             \A i \in pending' : mail'[i] = mail[i]
      PROVE  FreshMail' /\ PendingOwned'
  BY <1>3, MapStep DEF Waits
<1>4. ASSUME Dispatch PROVE FreshMail' /\ PendingOwned'
  <2>1. /\ pending' = pending \ {Head(out)}
        /\ \A i \in Ids \ {Head(out)} : mail'[i] = mail[i]
        /\ Head(out) \notin pending => mail' = mail
    BY <1>4 DEF Dispatch, TypeOK, InnerTypeOK
  <2>2. pending' \subseteq Ids
    BY <2>1 DEF TypeOK, InnerTypeOK
  <2> QED BY <1>3, <1>4, <2>1, <2>2 DEF Dispatch, calls
<1>5. ASSUME DrainReader \/ DrainMonitor PROVE FreshMail' /\ PendingOwned'
  <2>1. Drain /\ pc' = pc /\ round' = round
    BY <1>5 DEF DrainReader, DrainMonitor, calls
  <2> QED BY <1>3, <2>1 DEF Drain
<1>6. ASSUME UNCHANGED <<pending, mail, calls>> PROVE FreshMail' /\ PendingOwned'
  BY <1>3, <1>6 DEF calls
<1>7. CASE ReaderEnds \/ MonitorEnds \/ Sidecar \/ UNCHANGED vars
  BY <1>6, <1>7 DEF ReaderEnds, MonitorEnds, Sidecar, ReadRequest, Perform, Respond,
                    ProcessDies, vars, inner, calls
<1>8. ASSUME NEW c \in Callers, Continue(c), ~Insert(c) PROVE FreshMail' /\ PendingOwned'
  BY <1>8, CallerMap DEF Continue
<1> QED BY <1>1, <1>2, <1>4, <1>5, <1>7, <1>8 DEF Next, ReaderStep, MonitorStep

-----------------------------------------------------------------------------
(* Who drains the map, and what a timeout kills.                           *)

\* Every step leaves one thread at most between the flag and the map.
LEMMA DrainsStep ==
  ASSUME TypeOK, OneDrains, [Next]_vars
  PROVE  OneDrains'
<1> USE DEF OneDrains
<1>1. ASSUME NEW c \in Callers, NEW p, Goto(c, p), p # "draining",
             UNCHANGED <<alive, threads>>
      PROVE  OneDrains'
  BY <1>1, OthersStay DEF threads
<1>2. ASSUME NEW c \in Callers, NEW k \in Kinds, Call(c, k) PROVE OneDrains'
  BY <1>1, <1>2 DEF Call, inner
<1>3. ASSUME NEW c \in Callers,
             Insert(c) \/ Write(c) \/ Written(c) \/ WriteFails(c) \/ TimeOut(c) \/ Quarantine(c) \/ Leave(c)
      PROVE  OneDrains'
  BY <1>1, <1>3 DEF Insert, Write, Written, WriteFails, TimeOut, Quarantine, Leave, inner
<1>4. ASSUME NEW c \in Callers, Receive(c) PROVE OneDrains'
  <2>1. PICK p \in {"idle", "leaving"} : Goto(c, p)
    BY <1>4 DEF Receive
  <2> QED BY <1>1, <1>4, <2>1 DEF Receive
<1>5. ASSUME NEW agent \in Callers \union {Reader, Monitor}, TakeAlive(agent)
      PROVE  /\ alive' = FALSE /\ draining' = agent
             /\ \A c \in Callers : pc[c] # "draining"
             /\ reader # "draining" /\ monitor # "draining"
  BY <1>5, AgentAssumption DEF TakeAlive
<1>6. ASSUME NEW c \in Callers, MarkDead(c) PROVE OneDrains'
  <2>1. CASE TakeAlive(c) /\ Goto(c, "draining")
    BY <1>5, <1>6, <2>1, OthersStay DEF MarkDead
  <2>2. CASE Goto(c, "idle") /\ UNCHANGED <<alive, draining>>
    BY <1>6, <2>2, OthersStay DEF MarkDead
  <2> QED BY <1>6, <2>1, <2>2 DEF MarkDead
<1>7. ASSUME NEW c \in Callers, DrainCaller(c) PROVE OneDrains'
  <2>1. draining = c /\ draining' = Nil /\ pc'[c] = "idle"
        /\ (\A d \in Callers \ {c} : pc'[d] = pc[d])
        /\ UNCHANGED <<alive, reader, monitor>>
    BY <1>7, OthersStay DEF DrainCaller, Drain
  <2>2. \A d \in Callers : pc'[d] # "draining"
    BY <2>1
  <2>3. reader # "draining" /\ monitor # "draining"
    BY <2>1, AgentAssumption
  <2> QED BY <2>1, <2>2, <2>3
<1>8. ASSUME ReaderEnds \/ MonitorEnds PROVE OneDrains'
  <2>1. pc' = pc
    BY <1>8 DEF ReaderEnds, MonitorEnds, calls
  <2>2. CASE ReaderEnds
    <3>1. /\ monitor' = monitor
          /\ \/ TakeAlive(Reader)
             \/ reader' = "ended" /\ alive' = alive /\ draining' = draining
      BY <2>2 DEF ReaderEnds
    <3>2. CASE TakeAlive(Reader)
      <4>1. alive' = FALSE /\ draining' = Reader /\ monitor # "draining"
            /\ \A c \in Callers : pc[c] # "draining"
        BY <1>5, <3>2
      <4> QED BY <2>1, <3>1, <4>1
    <3>3. CASE reader' = "ended" /\ alive' = alive /\ draining' = draining
      BY <2>1, <3>1, <3>3
    <3> QED BY <3>1, <3>2, <3>3
  <2>3. CASE MonitorEnds
    <3>1. /\ reader' = reader
          /\ \/ TakeAlive(Monitor)
             \/ monitor' = "ended" /\ alive' = alive /\ draining' = draining
      BY <2>3 DEF MonitorEnds
    <3>2. CASE TakeAlive(Monitor)
      <4>1. alive' = FALSE /\ draining' = Monitor /\ reader # "draining"
            /\ \A c \in Callers : pc[c] # "draining"
        BY <1>5, <3>2
      <4> QED BY <2>1, <3>1, <4>1
    <3>3. CASE monitor' = "ended" /\ alive' = alive /\ draining' = draining
      BY <2>1, <3>1, <3>3
    <3> QED BY <3>1, <3>2, <3>3
  <2> QED BY <1>8, <2>2, <2>3
<1>9. ASSUME DrainReader \/ DrainMonitor PROVE OneDrains'
  <2>1. pc' = pc /\ alive' = alive /\ draining' = Nil
    BY <1>9 DEF DrainReader, DrainMonitor, Drain, calls
  <2>2. CASE DrainReader
    <3>1. draining = Reader /\ reader' = "ended" /\ monitor' = monitor
      BY <2>2, <1>1 DEF DrainReader
    <3>2. monitor # "draining" /\ \A c \in Callers : pc[c] # "draining"
      BY <3>1, <1>1, AgentAssumption
    <3> QED BY <2>1, <3>1, <3>2
  <2>3. CASE DrainMonitor
    <3>1. draining = Monitor /\ monitor' = "ended" /\ reader' = reader
      BY <2>3, <1>1 DEF DrainMonitor
    <3>2. reader # "draining" /\ \A c \in Callers : pc[c] # "draining"
      BY <3>1, <1>1, AgentAssumption
    <3> QED BY <2>1, <3>1, <3>2
  <2> QED BY <1>9, <2>2, <2>3
<1>10. CASE Dispatch \/ Sidecar \/ UNCHANGED vars
  BY <1>10 DEF Dispatch, Sidecar, ReadRequest, Perform, Respond, ProcessDies, vars,
               inner, calls, threads
<1> QED BY <1>2, <1>3, <1>4, <1>6, <1>7, <1>8, <1>9, <1>10
     DEF Next, Continue, ReaderStep, MonitorStep

\* No step revives the process, and only Quarantine lets a call expire.
LEMMA KilledStep ==
  ASSUME TypeOK, Killed, [Next]_vars
  PROVE  Killed'
<1>1. ASSUME up' => up, expired' = expired PROVE Killed'
  BY <1>1 DEF Killed
<1>2. ASSUME NEW c \in Callers, Quarantine(c) PROVE Killed'
  BY <1>2 DEF Killed, Quarantine
<1>3. ASSUME NEW c \in Callers, Continue(c), ~Quarantine(c) PROVE Killed'
  BY <1>1, <1>3 DEF Continue, Insert, Write, Written, WriteFails, Receive, TimeOut, MarkDead,
                    DrainCaller, Leave, process, history
<1>4. ASSUME NEW c \in Callers, NEW k \in Kinds, Call(c, k) PROVE Killed'
  BY <1>1, <1>4 DEF Call, process, history
<1>5. CASE ReaderStep \/ MonitorStep \/ Sidecar \/ UNCHANGED vars
  BY <1>1, <1>5 DEF ReaderStep, MonitorStep, Sidecar, Dispatch, ReaderEnds, DrainReader,
                    MonitorEnds, DrainMonitor, ReadRequest, Perform, Respond,
                    ProcessDies, vars, process, history
<1> QED BY <1>2, <1>3, <1>4, <1>5 DEF Next

-----------------------------------------------------------------------------
(* Requests are handled once, and calls have one outcome.                  *)

\* A call begins with the next number; what began to be written stays so.
LEMMA CallShape ==
  ASSUME TypeOK, [Next]_vars, NEW c \in Callers
  PROVE  \/ pc[c] = "idle" /\ pc'[c] = "checked" /\ round'[c] = round[c] + 1
         \/ /\ round'[c] = round[c]
            /\ pc'[c] \in {"checked", "inserted"} => pc[c] \in {"checked", "inserted"}
<1>1. ASSUME NEW d \in Callers, NEW k \in Kinds, Call(d, k)
      PROVE  IF c = d THEN pc[c] = "idle" /\ pc'[c] = "checked" /\ round'[c] = round[c] + 1
             ELSE pc'[c] = pc[c] /\ round'[c] = round[c]
  BY <1>1 DEF Call, Goto, TypeOK, CallsTypeOK
<1>2. ASSUME NEW d \in Callers, Insert(d) PROVE pc[d] = "checked" /\ Goto(d, "inserted") /\ round' = round
  BY <1>2 DEF Insert
<1>3. ASSUME NEW d \in Callers, Continue(d), ~Insert(d)
      PROVE  round' = round /\ \E p \in PC \ {"checked", "inserted"} : Goto(d, p)
  BY <1>3 DEF Continue, Write, Written, WriteFails, Receive, TimeOut, Quarantine, MarkDead, DrainCaller, Leave, PC
<1>4. ASSUME ReaderStep \/ MonitorStep \/ Sidecar \/ UNCHANGED vars PROVE UNCHANGED <<pc, round>>
  BY <1>4 DEF ReaderStep, MonitorStep, Sidecar, Dispatch, ReaderEnds, DrainReader, MonitorEnds,
              DrainMonitor, ReadRequest, Perform, Respond, ProcessDies, vars, calls
<1>5. CASE \E d \in Callers : Continue(d)
  BY <1>2, <1>3, <1>5, OthersStay
<1> QED BY <1>1, <1>4, <1>5 DEF Next

\* What began to be written stays so.
LEMMA BegunStays ==
  ASSUME TypeOK, [Next]_vars, NEW i \in Ids, Begun(i)
  PROVE  Begun(i)'
<1>1. PICK c \in Callers, n \in 1..Rounds : i = <<c, n>>
  BY DEF Ids
<1>2. round[c] \in Nat /\ n \in Nat
  BY DEF TypeOK, CallsTypeOK
<1>3. n < round[c] \/ (n = round[c] /\ pc[c] \notin {"checked", "inserted"})
  BY <1>1 DEF Begun
<1>4. n < round'[c] \/ (n = round'[c] /\ pc'[c] \notin {"checked", "inserted"})
  BY <1>2, <1>3, CallShape
<1> QED BY <1>1, <1>4 DEF Begun

\* A call that waits for the writer lock has not written.
LEMMA NotBegun ==
  ASSUME TypeOK, NEW c \in Callers, pc[c] = "inserted"
  PROVE  ~Begun(Id(c))
BY DEF Begun, Id, TypeOK, CallsTypeOK

\* What is over stays over while the sidecar gets no new request.
LEMMA OverStays ==
  ASSUME TypeOK, [Next]_vars, NEW i \in Ids, Over(i), pipe' = pipe, serving' \in {serving, Nil}
  PROVE  Over(i)'
<1>1. i # Nil
  BY AgentAssumption DEF Ids
<1> QED BY <1>1, BegunStays DEF Over

\* The requests whose answers the reader has yet to read.
OnTheWayBack == {out[k] : k \in 1..Len(out)} \ {Nil}

\* What HandledOnce says, request by request.
Ahead ==
  /\ \A k \in 1..Len(pipe) : pipe[k] # serving
  /\ \A k, l \in 1..Len(pipe) : pipe[k] = pipe[l] => k = l
  /\ \A i \in Ids : serving = i \/ (\E k \in 1..Len(pipe) : pipe[k] = i) => Begun(i)
Behind ==
  \A i \in Ids : i \in OnTheWayBack \/ mail[i] = "reply" \/ i \in answered => Over(i)

\* HandledOnce is what must be written before the process works on it, and what
\* must be over before the client hears of it.
LEMMA OnceParts ==
  ASSUME TypeOK
  PROVE  HandledOnce <=> Ahead /\ Behind
<1>1. /\ \A k \in 1..Len(pipe) : pipe[k] \in Ids
      /\ \A k \in 1..Len(out) : out[k] \in Ids \union {Nil}
      /\ serving \in Ids \union {Nil} /\ answered \subseteq Ids /\ Nil \notin Ids
  BY AgentAssumption DEF TypeOK, ProcessTypeOK, Ids
<1> QED BY <1>1 DEF HandledOnce, Ahead, Behind, OnTheWayBack

\* Steps that bring no request nearer to the sidecar.
LEMMA OnceKept ==
  ASSUME TypeOK, HandledOnce, [Next]_vars, pipe' = pipe, serving' \in {serving, Nil}, Behind'
  PROVE  Ahead' /\ Behind'
<1>1. Nil \notin Ids /\ \A k \in 1..Len(pipe) : pipe[k] \in Ids
  BY AgentAssumption DEF Ids, TypeOK, ProcessTypeOK
<1>2. Ahead
  BY OnceParts
<1>3. \A i \in Ids : Begun(i) => Begun(i)'
  BY BegunStays
<1> HIDE DEF Begun
<1> QED BY <1>1, <1>2, <1>3 DEF Ahead

\* So are those that answer nothing.
LEMMA OnceQuiet ==
  ASSUME TypeOK, HandledOnce, [Next]_vars, pipe' = pipe, serving' \in {serving, Nil},
         OnTheWayBack' \subseteq OnTheWayBack,
         \A i \in Ids : mail'[i] = "reply" => mail[i] = "reply" \/ i \in OnTheWayBack,
         \A i \in answered' : i \in answered \/ mail[i] = "reply"
  PROVE  Ahead' /\ Behind'
<1>1. Behind
  BY OnceParts
<1>2. \A i \in Ids : Over(i) => Over(i)'
  BY OverStays
<1>3. Behind'
  BY <1>1, <1>2 DEF Behind
<1> QED BY <1>3, OnceKept

\* A response that is read is no longer on the way.
LEMMA TailOfOut ==
  ASSUME TypeOK, out # <<>>, out' = Tail(out)
  PROVE  OnTheWayBack' \subseteq OnTheWayBack
<1>1. Len(Tail(out)) = Len(out) - 1 /\ Len(out) \in Nat
      /\ \A k \in 1..Len(out) - 1 : Tail(out)[k] = out[k + 1]
  BY DEF TypeOK, ProcessTypeOK
<1>2. \A k \in 1..Len(out) - 1 : k + 1 \in 1..Len(out)
  BY <1>1
<1> QED BY <1>1, <1>2 DEF OnTheWayBack

\* Every request is handled once.
LEMMA OnceStep ==
  ASSUME TypeOK, TypeOK', HandledOnce, [Next]_vars
  PROVE  HandledOnce'
<1> SUFFICES Ahead' /\ Behind'
  BY OnceParts, PTL
<1>1. ASSUME NEW c \in Callers, Write(c) PROVE Ahead' /\ Behind'
  <2>1. Id(c) \in Ids /\ ~Begun(Id(c)) /\ round' = round /\ pc'[c] = "writing" /\ pipe' = Append(pipe, Id(c))
        /\ UNCHANGED <<serving, out, mail, answered>>
    BY <1>1, IdTyped, NotBegun, OthersStay DEF Write, inner, history
  <2>2. ASSUME NEW i \in Ids, i = Id(c) PROVE Begun(i)'
    BY <2>1, <2>2 DEF Begun, Id
  <2>3. /\ Len(pipe) \in Nat /\ Len(pipe') = Len(pipe) + 1 /\ pipe'[Len(pipe) + 1] = Id(c)
        /\ \A k \in 1..Len(pipe) : pipe'[k] = pipe[k] /\ pipe[k] \in Ids
    BY <2>1 DEF TypeOK, ProcessTypeOK
  <2>4. \A k \in 1..Len(pipe') : k \in 1..Len(pipe) \/ k = Len(pipe) + 1
    BY <2>3
  <2>5. \A i \in Ids : Begun(i) => Begun(i)'
    BY BegunStays
  <2>6. Ahead /\ Behind
    BY OnceParts
  <2>7. serving # Id(c) /\ \A k \in 1..Len(pipe) : pipe[k] # Id(c)
    BY <2>1, <2>6 DEF Ahead
  <2> DEFINE new == Id(c)
  <2>8. /\ new \in Ids /\ ~Begun(new) /\ pipe'[Len(pipe) + 1] = new /\ serving # new
        /\ \A k \in 1..Len(pipe) : pipe[k] # new
    BY <2>1, <2>3, <2>7
  <2> HIDE DEF new
  <2>9. Ahead'
    <3>1. \A k \in 1..Len(pipe') : pipe'[k] # serving'
      BY <2>1, <2>3, <2>4, <2>6, <2>8 DEF Ahead
    <3>2. \A k, l \in 1..Len(pipe') : pipe'[k] = pipe'[l] => k = l
      BY <2>3, <2>4, <2>6, <2>8 DEF Ahead
    <3>3. ASSUME NEW i \in Ids, serving = i \/ \E k \in 1..Len(pipe') : pipe'[k] = i
          PROVE  Begun(i)'
      <4>1. CASE serving = i \/ \E k \in 1..Len(pipe) : pipe[k] = i
        BY <2>5, <2>6, <4>1 DEF Ahead
      <4>2. CASE i = new
        BY <2>2, <4>2 DEF new
      <4> QED BY <2>3, <2>4, <2>8, <3>3, <4>1, <4>2
    <3> QED BY <2>1, <3>1, <3>2, <3>3 DEF Ahead
  <2>10. \A i \in Ids : Over(i) => Over(i)'
    BY <2>1, <2>3, <2>4, <2>5, <2>8 DEF Over
  <2>11. Behind'
    BY <2>1, <2>6, <2>10 DEF Behind, OnTheWayBack
  <2> QED BY <2>9, <2>11
<1>2. CASE ReadRequest
  <2>1. pipe # <<>> /\ serving' = Head(pipe) /\ pipe' = Tail(pipe) /\ UNCHANGED <<pc, round, out, mail, answered>>
    BY <1>2 DEF ReadRequest, inner, calls, history
  <2>2. /\ Len(pipe) \in Nat /\ Len(pipe') = Len(pipe) - 1 /\ 1 \in 1..Len(pipe) /\ Head(pipe) = pipe[1]
        /\ \A k \in 1..Len(pipe) - 1 : pipe'[k] = pipe[k + 1]
    BY <2>1 DEF TypeOK, ProcessTypeOK
  <2>3. \A k \in 1..Len(pipe') : k + 1 \in 1..Len(pipe) /\ pipe'[k] = pipe[k + 1] /\ k + 1 # 1
    BY <2>2
  <2>4. \A k, l \in 1..Len(pipe') : k + 1 = l + 1 => k = l
    BY <2>2
  <2>5. Ahead /\ Behind
    BY OnceParts
  <2>6. \A i \in Ids : Begun(i)' <=> Begun(i)
    BY <2>1 DEF Begun
  <2>7. Ahead'
    BY <2>1, <2>2, <2>3, <2>4, <2>5, <2>6 DEF Ahead
  <2>8. \A i \in Ids : Over(i) => Over(i)'
    BY <2>1, <2>2, <2>3, <2>6 DEF Over
  <2>9. Behind'
    BY <2>1, <2>5, <2>8 DEF Behind, OnTheWayBack
  <2> QED BY <2>7, <2>9
<1>3. CASE Respond
  <2>1. PICK r \in {serving, Nil} : out' = Append(out, r)
    BY <1>3 DEF Respond
  <2>2. serving # Nil /\ serving' = Nil /\ UNCHANGED <<pipe, mail, pc, round, answered>>
    BY <1>3 DEF Respond, inner, calls, history
  <2>3. /\ Len(out) \in Nat /\ Len(out') = Len(out) + 1 /\ out'[Len(out) + 1] = r
        /\ \A k \in 1..Len(out) : out'[k] = out[k]
    BY <2>1, <2>2 DEF TypeOK, ProcessTypeOK
  <2>4. \A k \in 1..Len(out') : k \in 1..Len(out) \/ k = Len(out) + 1
    BY <2>3
  <2>5. OnTheWayBack' \subseteq OnTheWayBack \union {serving}
    BY <2>3, <2>4 DEF OnTheWayBack
  <2>6. Ahead /\ Behind /\ serving \in Ids
    BY <2>2, OnceParts DEF TypeOK, ProcessTypeOK
  <2>7. \A i \in Ids : Over(i) => Over(i)'
    BY <2>2, OverStays
  <2>8. ASSUME NEW i \in Ids, i = serving PROVE Over(i)'
    <3>1. Begun(i) /\ \A k \in 1..Len(pipe) : pipe[k] # i
      BY <2>6, <2>8 DEF Ahead
    <3>2. Begun(i)' /\ Nil # i
      BY <3>1, BegunStays, AgentAssumption DEF Ids
    <3> QED BY <2>2, <3>1, <3>2 DEF Over
  <2>9. Behind'
    BY <2>2, <2>5, <2>6, <2>7, <2>8 DEF Behind
  <2> QED BY <2>2, <2>9, OnceKept
<1>4. CASE Dispatch
  <2>1. /\ out # <<>> /\ out' = Tail(out) /\ Head(out) # Nil /\ UNCHANGED <<pipe, serving, answered>>
        /\ \A i \in Ids : mail'[i] = "reply" => mail[i] = "reply" \/ i = Head(out)
    BY <1>4 DEF Dispatch, history, TypeOK, InnerTypeOK
  <2>2. Head(out) \in OnTheWayBack
    BY <2>1 DEF OnTheWayBack, TypeOK, ProcessTypeOK
  <2> QED BY <2>1, <2>2, TailOfOut, OnceQuiet
<1>5. CASE ReaderEnds
  <2>1. UNCHANGED <<pipe, serving, answered, mail>> /\ (out' = out \/ (out # <<>> /\ out' = Tail(out)))
    BY <1>5 DEF ReaderEnds, history
  <2>2. OnTheWayBack' \subseteq OnTheWayBack
    BY <2>1, TailOfOut DEF OnTheWayBack
  <2> QED BY <2>1, <2>2, OnceQuiet
<1>6. ASSUME UNCHANGED <<pipe, out>>, serving' \in {serving, Nil},
             \A i \in Ids : mail'[i] = "reply" => mail[i] = "reply",
             \A i \in answered' : i \in answered \/ mail[i] = "reply"
      PROVE  Ahead' /\ Behind'
  <2>1. OnTheWayBack' = OnTheWayBack
    BY <1>6 DEF OnTheWayBack
  <2> QED BY <1>6, <2>1, OnceQuiet
<1>7. ASSUME Drain PROVE \A i \in Ids : mail'[i] = "reply" => mail[i] = "reply"
  BY <1>7 DEF Drain
<1>8. ASSUME NEW c \in Callers, Continue(c), ~Write(c) PROVE Ahead' /\ Behind'
  <2>1. CASE Receive(c)
    <3>1. Id(c) \in Ids
      BY <2>1, IdTyped DEF Receive
    <3>2. UNCHANGED <<pipe, out, serving>> /\ \A i \in Ids : mail'[i] = "reply" => mail[i] = "reply"
      BY <2>1, <3>1 DEF Receive, process, TypeOK, InnerTypeOK
    <3>3. \A i \in answered' : i \in answered \/ mail[i] = "reply"
      BY <2>1, <3>1 DEF Receive
    <3> QED BY <1>6, <3>2, <3>3
  <2>2. CASE DrainCaller(c)
    BY <1>6, <1>7, <2>2 DEF DrainCaller, process, history
  <2>3. CASE Insert(c) \/ Written(c) \/ WriteFails(c) \/ TimeOut(c) \/ Quarantine(c) \/ MarkDead(c) \/ Leave(c)
    BY <1>6, <2>3 DEF Insert, Written, WriteFails, TimeOut, Quarantine, MarkDead, Leave, inner, process, history
  <2> QED BY <1>8, <2>1, <2>2, <2>3 DEF Continue
<1>9. ASSUME NEW c \in Callers, NEW k \in Kinds, Call(c, k) PROVE Ahead' /\ Behind'
  BY <1>6, <1>9 DEF Call, inner, process, history
<1>10. CASE DrainReader \/ MonitorStep
  BY <1>6, <1>7, <1>10 DEF DrainReader, MonitorStep, MonitorEnds, DrainMonitor, process, history
<1>11. CASE Perform \/ ProcessDies \/ UNCHANGED vars
  BY <1>6, <1>11 DEF Perform, ProcessDies, vars, inner, process, history
<1> QED BY <1>1, <1>2, <1>3, <1>4, <1>5, <1>8, <1>9, <1>10, <1>11 DEF Next, ReaderStep, Sidecar

\* What a step of one call does not touch of the outcomes of the calls.
LEMMA OutcomeKept ==
  ASSUME TypeOK, OneOutcome, round' = round, UNCHANGED <<answered, expired>>,
         \A c \in Callers : pc'[c] = pc[c] \/ pc'[c] = "idle"
                            \/ (pc[c] = "marking" /\ pc'[c] = "draining")
                            \/ pc[c] \notin {"idle", "leaving", "marking", "draining"}
  PROVE  OneOutcome'
BY DEF OneOutcome, Id

\* A call that gets an outcome had none.
LEMMA OutcomeStep ==
  ASSUME TypeOK, OneOutcome, [Next]_vars
  PROVE  OneOutcome'
<1>1. ASSUME NEW c \in Callers, NEW k \in Kinds, Call(c, k) PROVE OneOutcome'
  <2>1. /\ pc[c] = "idle" /\ pc'[c] = "checked" /\ round'[c] = round[c] + 1 /\ round[c] + 1 \in 1..Rounds
        /\ UNCHANGED <<answered, expired>> /\ round[c] \in Nat
        /\ \A d \in Callers \ {c} : pc'[d] = pc[d] /\ round'[d] = round[d]
    BY <1>1, OthersStay, SizeAssumption DEF Call, history, TypeOK, CallsTypeOK
  <2>2. \A n \in 1..Rounds : n >= round[c] + 1 => <<c, n>> \notin answered \union expired
    BY <2>1 DEF OneOutcome
  <2>3. <<c, round[c] + 1>> \notin answered \union expired
    BY <2>1, <2>2
  <2>4. \A n \in 1..Rounds : n > round'[c] => <<c, n>> \notin answered \union expired
    BY <2>1, <2>2
  <2> QED BY <2>1, <2>3, <2>4 DEF OneOutcome, Id
<1>2. ASSUME NEW c \in Callers, NEW i \in Ids, Id(c) = i, NEW p \in PC, Goto(c, p), round' = round,
             pc[c] # "idle",
             \/ pc[c] = "waiting" /\ p \in {"idle", "leaving"} /\ answered' = answered \union {i} /\ expired' = expired
             \/ pc[c] = "quarantine" /\ p = "marking" /\ expired' = expired \union {i} /\ answered' = answered
      PROVE  OneOutcome'
  <2>1. pc'[c] = p /\ \A d \in Callers \ {c} : pc'[d] = pc[d]
    BY <1>2, OthersStay
  <2>2. i = <<c, round[c]>> /\ \A d \in Callers \ {c} : Id(d) # i
    BY <1>2 DEF Id
  <2>3. \A d \in Callers, n \in 1..Rounds : n > round[d] => <<d, n>> # i
    BY <2>2 DEF TypeOK, CallsTypeOK
  <2>4. i \notin answered /\ i \notin expired
    BY <1>2 DEF OneOutcome
  <2> QED BY <1>2, <2>1, <2>2, <2>3, <2>4 DEF OneOutcome, Id
<1>3. ASSUME NEW c \in Callers, Receive(c) PROVE OneOutcome'
  <2>1. /\ pc[c] = "waiting" /\ Id(c) \in Ids /\ round' = round /\ expired' = expired
        /\ \E p \in {"idle", "leaving"} : p \in PC /\ Goto(c, p)
    BY <1>3, IdTyped DEF Receive, PC
  <2>2. CASE answered' = answered \union {Id(c)}
    BY <1>2, <2>1, <2>2
  <2>3. CASE answered' = answered
    BY <2>1, <2>3, OutcomeKept, OthersStay
  <2> QED BY <1>3, <2>2, <2>3 DEF Receive
<1>4. ASSUME NEW c \in Callers, Quarantine(c) PROVE OneOutcome'
  <2>1. /\ pc[c] = "quarantine" /\ Id(c) \in Ids /\ round' = round /\ Goto(c, "marking") /\ "marking" \in PC
        /\ expired' = expired \union {Id(c)} /\ answered' = answered
    BY <1>4, IdTyped DEF Quarantine, PC
  <2> QED BY <1>2, <2>1
<1>5. ASSUME NEW c \in Callers, NEW p, Goto(c, p), round' = round, UNCHANGED <<answered, expired>>,
             p = "idle" \/ (pc[c] = "marking" /\ p = "draining")
             \/ pc[c] \notin {"idle", "leaving", "marking", "draining"}
      PROVE  OneOutcome'
  <2>1. pc'[c] = p /\ \A d \in Callers \ {c} : pc'[d] = pc[d]
    BY <1>5, OthersStay
  <2> QED BY <1>5, <2>1, OutcomeKept
<1>6. ASSUME NEW c \in Callers, Insert(c) \/ Write(c) \/ Written(c) \/ WriteFails(c) \/ TimeOut(c) \/ DrainCaller(c) \/ Leave(c)
      PROVE  OneOutcome'
  BY <1>5, <1>6 DEF Insert, Write, Written, WriteFails, TimeOut, DrainCaller, Leave, history
<1>7. ASSUME NEW c \in Callers, MarkDead(c) PROVE OneOutcome'
  <2>1. PICK p \in {"idle", "draining"} : Goto(c, p)
    BY <1>7 DEF MarkDead
  <2> QED BY <1>5, <1>7, <2>1 DEF MarkDead, history
<1>8. CASE ReaderStep \/ MonitorStep \/ Sidecar \/ UNCHANGED vars
  <2>1. UNCHANGED <<pc, round, answered, expired>>
    BY <1>8 DEF ReaderStep, MonitorStep, Sidecar, Dispatch, ReaderEnds, DrainReader, MonitorEnds,
                DrainMonitor, ReadRequest, Perform, Respond, ProcessDies, vars, calls, history
  <2> QED BY <2>1, OutcomeKept
<1> QED BY <1>1, <1>3, <1>4, <1>6, <1>7, <1>8 DEF Next, Continue

-----------------------------------------------------------------------------
(* The theorems.                                                           *)

\* The initial state satisfies the invariant.
LEMMA InitInv == Init => IInv
<1> SUFFICES ASSUME Init PROVE IInv
  OBVIOUS
<1>1. TypeOK
  <2>1. InnerTypeOK /\ ThreadsTypeOK
    BY DEF Init, InnerTypeOK, ThreadsTypeOK
  <2>2. CallsTypeOK
    BY SizeAssumption DEF Init, CallsTypeOK, PC
  <2>3. ProcessTypeOK
    BY DEF Init, ProcessTypeOK
  <2> QED BY <2>1, <2>2, <2>3 DEF TypeOK
<1>2. OneDrains /\ PendingOwned /\ Killed
  BY DEF Init, OneDrains, PendingOwned, Killed
<1>3. FreshMail
  BY DEF Init, FreshMail, Ids
<1>4. HandledOnce /\ OneOutcome
  BY DEF Init, HandledOnce, OneOutcome
<1> QED BY <1>1, <1>2, <1>3, <1>4 DEF IInv

\* The inductive invariant holds of every execution of the client.
THEOREM ClientInvariance == Spec => []IInv
<1>1. Init => IInv
  BY InitInv
<1>2. IInv /\ [Next]_vars => IInv'
  BY TypeStep, PendingStep, DrainsStep, KilledStep, OnceStep, OutcomeStep DEF IInv
<1> QED BY <1>1, <1>2, PTL DEF Spec

\* The pending map does not leak and nobody is answered twice.
THEOREM NoLeak == Spec => []PendingOwned
<1>1. IInv => PendingOwned
  BY DEF IInv
<1> QED BY <1>1, ClientInvariance, PTL

\* Where terminate can kill, no action is performed after its caller was told
\* that it timed out.
THEOREM NoLateAction ==
  ASSUME Terminates
  PROVE  Spec => QuarantineHolds
<1>1. IInv /\ [Next]_vars => [\A i \in performed' \ performed : i \notin expired]_vars
  <2> SUFFICES ASSUME IInv, Next PROVE \A i \in performed' \ performed : i \notin expired
    OBVIOUS
  <2>1. CASE Perform
    <3>1. expired = {}
      BY <2>1 DEF IInv, Killed, Perform
    <3> QED BY <3>1
  <2>2. ASSUME ~Perform PROVE performed' = performed
    BY <2>2 DEF Next, Continue, Call, Insert, Write, Written, WriteFails, Receive, TimeOut,
                Quarantine, MarkDead, DrainCaller, Leave, ReaderStep, MonitorStep,
                Sidecar, Dispatch, ReaderEnds, DrainReader, MonitorEnds,
                DrainMonitor, ReadRequest, Respond, ProcessDies, history
  <2> QED BY <2>1, <2>2
<1> QED BY <1>1, ClientInvariance, PTL DEF Spec, QuarantineHolds

-----------------------------------------------------------------------------
(* Refinement of RemoteCalls.                                              *)

\* The calls under way after a call moved on within itself, and after it
\* returned.
LEMMA RunningMoves ==
  ASSUME TypeOK, NEW c \in Callers, pc[c] # "idle", NEW p, Goto(c, p), round' = round
  PROVE  Running' = IF p = "idle" THEN Running \ {Id(c)} ELSE Running
<1>1. pc'[c] = p /\ (\A d \in Callers \ {c} : pc'[d] = pc[d]) /\ \A d \in Callers : Id(d)' = Id(d)
  BY OthersStay DEF Id
<1>2. \A d \in Callers \ {c} : Id(d) # Id(c)
  BY DEF Id
<1>3. Running = {Id(d) : d \in {e \in Callers : pc[e] # "idle"}}
  BY DEF Running
<1>4. Running' = {Id(d) : d \in {e \in Callers : pc'[e] # "idle"}}
  BY <1>1 DEF Running
<1> HIDE DEF Id
<1>5. CASE p = "idle"
  BY <1>1, <1>2, <1>3, <1>4, <1>5
<1>6. CASE p # "idle"
  BY <1>1, <1>3, <1>4, <1>6
<1> QED BY <1>5, <1>6

\* The calls are as they were.
LEMMA CallsSame ==
  ASSUME UNCHANGED calls
  PROVE  UNCHANGED <<Asked, Running>>
BY DEF calls, Asked, Running, Id

\* A call of the client is a call that begins.
LEMMA CallAsks ==
  ASSUME TypeOK, NEW c \in Callers, NEW k \in Kinds, Call(c, k)
  PROVE  \E i \in Ids : Promise!Ask(i)
<1> DEFINE i == <<c, round[c] + 1>>
<1>1. /\ round[c] \in Nat /\ round[c] + 1 \in 1..Rounds /\ pc[c] = "idle" /\ pc'[c] = "checked"
      /\ round'[c] = round[c] + 1 /\ UNCHANGED <<answered, expired, performed>>
      /\ \A d \in Callers \ {c} : pc'[d] = pc[d] /\ round'[d] = round[d]
  BY OthersStay, SizeAssumption DEF Call, history, TypeOK, CallsTypeOK
<1>2. i \in Ids /\ i \notin Asked
  BY <1>1 DEF Ids, Asked
<1>3. ASSUME NEW d \in Callers, NEW n \in 1..Rounds
      PROVE  n <= round'[d] <=> n <= round[d] \/ <<d, n>> = i
  <2>1. CASE d = c
    BY <1>1, <2>1
  <2>2. CASE d # c
    BY <1>1, <2>2
  <2> QED BY <2>1, <2>2
<1>4. Asked' = Asked \union {i}
  BY <1>2, <1>3 DEF Asked, Ids
<1>5. Id(c)' = i /\ \A d \in Callers \ {c} : Id(d)' = Id(d)
  BY <1>1 DEF Id
<1>6. Running' = Running \union {i}
  BY <1>1, <1>5 DEF Running
<1> QED BY <1>1, <1>2, <1>4, <1>6 DEF Promise!Ask

\* A call that is under way and has no outcome.
LEMMA CallOpen ==
  ASSUME TypeOK, OneOutcome, NEW c \in Callers, pc[c] \in {"waiting", "quarantine"}
  PROVE  Id(c) \in Ids /\ Promise!Open(Id(c))
<1>1. Id(c) \in Ids /\ Id(c) \in Running
  BY IdTyped DEF Running
<1>2. Id(c) \notin answered \union expired
  BY DEF OneOutcome
<1> QED BY <1>1, <1>2 DEF Promise!Open

\* The steps of a call under way are answers, timeouts, returns or stutters.
LEMMA CallGoesOn ==
  ASSUME TypeOK, OneOutcome, NEW c \in Callers, Continue(c)
  PROVE  [Promise!Next]_(Promise!vars)
<1>1. ASSUME pc[c] # "idle", NEW p, Goto(c, p), round' = round
      PROVE  /\ Id(c) \in Ids /\ Id(c) \in Running /\ Asked' = Asked
             /\ Running' = IF p = "idle" THEN Running \ {Id(c)} ELSE Running
  BY <1>1, IdTyped, RunningMoves DEF Asked, Running
<1>2. ASSUME pc[c] # "idle", NEW p, Goto(c, p), round' = round, UNCHANGED history
      PROVE  [Promise!Next]_(Promise!vars)
  <2>1. CASE p = "idle"
    BY <1>1, <1>2, <2>1 DEF Promise!Next, Promise!Return, history
  <2>2. CASE p # "idle"
    BY <1>1, <1>2, <2>2 DEF Promise!vars, history
  <2> QED BY <2>1, <2>2
<1>3. CASE Receive(c)
  <2>1. PICK p \in {"idle", "leaving"} : Goto(c, p)
    BY <1>3 DEF Receive
  <2>2. /\ pc[c] = "waiting" /\ round' = round /\ UNCHANGED <<performed, expired>>
        /\ answered' = answered \union {Id(c)} \/ answered' = answered
    BY <1>3 DEF Receive
  <2>3. CASE answered' = answered
    BY <1>2, <2>1, <2>2, <2>3 DEF history
  <2>4. CASE answered' = answered \union {Id(c)}
    <3>1. Promise!Answer(Id(c)) /\ Id(c) \in Ids
      BY <1>1, <2>1, <2>2, <2>4, CallOpen DEF Promise!Answer
    <3> QED BY <3>1 DEF Promise!Next
  <2> QED BY <2>2, <2>3, <2>4
<1>4. CASE Quarantine(c)
  <2>1. /\ pc[c] = "quarantine" /\ round' = round /\ Goto(c, "marking") /\ UNCHANGED <<performed, answered>>
        /\ expired' = expired \union {Id(c)}
    BY <1>4 DEF Quarantine
  <2>2. Promise!Expire(Id(c)) /\ Id(c) \in Ids
    BY <1>1, <2>1, CallOpen DEF Promise!Expire
  <2> QED BY <2>2 DEF Promise!Next
<1>5. CASE Insert(c) \/ Write(c) \/ Written(c) \/ WriteFails(c) \/ TimeOut(c) \/ DrainCaller(c) \/ Leave(c)
  BY <1>2, <1>5 DEF Insert, Write, Written, WriteFails, TimeOut, DrainCaller, Leave, history
<1>6. CASE MarkDead(c)
  <2>1. PICK p \in {"idle", "draining"} : Goto(c, p)
    BY <1>6 DEF MarkDead
  <2> QED BY <1>2, <1>6, <2>1 DEF MarkDead, history
<1> QED BY <1>3, <1>4, <1>5, <1>6 DEF Continue

\* What the sidecar performs was asked for, once, is not answered yet, and no
\* timeout was reported.
LEMMA PerformsAsked ==
  ASSUME IInv, Perform
  PROVE  [Promise!Next]_(Promise!vars)
<1>1. serving \in Ids /\ Begun(serving) /\ serving \notin performed
  BY DEF Perform, IInv, HandledOnce, TypeOK, ProcessTypeOK
<1>2. serving \in Asked
  BY <1>1 DEF Asked, Begun, Ids, IInv, TypeOK, CallsTypeOK
<1>3. serving \notin answered
  BY DEF IInv, HandledOnce, Over
<1>4. Terminates => expired = {}
  BY DEF Perform, IInv, Killed
<1>5. /\ UNCHANGED <<Asked, Running, answered, expired>> /\ performed' = performed \union {serving}
  BY CallsSame DEF Perform
<1>6. Promise!Perform(serving)
  BY <1>1, <1>2, <1>3, <1>4, <1>5 DEF Promise!Perform
<1> QED BY <1>1, <1>6 DEF Promise!Next

\* The client implements RemoteCalls: a request is performed once at most,
\* never after its answer, and none after a timeout where terminate can kill.
THEOREM Promised == Spec => CallsSpec
<1>1. Init => Promise!Init
  BY SizeAssumption DEF Init, Promise!Init, Asked, Running, Ids
<1>2. IInv /\ [Next]_vars => [Promise!Next]_(Promise!vars)
  <2> SUFFICES ASSUME IInv, [Next]_vars PROVE [Promise!Next]_(Promise!vars)
    OBVIOUS
  <2>1. ASSUME NEW c \in Callers, NEW k \in Kinds, Call(c, k) PROVE [Promise!Next]_(Promise!vars)
    BY <2>1, CallAsks DEF IInv, Promise!Next
  <2>2. ASSUME NEW c \in Callers, Continue(c) PROVE [Promise!Next]_(Promise!vars)
    BY <2>2, CallGoesOn DEF IInv
  <2>3. CASE UNCHANGED <<calls, history>>
    BY <2>3, CallsSame DEF Promise!vars, history
  <2>4. CASE ReaderStep \/ MonitorStep \/ (Sidecar /\ ~Perform) \/ UNCHANGED vars
    BY <2>3, <2>4 DEF ReaderStep, MonitorStep, Sidecar, Dispatch, ReaderEnds, DrainReader, MonitorEnds,
                      DrainMonitor, ReadRequest, Respond, ProcessDies, vars
  <2> QED BY <2>1, <2>2, <2>4, PerformsAsked DEF Next, Sidecar
<1> QED BY <1>1, <1>2, ClientInvariance, PTL DEF Spec, CallsSpec, Promise!Spec
=============================================================================
