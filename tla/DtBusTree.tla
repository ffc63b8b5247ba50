----------------------------- MODULE DtBusTree -----------------------------
(***************************************************************************)
(* More proofs about DtBus, for every tree, driver assignment and set of   *)
(* faults: a bus driver stays bound as long as a child of it is on record, *)
(* mappings keep their device alive, and the handles obey HandleTree.      *)
(***************************************************************************)
EXTENDS DtBusProofs

-----------------------------------------------------------------------------
(* The inductive invariant behind BusBound, relative to IInv               *)

\* ScanChildren of SampleBusDxe does not fail half-way at this node.
Sound(n) == ~(DriverOf[n] = "SampleBus" /\ n \in TreeError)

\* Everything a DisconnectController has on the stack is below its node.
Order ==
  \A t \in Nodes : (phase[t] # "idle" /\ t \notin removing) =>
    \A n \in Nodes : /\ n \in conn \cup removing => t < n
                     /\ phase[n] # "idle" => t <= n

\* A lost device is alive, but nobody removes it any more.
LostApart == \A c \in lost : c \in dtDevs /\ childOf[c] = NoAgent /\ c \notin removing

\* The Stop of a bus that went well so far still has every child to do.
Covered ==
  \A n \in Nodes : (Sound(n) /\ phase[n] = "stop" /\ ~failed[n]) =>
    \A k \in Kids(n) \cap dtDevs : k \in lost \/ k \in todo[n]

TInv == Order /\ LostApart /\ BusBound /\ Covered

-----------------------------------------------------------------------------
\* A bus whose Start succeeds is bound, and every child on record is its own.
LEMMA ConnectSingleBound ==
  ASSUME TypeOK, BusBound, NEW n \in Nodes, NEW rem, ConnectSingle(n, rem)
  PROVE  /\ BusBound'
         /\ Sound(n) => \/ UNCHANGED <<dtDevs, owner>>
                        \/ owner' = [owner EXCEPT ![n] = DriverOf[n]] /\ DriverOf[n] # NoAgent
<1>0. TypeOK /\ BusBound
  OBVIOUS
<1>1. \A c \in Nodes \ {Root} : childOf[c] # NoAgent /\ Sound(Parent[c])
                                  => owner[Parent[c]] = childOf[c]
  BY <1>0 DEF BusBound, Sound
<1>. SUFFICES
       /\ \A c \in Nodes \ {Root} : childOf'[c] # NoAgent /\ Sound(Parent[c])
                                      => owner'[Parent[c]] = childOf'[c]
       /\ Sound(n) => \/ UNCHANGED <<dtDevs, owner>>
                      \/ owner' = [owner EXCEPT ![n] = DriverOf[n]] /\ DriverOf[n] # NoAgent
  BY DEF BusBound, Sound
<1>2. ASSUME NEW agent, NEW r, Scan(n, agent, r)
      PROVE  \A k \in Nodes : \/ childOf'[k] = childOf[k]
                              \/ k # Root /\ Parent[k] = n /\ childOf'[k] = agent
  BY <1>0, <1>2 DEF Scan, Record, Missing, Kids, TypeOK
<1>3. \A k \in Nodes \ {Root} : Parent[k] \in Nodes
  BY NodesAssumption
<1>4. CASE FdtBusStart(n, rem)
  <2>1. /\ owner[n] \in {NoAgent, "FdtBus"} /\ owner' = [owner EXCEPT ![n] = "FdtBus"]
        /\ DriverOf[n] = "FdtBus" /\ Scan(n, "FdtBus", rem) /\ "FdtBus" # NoAgent
    BY <1>4 DEF FdtBusStart, NoAgent
  <2>2. \A k \in Nodes : owner'[k] = IF k = n THEN "FdtBus" ELSE owner[k]
    BY <1>0, <2>1 DEF TypeOK
  <2>3. Sound(n)
    BY <2>1 DEF Sound
  <2>. QED  BY <1>1, <1>2, <1>3, <2>1, <2>2, <2>3
<1>5. CASE SampleBusStart(n, rem)
  <2>1. owner[n] = NoAgent /\ DriverOf[n] = "SampleBus" /\ "SampleBus" # NoAgent
    BY <1>5 DEF SampleBusStart, NoAgent
  <2>2. CASE rem = End \/ callbacks[n]
    <3>1. owner' = [owner EXCEPT ![n] = "SampleBus"] /\ childOf' = childOf
      BY <1>5, <2>2 DEF SampleBusStart, NoScan
    <3>2. \A k \in Nodes : owner'[k] = IF k = n THEN "SampleBus" ELSE owner[k]
      BY <1>0, <3>1 DEF TypeOK
    <3>. QED  BY <1>1, <1>3, <2>1, <3>1, <3>2
  <2>3. CASE ~(rem = End \/ callbacks[n]) /\ Sound(n)
    <3>1. owner' = [owner EXCEPT ![n] = "SampleBus"] /\ Scan(n, "SampleBus", All)
      BY <1>5, <2>1, <2>3 DEF SampleBusStart, Sound
    <3>2. \A k \in Nodes : owner'[k] = IF k = n THEN "SampleBus" ELSE owner[k]
      BY <1>0, <3>1 DEF TypeOK
    <3>. QED  BY <1>1, <1>2, <1>3, <2>1, <3>1, <3>2
  <2>4. CASE ~(rem = End \/ callbacks[n]) /\ ~Sound(n)
    <3>1. Scan(n, "SampleBus", All) /\ owner' = owner
      BY <1>5, <2>1, <2>4 DEF SampleBusStart, Sound
    <3>. QED  BY <1>1, <1>2, <1>3, <2>4, <3>1
  <2>. QED  BY <2>2, <2>3, <2>4
<1>6. CASE DeviceStart(n)
  <2>1. /\ owner[n] = NoAgent /\ DriverOf[n] = "Device" /\ "Device" # NoAgent
        /\ owner' = [owner EXCEPT ![n] = "Device"] /\ childOf' = childOf
    BY <1>6 DEF DeviceStart, NoScan, NoAgent
  <2>2. \A k \in Nodes : owner'[k] = IF k = n THEN "Device" ELSE owner[k]
    BY <1>0, <2>1 DEF TypeOK
  <2>. QED  BY <1>1, <1>3, <2>1, <2>2
<1>7. CASE NothingStarts(n)
  BY <1>1, <1>7 DEF NothingStarts, handleVars
<1>. QED  BY <1>4, <1>5, <1>6, <1>7 DEF ConnectSingle

-----------------------------------------------------------------------------
(* Each action preserves TInv                                              *)

\* What neither opens a Stop nor touches a handle.
LEMMA StutterTInv ==
  ASSUME TInv, UNCHANGED <<dtDevs, owner, childOf, lost, stopVars>>,
         \/ conn' = conn
         \/ \A n \in Nodes : phase[n] = "idle"
  PROVE  TInv'
BY DEF TInv, Order, LostApart, BusBound, Covered, stopVars

\* Connecting a node that no Stop in progress has begun with.
LEMMA ConnectTInv ==
  ASSUME IInv, TInv, NEW n \in Nodes, NEW rem, ConnectSingle(n, rem), UNCHANGED stopVars,
         \/ \A k \in Nodes : phase[k] = "idle"
         \/ n \in conn /\ conn' = (conn \ {n}) \cup Listed(n)'
  PROVE  TInv'
<1>0. TypeOK /\ Order /\ LostApart /\ BusBound /\ Covered
      /\ UNCHANGED <<phase, todo, failed, removing>>
  BY DEF IInv, TInv, stopVars
<1>1. /\ dtDevs \subseteq dtDevs' /\ lost' = lost
      /\ \A k \in dtDevs' \ dtDevs : k \in Kids(n)
      /\ \A k \in Nodes : k \in dtDevs' \ dtDevs \/ childOf'[k] = childOf[k]
  BY <1>0, ConnectSingleEffect
<1>2. BusBound'
  BY <1>0, ConnectSingleBound
<1>3. LostApart'
  BY <1>0, <1>1 DEF LostApart, TypeOK
<1>4. Order'
  <2>1. CASE \A k \in Nodes : phase[k] = "idle"
    BY <1>0, <2>1 DEF Order
  <2>2. CASE n \in conn /\ conn' = (conn \ {n}) \cup Listed(n)'
    <3>1. SUFFICES ASSUME NEW t \in Nodes, phase[t] # "idle", t \notin removing,
                          NEW k \in Nodes, k \in conn'
                   PROVE  t < k
      BY <1>0 DEF Order
    <3>2. t < n
      BY <1>0, <2>2, <3>1 DEF Order
    <3>3. CASE k \in conn
      BY <1>0, <3>1, <3>3 DEF Order
    <3>4. CASE k \notin conn
      <4>1. k \in Nodes \ {Root} /\ Parent[k] = n
        BY <2>2, <3>1, <3>4 DEF Listed, Kids
      <4>. QED  BY <3>2, <4>1, NodesAssumption
    <3>. QED  BY <3>3, <3>4
  <2>. QED  BY <2>1, <2>2
<1>5. phase[n] # "stop"
  \* Otherwise n is below itself (Order), or its own uninstall is over (ConnectHeld).
  <2>1. CASE n \in conn /\ n \in removing
    BY <2>1 DEF IInv, ConnectHeld
  <2>2. CASE n \in conn /\ n \notin removing
    <3>1. phase[n] # "idle" => n < n
      BY <1>0, <2>2 DEF Order
    <3>2. ~(n < n)
      BY NodesAssumption
    <3>. QED  BY <3>1, <3>2
  <2>. QED  BY <2>1, <2>2
<1>6. Covered'
  <2>1. SUFFICES ASSUME NEW m \in Nodes, Sound(m), phase[m] = "stop", ~failed[m],
                        NEW k \in Kids(m), k \in dtDevs'
                 PROVE  k \in lost \/ k \in todo[m]
    BY <1>0, <1>1 DEF Covered
  <2>2. k \in dtDevs
    BY <1>1, <1>5, <2>1 DEF Kids
  <2>. QED  BY <1>0, <2>1, <2>2 DEF Covered
<1>. QED  BY <1>2, <1>3, <1>4, <1>6 DEF TInv

\* Every child a bus still has is one it is asked to stop.
LEMMA ManagedCovers ==
  ASSUME IInv, TInv, NEW n \in Nodes, Sound(n), Kids(n) \cap removing = {}
  PROVE  \A k \in Kids(n) \cap dtDevs : k \in lost \/ k \in Managed(n)
<1>1. SUFFICES ASSUME NEW k \in Kids(n) \cap dtDevs, k \notin lost
               PROVE  k \in Managed(n)
  OBVIOUS
<1>2. k \in Nodes \ {Root} /\ Parent[k] = n /\ k \notin removing
  BY <1>1 DEF Kids
<1>3. childOf[k] # NoAgent
  BY <1>1, <1>2 DEF IInv, Recorded
<1>. QED  BY <1>1, <1>2, <1>3 DEF TInv, BusBound, Sound, Managed

\* The outermost Stop begins.
LEMMA DisconnectTInv ==
  ASSUME IInv, TInv, NEW n \in Nodes, Quiet, NEW kids, NEW how \in {"stop", "stopOne"},
         BeginStop(n, kids, how), how = "stop" => kids = Managed(n),
         UNCHANGED <<handleVars, conn, removing>>
  PROVE  TInv'
<1>0. /\ TypeOK /\ LostApart /\ BusBound /\ removing = {} /\ conn = {}
      /\ \A k \in Nodes : phase[k] = "idle"
      /\ UNCHANGED <<dtDevs, owner, childOf, lost, conn, removing>>
  BY DEF IInv, TInv, Quiet, Unwinding, handleVars
<1>1. \A k \in Nodes : k # n => phase'[k] = "idle"
  BY <1>0 DEF BeginStop, TypeOK
<1>2. phase'[n] = how /\ todo'[n] = kids
  BY <1>0 DEF BeginStop, TypeOK
<1>3. LostApart' /\ BusBound'
  BY <1>0 DEF LostApart, BusBound
<1>4. n \in Nat
  BY NodesAssumption
<1>5. Order'
  BY <1>0, <1>1, <1>4 DEF Order
<1>6. Covered'
  BY <1>0, <1>1, <1>2, ManagedCovers DEF Covered
<1>. QED  BY <1>3, <1>5, <1>6 DEF TInv

\* The next child of a Stop goes, with everything below it.
LEMMA RemoveChildTInv ==
  ASSUME IInv, TInv, NEW n \in Nodes, NEW c \in Kids(n), RemoveChild(n, c)
  PROVE  TInv'
<1>0. /\ IInv /\ TypeOK /\ Order /\ LostApart /\ BusBound /\ Covered
      /\ c \in Nodes \ {Root} /\ Parent[c] = n /\ c \in Nat /\ n \in Nat /\ n < c
  BY NodesAssumption DEF IInv, TInv, Kids
<1>1. /\ Stopping(n) /\ Kids(n) \cap removing = {} /\ conn = {} /\ conn' = {}
      /\ UNCHANGED <<dtDevs, owner, lost>>
  BY DEF RemoveChild, BelowIdle
<1>2. CASE ~Removable(n, c)
  <2>1. /\ UNCHANGED <<childOf, phase, removing>>
        /\ failed' = [failed EXCEPT ![n] = TRUE]
        /\ todo' = [todo EXCEPT ![n] = @ \ {c}]
    BY <1>2 DEF RemoveChild
  <2>2. Order' /\ LostApart' /\ BusBound'
    BY <1>0, <1>1, <2>1 DEF Order, LostApart, BusBound
  <2>3. \A m \in Nodes : IF m = n THEN failed'[m] ELSE failed'[m] = failed[m] /\ todo'[m] = todo[m]
    BY <1>0, <2>1 DEF TypeOK
  <2>4. Covered'
    BY <1>0, <1>1, <2>1, <2>3 DEF Covered
  <2>. QED  BY <2>2, <2>4 DEF TInv
<1>3. CASE Removable(n, c)
  <2>1. /\ childOf' = [childOf EXCEPT ![c] = NoAgent]
        /\ removing' = removing \cup {c}
        /\ \/ /\ owner[c] = NoAgent /\ phase' = [phase EXCEPT ![c] = "stopped"]
              /\ UNCHANGED <<todo, failed>>
           \/ owner[c] # NoAgent /\ BeginStop(c, Managed(c), "stop")
    BY <1>3 DEF RemoveChild
  <2>2. childOf[c] # NoAgent
    BY <1>0, <1>1, <1>3 DEF IInv, FramesOwned, Removable
  <2>3. \A k \in Nodes : k # c => childOf'[k] = childOf[k] /\ phase'[k] = phase[k]
                                  /\ todo'[k] = todo[k] /\ failed'[k] = failed[k]
    BY <1>0, <2>1 DEF BeginStop, TypeOK
  <2>4. childOf'[c] = NoAgent
    BY <1>0, <2>1 DEF TypeOK
  <2>5. \A t \in Nodes : phase[t] # "idle" /\ t \notin removing => t < c /\ t # c
    \* The Stop of the parent is on the stack, and it is below the outermost.
    <3>1. SUFFICES ASSUME NEW t \in Nodes, phase[t] # "idle", t \notin removing
                   PROVE  t < c
      BY <1>0, NodesAssumption
    <3>2. t <= n
      BY <1>0, <1>1, <3>1 DEF Order, Stopping
    <3>. QED  BY <1>0, <3>2, NodesAssumption
  <2>6. phase[c] = "idle"
    BY <1>0, <1>1, <2>5
  <2>7. LostApart'
    BY <1>0, <1>1, <2>1, <2>2, <2>3, <2>4 DEF LostApart, TypeOK
  <2>8. BusBound'
    BY <1>0, <1>1, <2>3, <2>4 DEF BusBound
  <2>9. Order'
    <3>1. SUFFICES ASSUME NEW t \in Nodes, phase'[t] # "idle", t \notin removing', NEW k \in Nodes
                   PROVE  /\ k \in conn' \cup removing' => t < k
                          /\ phase'[k] # "idle" => t <= k
      BY DEF Order
    <3>2. phase[t] # "idle" /\ t \notin removing
      BY <2>1, <2>3, <3>1
    <3>3. t < c
      BY <2>5, <3>2
    <3>4. t \in Nat
      BY NodesAssumption
    <3>. QED  BY <1>0, <1>1, <2>1, <2>3, <3>1, <3>2, <3>3, <3>4 DEF Order
  <2>10. Covered'
    <3>1. SUFFICES ASSUME NEW m \in Nodes, Sound(m), phase'[m] = "stop", ~failed'[m],
                          NEW k \in Kids(m) \cap dtDevs
                   PROVE  k \in lost \/ k \in todo'[m]
      BY <1>1 DEF Covered
    <3>2. CASE m # c
      BY <1>0, <2>3, <3>1, <3>2 DEF Covered
    <3>3. CASE m = c
      <4>1. todo'[c] = Managed(c)
        BY <1>0, <2>1, <3>1, <3>3 DEF BeginStop, TypeOK
      <4>2. Kids(c) \cap removing = {}
        BY <1>0, <2>6 DEF IInv, RemovingHeld, Stopping, Kids
      <4>. QED  BY <1>0, <3>1, <3>3, <4>1, <4>2, ManagedCovers
    <3>. QED  BY <3>2, <3>3
  <2>. QED  BY <2>7, <2>8, <2>9, <2>10 DEF TInv
<1>. QED  BY <1>2, <1>3

\* When a driver lets go of a node, whatever is left below it is lost.
LEMMA NothingLeft ==
  ASSUME IInv, TInv, NEW n \in Nodes, StopDriver(n), Sound(n)
  PROVE  \A k \in Kids(n) \cap dtDevs : k \in lost /\ childOf[k] = NoAgent
<1>1. phase[n] = "stop" /\ todo[n] = {} /\ ~failed[n]
  BY DEF StopDriver, AllStopped
<1>. QED  BY <1>1 DEF TInv, Covered, LostApart

\* The end of a Stop: the driver goes only when no record is left.
LEMMA StopTInv ==
  ASSUME IInv, TInv, NEW n \in Nodes, StopKeepsDriver(n) \/ StopDriver(n)
  PROVE  TInv'
<1>0. IInv /\ TInv /\ TypeOK /\ Order /\ LostApart /\ BusBound /\ Covered
  BY DEF IInv, TInv
<1>1. /\ conn' = conn /\ UNCHANGED <<dtDevs, childOf, lost, todo, failed, removing>>
      /\ \/ Outcome(n, "refused") /\ owner' = owner
         \/ Outcome(n, "stopped") /\ owner' = [owner EXCEPT ![n] = NoAgent] /\ StopDriver(n)
      /\ phase[n] # "idle"
  BY DEF StopKeepsDriver, StopDriver, handleVars, AllStopped, Stopping
<1>2. /\ phase'[n] # "stop" /\ (phase'[n] # "idle" => n \in removing)
      /\ \A k \in Nodes : k # n => phase'[k] = phase[k] /\ owner'[k] = owner[k]
  BY <1>0, <1>1 DEF Outcome, TypeOK
<1>3. Order'
  BY <1>0, <1>1, <1>2 DEF Order
<1>4. LostApart' /\ Covered'
  BY <1>0, <1>1, <1>2 DEF LostApart, Covered
<1>5. BusBound'
  <2>1. CASE owner' = owner
    BY <1>0, <1>1, <2>1 DEF BusBound
  <2>2. CASE StopDriver(n)
    <3>1. SUFFICES ASSUME NEW c \in Nodes \ {Root}, childOf[c] # NoAgent, Sound(Parent[c])
                   PROVE  owner'[Parent[c]] = childOf[c]
      BY <1>1 DEF BusBound, Sound
    <3>2. Parent[c] \in Nodes /\ c \in dtDevs
      BY <1>0, <3>1, NodesAssumption DEF IInv, RecordsAlive
    <3>3. Parent[c] # n
      BY <1>0, <2>2, <3>1, <3>2, NothingLeft DEF Kids
    <3>. QED  BY <1>0, <1>2, <3>1, <3>2, <3>3 DEF BusBound, Sound
  <2>. QED  BY <1>1, <2>1, <2>2
<1>. QED  BY <1>3, <1>4, <1>5 DEF TInv

\* The end of an uninstall, one way or the other.
LEMMA RemoveEndsTInv ==
  ASSUME IInv, TInv, NEW c \in Nodes, RemoveDone(c) \/ RemoveFailed(c)
  PROVE  TInv'
<1>0. /\ IInv /\ TypeOK /\ Order /\ LostApart /\ BusBound /\ Covered
      /\ c \in removing /\ c # Root /\ c \in dtDevs /\ childOf[c] = NoAgent
      /\ Parent[c] \in Nodes /\ conn' = conn /\ owner' = owner
  BY NodesAssumption DEF IInv, TInv, RemoveDone, RemoveFailed, RemovingHeld, FramesAlive
<1>1. PICK error \in BOOLEAN : RemoveReturns(c, error) /\ (RemoveFailed(c) => error)
                               /\ (~error => dtDevs' = dtDevs \ {c})
  BY DEF RemoveDone, RemoveFailed
<1>2. /\ removing' = removing \ {c} /\ phase'[c] = "idle"
      /\ \A k \in Nodes : k # c => phase'[k] = phase[k]
      /\ \A k \in Nodes : todo'[k] = todo[k] \/ (k = Parent[c] /\ todo'[k] = todo[k] \ {c})
      /\ \A k \in Nodes : k # Parent[c] => failed'[k] = failed[k]
      /\ failed'[Parent[c]] <=> failed[Parent[c]] \/ error
  BY <1>0, <1>1 DEF RemoveReturns, TypeOK
<1>3. Order'
  BY <1>0, <1>2 DEF Order
<1>4. CASE RemoveDone(c)
  <2>1. dtDevs' = dtDevs \ {c} /\ lost' = lost \ {c} /\ childOf' = childOf
    BY <1>4 DEF RemoveDone
  <2>2. LostApart' /\ BusBound'
    BY <1>0, <1>2, <2>1 DEF LostApart, BusBound
  <2>3. Covered'
    <3>1. SUFFICES ASSUME NEW m \in Nodes, Sound(m), phase'[m] = "stop", ~failed'[m],
                          NEW k \in Kids(m) \cap dtDevs'
                   PROVE  k \in lost' \/ k \in todo'[m]
      BY DEF Covered
    <3>2. m # c /\ k # c /\ k \in dtDevs /\ phase[m] = "stop" /\ ~failed[m]
      BY <1>0, <1>2, <2>1, <3>1
    <3>. QED  BY <1>0, <1>2, <2>1, <3>1, <3>2 DEF Covered
  <2>. QED  BY <1>3, <2>2, <2>3 DEF TInv
<1>5. CASE RemoveFailed(c)
  <2>1. /\ dtDevs' = dtDevs
        /\ \/ childOf' = [childOf EXCEPT ![c] = owner[Parent[c]]] /\ lost' = lost
           \/ lost' = lost \cup {c} /\ childOf' = childOf
    BY <1>5 DEF RemoveFailed, Reopen
  <2>2. \A k \in Nodes : k # c => childOf'[k] = childOf[k]
    BY <1>0, <2>1 DEF TypeOK
  <2>3. childOf'[c] = owner[Parent[c]] \/ childOf'[c] = NoAgent
    BY <1>0, <2>1 DEF TypeOK
  <2>4. LostApart'
    BY <1>0, <1>2, <2>1, <2>2 DEF LostApart, TypeOK
  <2>5. BusBound'
    BY <1>0, <2>2, <2>3 DEF BusBound
  <2>6. Covered'
    BY <1>0, <1>1, <1>2, <1>5, <2>1 DEF Covered, Kids
  <2>. QED  BY <1>3, <2>4, <2>5, <2>6 DEF TInv
<1>. QED  BY <1>4, <1>5

\* A failed uninstall connects the handle, which is below the outermost Stop.
LEMMA ReconnectTInv ==
  ASSUME IInv, TInv, NEW c \in Nodes, Reconnect(c)
  PROVE  TInv'
<1>0. /\ TypeOK /\ Order /\ LostApart /\ BusBound /\ Covered /\ c \in removing
      /\ conn' = {c} /\ phase' = [phase EXCEPT ![c] = "reconnect"]
      /\ phase[c] # "idle"
      /\ UNCHANGED <<dtDevs, owner, childOf, lost, todo, failed, removing>>
  BY DEF IInv, TInv, Reconnect, handleVars
<1>1. /\ \A k \in Nodes : k # c => phase'[k] = phase[k]
      /\ phase'[c] = "reconnect"
  BY <1>0 DEF TypeOK
<1>2. Order'
  BY <1>0, <1>1 DEF Order
<1>3. LostApart' /\ BusBound' /\ Covered'
  BY <1>0, <1>1 DEF LostApart, BusBound, Covered
<1>. QED  BY <1>2, <1>3 DEF TInv

\* Every action of the model preserves the strengthened invariant.
LEMMA StepTInv == IInv /\ TInv /\ [Next]_vars => TInv'
<1>. SUFFICES ASSUME IInv, TInv, [Next]_vars PROVE TInv'
  OBVIOUS
<1>0. IInv /\ TInv /\ WalkHeld
  BY DEF IInv
<1>1. ASSUME Quiet PROVE \A k \in Nodes : phase[k] = "idle"
  BY <1>1 DEF Quiet, Unwinding
<1>2. ASSUME NEW n \in Nodes, ConnectAll(n) PROVE TInv'
  BY <1>0, <1>1, <1>2, StutterTInv DEF ConnectAll, handleVars
<1>3. ASSUME NEW n \in Nodes, NEW rem, ConnectPath(n, rem) PROVE TInv'
  BY <1>0, <1>1, <1>3, ConnectTInv DEF ConnectPath
<1>4. ASSUME NEW n \in Nodes, ConnectStep(n) PROVE TInv'
  BY <1>0, <1>4, ConnectTInv DEF ConnectStep
<1>5. ASSUME NEW n \in Nodes, Map(n) \/ Unmap(n) PROVE TInv'
  BY <1>0, <1>5, StutterTInv DEF Map, Unmap
<1>6. ASSUME NEW n \in Nodes, Disconnect(n) PROVE TInv'
  BY <1>0, <1>6, DisconnectTInv DEF Disconnect
<1>7. ASSUME NEW n \in Nodes, NEW c \in Kids(n), DisconnectChild(n, c) PROVE TInv'
  <2>1. PICK how \in {"stop", "stopOne"} :
          BeginStop(n, {c}, how) /\ (how = "stop" => {c} = Managed(n))
    BY <1>7 DEF DisconnectChild
  <2>2. Quiet /\ UNCHANGED <<handleVars, conn, removing>>
    BY <1>7 DEF DisconnectChild
  <2>. QED  BY <1>0, <2>1, <2>2, DisconnectTInv
<1>8. CASE SignalEndOfDxe
  BY <1>0, <1>8, StutterTInv DEF SignalEndOfDxe, handleVars
<1>9. CASE WalkCritical
  BY <1>0, <1>9, StutterTInv DEF WalkCritical, WalkHeld, handleVars
<1>10. CASE WalkDone
  BY <1>0, <1>10, StutterTInv DEF WalkDone, handleVars
<1>11. CASE UNCHANGED vars
  BY <1>0, <1>11, StutterTInv DEF vars, handleVars
<1>12. CASE Progress
  BY <1>0, <1>4, <1>9, <1>10, <1>12, RemoveChildTInv, StopTInv, RemoveEndsTInv, ReconnectTInv
     DEF Progress
<1>13. CASE Request
  BY <1>2, <1>3, <1>5, <1>6, <1>7, <1>8, <1>13 DEF Request
<1>. QED  BY <1>11, <1>12, <1>13 DEF Next

\* Hence both invariants hold in every reachable state.
LEMMA TreeInvariance == Spec => [](IInv /\ TInv)
<1>1. Init => TInv
  BY DEF Init, TInv, Order, LostApart, BusBound, Covered, NoAgent
<1>. QED  BY <1>1, InitInv, StepInv, StepTInv, PTL DEF Spec

-----------------------------------------------------------------------------
(* The theorems                                                            *)

\* In every tree a driver keeps a node open BY_DRIVER as long as one of its
\* children is on record, so that DisconnectController reaches every child.
THEOREM BusStaysBound == Spec => []BusBound
<1>1. TInv => BusBound
  BY DEF TInv
<1>. QED  BY <1>1, TreeInvariance, PTL

\* DtDeviceRemove looked at Maps before the uninstall, and without a timer
\* callback nothing is mapped while the uninstall runs.
Unmapped == \A n \in removing : maps[n] = 0

\* As long as no timer callback maps memory in the middle of a teardown, a
\* DT_DEVICE is never freed while one of its DMA mappings is present.
THEOREM MappingsKeepDevice ==
  ASSUME "timer" \notin Faults
  PROVE  Spec => []MapsAlive
<1>. DEFINE MInv == MapsAlive /\ Unmapped
<1>1. Init => MInv
  BY DEF Init, MapsAlive, Unmapped
<1>2. IInv /\ MInv /\ [Next]_vars => MInv'
  <2>. SUFFICES ASSUME IInv, MInv, [Next]_vars PROVE MInv'
    OBVIOUS
  <2>0. TypeOK /\ MapsAlive /\ Unmapped
    BY DEF IInv
  <2>1. ASSUME UNCHANGED <<dtDevs, maps, removing>> PROVE MInv'
    BY <2>0, <2>1 DEF MapsAlive, Unmapped
  <2>2. ASSUME NEW n \in Nodes, NEW rem, ConnectSingle(n, rem), UNCHANGED stopVars PROVE MInv'
    <3>1. dtDevs \subseteq dtDevs'
      BY <2>0, <2>2, ConnectSingleEffect
    <3>2. UNCHANGED <<maps, removing>>
      BY <2>2 DEF ConnectSingle, FdtBusStart, SampleBusStart, DeviceStart, NothingStarts,
                  handleVars, stopVars
    <3>. QED  BY <2>0, <3>1, <3>2 DEF MapsAlive, Unmapped
  <2>3. ASSUME NEW n \in Nodes, Map(n) \/ Unmap(n) PROVE MInv'
    <3>1. removing = {} /\ removing' = {} /\ dtDevs' = dtDevs /\ owner[n] = "Device"
      BY <2>3 DEF Map, Unmap, Quiet, Unwinding, stopVars
    <3>2. \A k \in Nodes : k # n => maps'[k] = maps[k]
      BY <2>0, <2>3 DEF Map, Unmap, TypeOK
    <3>3. n \in dtDevs
      BY <3>1 DEF IInv, FramesAlive, NoAgent
    <3>. QED  BY <2>0, <3>1, <3>2, <3>3 DEF MapsAlive, Unmapped
  <2>4. ASSUME NEW n \in Nodes, NEW c \in Kids(n), RemoveChild(n, c) PROVE MInv'
    <3>1. removing' = removing \/ (removing' = removing \cup {c} /\ maps[c] = 0)
      BY <2>4 DEF RemoveChild, Removable
    <3>2. UNCHANGED <<dtDevs, maps>>
      BY <2>4 DEF RemoveChild
    <3>. QED  BY <2>0, <3>1, <3>2 DEF MapsAlive, Unmapped
  <2>5. ASSUME NEW n \in Nodes, StopDriver(n) PROVE MInv'
    <3>1. \A k \in Nodes : maps'[k] = maps[k] \/ maps'[k] = 0
      BY <2>0, <2>5 DEF StopDriver, ReleaseMaps, TypeOK
    <3>2. UNCHANGED <<dtDevs, removing>> /\ removing \subseteq Nodes
      BY <2>0, <2>5 DEF StopDriver, TypeOK
    <3>. QED  BY <2>0, <3>1, <3>2 DEF MapsAlive, Unmapped
  <2>6. ASSUME NEW c \in Nodes, RemoveDone(c) PROVE MInv'
    BY <2>0, <2>6 DEF RemoveDone, RemoveReturns, MapsAlive, Unmapped
  <2>7. ASSUME NEW c \in Nodes, RemoveFailed(c) PROVE MInv'
    BY <2>0, <2>7 DEF RemoveFailed, RemoveReturns, MapsAlive, Unmapped
  <2>8. ASSUME NEW n \in Nodes,
               \/ StopKeepsDriver(n) \/ Reconnect(n) \/ ConnectAll(n) \/ Disconnect(n)
               \/ \E c \in Kids(n) : DisconnectChild(n, c)
        PROVE  MInv'
    BY <2>1, <2>8 DEF StopKeepsDriver, Reconnect, ConnectAll, Disconnect, DisconnectChild,
                      handleVars, stopVars
  <2>9. ASSUME SignalEndOfDxe \/ WalkCritical \/ WalkDone \/ UNCHANGED vars PROVE MInv'
    BY <2>1, <2>9 DEF SignalEndOfDxe, WalkCritical, WalkDone, vars, handleVars, stopVars
  <2>10. ASSUME NEW n \in Nodes, NEW rem, ConnectStep(n) \/ ConnectPath(n, rem) PROVE MInv'
    BY <2>2, <2>10 DEF ConnectStep, ConnectPath
  <2>11. CASE Progress
    BY <2>4, <2>5, <2>6, <2>7, <2>8, <2>9, <2>10, <2>11 DEF Progress
  <2>12. CASE Request
    BY <2>3, <2>8, <2>9, <2>10, <2>12 DEF Request
  <2>. QED  BY <2>9, <2>11, <2>12 DEF Next
<1>3. MInv => MapsAlive
  OBVIOUS
<1>. HIDE DEF MInv
<1>. QED  BY <1>1, <1>2, <1>3, Invariance, PTL DEF Spec

\* For every tree without a SampleBusDxe node that libfdt fails to walk, the
\* life cycle of the devices is one HandleTree allows, whatever else fails.
THEOREM DevicesFormTree ==
  ASSUME \A n \in Nodes : Sound(n)
  PROVE  Spec => ImplementsTree
<1>1. Init => Tree!Init
  BY DEF Init, Tree!Init
<1>2. IInv /\ TInv /\ [Next]_vars => [Tree!Next]_(Tree!vars)
  <2>. SUFFICES ASSUME IInv, TInv, [Next]_vars PROVE [Tree!Next]_(Tree!vars)
    OBVIOUS
  <2>0. IInv /\ TInv /\ TypeOK
    BY DEF IInv
  <2>1. ASSUME UNCHANGED <<dtDevs, owner, lost>> PROVE UNCHANGED Tree!vars
    BY <2>1 DEF Tree!vars
  <2>2. ASSUME NEW n \in Nodes, NEW rem, n \in dtDevs, ConnectSingle(n, rem)
        PROVE  [Tree!Next]_(Tree!vars)
    <3>1. /\ dtDevs \subseteq dtDevs' /\ lost' = lost
          /\ \A k \in dtDevs' \ dtDevs : k \in Nodes \ {Root} /\ Parent[k] = n
      BY <2>0, <2>2, ConnectSingleEffect DEF Kids
    <3>2. \/ UNCHANGED <<dtDevs, owner>>
          \/ owner' = [owner EXCEPT ![n] = DriverOf[n]] /\ DriverOf[n] # NoAgent
      BY <2>0, <2>2, ConnectSingleBound DEF TInv
    <3>3. CASE owner' = [owner EXCEPT ![n] = DriverOf[n]] /\ DriverOf[n] # NoAgent
      <4>1. \A k \in Nodes : owner'[k] = IF k = n THEN DriverOf[n] ELSE owner[k]
        BY <2>0, <3>3 DEF TypeOK
      <4>2. {k \in Nodes : owner'[k] # NoAgent} = {k \in Nodes : owner[k] # NoAgent} \cup {n}
        BY <3>3, <4>1
      <4>3. Tree!Start(n)
        BY <2>2, <3>1, <4>2 DEF Tree!Start
      <4>. QED  BY <4>3 DEF Tree!Next
    <3>. QED  BY <2>1, <3>1, <3>2, <3>3
  <2>3. ASSUME NEW n \in Nodes, StopDriver(n) PROVE Tree!Stop(n)
    <3>1. /\ owner[n] # NoAgent /\ UNCHANGED <<dtDevs, lost>>
          /\ owner' = [owner EXCEPT ![n] = NoAgent]
      BY <2>0, <2>3 DEF StopDriver, AllStopped, IInv, FramesOwned, Stopping
    <3>2. \A k \in Nodes : owner'[k] = IF k = n THEN NoAgent ELSE owner[k]
      BY <2>0, <3>1 DEF TypeOK
    <3>3. {k \in Nodes : owner'[k] # NoAgent} = {k \in Nodes : owner[k] # NoAgent} \ {n}
      BY <3>2
    <3>4. \A k \in dtDevs \ lost : ~(k # Root /\ Parent[k] = n)
      BY <2>0, <2>3, NothingLeft DEF Kids, TypeOK
    <3>5. Tree!Below(n) = {}
      BY <3>4 DEF Tree!Below
    <3>. QED  BY <3>1, <3>3, <3>5 DEF Tree!Stop
  <2>4. ASSUME NEW c \in Nodes, RemoveDone(c) PROVE Tree!Remove(c)
    <3>1. /\ c \in removing /\ phase[c] = "stopped" /\ Listed(c) = {}
          /\ c # Root /\ c \in dtDevs /\ owner[c] = NoAgent
          /\ dtDevs' = dtDevs \ {c} /\ lost' = lost \ {c} /\ owner' = owner
      BY <2>0, <2>4 DEF RemoveDone, IInv, RemovingHeld, FramesAlive, FramesOwned
    <3>2. \A k \in dtDevs \ lost : ~(k # Root /\ Parent[k] = c)
      <4>1. SUFFICES ASSUME NEW k \in dtDevs \ lost, k # Root, Parent[k] = c PROVE FALSE
        OBVIOUS
      <4>2. k \in removing \/ childOf[k] # NoAgent
        BY <2>0, <4>1 DEF IInv, Recorded
      <4>3. k \notin removing
        BY <2>0, <3>1, <4>1 DEF IInv, RemovingHeld, Stopping
      <4>. QED  BY <2>0, <3>1, <4>1, <4>2, <4>3 DEF Listed, Kids, TypeOK
    <3>3. Tree!Below(c) = {}
      BY <3>2 DEF Tree!Below
    <3>. QED  BY <3>1, <3>3 DEF Tree!Remove
  <2>5. ASSUME NEW c \in Nodes, RemoveFailed(c) PROVE Tree!Orphan(c) \/ UNCHANGED Tree!vars
    <3>1. /\ UNCHANGED <<dtDevs, owner>> /\ (lost' = lost \/ lost' = lost \cup {c})
          /\ c \in dtDevs /\ c # Root
      BY <2>0, <2>5 DEF RemoveFailed, Reopen, IInv, RemovingHeld, FramesAlive
    <3>. QED  BY <2>1, <3>1 DEF Tree!Orphan
  <2>6. ASSUME NEW n \in Nodes, NEW rem, ConnectStep(n) \/ ConnectPath(n, rem)
        PROVE  [Tree!Next]_(Tree!vars)
    <3>1. n \in dtDevs /\ \E r : ConnectSingle(n, r)
      BY <2>0, <2>6 DEF ConnectStep, ConnectPath, IInv, FramesAlive
    <3>. QED  BY <2>2, <3>1
  <2>7. ASSUME NEW n \in Nodes,
               \/ StopKeepsDriver(n) \/ Reconnect(n) \/ ConnectAll(n) \/ Disconnect(n)
               \/ Map(n) \/ Unmap(n) \/ \E c \in Kids(n) : DisconnectChild(n, c)
                                                           \/ RemoveChild(n, c)
        PROVE  UNCHANGED Tree!vars
    BY <2>1, <2>7 DEF StopKeepsDriver, Reconnect, ConnectAll, Disconnect, DisconnectChild,
                      RemoveChild, Map, Unmap, handleVars
  <2>8. ASSUME SignalEndOfDxe \/ WalkCritical \/ WalkDone \/ UNCHANGED vars
        PROVE  UNCHANGED Tree!vars
    BY <2>1, <2>8 DEF SignalEndOfDxe, WalkCritical, WalkDone, vars, handleVars
  <2>9. CASE Progress
    BY <2>3, <2>4, <2>5, <2>6, <2>7, <2>8, <2>9 DEF Progress, Tree!Next
  <2>10. CASE Request
    BY <2>6, <2>7, <2>8, <2>10 DEF Request
  <2>. QED  BY <2>8, <2>9, <2>10 DEF Next
<1>. QED  BY <1>1, <1>2, TreeInvariance, PTL DEF Spec, ImplementsTree, Tree!Spec
=============================================================================
