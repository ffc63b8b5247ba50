---------------------------- MODULE DtBusProofs ----------------------------
(***************************************************************************)
(* Proofs about DtBus, for every tree, driver assignment and set of faults:*)
(* type correctness, that no DT_DEVICE outlives its parent or stays on the *)
(* critical list, and that a teardown leaves no device without a record.   *)
(***************************************************************************)
EXTENDS DtBus, TLAPS, FiniteSetTheorems, SequenceTheorems

-----------------------------------------------------------------------------
(* The inductive invariant behind ParentAlive                              *)

\* Frames and drivers are on live devices only.
FramesAlive ==
  \A n \in Nodes : phase[n] # "idle" \/ owner[n] # NoAgent \/ n \in conn \/ n \in removing
                     => n \in dtDevs

\* A BY_CHILD record joins two live devices: UEFI refuses to uninstall the
\* parent while it is there.
RecordsAlive ==
  \A c \in Nodes : childOf[c] # NoAgent
                     => c # Root /\ c \in dtDevs /\ Parent[c] \in dtDevs

\* A child in the middle of DtDeviceUnregister has no record: it is its
\* parent's Stop, still on the call stack, that keeps the parent.
RemovingHeld ==
  \A c \in removing : /\ c # Root /\ childOf[c] = NoAgent
                      /\ Parent[c] \in dtDevs /\ Stopping(Parent[c])

\* A driver that is being stopped is bound, and one that was stopped is not.
FramesOwned ==
  \A n \in Nodes : /\ Stopping(n) => owner[n] # NoAgent
                   /\ phase[n] = "stopped" => owner[n] = NoAgent
                   /\ phase[n] \in {"stopped", "refused", "reconnect"} => n \in removing

\* A handle the core connects while it is removed is the one whose uninstall
\* failed.
ConnectHeld == \A n \in conn \cap removing : phase[n] = "reconnect"

\* Every other live device has its record.
Recorded ==
  \A c \in dtDevs \ ({Root} \cup lost) : c \in removing \/ childOf[c] # NoAgent

\* OnEndOfDxe runs when nothing is torn down, and nothing is while it runs.
WalkHeld ==
  endOfDxe = "walking" => removing = {} /\ \A n \in Nodes : phase[n] = "idle"

IInv == /\ TypeOK /\ Root \in dtDevs /\ FramesAlive /\ RecordsAlive /\ RemovingHeld
        /\ FramesOwned /\ ConnectHeld /\ Recorded /\ WalkHeld /\ CriticalListExact

-----------------------------------------------------------------------------
(* Helpers                                                                 *)

\* The nodes a scan adds are appended to the critical list as a sequence of
\* exactly those nodes.
LEMMA TreeOrderSeq ==
  ASSUME NEW S, S \subseteq Nodes, NEW e \in TreeOrder(S)
  PROVE  e \in Seq(Nodes) /\ ToSet(e) = S
<1>1. IsFiniteSet(S) /\ Cardinality(S) \in Nat
  BY FS_Subset, FS_CardinalityType, NodesAssumption
<1>2. e \in [1..Cardinality(S) -> Nodes] /\ ToSet(e) = S
  BY DEF TreeOrder
<1>. QED  BY <1>1, <1>2, IsASeq

\* Unlinking one device keeps the critical list a list of nodes.
LEMMA RemoveAtSeq ==
  ASSUME NEW s \in Seq(Nodes), NEW i \in DOMAIN s
  PROVE  RemoveAt(s, i) \in Seq(Nodes)
<1>1. /\ i \in 1..Len(s) /\ Len(s) \in Nat
      /\ \A j \in 1..Len(s) : s[j] \in Nodes
  BY LenProperties, ElementOfSeq
<1>2. SubSeq(s, 1, i-1) \in Seq(Nodes)
  BY <1>1, SubSeqProperties
<1>3. SubSeq(s, i+1, Len(s)) \in Seq(Nodes)
  BY <1>1, SubSeqProperties
<1>. QED  BY <1>2, <1>3, ConcatProperties DEF RemoveAt

\* Appending new nodes in tree order lists each of them once.
LEMMA AppendExact ==
  ASSUME NEW s \in Seq(Nodes), IsInjective(s),
         NEW S, S \subseteq Nodes, S \cap ToSet(s) = {}, NEW e \in TreeOrder(S)
  PROVE  IsInjective(s \o e) /\ ToSet(s \o e) = ToSet(s) \cup S
<1>1. e \in Seq(Nodes) /\ ToSet(e) = S
  BY TreeOrderSeq
<1>2. /\ Len(s) \in Nat /\ DOMAIN s = 1..Len(s) /\ Len(e) \in Nat /\ DOMAIN e = 1..Len(e)
  BY <1>1, LenProperties
<1>3. \A i, j \in 1..Len(e) : i < j => e[i] < e[j]
  <2>1. DOMAIN e = 1..Cardinality(S)
    BY DEF TreeOrder
  <2>. QED  BY <1>2, <2>1 DEF TreeOrder
<1>4. \A i \in 1..Len(e) : e[i] \in Nat
  BY <1>1, ElementOfSeq, NodesAssumption
<1>5. \A i, j \in 1..Len(e) : e[i] = e[j] => i = j
  <2>1. SUFFICES ASSUME NEW i \in 1..Len(e), NEW j \in 1..Len(e), e[i] = e[j], i # j
                 PROVE  FALSE
    OBVIOUS
  <2>2. i < j \/ j < i
    BY <1>2, <2>1
  <2>3. e[i] < e[j] \/ e[j] < e[i]
    BY <1>3, <2>2
  <2>. QED  BY <1>4, <2>1, <2>3
<1>6. /\ s \o e \in Seq(Nodes) /\ DOMAIN (s \o e) = 1..(Len(s) + Len(e))
      /\ \A i \in 1..(Len(s) + Len(e)) :
            (s \o e)[i] = IF i <= Len(s) THEN s[i] ELSE e[i - Len(s)]
  BY <1>1, ConcatProperties, LenProperties
<1>7. \A i \in 1..Len(s), j \in 1..Len(e) : s[i] # e[j]
  BY <1>1, <1>2 DEF ToSet
<1>8. IsInjective(s \o e)
  <2>1. SUFFICES ASSUME NEW i \in 1..(Len(s) + Len(e)), NEW j \in 1..(Len(s) + Len(e)),
                        (s \o e)[i] = (s \o e)[j]
                 PROVE  i = j
    BY <1>6 DEF IsInjective
  <2>2. CASE i <= Len(s) /\ j <= Len(s)
    BY <1>2, <1>6, <2>1, <2>2 DEF IsInjective
  <2>3. CASE i <= Len(s) /\ j > Len(s)
    BY <1>2, <1>6, <1>7, <2>1, <2>3
  <2>4. CASE i > Len(s) /\ j <= Len(s)
    BY <1>2, <1>6, <1>7, <2>1, <2>4
  <2>5. CASE i > Len(s) /\ j > Len(s)
    <3>1. i - Len(s) \in 1..Len(e) /\ j - Len(s) \in 1..Len(e)
      BY <1>2, <2>5
    <3>2. e[i - Len(s)] = e[j - Len(s)]
      BY <1>2, <1>6, <2>1, <2>5
    <3>. QED  BY <1>2, <1>5, <3>1, <3>2
  <2>. QED  BY <1>2, <2>2, <2>3, <2>4, <2>5
<1>9. ToSet(s \o e) = ToSet(s) \cup ToSet(e)
  <2>1. ASSUME NEW x \in ToSet(s) \cup ToSet(e) PROVE x \in ToSet(s \o e)
    <3>1. CASE x \in ToSet(s)
      BY <1>2, <1>6, <3>1 DEF ToSet
    <3>2. CASE x \in ToSet(e)
      <4>1. PICK j \in 1..Len(e) : x = e[j]
        BY <1>2, <3>2 DEF ToSet
      <4>2. j + Len(s) \in 1..(Len(s) + Len(e)) /\ (s \o e)[j + Len(s)] = x
        BY <1>2, <1>6, <4>1
      <4>. QED  BY <1>6, <4>2 DEF ToSet
    <3>. QED  BY <2>1, <3>1, <3>2
  <2>2. ASSUME NEW x \in ToSet(s \o e) PROVE x \in ToSet(s) \cup ToSet(e)
    <3>1. PICK i \in 1..(Len(s) + Len(e)) : x = (s \o e)[i]
      BY <1>6, <2>2 DEF ToSet
    <3>2. CASE i <= Len(s)
      BY <1>2, <1>6, <3>1, <3>2 DEF ToSet
    <3>3. CASE i > Len(s)
      <4>1. i - Len(s) \in 1..Len(e) /\ x = e[i - Len(s)]
        BY <1>2, <1>6, <3>1, <3>3
      <4>. QED  BY <1>2, <4>1 DEF ToSet
    <3>. QED  BY <1>2, <3>2, <3>3
  <2>. QED  BY <2>1, <2>2
<1>. QED  BY <1>1, <1>8, <1>9

\* Unlinking a device removes exactly it.
LEMMA RemoveAtExact ==
  ASSUME NEW s \in Seq(Nodes), IsInjective(s), NEW i \in DOMAIN s
  PROVE  IsInjective(RemoveAt(s, i)) /\ ToSet(RemoveAt(s, i)) = ToSet(s) \ {s[i]}
<1>. DEFINE n == Len(s)
            a == SubSeq(s, 1, i - 1)
            b == SubSeq(s, i + 1, n)
            r == RemoveAt(s, i)
<1>1. /\ n \in Nat /\ DOMAIN s = 1..n /\ i \in 1..n
      /\ \A j \in 1..n : s[j] \in Nodes
  BY LenProperties, ElementOfSeq
<1>2. /\ a \in Seq(Nodes) /\ Len(a) = i - 1
      /\ \A j \in 1..(i - 1) : a[j] = s[j]
  <2>1. 1 \in Int /\ i - 1 \in Int /\ \A j \in 1..(i - 1) : s[j] \in Nodes
    BY <1>1
  <2>2. /\ SubSeq(s, 1, i - 1) \in Seq(Nodes)
        /\ Len(SubSeq(s, 1, i - 1)) = IF 1 <= i - 1 THEN (i - 1) - 1 + 1 ELSE 0
        /\ \A j \in 1..((i - 1) - 1 + 1) : SubSeq(s, 1, i - 1)[j] = s[1 + j - 1]
    BY ONLY <2>1, SubSeqProperties
  <2>3. /\ (i - 1) - 1 + 1 = i - 1 /\ i - 1 = IF 1 <= i - 1 THEN i - 1 ELSE 0
        /\ \A j \in 1..(i - 1) : 1 + j - 1 = j
    BY <1>1
  <2>. QED  BY <2>2, <2>3
<1>3. /\ b \in Seq(Nodes) /\ Len(b) = n - i
      /\ \A j \in 1..(n - i) : b[j] = s[i + j]
  <2>1. \A j \in (i + 1)..n : s[j] \in Nodes
    BY <1>1
  <2>2. /\ b \in Seq(Nodes)
        /\ Len(b) = IF i + 1 <= n THEN n - (i + 1) + 1 ELSE 0
        /\ \A j \in 1..(n - (i + 1) + 1) : b[j] = s[(i + 1) + j - 1]
    BY <1>1, <2>1, SubSeqProperties
  <2>3. /\ n - (i + 1) + 1 = n - i /\ n - i = IF i + 1 <= n THEN n - i ELSE 0
        /\ \A j \in 1..(n - i) : (i + 1) + j - 1 = i + j
    BY <1>1
  <2>. QED  BY <2>2, <2>3
<1>4. r = a \o b
  BY DEF RemoveAt
<1>. HIDE DEF a, b, r, n
<1>5. /\ DOMAIN r = 1..(n - 1)
      /\ \A j \in 1..(n - 1) : r[j] = IF j < i THEN s[j] ELSE s[j + 1]
  <2>1. /\ r \in Seq(Nodes) /\ Len(r) = n - 1
        /\ \A j \in 1..(n - 1) : r[j] = IF j <= i - 1 THEN a[j] ELSE b[j - (i - 1)]
    <3>1. /\ a \o b \in Seq(Nodes) /\ Len(a \o b) = (i - 1) + (n - i)
          /\ \A j \in 1..((i - 1) + (n - i)) :
                (a \o b)[j] = IF j <= i - 1 THEN a[j] ELSE b[j - (i - 1)]
      <4>1. /\ a \o b \in Seq(Nodes) /\ Len(a \o b) = Len(a) + Len(b)
            /\ \A j \in 1..(Len(a) + Len(b)) :
                  (a \o b)[j] = IF j <= Len(a) THEN a[j] ELSE b[j - Len(a)]
        <5>1. a \in Seq(Nodes) /\ b \in Seq(Nodes)
          BY <1>2, <1>3
        <5>. QED  BY ONLY <5>1, ConcatProperties
      <4>2. Len(a) = i - 1 /\ Len(b) = n - i
        BY <1>2, <1>3
      <4>. QED  BY <4>1, <4>2
    <3>2. (i - 1) + (n - i) = n - 1
      BY <1>1
    <3>. QED  BY <1>4, <3>1, <3>2
  <2>2. \A j \in 1..(n - 1) : j > i - 1 => b[j - (i - 1)] = s[j + 1]
    BY <1>1, <1>3
  <2>3. DOMAIN r = 1..(n - 1)
    BY <2>1, LenProperties
  <2>4. ASSUME NEW j \in 1..(n - 1)
        PROVE  r[j] = IF j < i THEN s[j] ELSE s[j + 1]
    <3>1. CASE j < i
      BY <1>1, <1>2, <2>1, <3>1
    <3>2. CASE ~(j < i)
      BY <1>1, <2>1, <2>2, <3>2
    <3>. QED  BY <3>1, <3>2
  <2>. QED  BY <2>3, <2>4
<1>6. \A j, k \in 1..n : s[j] = s[k] => j = k
  BY <1>1 DEF IsInjective
<1>7. IsInjective(r)
  <2>1. ASSUME NEW j \in 1..(n - 1), NEW k \in 1..(n - 1), r[j] = r[k]
        PROVE  j = k
    <3>. DEFINE Place(x) == IF x < i THEN x ELSE x + 1
    <3>1. Place(j) \in 1..n /\ Place(k) \in 1..n
      BY <1>1
    <3>2. s[Place(j)] = s[Place(k)]
      BY <1>5, <2>1
    <3>3. Place(j) = Place(k)
      <4>. HIDE DEF Place
      <4>. QED  BY <1>6, <3>1, <3>2
    <3>. QED  BY <1>1, <3>3
  <2>. QED  BY <1>5, <2>1 DEF IsInjective
<1>8. \A x : x \in ToSet(r) => x \in ToSet(s) \ {s[i]}
  BY <1>1, <1>5, <1>6 DEF ToSet
<1>9. ASSUME NEW x \in ToSet(s) \ {s[i]} PROVE x \in ToSet(r)
  <2>1. PICK j \in 1..n : x = s[j] /\ j # i
    BY <1>1, <1>9 DEF ToSet
  <2>2. CASE j < i
    BY <1>1, <1>5, <2>1, <2>2 DEF ToSet
  <2>3. CASE j > i
    <3>1. j - 1 \in 1..(n - 1) /\ r[j - 1] = s[j]
      BY <1>1, <1>5, <2>1, <2>3
    <3>. QED  BY <1>5, <2>1, <3>1 DEF ToSet
  <2>. QED  BY <1>1, <2>1, <2>2, <2>3
<1>. QED  BY <1>7, <1>8, <1>9 DEF r

-----------------------------------------------------------------------------
(* Type correctness                                                        *)

\* One ConnectSingle keeps the types of the handle database.
LEMMA ConnectSingleTyping ==
  ASSUME TypeOK, NEW n \in Nodes, NEW rem, ConnectSingle(n, rem)
  PROVE  /\ dtDevs' \in SUBSET Nodes
         /\ owner' \in [Nodes -> Agents \cup {NoAgent}]
         /\ childOf' \in [Nodes -> Agents \cup {NoAgent}]
         /\ callbacks' \in [Nodes -> BOOLEAN]
         /\ maps' \in [Nodes -> 0..MaxMaps]
         /\ gCriticalDevices' \in Seq(Nodes)
         /\ lost' \in SUBSET Nodes
<1>0. TypeOK  OBVIOUS
<1>1. ASSUME NEW agent \in Agents, NEW r, Scan(n, agent, r)
      PROVE  /\ dtDevs' \in SUBSET Nodes
             /\ childOf' \in [Nodes -> Agents \cup {NoAgent}]
             /\ gCriticalDevices' \in Seq(Nodes)
  <2>1. PICK made \in SUBSET Missing(n, r) :
          /\ dtDevs' = dtDevs \cup made
          /\ Record(made, agent)
          /\ \E order \in TreeOrder(made \cap Critical) :
               gCriticalDevices' = gCriticalDevices \o order
    BY <1>1 DEF Scan
  <2>2. made \subseteq Nodes
    BY DEF Missing, Kids
  <2>3. PICK order \in TreeOrder(made \cap Critical) :
          gCriticalDevices' = gCriticalDevices \o order
    BY <2>1
  <2>4. order \in Seq(Nodes)
    BY <2>2, TreeOrderSeq
  <2>5. gCriticalDevices' \in Seq(Nodes)
    BY <1>0, <2>3, <2>4, ConcatProperties DEF TypeOK
  <2>. QED  BY <1>0, <2>1, <2>2, <2>5 DEF TypeOK, Record
<1>2. CASE FdtBusStart(n, rem)
  <2>1. Scan(n, "FdtBus", rem) /\ "FdtBus" \in Agents
    BY <1>2 DEF FdtBusStart, Agents
  <2>. QED  BY <1>0, <1>1, <1>2, <2>1 DEF FdtBusStart, TypeOK
<1>3. CASE SampleBusStart(n, rem)
  <2>1. "SampleBus" \in Agents
    BY DEF Agents
  <2>2. CASE rem = End \/ callbacks[n]
    BY ZenonT(60), <1>0, <1>3, <2>1, <2>2 DEF SampleBusStart, NoScan, TypeOK
  <2>3. CASE ~(rem = End \/ callbacks[n])
    <3>1. Scan(n, "SampleBus", All)
      BY <1>3, <2>3 DEF SampleBusStart
    <3>. QED  BY ZenonT(60), <1>0, <1>1, <1>3, <2>1, <2>3, <3>1 DEF SampleBusStart, TypeOK
  <2>. QED  BY <2>2, <2>3
<1>4. CASE DeviceStart(n)
  BY <1>0, <1>4 DEF DeviceStart, NoScan, TypeOK, Agents
<1>5. CASE NothingStarts(n)
  BY <1>0, <1>5 DEF NothingStarts, handleVars, TypeOK
<1>. QED  BY <1>2, <1>3, <1>4, <1>5 DEF ConnectSingle

\* Every step of the model keeps the types.
LEMMA TypingStep == IInv /\ [Next]_vars => TypeOK'
<1>. SUFFICES ASSUME IInv, [Next]_vars PROVE TypeOK'
  OBVIOUS
<1>0. TypeOK /\ RemovingHeld
  BY DEF IInv
<1>. USE DEF Phases
<1>1. ASSUME NEW n \in Nodes, ConnectAll(n) PROVE TypeOK'
  BY <1>0, <1>1 DEF ConnectAll, TypeOK, handleVars, stopVars, walkVars
<1>2. ASSUME NEW n \in Nodes, NEW rem, ConnectPath(n, rem) PROVE TypeOK'
  <2>1. ConnectSingle(n, rem) /\ UNCHANGED <<conn, stopVars, walkVars>>
    BY <1>2 DEF ConnectPath
  <2>. QED  BY <1>0, <2>1, ConnectSingleTyping DEF TypeOK, stopVars, walkVars
<1>3. ASSUME NEW n \in Nodes, ConnectStep(n) PROVE TypeOK'
  <2>1. ConnectSingle(n, All) /\ UNCHANGED <<stopVars, walkVars>>
    BY <1>3 DEF ConnectStep
  <2>2. conn' \subseteq Nodes
    BY <1>0, <1>3 DEF ConnectStep, TypeOK, Listed, Kids
  <2>. QED  BY <1>0, <2>1, <2>2, ConnectSingleTyping DEF TypeOK, stopVars, walkVars
<1>4. ASSUME NEW n \in Nodes, Map(n) PROVE TypeOK'
  BY <1>0, <1>4, FaultsAssumption DEF Map, TypeOK, stopVars, walkVars
<1>5. ASSUME NEW n \in Nodes, Unmap(n) PROVE TypeOK'
  BY <1>0, <1>5, FaultsAssumption DEF Unmap, HasMapping, TypeOK, stopVars, walkVars
<1>6. ASSUME NEW n \in Nodes, Disconnect(n) PROVE TypeOK'
  BY <1>0, <1>6 DEF Disconnect, BeginStop, Managed, Kids, TypeOK, handleVars, walkVars
<1>7. ASSUME NEW n \in Nodes, NEW c \in Kids(n), DisconnectChild(n, c) PROVE TypeOK'
  BY <1>0, <1>7 DEF DisconnectChild, BeginStop, Managed, Kids, TypeOK, handleVars, walkVars
<1>8. ASSUME NEW n \in Nodes, NEW c \in Kids(n), RemoveChild(n, c) PROVE TypeOK'
  <2>1. c \in Nodes
    BY DEF Kids
  <2>2. CASE ~Removable(n, c)
    <3>1. /\ failed' = [failed EXCEPT ![n] = TRUE]
          /\ todo' = [todo EXCEPT ![n] = @ \ {c}]
          /\ UNCHANGED <<childOf, phase, removing>>
      BY <1>8, <2>2 DEF RemoveChild
    <3>. QED  BY <1>0, <1>8, <3>1 DEF RemoveChild, TypeOK, walkVars
  <2>3. CASE Removable(n, c) /\ owner[c] = NoAgent
    <3>1. /\ childOf' = [childOf EXCEPT ![c] = NoAgent] /\ removing' = removing \cup {c}
          /\ phase' = [phase EXCEPT ![c] = "stopped"] /\ UNCHANGED <<todo, failed>>
      BY <1>8, <2>3 DEF RemoveChild
    <3>2. /\ childOf' \in [Nodes -> Agents \cup {NoAgent}] /\ removing' \subseteq Nodes
          /\ phase' \in [Nodes -> Phases]
      BY <1>0, <2>1, <3>1 DEF TypeOK
    <3>. QED  BY <1>0, <1>8, <3>1, <3>2 DEF RemoveChild, TypeOK, walkVars
  <2>4. CASE Removable(n, c) /\ owner[c] # NoAgent
    <3>1. Managed(c) \subseteq Nodes
      BY DEF Managed, Kids
    <3>2. /\ todo' = [todo EXCEPT ![c] = Managed(c)]
          /\ phase' = [phase EXCEPT ![c] = "stop"] /\ failed' = [failed EXCEPT ![c] = FALSE]
          /\ removing' = removing \cup {c} /\ childOf' = [childOf EXCEPT ![c] = NoAgent]
      BY <1>8, <2>4 DEF RemoveChild, BeginStop
    <3>3. todo' \in [Nodes -> SUBSET Nodes] /\ phase' \in [Nodes -> Phases]
      BY <1>0, <2>1, <3>1, <3>2 DEF TypeOK
    <3>4. /\ failed' \in [Nodes -> BOOLEAN] /\ removing' \subseteq Nodes
          /\ childOf' \in [Nodes -> Agents \cup {NoAgent}]
      BY <1>0, <2>1, <3>2 DEF TypeOK
    <3>. QED  BY <1>0, <1>8, <3>3, <3>4 DEF RemoveChild, TypeOK, walkVars
  <2>. QED  BY <2>2, <2>3, <2>4
<1>9. ASSUME NEW n \in Nodes, StopKeepsDriver(n) PROVE TypeOK'
  BY <1>0, <1>9 DEF StopKeepsDriver, Outcome, TypeOK, handleVars, walkVars
<1>10. ASSUME NEW n \in Nodes, StopDriver(n) PROVE TypeOK'
  <2>1. maps' \in [Nodes -> 0..MaxMaps]
    <3>1. 0 \in 0..MaxMaps
      BY FaultsAssumption
    <3>2. maps' = [maps EXCEPT ![n] = 0] \/ maps' = maps
      BY <1>10 DEF StopDriver, ReleaseMaps
    <3>. QED  BY <1>0, <3>1, <3>2 DEF TypeOK
  <2>2. callbacks' \in [Nodes -> BOOLEAN]
    BY <1>0, <1>10 DEF StopDriver, ResetCallbacks, TypeOK
  <2>. QED  BY <1>0, <1>10, <2>1, <2>2 DEF StopDriver, Outcome, TypeOK, walkVars
<1>11. ASSUME NEW c \in Nodes, RemoveDone(c) PROVE TypeOK'
  <2>1. gCriticalDevices' \in Seq(Nodes)
    BY <1>0, <1>11, RemoveAtSeq DEF RemoveDone, Unlink, TypeOK
  <2>. QED  BY <1>0, <1>11, <2>1 DEF RemoveDone, RemoveReturns, TypeOK, walkVars
<1>12. ASSUME NEW c \in Nodes, Reconnect(c) PROVE TypeOK'
  BY <1>0, <1>12 DEF Reconnect, TypeOK, handleVars, walkVars
<1>13. ASSUME NEW c \in Nodes, RemoveFailed(c) PROVE TypeOK'
  <2>1. Parent[c] \in Nodes
    BY <1>0, <1>13, NodesAssumption DEF RemoveFailed, RemovingHeld
  <2>2. /\ childOf' \in [Nodes -> Agents \cup {NoAgent}]
        /\ lost' \in SUBSET Nodes
    BY <1>0, <1>13, <2>1 DEF RemoveFailed, Reopen, TypeOK
  <2>. QED  BY <1>0, <1>13, <2>2 DEF RemoveFailed, RemoveReturns, TypeOK, walkVars
<1>14. CASE SignalEndOfDxe
  BY <1>0, <1>14, HeadTailProperties
     DEF SignalEndOfDxe, TypeOK, handleVars, stopVars
<1>15. CASE WalkCritical
  <2>1. PICK i \in DOMAIN gCriticalDevices :
          /\ gCriticalDevices[i] = link
          /\ link' = IF i = Len(gCriticalDevices) THEN End ELSE gCriticalDevices[i + 1]
          /\ conn' = IF owner[link] = NoAgent THEN {link} ELSE {}
    BY <1>15 DEF WalkCritical
  <2>2. /\ i \in 1..Len(gCriticalDevices) /\ Len(gCriticalDevices) \in Nat
        /\ \A j \in 1..Len(gCriticalDevices) : gCriticalDevices[j] \in Nodes
    BY <1>0, LenProperties, ElementOfSeq DEF TypeOK
  <2>3. link' \in Nodes \cup {End} /\ conn' \subseteq Nodes
    BY <2>1, <2>2
  <2>. QED  BY <1>0, <1>15, <2>3 DEF WalkCritical, TypeOK, handleVars, stopVars
<1>16. CASE WalkDone
  BY <1>0, <1>16 DEF WalkDone, TypeOK, handleVars, stopVars
<1>17. CASE UNCHANGED vars
  BY <1>0, <1>17 DEF vars, handleVars, stopVars, walkVars, TypeOK
<1>18. CASE Progress
  <2>1. \A n \in Nodes : Kids(n) \subseteq Nodes
    BY DEF Kids
  <2>. QED  BY <1>18, <1>3, <1>8, <1>9, <1>10, <1>11, <1>12, <1>13, <1>15, <1>16
            DEF Progress
<1>19. CASE Request
  BY <1>19, <1>1, <1>2, <1>4, <1>5, <1>6, <1>7, <1>14 DEF Request
<1>. QED  BY <1>17, <1>18, <1>19 DEF Next

-----------------------------------------------------------------------------
(* Each action preserves the rest of the inductive invariant               *)

\* The part of IInv beside the types.
Core == /\ Root \in dtDevs /\ FramesAlive /\ RecordsAlive /\ RemovingHeld
        /\ FramesOwned /\ ConnectHeld /\ Recorded

\* A driver that starts takes nothing away: handles stay, new handles are
\* children of the started node with a record, and only that node gets an owner.
LEMMA ConnectSingleEffect ==
  ASSUME TypeOK, NEW n \in Nodes, NEW rem, ConnectSingle(n, rem)
  PROVE  /\ dtDevs \subseteq dtDevs' /\ lost' = lost
         /\ \A k \in dtDevs' \ dtDevs : k \in Kids(n) /\ childOf'[k] # NoAgent
         /\ \A k \in Nodes : k \in dtDevs' \ dtDevs \/ childOf'[k] = childOf[k]
         /\ \A k \in Nodes : k = n \/ owner'[k] = owner[k]
         /\ owner[n] # NoAgent => owner'[n] # NoAgent
<1>0. TypeOK  OBVIOUS
<1>1. ASSUME NEW agent \in Agents, NEW r, Scan(n, agent, r)
      PROVE  /\ dtDevs \subseteq dtDevs'
             /\ \A k \in dtDevs' \ dtDevs : k \in Kids(n) /\ childOf'[k] # NoAgent
             /\ \A k \in Nodes : k \in dtDevs' \ dtDevs \/ childOf'[k] = childOf[k]
  <2>1. PICK made \in SUBSET Missing(n, r) :
          /\ dtDevs' = dtDevs \cup made
          /\ childOf' = [k \in Nodes |-> IF k \in made THEN agent ELSE childOf[k]]
    BY <1>1 DEF Scan, Record
  <2>2. \A k \in made : k \in Kids(n) /\ k \in Nodes /\ k \notin dtDevs
    BY DEF Missing, Kids
  <2>3. agent # NoAgent
    BY DEF Agents, NoAgent
  <2>. QED  BY <2>1, <2>2, <2>3
<1>2. CASE FdtBusStart(n, rem)
  <2>1. Scan(n, "FdtBus", rem) /\ "FdtBus" \in Agents /\ "FdtBus" # NoAgent
    BY <1>2 DEF FdtBusStart, Agents, NoAgent
  <2>2. owner' = [owner EXCEPT ![n] = "FdtBus"] /\ lost' = lost
    BY <1>2 DEF FdtBusStart
  <2>. QED  BY <1>0, <1>1, <2>1, <2>2 DEF TypeOK
<1>3. CASE SampleBusStart(n, rem)
  <2>1. "SampleBus" \in Agents /\ "SampleBus" # NoAgent
    BY DEF Agents, NoAgent
  <2>2. /\ owner' = owner \/ owner' = [owner EXCEPT ![n] = "SampleBus"]
        /\ lost' = lost
    BY <1>3 DEF SampleBusStart
  <2>3. CASE rem = End \/ callbacks[n]
    BY <1>0, <1>3, <2>1, <2>2, <2>3 DEF SampleBusStart, NoScan, TypeOK
  <2>4. CASE ~(rem = End \/ callbacks[n])
    <3>1. Scan(n, "SampleBus", All)
      BY <1>3, <2>4 DEF SampleBusStart
    <3>. QED  BY <1>0, <1>1, <2>1, <2>2, <3>1 DEF TypeOK
  <2>. QED  BY <2>3, <2>4
<1>4. CASE DeviceStart(n)
  BY <1>0, <1>4 DEF DeviceStart, NoScan, TypeOK, Agents, NoAgent
<1>5. CASE NothingStarts(n)
  BY <1>0, <1>5 DEF NothingStarts, handleVars, TypeOK
<1>. QED  BY <1>2, <1>3, <1>4, <1>5 DEF ConnectSingle

\* A driver starting on a node that no Stop is about to report as stopped
\* keeps the handle database well formed.
LEMMA ConnectPreserves ==
  ASSUME IInv, TypeOK', NEW n \in dtDevs, NEW rem, ConnectSingle(n, rem),
         UNCHANGED stopVars, phase[n] # "stopped",
         \A k \in conn' : k \in dtDevs' /\ (k \in removing => phase[k] = "reconnect")
  PROVE  Core'
<1>0. IInv /\ TypeOK /\ TypeOK' /\ n \in Nodes /\ UNCHANGED <<phase, removing>>
  BY DEF IInv, TypeOK, stopVars
<1>1. /\ dtDevs \subseteq dtDevs' /\ lost' = lost
      /\ \A k \in dtDevs' \ dtDevs : k \in Kids(n) /\ childOf'[k] # NoAgent
      /\ \A k \in Nodes : k \in dtDevs' \ dtDevs \/ childOf'[k] = childOf[k]
      /\ \A k \in Nodes : k = n \/ owner'[k] = owner[k]
      /\ owner[n] # NoAgent => owner'[n] # NoAgent
  BY <1>0, ConnectSingleEffect
<1>2. FramesAlive'
  BY <1>0, <1>1 DEF IInv, FramesAlive, TypeOK
<1>3. RecordsAlive'
  BY <1>0, <1>1 DEF IInv, RecordsAlive, Kids, TypeOK
<1>4. RemovingHeld'
  <2>1. \A c \in removing : c \in dtDevs /\ c \in Nodes
    BY <1>0 DEF IInv, FramesAlive, TypeOK
  <2>. QED  BY <1>0, <1>1, <2>1 DEF IInv, RemovingHeld, Stopping
<1>5. FramesOwned'
  BY <1>0, <1>1 DEF IInv, FramesOwned, Stopping
<1>6. ConnectHeld'
  BY <1>0 DEF ConnectHeld
<1>7. Recorded'
  BY <1>0, <1>1 DEF IInv, Recorded, TypeOK
<1>. QED  BY <1>0, <1>1, <1>2, <1>3, <1>4, <1>5, <1>6, <1>7 DEF Core, IInv

\* DisconnectController, whole or for one child, only opens a frame on a node
\* that has a driver.
LEMMA DisconnectPreserves ==
  ASSUME IInv, NEW n \in dtDevs, owner[n] # NoAgent, removing = {}, conn = {},
         NEW how \in {"stop", "stopOne"}, phase' = [phase EXCEPT ![n] = how],
         UNCHANGED <<handleVars, conn, removing>>
  PROVE  Core'
<1>0. IInv /\ TypeOK /\ n \in Nodes
  BY DEF IInv, TypeOK
<1>1. \A k \in Nodes : phase'[k] = IF k = n THEN how ELSE phase[k]
  BY <1>0 DEF TypeOK
<1>. QED  BY <1>0, <1>1 DEF IInv, Core, FramesAlive, RecordsAlive, RemovingHeld,
          FramesOwned, ConnectHeld, Recorded, Stopping, handleVars

\* DtDeviceRemove trades the record of the child for the frame of its parent.
LEMMA RemoveChildPreserves ==
  ASSUME IInv, NEW n \in Nodes, NEW c \in Kids(n), RemoveChild(n, c)
  PROVE  Core'
<1>0. IInv /\ TypeOK /\ c \in Nodes \ {Root} /\ Parent[c] = n
  BY DEF IInv, Kids
<1>1. /\ Stopping(n) /\ Kids(n) \cap removing = {} /\ conn = {} /\ conn' = {}
      /\ UNCHANGED <<dtDevs, owner, lost>>
  BY DEF RemoveChild, BelowIdle
<1>2. n \in dtDevs /\ owner[n] # NoAgent
  BY <1>0, <1>1 DEF IInv, FramesAlive, FramesOwned, Stopping
<1>3. CASE ~Removable(n, c)
  <2>1. UNCHANGED <<childOf, phase, removing>>
    BY <1>3 DEF RemoveChild
  <2>. QED  BY <1>0, <1>1, <2>1 DEF IInv, Core, FramesAlive, RecordsAlive, RemovingHeld,
            FramesOwned, ConnectHeld, Recorded, Stopping
<1>4. CASE Removable(n, c)
  <2>1. /\ childOf' = [childOf EXCEPT ![c] = NoAgent]
        /\ removing' = removing \cup {c}
        /\ \/ owner[c] = NoAgent /\ phase' = [phase EXCEPT ![c] = "stopped"]
           \/ owner[c] # NoAgent /\ phase' = [phase EXCEPT ![c] = "stop"]
    BY <1>4 DEF RemoveChild, BeginStop
  <2>2. c \in dtDevs
    BY <1>0, <1>2, <1>4 DEF IInv, RecordsAlive, Removable
  <2>3. c # n
    BY <1>0, NodesAssumption
  <2>4. \A k \in Nodes : k # c => phase'[k] = phase[k] /\ childOf'[k] = childOf[k]
    BY <1>0, <2>1 DEF TypeOK
  <2>5. /\ childOf'[c] = NoAgent
        /\ phase'[c] = IF owner[c] = NoAgent THEN "stopped" ELSE "stop"
    BY <1>0, <2>1 DEF TypeOK
  <2>6. Root \in dtDevs' /\ FramesAlive' /\ RecordsAlive' /\ Recorded'
    BY <1>0, <1>1, <2>1, <2>2, <2>4, <2>5
       DEF IInv, FramesAlive, RecordsAlive, Recorded, TypeOK
  <2>7. FramesOwned'
    BY <1>0, <1>1, <2>1, <2>4, <2>5 DEF IInv, FramesOwned, Stopping
  <2>8. RemovingHeld'
    <3>1. SUFFICES ASSUME NEW k \in removing'
                   PROVE  /\ k # Root /\ childOf'[k] = NoAgent
                          /\ Parent[k] \in dtDevs /\ Stopping(Parent[k])'
      BY <1>1 DEF RemovingHeld
    <3>2. CASE k = c
      BY <1>0, <1>1, <1>2, <2>3, <2>4, <2>5, <3>2 DEF Stopping
    <3>3. CASE k # c
      <4>1. /\ k \in removing /\ k \in Nodes \ {Root} /\ childOf[k] = NoAgent
            /\ Parent[k] \in dtDevs /\ Stopping(Parent[k]) /\ Parent[k] \in Nodes
        BY <1>0, <2>1, <3>3, NodesAssumption DEF IInv, RemovingHeld, TypeOK
      <4>2. CASE Parent[k] = c
        \* A node that is being stopped has a driver.
        <5>1. owner[c] # NoAgent
          BY <1>0, <4>1, <4>2 DEF IInv, FramesOwned
        <5>. QED  BY <2>4, <2>5, <3>3, <4>1, <4>2, <5>1 DEF Stopping
      <4>3. CASE Parent[k] # c
        BY <2>4, <3>3, <4>1, <4>3 DEF Stopping
      <4>. QED  BY <4>2, <4>3
    <3>. QED  BY <3>2, <3>3
  <2>9. ConnectHeld'
    BY <1>1 DEF ConnectHeld
  <2>. QED  BY <2>6, <2>7, <2>8, <2>9 DEF Core
<1>. QED  BY <1>3, <1>4

\* The end of a Stop, with or without the driver, when no child is in the
\* middle of its removal.
LEMMA StopPreserves ==
  ASSUME IInv, NEW n \in Nodes, StopKeepsDriver(n) \/ StopDriver(n)
  PROVE  Core'
<1>0. IInv /\ TypeOK
  BY DEF IInv
<1>1. /\ Stopping(n) /\ Kids(n) \cap removing = {} /\ conn = {} /\ conn' = {}
      /\ UNCHANGED <<dtDevs, childOf, lost, removing>>
      /\ \/ Outcome(n, "refused") /\ owner' = owner
         \/ Outcome(n, "stopped") /\ owner' = [owner EXCEPT ![n] = NoAgent]
  BY DEF StopKeepsDriver, StopDriver, BelowIdle, handleVars, AllStopped, Stopping
<1>2. /\ n \in removing => phase'[n] \in {"refused", "stopped"}
      /\ n \notin removing => phase'[n] = "idle"
      /\ phase'[n] = "stopped" => owner'[n] = NoAgent
      /\ \A k \in Nodes : k # n => phase'[k] = phase[k] /\ owner'[k] = owner[k]
      /\ \A k \in Nodes : owner'[k] # NoAgent => owner[k] # NoAgent
  BY <1>0, <1>1 DEF Outcome, TypeOK
<1>3. Root \in dtDevs' /\ FramesAlive' /\ RecordsAlive' /\ Recorded' /\ ConnectHeld'
  BY <1>0, <1>1, <1>2 DEF IInv, FramesAlive, RecordsAlive, Recorded, ConnectHeld, Stopping
<1>4. FramesOwned'
  BY <1>0, <1>1, <1>2 DEF IInv, FramesOwned, Stopping
<1>5. RemovingHeld'
  <2>1. \A k \in removing : k \in Nodes \ {Root} /\ Parent[k] \in Nodes /\ Parent[k] # n
    BY <1>0, <1>1, NodesAssumption DEF IInv, RemovingHeld, TypeOK, Kids
  <2>. QED  BY <1>0, <1>1, <1>2, <2>1 DEF IInv, RemovingHeld, Stopping
<1>. QED  BY <1>3, <1>4, <1>5 DEF Core

\* The device that is freed has no record, no driver and no recorded child.
LEMMA RemoveDonePreserves ==
  ASSUME IInv, NEW c \in Nodes, RemoveDone(c)
  PROVE  Core'
<1>0. /\ IInv /\ TypeOK /\ c \in removing /\ c # Root /\ phase[c] = "stopped"
      /\ Listed(c) = {} /\ conn = {} /\ conn' = {}
      /\ dtDevs' = dtDevs \ {c} /\ lost' = lost \ {c} /\ removing' = removing \ {c}
      /\ UNCHANGED <<owner, childOf>>
  BY DEF IInv, RemovingHeld, RemoveDone, RemoveReturns
<1>1. \A k \in Nodes : phase'[k] = IF k = c THEN "idle" ELSE phase[k]
  BY <1>0 DEF RemoveDone, RemoveReturns, TypeOK
<1>2. owner[c] = NoAgent /\ childOf[c] = NoAgent
  BY <1>0 DEF IInv, FramesOwned, RemovingHeld
<1>3. \A k \in Nodes \ {Root} : Parent[k] = c => childOf[k] = NoAgent
  BY <1>0 DEF Listed, Kids
<1>4. \A k \in removing : /\ k \in Nodes /\ k # Root /\ Parent[k] \in Nodes
                          /\ Parent[k] # c
  BY <1>0, NodesAssumption DEF IInv, RemovingHeld, Stopping, TypeOK
<1>5. Root \in dtDevs' /\ FramesAlive' /\ RecordsAlive'
  BY <1>0, <1>1, <1>2, <1>3 DEF IInv, FramesAlive, RecordsAlive
<1>6. RemovingHeld' /\ FramesOwned' /\ ConnectHeld' /\ Recorded'
  BY <1>0, <1>1, <1>2, <1>4
     DEF IInv, RemovingHeld, FramesOwned, ConnectHeld, Recorded, Stopping, TypeOK
<1>. QED  BY <1>5, <1>6 DEF Core

\* The failed uninstall reconnects the handle it could not take away.
LEMMA ReconnectPreserves ==
  ASSUME IInv, NEW c \in Nodes, Reconnect(c)
  PROVE  Core'
<1>0. /\ IInv /\ TypeOK /\ c \in removing /\ phase[c] \in {"refused", "stopped"}
      /\ conn' = {c} /\ UNCHANGED <<dtDevs, owner, childOf, lost, removing>>
  BY DEF IInv, Reconnect, handleVars
<1>1. \A k \in Nodes : phase'[k] = IF k = c THEN "reconnect" ELSE phase[k]
  BY <1>0 DEF Reconnect, TypeOK
<1>2. \A k \in removing : k \in Nodes /\ Parent[k] \in Nodes /\ Parent[k] # c
  BY <1>0, NodesAssumption DEF IInv, RemovingHeld, Stopping, TypeOK
<1>3. Root \in dtDevs' /\ FramesAlive' /\ RecordsAlive' /\ Recorded'
  BY <1>0, <1>1 DEF IInv, FramesAlive, RecordsAlive, Recorded
<1>4. RemovingHeld' /\ FramesOwned' /\ ConnectHeld'
  BY <1>0, <1>1, <1>2 DEF IInv, RemovingHeld, FramesOwned, ConnectHeld, Stopping
<1>. QED  BY <1>3, <1>4 DEF Core

\* DtDeviceUnregister restores the record, or the device counts as lost.
LEMMA RemoveFailedPreserves ==
  ASSUME IInv, NEW c \in Nodes, RemoveFailed(c)
  PROVE  Core'
<1>0. /\ IInv /\ TypeOK /\ c \in removing /\ phase[c] = "reconnect"
      /\ conn = {} /\ conn' = {} /\ removing' = removing \ {c}
      /\ UNCHANGED <<dtDevs, owner>>
  BY DEF IInv, RemoveFailed, RemoveReturns
<1>1. \A k \in Nodes : phase'[k] = IF k = c THEN "idle" ELSE phase[k]
  BY <1>0 DEF RemoveFailed, RemoveReturns, TypeOK
<1>2. /\ c # Root /\ c \in dtDevs /\ Parent[c] \in dtDevs
      /\ Parent[c] \in Nodes /\ owner[Parent[c]] # NoAgent
  BY <1>0, NodesAssumption DEF IInv, RemovingHeld, FramesOwned, FramesAlive
<1>3. \/ childOf' = [childOf EXCEPT ![c] = owner[Parent[c]]] /\ lost' = lost
      \/ lost' = lost \cup {c} /\ childOf' = childOf
  BY DEF RemoveFailed, Reopen
<1>4. \A k \in Nodes : k # c => childOf'[k] = childOf[k]
  BY <1>0, <1>3 DEF TypeOK
<1>5. childOf'[c] # NoAgent \/ c \in lost'
  BY <1>0, <1>2, <1>3 DEF TypeOK
<1>6. \A k \in removing : /\ k \in Nodes /\ k # Root /\ Parent[k] \in Nodes
                          /\ Parent[k] # c
  BY <1>0, NodesAssumption DEF IInv, RemovingHeld, Stopping, TypeOK
<1>7. Root \in dtDevs' /\ FramesAlive' /\ RecordsAlive' /\ FramesOwned' /\ ConnectHeld'
  BY <1>0, <1>1, <1>2, <1>4
     DEF IInv, FramesAlive, RecordsAlive, FramesOwned, ConnectHeld, Stopping
<1>8. RemovingHeld'
  BY <1>0, <1>1, <1>4, <1>6 DEF IInv, RemovingHeld, Stopping, TypeOK
<1>9. Recorded'
  <2>1. lost \subseteq lost'
    BY <1>3
  <2>. QED  BY <1>0, <1>4, <1>5, <2>1 DEF IInv, Recorded, TypeOK
<1>. QED  BY <1>7, <1>8, <1>9 DEF Core

\* What only moves the walker, the mappings or the list of handles to connect.
LEMMA OtherPreserves ==
  ASSUME IInv, UNCHANGED <<dtDevs, owner, childOf, lost, phase, removing>>,
         \A k \in conn' : k \in dtDevs /\ (k \in removing => phase[k] = "reconnect")
  PROVE  Core'
BY DEF IInv, Core, FramesAlive, RecordsAlive, RemovingHeld, FramesOwned, ConnectHeld,
       Recorded, Stopping

-----------------------------------------------------------------------------
(* The theorems                                                            *)

\* Right after CreateRootHandle there is one device, no driver and no call.
LEMMA InitInv == Init => IInv
<1>. SUFFICES ASSUME Init PROVE IInv
  OBVIOUS
<1>1. TypeOK
  <2>1. gCriticalDevices \in Seq(Nodes)
    BY NodesAssumption DEF Init
  <2>2. 0 \in 0..MaxMaps
    BY FaultsAssumption
  <2>. QED  BY <2>1, <2>2, NodesAssumption DEF Init, TypeOK, Phases
<1>2. Root \in dtDevs /\ FramesAlive /\ RecordsAlive /\ RemovingHeld /\ FramesOwned
  BY DEF Init, FramesAlive, RecordsAlive, RemovingHeld, FramesOwned, Stopping
<1>3. ConnectHeld /\ Recorded
  BY DEF Init, ConnectHeld, Recorded
<1>4. WalkHeld /\ CriticalListExact
  BY NodesAssumption DEF Init, WalkHeld, CriticalListExact, IsInjective, ToSet
<1>. QED  BY <1>1, <1>2, <1>3, <1>4 DEF IInv

\* The critical list follows the devices that come and go, and no teardown
\* overlaps its walk.
LEMMA CriticalStep == IInv /\ [Next]_vars => WalkHeld' /\ CriticalListExact'
<1>. SUFFICES ASSUME IInv, [Next]_vars PROVE WalkHeld' /\ CriticalListExact'
  OBVIOUS
<1>0. /\ TypeOK /\ WalkHeld /\ CriticalListExact /\ RemovingHeld /\ FramesOwned
  BY DEF IInv
<1>1. ASSUME UNCHANGED <<dtDevs, gCriticalDevices>> PROVE CriticalListExact'
  BY <1>0, <1>1 DEF CriticalListExact
<1>2. ASSUME UNCHANGED <<phase, removing, endOfDxe>> PROVE WalkHeld'
  BY <1>0, <1>2 DEF WalkHeld
<1>3. ASSUME NEW n \in Nodes, NEW rem, ConnectSingle(n, rem) PROVE CriticalListExact'
  <2>1. ASSUME NEW agent, NEW r, Scan(n, agent, r) PROVE CriticalListExact'
    <3>1. PICK made \in SUBSET Missing(n, r) :
            /\ dtDevs' = dtDevs \cup made
            /\ \E order \in TreeOrder(made \cap Critical) :
                 gCriticalDevices' = gCriticalDevices \o order
      BY <2>1 DEF Scan
    <3>2. PICK order \in TreeOrder(made \cap Critical) :
            gCriticalDevices' = gCriticalDevices \o order
      BY <3>1
    <3>3. made \cap Critical \subseteq Nodes /\ made \cap dtDevs = {}
      BY DEF Missing, Kids
    <3>4. /\ gCriticalDevices \in Seq(Nodes) /\ IsInjective(gCriticalDevices)
          /\ ToSet(gCriticalDevices) = dtDevs \cap Critical
      BY <1>0 DEF TypeOK, CriticalListExact
    <3>5. (made \cap Critical) \cap ToSet(gCriticalDevices) = {}
      BY <3>3, <3>4
    <3>6. /\ IsInjective(gCriticalDevices')
          /\ ToSet(gCriticalDevices') = (dtDevs \cap Critical) \cup (made \cap Critical)
      BY <3>2, <3>3, <3>4, <3>5, AppendExact
    <3>. QED  BY <3>1, <3>6 DEF CriticalListExact
  <2>. QED  BY <1>1, <1>3, <2>1 DEF ConnectSingle, FdtBusStart, SampleBusStart, NoScan,
            DeviceStart, NothingStarts, handleVars
<1>4. ASSUME NEW n \in Nodes, ConnectAll(n) \/ Map(n) \/ Unmap(n)
      PROVE  WalkHeld' /\ CriticalListExact'
  BY <1>1, <1>2, <1>4 DEF ConnectAll, Map, Unmap, handleVars, stopVars, walkVars
<1>5. ASSUME NEW n \in Nodes, NEW rem, ConnectPath(n, rem)
      PROVE  WalkHeld' /\ CriticalListExact'
  BY <1>2, <1>3, <1>5 DEF ConnectPath, stopVars, walkVars
<1>6. ASSUME NEW n \in Nodes, ConnectStep(n) PROVE WalkHeld' /\ CriticalListExact'
  BY <1>2, <1>3, <1>6 DEF ConnectStep, stopVars, walkVars
<1>7. ASSUME NEW n \in Nodes, Disconnect(n) \/ \E c \in Kids(n) : DisconnectChild(n, c)
      PROVE  WalkHeld' /\ CriticalListExact'
  BY <1>1, <1>7 DEF Disconnect, DisconnectChild, Quiet, WalkHeld, handleVars, walkVars
<1>8. ASSUME NEW n \in Nodes, NEW c \in Kids(n), RemoveChild(n, c)
      PROVE  WalkHeld' /\ CriticalListExact'
  BY <1>0, <1>1, <1>8 DEF RemoveChild, Stopping, WalkHeld, walkVars
<1>9. ASSUME NEW n \in Nodes, StopKeepsDriver(n) \/ StopDriver(n)
      PROVE  WalkHeld' /\ CriticalListExact'
  BY <1>0, <1>1, <1>9
     DEF StopKeepsDriver, StopDriver, AllStopped, Stopping, WalkHeld, handleVars, walkVars
<1>10. ASSUME NEW c \in Nodes, RemoveDone(c) PROVE WalkHeld' /\ CriticalListExact'
  <2>1. WalkHeld'
    BY <1>0, <1>10 DEF RemoveDone, WalkHeld, walkVars
  <2>2. /\ dtDevs' = dtDevs \ {c} /\ Unlink(c)
        /\ gCriticalDevices \in Seq(Nodes) /\ IsInjective(gCriticalDevices)
        /\ ToSet(gCriticalDevices) = dtDevs \cap Critical
    BY <1>0, <1>10 DEF RemoveDone, TypeOK, CriticalListExact
  <2>3. CASE c \in Critical
    <3>1. PICK i \in DOMAIN gCriticalDevices :
            /\ gCriticalDevices[i] = c
            /\ gCriticalDevices' = RemoveAt(gCriticalDevices, i)
      BY <2>2, <2>3 DEF Unlink
    <3>2. /\ IsInjective(gCriticalDevices')
          /\ ToSet(gCriticalDevices') = ToSet(gCriticalDevices) \ {c}
      BY <2>2, <3>1, RemoveAtExact
    <3>. QED  BY <2>1, <2>2, <3>2 DEF CriticalListExact
  <2>4. CASE c \notin Critical
    BY <2>1, <2>2, <2>4 DEF Unlink, CriticalListExact
  <2>. QED  BY <2>3, <2>4
<1>11. ASSUME NEW c \in Nodes, Reconnect(c) \/ RemoveFailed(c)
       PROVE  WalkHeld' /\ CriticalListExact'
  BY <1>0, <1>1, <1>11 DEF Reconnect, RemoveFailed, WalkHeld, handleVars, walkVars
<1>12. CASE SignalEndOfDxe
  BY <1>1, <1>12
     DEF SignalEndOfDxe, Quiet, Unwinding, WalkHeld, handleVars, stopVars
<1>13. CASE WalkCritical
  BY <1>1, <1>2, <1>13 DEF WalkCritical, handleVars, stopVars
<1>14. CASE WalkDone
  BY <1>1, <1>14 DEF WalkDone, WalkHeld, handleVars, stopVars
<1>15. CASE UNCHANGED vars
  BY <1>1, <1>2, <1>15 DEF vars, handleVars, stopVars, walkVars
<1>16. CASE Progress
  BY <1>6, <1>8, <1>9, <1>10, <1>11, <1>13, <1>14, <1>16 DEF Progress
<1>17. CASE Request
  BY <1>4, <1>5, <1>7, <1>12, <1>17 DEF Request
<1>. QED  BY <1>15, <1>16, <1>17 DEF Next

\* Every action of the model preserves the inductive invariant.
LEMMA StepInv == IInv /\ [Next]_vars => IInv'
<1>. SUFFICES ASSUME IInv, [Next]_vars PROVE Core'
  BY TypingStep, CriticalStep DEF IInv, Core
<1>0. /\ IInv /\ TypeOK /\ TypeOK' /\ \A n \in conn : n \in dtDevs /\ n \in Nodes
      /\ \A n \in conn \cap removing : phase[n] = "reconnect"
  BY TypingStep DEF IInv, FramesAlive, ConnectHeld, TypeOK
<1>1. ASSUME NEW n \in Nodes, ConnectAll(n) PROVE Core'
  BY <1>0, <1>1, OtherPreserves
     DEF ConnectAll, Quiet, Unwinding, handleVars, stopVars
<1>2. ASSUME NEW n \in Nodes, NEW rem, ConnectPath(n, rem) PROVE Core'
  <2>1. /\ n \in dtDevs /\ ConnectSingle(n, rem) /\ UNCHANGED stopVars
        /\ phase[n] # "stopped" /\ conn' = {}
    BY <1>0, <1>2 DEF ConnectPath, Quiet, Unwinding
  <2>. QED  BY <1>0, <2>1, ConnectPreserves
<1>3. ASSUME NEW n \in Nodes, ConnectStep(n) PROVE Core'
  <2>1. /\ n \in conn /\ ConnectSingle(n, All) /\ UNCHANGED stopVars
        /\ conn' = (conn \ {n}) \cup Listed(n)'
    BY <1>3 DEF ConnectStep
  <2>2. n \in dtDevs /\ phase[n] # "stopped"
    BY <1>0, <2>1 DEF IInv, FramesOwned
  <2>3. /\ dtDevs \subseteq dtDevs'
        /\ \A k \in Nodes : k \in dtDevs' \ dtDevs \/ childOf'[k] = childOf[k]
    BY <1>0, <2>1, ConnectSingleEffect
  <2>4. ASSUME NEW k \in Listed(n)'
        PROVE  k \in dtDevs' /\ k \notin removing
    <3>1. k \in Nodes /\ childOf'[k] # NoAgent
      BY <2>4 DEF Listed, Kids
    <3>. QED  BY <1>0, <2>3, <3>1 DEF IInv, RecordsAlive, RemovingHeld, FramesAlive
  <2>5. \A k \in conn' : k \in dtDevs' /\ (k \in removing => phase[k] = "reconnect")
    BY <1>0, <2>1, <2>3, <2>4
  <2>. QED  BY <1>0, <2>1, <2>2, <2>5, ConnectPreserves
<1>4. ASSUME NEW n \in Nodes, Map(n) \/ Unmap(n) PROVE Core'
  BY <1>0, <1>4, OtherPreserves DEF Map, Unmap, stopVars
<1>5. ASSUME NEW n \in Nodes, Disconnect(n) PROVE Core'
  <2>1. /\ n \in dtDevs /\ owner[n] # NoAgent /\ removing = {} /\ conn = {}
        /\ phase' = [phase EXCEPT ![n] = "stop"] /\ UNCHANGED <<handleVars, conn, removing>>
    BY <1>5 DEF Disconnect, Quiet, Unwinding, BeginStop
  <2>. QED  BY <1>0, <2>1, DisconnectPreserves
<1>6. ASSUME NEW n \in Nodes, NEW c \in Kids(n), DisconnectChild(n, c) PROVE Core'
  <2>1. PICK how \in {"stop", "stopOne"} :
          /\ n \in dtDevs /\ owner[n] # NoAgent /\ removing = {} /\ conn = {}
          /\ phase' = [phase EXCEPT ![n] = how] /\ UNCHANGED <<handleVars, conn, removing>>
    BY <1>6 DEF DisconnectChild, Quiet, Unwinding, BeginStop
  <2>. QED  BY <1>0, <2>1, DisconnectPreserves
<1>7. CASE SignalEndOfDxe
  BY <1>0, <1>7, OtherPreserves DEF SignalEndOfDxe, handleVars, stopVars
<1>8. CASE WalkCritical
  <2>1. /\ removing = {} /\ conn' \subseteq {link} /\ link \in ToSet(gCriticalDevices)
        /\ UNCHANGED <<handleVars, stopVars>>
    BY <1>0, <1>8 DEF IInv, WalkHeld, WalkCritical, ToSet
  <2>2. link \in dtDevs
    BY <1>0, <2>1 DEF IInv, CriticalListExact
  <2>. QED  BY <1>0, <2>1, <2>2, OtherPreserves DEF handleVars, stopVars
<1>9. CASE WalkDone
  BY <1>0, <1>9, OtherPreserves DEF WalkDone, handleVars, stopVars
<1>10. CASE UNCHANGED vars
  BY <1>0, <1>10, OtherPreserves DEF vars, handleVars, stopVars
<1>11. CASE Progress
  BY <1>0, <1>11, <1>3, <1>8, <1>9, RemoveChildPreserves, StopPreserves,
     RemoveDonePreserves, ReconnectPreserves, RemoveFailedPreserves DEF Progress
<1>12. CASE Request
  BY <1>12, <1>1, <1>2, <1>4, <1>5, <1>6, <1>7 DEF Request
<1>. QED  BY <1>10, <1>11, <1>12 DEF Next

\* Hence it holds in every reachable state, for every tree and fault set.
LEMMA Invariance == Spec => []IInv
<1>. QED  BY InitInv, StepInv, PTL DEF Spec

\* The handle database, the frames and the walker keep their types, whatever
\* boot service calls are made and whichever of them fail.
THEOREM TypeCorrect == Spec => []TypeOK
<1>1. IInv => TypeOK
  BY DEF IInv
<1>. QED  BY <1>1, Invariance, PTL

\* In every tree, no DT_DEVICE outlives the parent its Parent pointer names, as
\* long as its BY_CHILD record was not lost to a failing reopen.
THEOREM NoDanglingParent == Spec => []ParentAlive
<1>1. IInv => ParentAlive
  BY DEF IInv, ParentAlive, Recorded, RecordsAlive, RemovingHeld, TypeOK
<1>. QED  BY <1>1, Invariance, PTL

\* gCriticalDevices never links a freed device, nor one twice, and misses none.
THEOREM CriticalListCorrect == Spec => []CriticalListExact
<1>1. IInv => CriticalListExact
  BY DEF IInv
<1>. QED  BY <1>1, Invariance, PTL

\* After every teardown, also a refused one, each surviving child is recorded.
THEOREM TeardownRestores == Spec => []RecordsRestored
<1>1. IInv => RecordsRestored
  BY DEF IInv, RecordsRestored, Recorded, Quiet, Unwinding
<1>. QED  BY <1>1, Invariance, PTL
-----------------------------------------------------------------------------
(* Critical devices have a driver after OnEndOfDxe                         *)

\* The devices on the critical list that the walker has behind it, given where
\* link is.
Passed(i) ==
  link = End \/ \E j \in DOMAIN gCriticalDevices : i < j /\ gCriticalDevices[j] = link

\* Has a driver, or gets one from the recursive connect in progress.
Connecting(c) == DriverOf[c] = NoAgent \/ owner[c] # NoAgent \/ c \in conn

\* While the list is walked, link is on it, and what is behind is being connected.
WalkConnects ==
  endOfDxe = "walking" =>
    /\ link = End \/ link \in ToSet(gCriticalDevices)
    /\ \A i \in DOMAIN gCriticalDevices : Passed(i) => Connecting(gCriticalDevices[i])

\* No driver of a critical device fails in its Start.
CriticalStart ==
  "start" \notin Faults /\ \A c \in Critical : ~(DriverOf[c] = "SampleBus" /\ c \in TreeError)

\* A connect appends to the critical list, and the devices it appends are
\* children on record of the node it connects.
LEMMA ConnectAppends ==
  ASSUME IInv, NEW n \in Nodes, ConnectSingle(n, All)
  PROVE  /\ gCriticalDevices' \in Seq(Nodes)
         /\ \A i \in DOMAIN gCriticalDevices :
              i \in DOMAIN gCriticalDevices' /\ gCriticalDevices'[i] = gCriticalDevices[i]
         /\ \A i \in DOMAIN gCriticalDevices' :
              i \in DOMAIN gCriticalDevices \/ gCriticalDevices'[i] \in Listed(n)'
<1>. DEFINE s == gCriticalDevices
            Appended == /\ s' \in Seq(Nodes)
                        /\ \A i \in DOMAIN s : i \in DOMAIN s' /\ s'[i] = s[i]
                        /\ \A i \in DOMAIN s' : i \in DOMAIN s \/ s'[i] \in Listed(n)'
<1>0. TypeOK /\ s \in Seq(Nodes) /\ \A k \in Nodes : k \in dtDevs' \ dtDevs => k \in Listed(n)'
  <2>1. TypeOK
    BY DEF IInv
  <2>2. \A k \in dtDevs' \ dtDevs : k \in Kids(n) /\ childOf'[k] # NoAgent
    BY <2>1, ConnectSingleEffect
  <2>. QED  BY <2>1, <2>2 DEF TypeOK, Listed
<1>1. ASSUME NEW agent, Scan(n, agent, All) PROVE Appended
  <2>1. PICK made \in SUBSET Missing(n, All) :
          /\ dtDevs' = dtDevs \cup made
          /\ \E order \in TreeOrder(made \cap Critical) : s' = s \o order
    BY <1>1 DEF Scan
  <2>2. PICK order \in TreeOrder(made \cap Critical) : s' = s \o order
    BY <2>1
  <2>3. made \subseteq Nodes /\ \A k \in made : k \in dtDevs' \ dtDevs
    BY <2>1 DEF Missing, Kids
  <2>4. order \in Seq(Nodes) /\ ToSet(order) = made \cap Critical
    BY <2>3, TreeOrderSeq
  <2>5. /\ Len(s) \in Nat /\ DOMAIN s = 1..Len(s)
        /\ Len(order) \in Nat /\ DOMAIN order = 1..Len(order)
        /\ s \o order \in Seq(Nodes) /\ DOMAIN (s \o order) = 1..(Len(s) + Len(order))
        /\ \A i \in 1..(Len(s) + Len(order)) :
              (s \o order)[i] = IF i <= Len(s) THEN s[i] ELSE order[i - Len(s)]
    BY <1>0, <2>4, ConcatProperties, LenProperties
  <2>6. \A i \in 1..Len(order) : order[i] \in made
    BY <2>4, <2>5 DEF ToSet
  <2>7. \A k \in made : k \in Listed(n)'
    BY <1>0, <2>3
  <2>. HIDE DEF s
  <2>8. \A i \in 1..(Len(s) + Len(order)) : i \in 1..Len(s) \/ (i - Len(s)) \in 1..Len(order)
    BY <2>5
  <2>. QED  BY <2>2, <2>5, <2>6, <2>7, <2>8
<1>2. ASSUME s' = s PROVE Appended
  BY <1>0, <1>2
<1>. HIDE DEF Appended
<1>3. Appended
  BY <1>1, <1>2 DEF ConnectSingle, FdtBusStart, SampleBusStart, NoScan, DeviceStart,
     NothingStarts, handleVars
<1>. QED  BY <1>3 DEF Appended

\* One handle of the connect that OnEndOfDxe asked for: its driver starts, and
\* the critical devices it creates are visited next.
LEMMA ConnectStepWalks ==
  ASSUME CriticalStart, IInv, IInv', WalkConnects, NEW n \in Nodes, ConnectStep(n)
  PROVE  WalkConnects'
<1>. DEFINE s == gCriticalDevices
<1>1. SUFFICES ASSUME endOfDxe = "walking"
      PROVE  /\ link = End \/ link \in ToSet(s')
             /\ \A i \in DOMAIN s' : Passed(i)' => Connecting(s[i])'
  BY DEF WalkConnects, ConnectStep, walkVars
<1>2. /\ n \in conn /\ ConnectSingle(n, All) /\ conn' = (conn \ {n}) \cup Listed(n)'
      /\ link' = link /\ (link = End \/ link \in ToSet(s))
      /\ \A i \in DOMAIN s : Passed(i) => Connecting(s[i])
  BY <1>1 DEF WalkConnects, ConnectStep, walkVars
<1>3. /\ TypeOK /\ s \in Seq(Nodes) /\ s' \in Seq(Nodes) /\ IsInjective(s')
      /\ ToSet(s) \subseteq Critical /\ ToSet(s) \subseteq Nodes
  BY DEF IInv, TypeOK, CriticalListExact
<1>4. /\ \A i \in DOMAIN s : i \in DOMAIN s' /\ s'[i] = s[i]
      /\ \A i \in DOMAIN s' : i \in DOMAIN s \/ s'[i] \in Listed(n)'
  BY <1>2, ConnectAppends
<1>5. link = End \/ link \in ToSet(s')
  BY <1>2, <1>4 DEF ToSet
<1>6. DOMAIN s = 1..Len(s) /\ DOMAIN s' = 1..Len(s') /\ Len(s) \in Nat /\ Len(s') \in Nat
  BY <1>3, LenProperties
<1>7. ASSUME NEW i \in DOMAIN s', Passed(i)' PROVE Connecting(s[i])'
  <2>1. CASE i \notin DOMAIN s
    BY <1>2, <1>4, <2>1 DEF Connecting
  <2>2. CASE i \in DOMAIN s
    <3>1. Passed(i)
      <4>1. CASE link = End
        BY <4>1 DEF Passed
      <4>2. CASE link # End
        <5>1. PICK j \in DOMAIN s' : i < j /\ s'[j] = link
          BY <1>2, <1>7, <4>2 DEF Passed
        <5>2. PICK k \in DOMAIN s : s[k] = link
          BY <1>2, <4>2 DEF ToSet
        <5>3. j = k
          BY <1>3, <1>4, <5>1, <5>2 DEF IsInjective
        <5>. QED  BY <5>1, <5>2, <5>3 DEF Passed
      <4>. QED  BY <4>1, <4>2
    <3>2. Connecting(s[i]) /\ s'[i] = s[i] /\ s[i] \in Critical /\ s[i] \in Nodes
      BY <1>2, <1>3, <1>4, <2>2, <3>1 DEF ToSet
    <3>3. \A k \in Nodes : (k = n \/ owner'[k] = owner[k]) /\ (owner[n] # NoAgent => owner'[n] # NoAgent)
      BY <1>2, <1>3, ConnectSingleEffect
    <3>4. CASE s[i] # n
      BY <1>2, <3>2, <3>3, <3>4 DEF Connecting
    <3>5. CASE s[i] = n
      <4>1. "start" \notin Faults /\ ~(DriverOf[n] = "SampleBus" /\ n \in TreeError)
        BY <3>2, <3>5 DEF CriticalStart
      <4>2. DriverOf[n] = NoAgent \/ owner'[n] # NoAgent
        BY <1>2, <1>3, <3>3, <4>1, MarkersAssumption
           DEF ConnectSingle, FdtBusStart, SampleBusStart, DeviceStart, NothingStarts, TypeOK,
               NoAgent
      <4>. QED  BY <3>2, <3>5, <4>2 DEF Connecting
    <3>. QED  BY <3>4, <3>5
  <2>. QED  BY <2>1, <2>2
<1>. QED  BY <1>5, <1>7

\* The walker goes on to the next device of the list, and connects the one it was at.
LEMMA WalkStepWalks ==
  ASSUME IInv, WalkConnects, WalkCritical
  PROVE  WalkConnects'
<1>. DEFINE s == gCriticalDevices
<1>1. /\ endOfDxe = "walking" /\ conn = {} /\ s' = s /\ UNCHANGED <<owner, endOfDxe>>
      /\ \A i \in DOMAIN s : Passed(i) => Connecting(s[i])
  BY DEF WalkCritical, WalkConnects, handleVars
<1>2. PICK i \in DOMAIN s :
        /\ s[i] = link
        /\ link' = IF i = Len(s) THEN End ELSE s[i + 1]
        /\ conn' = IF owner[link] = NoAgent THEN {link} ELSE {}
  BY DEF WalkCritical
<1>3. /\ s \in Seq(Nodes) /\ DOMAIN s = 1..Len(s) /\ Len(s) \in Nat /\ IsInjective(s)
      /\ \A k \in DOMAIN s : s[k] # End
  <2>1. s \in Seq(Nodes) /\ IsInjective(s)
    BY DEF IInv, TypeOK, CriticalListExact
  <2>. QED  BY <2>1, LenProperties, ElementOfSeq, MarkersAssumption
<1>4. link' = End \/ link' \in ToSet(s)
  BY <1>2, <1>3 DEF ToSet
<1>5. ASSUME NEW k \in DOMAIN s, Passed(k)' PROVE k <= i
  <2>1. CASE i = Len(s)
    BY <1>3, <2>1
  <2>2. CASE i # Len(s)
    <3>1. i + 1 \in DOMAIN s /\ link' = s[i + 1] /\ link' # End
      BY <1>2, <1>3, <2>2
    <3>2. PICK j \in DOMAIN s : k < j /\ s[j] = link'
      BY <1>1, <1>5, <3>1 DEF Passed
    <3>3. j = i + 1
      BY <1>3, <3>1, <3>2 DEF IsInjective
    <3>. QED  BY <1>3, <3>2, <3>3
  <2>. QED  BY <2>1, <2>2
<1>6. ASSUME NEW k \in DOMAIN s, k <= i PROVE Connecting(s[k])'
  <2>1. CASE k = i
    BY <1>1, <1>2, <2>1 DEF Connecting
  <2>2. CASE k # i
    <3>1. k < i
      BY <1>3, <1>6, <2>2
    <3>2. Passed(k)
      BY <1>2, <3>1 DEF Passed
    <3>. QED  BY <1>1, <3>2 DEF Connecting
  <2>. QED  BY <2>1, <2>2
<1>7. \A k \in DOMAIN s : Passed(k)' => Connecting(s[k])'
  BY <1>5, <1>6
<1>. QED  BY <1>1, <1>4, <1>7 DEF WalkConnects

LEMMA WalkConnectsStep ==
  ASSUME CriticalStart, IInv, IInv', WalkConnects, [Next]_vars
  PROVE  WalkConnects'
<1>0. TypeOK /\ WalkHeld /\ CriticalListExact
  BY DEF IInv
<1>1. ASSUME UNCHANGED <<gCriticalDevices, owner, conn, endOfDxe, link>> PROVE WalkConnects'
  BY <1>1 DEF WalkConnects, Passed, Connecting
<1>2. ASSUME endOfDxe' # "walking" PROVE WalkConnects'
  BY <1>2 DEF WalkConnects
<1>3. CASE Progress
  <2>1. ASSUME NEW n \in Nodes, ConnectStep(n) PROVE WalkConnects'
    BY <2>1, ConnectStepWalks
  <2>2. ASSUME NEW n \in Nodes, StopKeepsDriver(n) \/ StopDriver(n) PROVE WalkConnects'
    BY <1>0, <1>2, <2>2 DEF StopKeepsDriver, StopDriver, AllStopped, Stopping, WalkHeld, walkVars
  <2>3. ASSUME NEW n \in Nodes, RemoveDone(n) \/ Reconnect(n) \/ RemoveFailed(n)
        PROVE  WalkConnects'
    BY <1>0, <1>2, <2>3 DEF RemoveDone, Reconnect, RemoveFailed, WalkHeld, walkVars
  <2>4. ASSUME NEW n \in Nodes, NEW c \in Kids(n), RemoveChild(n, c) PROVE WalkConnects'
    BY <1>0, <1>2, <2>4 DEF RemoveChild, Stopping, WalkHeld, walkVars
  <2>5. CASE WalkDone
    BY <1>2, <2>5 DEF WalkDone
  <2>. QED  BY <1>3, <2>1, <2>2, <2>3, <2>4, <2>5, WalkStepWalks DEF Progress
<1>4. CASE Request
  <2>1. ASSUME NEW n \in Nodes, Map(n) \/ Unmap(n) PROVE WalkConnects'
    BY <1>1, <2>1 DEF Map, Unmap, walkVars
  <2>2. ASSUME NEW n \in Nodes, ConnectAll(n) \/ Disconnect(n) PROVE WalkConnects'
    BY <1>2, <2>2 DEF ConnectAll, Disconnect, Quiet, walkVars
  <2>3. ASSUME NEW n \in Nodes, NEW rem, ConnectPath(n, rem) \/ DisconnectChild(n, rem)
        PROVE  WalkConnects'
    BY <1>2, <2>3 DEF ConnectPath, DisconnectChild, Quiet, walkVars
  <2>4. CASE SignalEndOfDxe
    <3>. DEFINE s == gCriticalDevices
    <3>1. /\ s' = s /\ link' = IF s = << >> THEN End ELSE Head(s)
          /\ s \in Seq(Nodes) /\ IsInjective(s)
      BY <1>0, <2>4 DEF SignalEndOfDxe, handleVars, TypeOK, CriticalListExact
    <3>2. CASE s = << >>
      <4>1. DOMAIN s = {}
        BY <3>2
      <4>. QED  BY <3>1, <3>2, <4>1 DEF WalkConnects
    <3>3. CASE s # << >>
      <4>1. /\ DOMAIN s = 1..Len(s) /\ Len(s) \in Nat /\ 1 \in DOMAIN s /\ link' = s[1]
            /\ s[1] # End
        <5>1. DOMAIN s = 1..Len(s) /\ Len(s) \in Nat /\ Len(s) # 0 /\ Head(s) = s[1]
          BY <3>1, <3>3, LenProperties, EmptySeq
        <5>2. 1 \in DOMAIN s
          BY <5>1
        <5>. QED  BY <3>1, <3>3, <5>1, <5>2, ElementOfSeq, MarkersAssumption
      <4>2. \A i \in DOMAIN s : ~Passed(i)'
        <5>1. SUFFICES ASSUME NEW i \in DOMAIN s, Passed(i)' PROVE FALSE
          OBVIOUS
        <5>2. PICK j \in DOMAIN s : i < j /\ s[j] = s[1]
          BY <3>1, <4>1, <5>1 DEF Passed
        <5>3. j = 1
          BY <3>1, <4>1, <5>2 DEF IsInjective
        <5>. QED  BY <4>1, <5>2, <5>3
      <4>3. link' \in ToSet(s)
        BY <4>1 DEF ToSet
      <4>. QED  BY <3>1, <4>2, <4>3 DEF WalkConnects
    <3>. QED  BY <3>2, <3>3
  <2>. QED  BY <1>4, <2>1, <2>2, <2>3, <2>4 DEF Request
<1>5. CASE UNCHANGED vars
  BY <1>1, <1>5 DEF vars, handleVars, walkVars
<1>. QED  BY <1>3, <1>4, <1>5 DEF Next

\* When OnEndOfDxe returns, every critical device on its list has its driver,
\* also one that was created behind the walker, in every tree and whatever else
\* fails, as long as no driver of a critical device fails to start.
THEOREM CriticalDevicesConnected ==
  ASSUME CriticalStart
  PROVE  Spec => []ListedCriticalConnected
<1>1. Init => IInv /\ WalkConnects
  BY InitInv DEF Init, WalkConnects
<1>2. IInv /\ WalkConnects /\ [Next]_vars => (IInv /\ WalkConnects)'
  BY StepInv, WalkConnectsStep
<1>3. IInv /\ WalkConnects => ListedCriticalConnected
  BY DEF WalkConnects, ListedCriticalConnected, WalkOver, Passed, Connecting, ToSet
<1>. QED  BY <1>1, <1>2, <1>3, PTL DEF Spec
=============================================================================
