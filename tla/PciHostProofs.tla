--------------------------- MODULE PciHostProofs ---------------------------
(***************************************************************************)
(* Proofs about PciHost, for any address width, bridges, windows and       *)
(* configurations: the nodes and the GCD agree.                            *)
(***************************************************************************)
EXTENDS PciHost, FiniteSetTheorems, TLAPS

-----------------------------------------------------------------------------
(* Addresses                                                               *)

\* Sums and differences wrap, and one undoes the other.
LEMMA Arithmetic ==
  /\ Word \in Nat /\ Word >= 2 /\ NoAddress \in Addresses /\ 0 \in Addresses
  /\ \A x, y \in Addresses : /\ Add(x, y) \in Addresses /\ Sub(x, y) \in Addresses
                             /\ Add(Sub(x, y), y) = x
<1>1. Word \in Nat /\ Word >= 2
  BY WordAssumption
<1>. QED  BY <1>1 DEF Addresses, NoAddress, Add, Sub

\* A window and what is computed from it are addresses.
LEMMA Windows ==
  \A b \in Bridges, t \in Types :
    /\ Window[b][t] \in [base : Addresses, parent : Addresses, length : Addresses]
    /\ Translation(Window[b][t]) \in Addresses
    /\ LastOf(Window[b][t]) \in Addresses
<1>1. 1 \in Addresses
  BY Arithmetic DEF Addresses
<1>2. \A b \in Bridges, t \in Types :
        Window[b][t] \in [base : Addresses, parent : Addresses, length : Addresses]
  BY BridgesAssumption
<1>. QED  BY <1>1, <1>2, Arithmetic DEF Translation, LastOf

\* A set of numbers has a least element.
LEMMA LeastIsLeast ==
  ASSUME NEW S \in SUBSET Nat, S # {}
  PROVE  Least(S) \in S /\ \A x \in S : Least(S) <= x
<1>1. PICK m \in S : TRUE
  OBVIOUS
<1>. DEFINE T == {0..x : x \in S \cap (0..m)}
<1>2. T \subseteq FiniteSubsetsOf(0..m) /\ 0..m \in T
  <2>1. \A x \in S \cap (0..m) : 0..x \subseteq 0..m
    OBVIOUS
  <2>2. IsFiniteSet(0..m)
    BY <1>1, FS_Interval
  <2>. QED  BY <1>1, <2>1, <2>2, FS_FiniteSubsetsOfFinite
<1>3. PICK U \in T : \A V \in T : ~(<<V, U>> \in StrictSubsetOrdering(0..m))
  <2>. HIDE DEF T
  <2>. QED  BY <1>2, FS_StrictSubsetOrderingWellFounded, WFMin, Zenon
<1>4. PICK x \in S \cap (0..m) : U = 0..x
  OBVIOUS
<1>5. ASSUME NEW y \in S, y < x PROVE FALSE
  <2>1. 0..y \in T /\ 0..y \subseteq 0..x /\ 0..y # 0..x
    <3>1. x \in 0..x /\ x \notin 0..y
      BY <1>4, <1>5
    <3>. QED  BY <1>4, <1>5, <3>1
  <2>2. 0..y \in SUBSET (0..m) /\ 0..x \in SUBSET (0..m)
    BY <1>4, <2>1
  <2>. QED  BY <1>3, <1>4, <2>1, <2>2 DEF StrictSubsetOrdering
<1>6. \A y \in S : x <= y
  BY <1>4, <1>5
<1>. QED  BY <1>6 DEF Least

\* What AllocateResource returns is free, exists and is not empty.
LEMMA AllocateFits ==
  ASSUME NEW space, NEW ledger, NEW length, NEW step, NEW base, NEW limit,
         NEW a, a = AllocateResource(space, ledger, length, step, base, limit),
         a # NoAddress
  PROVE  a \in Addresses /\ length > 0 /\ Span(a, length) \subseteq space \ ledger
<1>1. PICK H \in SUBSET Addresses :
        /\ H # {} /\ a = Least(H)
        /\ \A x \in H : Claimable(x, length, space, ledger)
  <2>. DEFINE start == AlignUp(base, step)
              hits == {x \in Addresses :
                        /\ x >= start /\ (x - start) % step = 0
                        /\ \A y \in start..x : (y - start) % step = 0 => InLimit(y, length, limit)
                        /\ Claimable(x, length, space, ledger)}
  <2>1. a = IF base < limit /\ hits # {} THEN Least(hits) ELSE NoAddress
    BY DEF AllocateResource
  <2>2. hits \in SUBSET Addresses /\ \A x \in hits : Claimable(x, length, space, ledger)
    OBVIOUS
  <2>. HIDE DEF hits
  <2>. QED  BY <2>1, <2>2, Zenon
<1>2. Addresses \subseteq Nat
  BY Arithmetic DEF Addresses
<1>3. a \in H
  BY <1>1, <1>2, LeastIsLeast
<1>. QED  BY <1>1, <1>3 DEF Claimable

Node == [base : Addresses, length : Addresses, align : Addresses,
         status : {"ResNone", "ResSubmitted", "ResAllocated"}, tracked : BOOLEAN]

\* There are five types, with ranks below six.
LEMMA Five ==
  /\ Types = {"TypeIo", "TypeMem32", "TypePMem32", "TypeMem64", "TypePMem64", "TypeBus"}
  /\ ResTypes = {"TypeIo", "TypeMem32", "TypePMem32", "TypeMem64", "TypePMem64"}
  /\ \A t \in Types : Rank[t] \in 0..5
BY DEF Types, ResTypes, Rank

\* Of types that are left, one has the largest alignment.
LEMMA PickIsOpen ==
  ASSUME NEW nodes \in [Types -> Node], NEW open \in SUBSET ResTypes, open # {}
  PROVE  MaxAligned(nodes, open) \in open
<1>. DEFINE Key(t) == 6 * Word + 6 - 6 * nodes[t].align - Rank[t]
            Keys == {Key(t) : t \in open}
<1>1. \A t \in open : nodes[t].align \in 0..(Word - 1) /\ Rank[t] \in 0..5 /\ t \in Types
  BY Five DEF Node, Addresses
<1>2. Keys \subseteq Nat /\ Keys # {}
  BY <1>1, Arithmetic
<1>3. Least(Keys) \in Keys /\ \A x \in Keys : Least(Keys) <= x
  <2>. HIDE DEF Keys
  <2>. QED  BY <1>2, LeastIsLeast
<1>4. PICK t \in open : Least(Keys) = Key(t)
  BY <1>3
<1>5. \A u \in open : Key(t) <= Key(u)
  BY <1>3, <1>4
<1>6. \A u \in open : \/ nodes[u].align < nodes[t].align
                      \/ nodes[u].align = nodes[t].align /\ Rank[u] <= Rank[t]
  BY <1>1, <1>5, Arithmetic
<1>. QED  BY <1>6 DEF MaxAligned

-----------------------------------------------------------------------------
(* The nodes of one bridge in a space it shares                            *)

MemTypes == ResTypes \ {"TypeIo"}
IoTypes  == {"TypeIo"}

\* What is allocated in the GCD too.
Mine(b, n) == n.status = "ResAllocated" /\ (b \in Keep => n.tracked)

\* The nodes of types T have their addresses in M, apart from each other and
\* from those that others have.
Stands(b, nodes, T, M, others) ==
  /\ others \subseteq M /\ M \subseteq Addresses
  /\ \A t \in T : Mine(b, nodes[t]) =>
       Claimed(b, t, nodes[t]) # {} /\ Claimed(b, t, nodes[t]) \subseteq M \ others
  /\ \A t, u \in T : t # u /\ Mine(b, nodes[t]) /\ Mine(b, nodes[u]) =>
       Claimed(b, t, nodes[t]) \cap Claimed(b, u, nodes[u]) = {}

\* Nothing else is in M.
Exact(b, nodes, T, M, others) ==
  \A a \in M \ others : \E t \in T : Mine(b, nodes[t]) /\ a \in Claimed(b, t, nodes[t])

\* A node that gets addresses nobody has.
LEMMA Adding ==
  ASSUME NEW b, NEW nodes \in [Types -> Node], NEW T \in SUBSET Types, NEW M, NEW others,
         Stands(b, nodes, T, M, others),
         NEW t \in T, NEW n \in Node,
         Claimed(b, t, n) # {}, Claimed(b, t, n) \subseteq Addresses \ M
  PROVE  LET new == [nodes EXCEPT ![t] = n]
             N   == M \cup Claimed(b, t, n)
         IN /\ Stands(b, new, T, N, others)
            /\ Exact(b, nodes, T, M, others) /\ ~Mine(b, nodes[t]) /\ Mine(b, n) =>
                 Exact(b, new, T, N, others)
<1>. DEFINE new == [nodes EXCEPT ![t] = n]
            R(k, u) == Claimed(b, u, k[u])
<1>1. new[t] = n /\ \A u \in T \ {t} : new[u] = nodes[u]
  OBVIOUS
<1>2. \A u \in T : u # t => R(new, u) = R(nodes, u) /\ (Mine(b, new[u]) <=> Mine(b, nodes[u]))
  BY <1>1
<1>3. R(new, t) = Claimed(b, t, n) /\ (Mine(b, new[t]) <=> Mine(b, n))
  BY <1>1
<1>. HIDE DEF new, R
<1>4. Stands(b, new, T, M \cup Claimed(b, t, n), others)
  <2>1. \A u \in T : Mine(b, nodes[u]) => R(nodes, u) # {} /\ R(nodes, u) \subseteq M \ others
    BY DEF Stands, R
  <2>2. \A u, v \in T : u # v /\ Mine(b, nodes[u]) /\ Mine(b, nodes[v]) =>
          R(nodes, u) \cap R(nodes, v) = {}
    BY DEF Stands, R
  <2>3. others \subseteq M /\ M \subseteq Addresses
    BY DEF Stands
  <2>4. \A u \in T : Mine(b, new[u]) =>
          R(new, u) # {} /\ R(new, u) \subseteq (M \cup Claimed(b, t, n)) \ others
    BY <1>2, <1>3, <2>1, <2>3
  <2>5. \A u, v \in T : u # v /\ Mine(b, new[u]) /\ Mine(b, new[v]) =>
          R(new, u) \cap R(new, v) = {}
    BY <1>2, <1>3, <2>1, <2>2
  <2>. QED  BY <2>3, <2>4, <2>5 DEF Stands, R
<1>5. ASSUME Exact(b, nodes, T, M, others), ~Mine(b, nodes[t]), Mine(b, n)
      PROVE  Exact(b, new, T, M \cup Claimed(b, t, n), others)
  BY <1>2, <1>3, <1>5 DEF Exact, R
<1>. QED  BY <1>4, <1>5 DEF new

\* A node that gives its addresses back.
LEMMA Removing ==
  ASSUME NEW b, NEW nodes \in [Types -> Node], NEW T \in SUBSET Types, NEW M, NEW others,
         Stands(b, nodes, T, M, others),
         NEW t \in T, Mine(b, nodes[t]), NEW n \in Node, ~Mine(b, n)
  PROVE  LET new == [nodes EXCEPT ![t] = n]
             N   == M \ Claimed(b, t, nodes[t])
         IN /\ Stands(b, new, T, N, others)
            /\ Exact(b, nodes, T, M, others) => Exact(b, new, T, N, others)
<1>. DEFINE new == [nodes EXCEPT ![t] = n]
            R(k, u) == Claimed(b, u, k[u])
<1>1. new[t] = n /\ \A u \in T \ {t} : new[u] = nodes[u]
  OBVIOUS
<1>2. \A u \in T : u # t => R(new, u) = R(nodes, u) /\ (Mine(b, new[u]) <=> Mine(b, nodes[u]))
  BY <1>1
<1>3. ~Mine(b, new[t])
  BY <1>1
<1>4. R(nodes, t) = Claimed(b, t, nodes[t])
  OBVIOUS
<1>. HIDE DEF new, R
<1>5. Stands(b, new, T, M \ R(nodes, t), others)
  <2>1. \A u \in T : Mine(b, nodes[u]) => R(nodes, u) # {} /\ R(nodes, u) \subseteq M \ others
    BY DEF Stands, R
  <2>2. \A u, v \in T : u # v /\ Mine(b, nodes[u]) /\ Mine(b, nodes[v]) =>
          R(nodes, u) \cap R(nodes, v) = {}
    BY DEF Stands, R
  <2>3. others \subseteq M /\ M \subseteq Addresses
    BY DEF Stands
  <2>4. \A u \in T : Mine(b, new[u]) =>
          R(new, u) # {} /\ R(new, u) \subseteq (M \ R(nodes, t)) \ others
    BY <1>2, <1>3, <2>1, <2>2
  <2>5. \A u, v \in T : u # v /\ Mine(b, new[u]) /\ Mine(b, new[v]) =>
          R(new, u) \cap R(new, v) = {}
    BY <1>2, <1>3, <2>2
  <2>6. others \subseteq M \ R(nodes, t)
    BY <2>1, <2>3
  <2>. QED  BY <2>3, <2>4, <2>5, <2>6 DEF Stands, R
<1>6. ASSUME Exact(b, nodes, T, M, others)
      PROVE  Exact(b, new, T, M \ R(nodes, t), others)
  BY <1>2, <1>3, <1>6 DEF Exact, R
<1>. QED  BY <1>4, <1>5, <1>6 DEF new

\* Nodes whose addresses and states stay, or that were and are nobody's.
LEMMA Keeping ==
  ASSUME NEW b, NEW nodes, NEW new, NEW T, NEW M, NEW others,
         Stands(b, nodes, T, M, others),
         \A t \in T : \/ Mine(b, nodes[t]) /\ new[t] = nodes[t]
                      \/ ~Mine(b, new[t])
  PROVE  /\ Stands(b, new, T, M, others)
         /\ (\A t \in T : Mine(b, nodes[t]) => new[t] = nodes[t]) /\ Exact(b, nodes, T, M, others) =>
              Exact(b, new, T, M, others)
<1>1. \A t \in T : Mine(b, new[t]) => Mine(b, nodes[t]) /\ new[t] = nodes[t]
  OBVIOUS
<1>. QED  BY <1>1 DEF Stands, Exact

-----------------------------------------------------------------------------
(* The nodes of one bridge                                                 *)

\* A node nobody asked for is empty.
Blank(nodes) == \A t \in ResTypes : nodes[t].status = "ResNone" => nodes[t].length = 0

Sorted(b, s, om, oi) ==
  /\ s.nodes \in [Types -> Node] /\ Blank(s.nodes)
  /\ Stands(b, s.nodes, MemTypes, s.mem, om)
  /\ Stands(b, s.nodes, IoTypes, s.io, oi)
Full(b, s, om, oi) ==
  /\ Exact(b, s.nodes, MemTypes, s.mem, om)
  /\ Exact(b, s.nodes, IoTypes, s.io, oi)

Space(s, t) == IF t = "TypeIo" THEN s.io ELSE s.mem

TurnStates == [nodes : [Types -> Node], mem : SUBSET Addresses, io : SUBSET Addresses,
               handled : SUBSET ResTypes, status : Statuses]
KeepStates == [nodes : [Types -> Node], mem : SUBSET Addresses, io : SUBSET Addresses,
               ioSpace : SUBSET Addresses]
FreeStates == [nodes : [Types -> Node], mem : SUBSET Addresses, io : SUBSET Addresses,
               refused : BOOLEAN, status : Statuses]

\* The node that Claim makes of n.
Placed(n, a) == [n EXCEPT !.base = a, !.status = "ResAllocated"]

\* What Claim makes of the state s of a loop.
Claims(b, s, t, c, om, oi) ==
  /\ s \in TurnStates => c \in TurnStates /\ c.handled = s.handled /\ c.status = s.status
  /\ s \in KeepStates => c \in KeepStates /\ c.ioSpace = s.ioSpace
  /\ Sorted(b, c, om, oi)
  /\ Full(b, s, om, oi) /\ ~Mine(b, s.nodes[t]) => Full(b, c, om, oi)
  /\ c.nodes[t].status = "ResAllocated"
  /\ \A u \in Types \ {t} : c.nodes[u] = s.nodes[u]

\* Claim, when the addresses are free.
LEMMA ClaimSorts ==
  ASSUME NEW b \in Bridges, NEW s \in TurnStates \cup KeepStates, NEW om, NEW oi,
         Sorted(b, s, om, oi), NEW t \in ResTypes, NEW a \in Addresses,
         b \in Keep => s.nodes[t].tracked = TRUE,
         NEW n, n = Placed(s.nodes[t], a),
         Claimed(b, t, n) # {}, Claimed(b, t, n) \subseteq Addresses \ Space(s, t),
         NEW c, c = Claim(b, s, t, a)
  PROVE  Claims(b, s, t, c, om, oi)
<1>. DEFINE R == Claimed(b, t, n)
            new == [s.nodes EXCEPT ![t] = n]
<1>1. s.nodes \in [Types -> Node] /\ t \in Types
  BY Five DEF TurnStates, KeepStates
<1>2. n \in Node /\ Mine(b, n)
  BY <1>1 DEF Node, Mine, Placed
<1>3. /\ c.nodes = new
      /\ c.mem = IF t = "TypeIo" THEN s.mem ELSE s.mem \cup R
      /\ c.io = IF t = "TypeIo" THEN s.io \cup R ELSE s.io
      /\ s \in TurnStates => c.handled = s.handled /\ c.status = s.status
      /\ s \in KeepStates => c.ioSpace = s.ioSpace
      /\ DOMAIN c = DOMAIN s
      /\ c = [x \in DOMAIN s |-> c[x]]
  BY DEF Claim, Placed, TurnStates, KeepStates
<1>4. new \in [Types -> Node] /\ new[t] = n /\ \A u \in Types \ {t} : new[u] = s.nodes[u]
  BY <1>1, <1>2
<1>5. R # {} /\ R \subseteq Addresses \ Space(s, t)
  OBVIOUS
<1>. HIDE DEF R, new
<1>6. c.mem \subseteq Addresses /\ c.io \subseteq Addresses
  BY <1>3, <1>5 DEF TurnStates, KeepStates
<1>7. /\ s \in TurnStates => c \in TurnStates
      /\ s \in KeepStates => c \in KeepStates
  BY <1>3, <1>4, <1>6 DEF TurnStates, KeepStates
<1>8. Blank(new)
  <2>1. Blank(s.nodes)
    BY DEF Sorted
  <2>2. new[t].status = "ResAllocated"
    BY <1>2, <1>4 DEF Mine
  <2>. QED  BY <2>1, <2>2, <1>4, Five DEF Blank
<1>9. CASE t = "TypeIo"
  <2>1. \A u \in MemTypes : new[u] = s.nodes[u]
    BY <1>4, <1>9, Five DEF MemTypes
  <2>2. /\ Stands(b, new, MemTypes, c.mem, om)
        /\ Exact(b, s.nodes, MemTypes, s.mem, om) => Exact(b, new, MemTypes, c.mem, om)
    BY <2>1, <1>3, <1>9 DEF Sorted, Stands, Exact
  <2>3. /\ Stands(b, new, IoTypes, c.io, oi)
        /\ Exact(b, s.nodes, IoTypes, s.io, oi) /\ ~Mine(b, s.nodes[t]) =>
             Exact(b, new, IoTypes, c.io, oi)
    <3>1. IoTypes \in SUBSET Types /\ t \in IoTypes /\ Stands(b, s.nodes, IoTypes, s.io, oi)
      BY <1>9, Five DEF IoTypes, Sorted
    <3>2. c.io = s.io \cup Claimed(b, t, n) /\ Claimed(b, t, n) \subseteq Addresses \ s.io
      BY <1>3, <1>5, <1>9 DEF R, Space
    <3>. QED  BY <1>1, <1>2, <1>5, <3>1, <3>2, Adding DEF new, R
  <2>. QED  BY <1>2, <1>3, <1>4, <1>7, <1>8, <2>2, <2>3 DEF Sorted, Full, Mine, Claims
<1>10. CASE t # "TypeIo"
  <2>1. new["TypeIo"] = s.nodes["TypeIo"]
    BY <1>4, <1>10, Five
  <2>2. /\ Stands(b, new, IoTypes, c.io, oi)
        /\ Exact(b, s.nodes, IoTypes, s.io, oi) => Exact(b, new, IoTypes, c.io, oi)
    BY <2>1, <1>3, <1>10 DEF Sorted, Stands, Exact, IoTypes
  <2>3. /\ Stands(b, new, MemTypes, c.mem, om)
        /\ Exact(b, s.nodes, MemTypes, s.mem, om) /\ ~Mine(b, s.nodes[t]) =>
             Exact(b, new, MemTypes, c.mem, om)
    <3>1. MemTypes \in SUBSET Types /\ t \in MemTypes /\ Stands(b, s.nodes, MemTypes, s.mem, om)
      BY <1>10, Five DEF MemTypes, Sorted
    <3>2. c.mem = s.mem \cup Claimed(b, t, n) /\ Claimed(b, t, n) \subseteq Addresses \ s.mem
      BY <1>3, <1>5, <1>10 DEF R, Space
    <3>. QED  BY <1>1, <1>2, <1>5, <3>1, <3>2, Adding DEF new, R
  <2>. QED  BY <1>2, <1>3, <1>4, <1>7, <1>8, <2>2, <2>3 DEF Sorted, Full, Mine, Claims
<1>. QED  BY <1>9, <1>10

-----------------------------------------------------------------------------
(* AllocateResources                                                       *)

\* The address found for a node is free.
LEMMA BaseFits ==
  ASSUME NEW b \in Bridges, NEW s \in TurnStates, ioSpace \subseteq Addresses, NEW t \in ResTypes,
         NEW a, a = BaseAddress(b, s, t), a # NoAddress,
         NEW n, n = Placed(s.nodes[t], a)
  PROVE  /\ a \in Addresses /\ s.nodes[t].length > 0
         /\ Claimed(b, t, n) # {} /\ Claimed(b, t, n) \subseteq Addresses \ Space(s, t)
<1>1. s.nodes[t] \in Node /\ t \in Types
  BY Five DEF TurnStates
<1>2. n.base = a /\ n.length = s.nodes[t].length /\ s.nodes[t].length \in Addresses
  BY <1>1 DEF Node, Placed
<1>3. ASSUME NEW x \in Addresses, n.length > 0
      PROVE  Span(x, n.length) # {}
  <2>1. x \in Span(x, n.length)
    BY <1>2, <1>3, Arithmetic DEF Span, Addresses
  <2>. QED  BY <2>1
<1>4. CASE t = "TypeIo"
  <2>. DEFINE w == Window[b].TypeIo
              d == AllocateResource(ioSpace, s.io, s.nodes[t].length,
                                    Smaller(s.nodes[t].align + 1, MaxIoStep),
                                    AlignUp(w.base, s.nodes[t].align + 1), LastOf(w))
  <2>1. a = IF d = NoAddress THEN d ELSE ToHost(d, Translation(w))
    BY <1>4 DEF BaseAddress, FromIo
  <2>2. d # NoAddress
    BY <2>1
  <2>3. d \in Addresses /\ n.length > 0 /\ Span(d, n.length) \subseteq ioSpace \ s.io
    BY <1>2, <2>2, AllocateFits
  <2>4. Translation(w) \in Addresses
    BY Windows, Five
  <2>. HIDE DEF d, w
  <2>5. a \in Addresses /\ ToDevice(a, Translation(w)) = d
    BY <2>1, <2>2, <2>3, <2>4, Arithmetic DEF ToHost, ToDevice
  <2>6. Claimed(b, t, n) = Span(d, n.length)
    BY <1>2, <1>4, <2>5 DEF Claimed, w
  <2>. QED  BY <1>2, <1>3, <1>4, <2>3, <2>5, <2>6 DEF Space
<1>5. CASE t # "TypeIo"
  <2>1. a \in Addresses /\ n.length > 0 /\ Span(a, n.length) \subseteq Addresses \ s.mem
    <3>1. ASSUME NEW u, NEW cap, a = FromMemory(b, s, s.nodes[t], u, cap)
          PROVE  a \in Addresses /\ n.length > 0 /\ Span(a, n.length) \subseteq Addresses \ s.mem
      BY <1>2, <3>1, AllocateFits DEF FromMemory
    <3>2. t \in {"TypeMem32", "TypePMem32", "TypeMem64", "TypePMem64"}
      BY <1>5, Five
    <3>3. \E u, cap : a = FromMemory(b, s, s.nodes[t], u, cap)
      BY <3>2 DEF BaseAddress, WithFallback
    <3>. QED  BY SMTT(60), <3>1, <3>3
  <2>2. Claimed(b, t, n) = Span(a, n.length)
    BY <1>2, <1>5 DEF Claimed
  <2>. QED  BY <1>2, <1>3, <1>5, <2>1, <2>2 DEF Space
<1>. QED  BY <1>4, <1>5

\* What was not asked for stays that way, and the other way round.
SameRequests(old, new) ==
  \A u \in ResTypes : old[u].status = "ResNone" <=> new[u].status = "ResNone"

\* As long as all went well, the types handled have their addresses, or nobody
\* asked for them and their turn is over.
GoesWell(s, done) ==
  s.status = "EFI_SUCCESS" =>
    \A u \in s.handled : \/ s.nodes[u].status = "ResAllocated"
                         \/ s.nodes[u].status = "ResNone" /\ u \in done

\* Types not handled yet hold nothing.
Unserved(b, s) == \A u \in ResTypes \ s.handled : ~Mine(b, s.nodes[u])

\* The turn of type t in the loop, in which x is served.
Turns(b, s, t, r, om, oi) ==
  /\ r \in TurnStates /\ Sorted(b, r, om, oi) /\ SameRequests(s.nodes, r.nodes)
  /\ Full(b, s, om, oi) /\ Unserved(b, s) => Full(b, r, om, oi) /\ Unserved(b, r)
  /\ \E x \in ResTypes :
       /\ r.handled = s.handled \cup {x}
       /\ \A done : t \notin done /\ GoesWell(s, done) =>
            /\ GoesWell(r, done \cup {t})
            /\ r.status = "EFI_SUCCESS" => s.status = "EFI_SUCCESS" /\ x \notin s.handled

\* One turn keeps the nodes sorted and handles one more type.
LEMMA TurnSorts ==
  ASSUME NEW b \in Bridges, b \notin Keep, NEW s \in TurnStates, ioSpace \subseteq Addresses,
         NEW om, NEW oi, Sorted(b, s, om, oi), NEW t \in ResTypes, s.handled # ResTypes
  PROVE  Turns(b, s, t, Turn(b, s, t), om, oi)
<1>. DEFINE r == Turn(b, s, t)
<1>0. s.nodes \in [Types -> Node] /\ s.handled \subseteq ResTypes /\ ResTypes \subseteq Types
  BY Five DEF TurnStates
<1>1. CASE s.nodes[t].status = "ResNone"
  <2>1. r = [s EXCEPT !.handled = s.handled \cup {t}]
    BY <1>1 DEF Turn
  <2>2. r \in TurnStates
    BY <2>1 DEF TurnStates
  <2>3. /\ r.handled = s.handled \cup {t} /\ r.nodes = s.nodes /\ r.mem = s.mem /\ r.io = s.io
        /\ r.status = s.status
    BY <2>1 DEF TurnStates
  <2>4. Sorted(b, r, om, oi) /\ (Full(b, s, om, oi) => Full(b, r, om, oi))
    BY <2>3 DEF Sorted, Full
  <2>5. Unserved(b, s) => Unserved(b, r)
    BY <2>3 DEF Unserved
  <2>6. ASSUME NEW done, t \notin done, GoesWell(s, done)
        PROVE  /\ GoesWell(r, done \cup {t})
               /\ r.status = "EFI_SUCCESS" => s.status = "EFI_SUCCESS" /\ t \notin s.handled
    BY <1>1, <2>3, <2>6 DEF GoesWell
  <2>. QED  BY <2>2, <2>3, <2>4, <2>5, <2>6 DEF SameRequests, Turns
<1>2. CASE s.nodes[t].status # "ResNone"
  <2>. DEFINE pick == MaxAligned(s.nodes, ResTypes \ s.handled)
              next == [s EXCEPT !.handled = s.handled \cup {pick}]
              a == BaseAddress(b, s, pick)
  <2>1. pick \in ResTypes \ s.handled
    <3>1. ResTypes \ s.handled \in SUBSET ResTypes /\ ResTypes \ s.handled # {}
      BY <1>0
    <3>. QED  BY <1>0, <3>1, PickIsOpen
  <2>2. r = IF Aligned(b, s.nodes, pick) /\ a # NoAddress THEN Claim(b, next, pick, a)
            ELSE [next EXCEPT !.status = "EFI_OUT_OF_RESOURCES"]
    BY <1>2 DEF Turn
  <2>. HIDE DEF pick
  <2>3. next \in TurnStates
    BY <2>1 DEF TurnStates
  <2>4. /\ next.handled = s.handled \cup {pick} /\ next.nodes = s.nodes
        /\ next.mem = s.mem /\ next.io = s.io /\ next.status = s.status
    BY DEF TurnStates
  <2>. HIDE DEF next, a, r
  <2>5. Sorted(b, next, om, oi) /\ (Full(b, s, om, oi) => Full(b, next, om, oi))
    BY <2>4 DEF Sorted, Full
  <2>6. CASE r = [next EXCEPT !.status = "EFI_OUT_OF_RESOURCES"]
    <3>1. r \in TurnStates
      BY <2>3, <2>6 DEF TurnStates, Statuses
    <3>2. /\ r.handled = next.handled /\ r.nodes = s.nodes /\ r.mem = s.mem /\ r.io = s.io
          /\ r.status # "EFI_SUCCESS"
      BY <2>3, <2>4, <2>6 DEF TurnStates
    <3>3. Sorted(b, r, om, oi) /\ (Full(b, s, om, oi) => Full(b, r, om, oi))
      BY <2>4, <2>5, <3>2 DEF Sorted, Full
    <3>4. Unserved(b, s) => Unserved(b, r)
      BY <2>4, <3>2 DEF Unserved
    <3>. QED  BY <2>1, <2>4, <3>1, <3>2, <3>3, <3>4 DEF r, GoesWell, SameRequests, Turns
  <2>7. CASE a # NoAddress /\ r = Claim(b, next, pick, a)
    <3>. DEFINE n == Placed(s.nodes[pick], a)
    <3>1. /\ a \in Addresses /\ s.nodes[pick].length > 0
          /\ Claimed(b, pick, n) # {} /\ Claimed(b, pick, n) \subseteq Addresses \ Space(s, pick)
      BY <2>1, <2>7, BaseFits DEF a
    <3>2. Space(s, pick) = Space(next, pick) /\ next \in TurnStates \cup KeepStates
      BY <2>3, <2>4 DEF Space
    <3>3. /\ r \in TurnStates /\ r.handled = next.handled /\ r.status = next.status
          /\ Sorted(b, r, om, oi)
          /\ Full(b, next, om, oi) /\ ~Mine(b, next.nodes[pick]) => Full(b, r, om, oi)
          /\ r.nodes[pick].status = "ResAllocated"
          /\ \A u \in Types \ {pick} : r.nodes[u] = next.nodes[u]
      <4>1. n = Placed(next.nodes[pick], a)
        BY <2>4
      <4>2. b \in Keep => next.nodes[pick].tracked = TRUE
        OBVIOUS
      <4>. HIDE DEF n
      <4>3. pick \in ResTypes /\ Sorted(b, next, om, oi)
        BY <2>1, <2>5
      <4>4. Claimed(b, pick, n) # {} /\ Claimed(b, pick, n) \subseteq Addresses \ Space(next, pick)
        BY <3>1, <3>2
      <4>5. Claims(b, next, pick, r, om, oi)
        BY <2>7, <3>1, <3>2, <4>1, <4>2, <4>3, <4>4, ClaimSorts
      <4>. QED  BY <2>3, <4>5 DEF Claims
    <3>4. s.nodes[pick].status # "ResNone"
      <4>1. s.nodes[pick].status = "ResNone" => s.nodes[pick].length = 0
        BY <2>1 DEF Sorted, Blank
      <4>. QED  BY <3>1, <4>1
    <3>5. SameRequests(s.nodes, r.nodes)
      BY <1>0, <2>4, <3>3, <3>4 DEF SameRequests
    <3>6. Full(b, s, om, oi) /\ Unserved(b, s) => Full(b, r, om, oi) /\ Unserved(b, r)
      BY <1>0, <2>1, <2>4, <2>5, <3>3 DEF Unserved
    <3>7. ASSUME NEW done, t \notin done, GoesWell(s, done)
          PROVE  /\ GoesWell(r, done \cup {t})
                 /\ r.status = "EFI_SUCCESS" => s.status = "EFI_SUCCESS" /\ pick \notin s.handled
      BY <1>0, <2>1, <2>4, <3>3, <3>7 DEF GoesWell
    <3>. QED  BY <2>1, <2>4, <3>3, <3>5, <3>6, <3>7 DEF r, Turns
  <2>. QED  BY <2>2, <2>6, <2>7
<1>. QED  BY <1>1, <1>2

\* Five turns, each with a new type, handle all types.
LEMMA Counted ==
  /\ IsFiniteSet(ResTypes) /\ Cardinality(ResTypes) = 5
  /\ \A S \in SUBSET ResTypes :
       /\ IsFiniteSet(S) /\ Cardinality(S) \in Nat
       /\ Cardinality(S) >= 5 => S = ResTypes
       /\ \A x \in ResTypes : Cardinality(S \cup {x}) = IF x \in S THEN Cardinality(S)
                                                        ELSE Cardinality(S) + 1
<1>1. IsFiniteSet({}) /\ Cardinality({}) = 0
  BY FS_EmptySet
<1>2. IsFiniteSet({"TypeIo"}) /\ Cardinality({"TypeIo"}) = 1
  BY FS_Singleton
<1>3. /\ IsFiniteSet({"TypeIo", "TypeMem32"})
      /\ Cardinality({"TypeIo", "TypeMem32"}) = 2
  <2>1. {"TypeIo", "TypeMem32"} = {"TypeIo"} \cup {"TypeMem32"}
    OBVIOUS
  <2>. QED  BY <1>2, <2>1, FS_AddElement
<1>4. /\ IsFiniteSet({"TypeIo", "TypeMem32", "TypePMem32"})
      /\ Cardinality({"TypeIo", "TypeMem32", "TypePMem32"}) = 3
  <2>1. {"TypeIo", "TypeMem32", "TypePMem32"} = {"TypeIo", "TypeMem32"} \cup {"TypePMem32"}
    OBVIOUS
  <2>. QED  BY <1>3, <2>1, FS_AddElement
<1>5. /\ IsFiniteSet({"TypeIo", "TypeMem32", "TypePMem32", "TypeMem64"})
      /\ Cardinality({"TypeIo", "TypeMem32", "TypePMem32", "TypeMem64"}) = 4
  <2>1. {"TypeIo", "TypeMem32", "TypePMem32", "TypeMem64"}
          = {"TypeIo", "TypeMem32", "TypePMem32"} \cup {"TypeMem64"}
    OBVIOUS
  <2>. QED  BY <1>4, <2>1, FS_AddElement
<1>6. IsFiniteSet(ResTypes) /\ Cardinality(ResTypes) = 5
  <2>1. ResTypes = {"TypeIo", "TypeMem32", "TypePMem32", "TypeMem64"} \cup {"TypePMem64"}
    BY Five
  <2>. QED  BY <1>5, <2>1, FS_AddElement
<1>7. ASSUME NEW S \in SUBSET ResTypes
      PROVE  /\ IsFiniteSet(S) /\ Cardinality(S) \in Nat
             /\ Cardinality(S) >= 5 => S = ResTypes
             /\ \A x \in ResTypes : Cardinality(S \cup {x}) = IF x \in S THEN Cardinality(S)
                                                              ELSE Cardinality(S) + 1
  <2>1. IsFiniteSet(S) /\ Cardinality(S) <= 5 /\ (S # ResTypes => Cardinality(S) # 5)
    BY <1>6, FS_Subset
  <2>2. Cardinality(S) \in Nat
    BY <2>1, FS_CardinalityType
  <2>3. \A x : Cardinality(S \cup {x}) = IF x \in S THEN Cardinality(S) ELSE Cardinality(S) + 1
    BY <2>1, FS_AddElement
  <2>. QED  BY <2>1, <2>2, <2>3
<1>. QED  BY <1>6, <1>7

\* The loop after k turns, from the state first: at most k types are handled, and
\* as long as all went well, k of them.
LoopInv(b, first, s, done, k, om, oi) ==
  /\ s \in TurnStates /\ Sorted(b, s, om, oi) /\ SameRequests(first.nodes, s.nodes)
  /\ Full(b, first, om, oi) /\ Unserved(b, first) => Full(b, s, om, oi) /\ Unserved(b, s)
  /\ GoesWell(s, done)
  /\ Cardinality(s.handled) <= k
  /\ s.status = "EFI_SUCCESS" => Cardinality(s.handled) = k

\* A turn keeps the invariant of the loop.
LEMMA LoopTurns ==
  ASSUME NEW b \in Bridges, b \notin Keep, ioSpace \subseteq Addresses,
         NEW first, NEW s, NEW om, NEW oi, NEW done, NEW k \in 0..4,
         LoopInv(b, first, s, done, k, om, oi),
         NEW t \in ResTypes, t \notin done,
         NEW r, r = Turn(b, s, t), NEW now, now = done \cup {t}, NEW next, next = k + 1
  PROVE  LoopInv(b, first, r, now, next, om, oi)
<1>1. s \in TurnStates /\ s.handled \in SUBSET ResTypes /\ Sorted(b, s, om, oi)
  BY DEF LoopInv, TurnStates
<1>2. s.handled # ResTypes
  <2>1. Cardinality(s.handled) <= k
    BY DEF LoopInv
  <2>. QED  BY <2>1, Counted
<1>3. Turns(b, s, t, r, om, oi)
  BY <1>1, <1>2, TurnSorts
<1>4. PICK x \in ResTypes :
        /\ r.handled = s.handled \cup {x}
        /\ \A d : t \notin d /\ GoesWell(s, d) =>
             /\ GoesWell(r, d \cup {t})
             /\ r.status = "EFI_SUCCESS" => s.status = "EFI_SUCCESS" /\ x \notin s.handled
  BY <1>3 DEF Turns
<1>5. /\ GoesWell(r, done \cup {t})
      /\ r.status = "EFI_SUCCESS" => s.status = "EFI_SUCCESS" /\ x \notin s.handled
  BY <1>4 DEF LoopInv
<1>6. /\ Cardinality(r.handled) <= k + 1
      /\ r.status = "EFI_SUCCESS" => Cardinality(r.handled) = k + 1
  <2>1. /\ Cardinality(s.handled) \in Nat
        /\ Cardinality(r.handled) = IF x \in s.handled THEN Cardinality(s.handled)
                                    ELSE Cardinality(s.handled) + 1
    BY <1>1, <1>4, Counted
  <2>2. /\ Cardinality(s.handled) <= k
        /\ s.status = "EFI_SUCCESS" => Cardinality(s.handled) = k
    BY DEF LoopInv
  <2>. QED  BY <1>5, <2>1, <2>2
<1>7. SameRequests(first.nodes, r.nodes)
  <2>1. SameRequests(first.nodes, s.nodes) /\ SameRequests(s.nodes, r.nodes)
    BY <1>3 DEF LoopInv, Turns
  <2>. QED  BY <2>1 DEF SameRequests
<1>8. /\ r \in TurnStates /\ Sorted(b, r, om, oi)
      /\ Full(b, first, om, oi) /\ Unserved(b, first) => Full(b, r, om, oi) /\ Unserved(b, r)
  BY <1>3 DEF LoopInv, Turns
<1>. QED  BY <1>5, <1>6, <1>7, <1>8 DEF LoopInv

\* The whole loop.
LEMMA AllocationSorts ==
  ASSUME NEW b \in Bridges, b \notin Keep, ioSpace \subseteq Addresses,
         mem \subseteq Addresses, io \subseteq Addresses, node \in [Bridges -> [Types -> Node]],
         NEW om, NEW oi, Sorted(b, [nodes |-> node[b], mem |-> mem, io |-> io], om, oi)
  PROVE  LET s == Allocation(b) IN
           /\ s \in TurnStates /\ Sorted(b, s, om, oi) /\ SameRequests(node[b], s.nodes)
           /\ Full(b, [nodes |-> node[b], mem |-> mem, io |-> io], om, oi) /\ ~Holds(b) =>
                Full(b, s, om, oi)
           /\ s.status = "EFI_SUCCESS" =>
                \A t \in ResTypes : s.nodes[t].status \in {"ResAllocated", "ResNone"}
<1>. DEFINE s0 == [nodes |-> node[b], mem |-> mem, io |-> io, handled |-> {}, status |-> "EFI_SUCCESS"]
            s1 == Turn(b, s0, "TypeIo")
            s2 == Turn(b, s1, "TypeMem32")
            s3 == Turn(b, s2, "TypePMem32")
            s4 == Turn(b, s3, "TypeMem64")
            s5 == Turn(b, s4, "TypePMem64")
<1>1. Allocation(b) = s5
  BY DEF Allocation, InTypeOrder
<1>2. LoopInv(b, s0, s0, {}, 0, om, oi)
  <2>1. s0 \in TurnStates
    BY DEF TurnStates, Statuses
  <2>2. Sorted(b, s0, om, oi)
    BY DEF Sorted
  <2>. QED  BY <2>1, <2>2, FS_EmptySet DEF LoopInv, SameRequests, GoesWell
<1>. HIDE DEF s0, s1, s2, s3, s4, s5
<1>. DEFINE d1 == {"TypeIo"}
            d2 == {"TypeIo", "TypeMem32"}
            d3 == {"TypeIo", "TypeMem32", "TypePMem32"}
            d4 == {"TypeIo", "TypeMem32", "TypePMem32", "TypeMem64"}
            d5 == {"TypeIo", "TypeMem32", "TypePMem32", "TypeMem64", "TypePMem64"}
<1>d. /\ d1 = {} \cup {"TypeIo"} /\ d2 = d1 \cup {"TypeMem32"} /\ d3 = d2 \cup {"TypePMem32"}
      /\ d4 = d3 \cup {"TypeMem64"} /\ d5 = d4 \cup {"TypePMem64"}
      /\ "TypeIo" \notin {} /\ "TypeMem32" \notin d1 /\ "TypePMem32" \notin d2
      /\ "TypeMem64" \notin d3 /\ "TypePMem64" \notin d4
  OBVIOUS
<1>. HIDE DEF d1, d2, d3, d4, d5
<1>3. LoopInv(b, s0, s1, d1, 1, om, oi)
  BY <1>2, <1>d, LoopTurns, Five DEF s1
<1>4. LoopInv(b, s0, s2, d2, 2, om, oi)
  BY <1>3, <1>d, LoopTurns, Five DEF s2
<1>5. LoopInv(b, s0, s3, d3, 3, om, oi)
  BY <1>4, <1>d, LoopTurns, Five DEF s3
<1>6. LoopInv(b, s0, s4, d4, 4, om, oi)
  BY <1>5, <1>d, LoopTurns, Five DEF s4
<1>7. LoopInv(b, s0, s5, d5, 5, om, oi)
  BY <1>6, <1>d, LoopTurns, Five DEF s5
<1>8. /\ s5 \in TurnStates /\ Sorted(b, s5, om, oi) /\ SameRequests(node[b], s5.nodes)
      /\ Full(b, s0, om, oi) /\ Unserved(b, s0) => Full(b, s5, om, oi)
  BY <1>7 DEF LoopInv, s0
<1>9. Full(b, [nodes |-> node[b], mem |-> mem, io |-> io], om, oi) => Full(b, s0, om, oi)
  BY DEF Full, s0
<1>10. ~Holds(b) => Unserved(b, s0)
  BY DEF Holds, Unserved, Mine, s0
<1>11. ASSUME s5.status = "EFI_SUCCESS"
       PROVE  \A t \in ResTypes : s5.nodes[t].status \in {"ResAllocated", "ResNone"}
  <2>1. s5.handled \in SUBSET ResTypes
    BY <1>8 DEF TurnStates
  <2>2. Cardinality(s5.handled) = 5
    BY <1>7, <1>11 DEF LoopInv
  <2>3. s5.handled = ResTypes
    BY <2>1, <2>2, Counted
  <2>. QED  BY <1>7, <1>11, <2>3 DEF LoopInv, GoesWell
<1>. QED  BY <1>1, <1>8, <1>9, <1>10, <1>11

-----------------------------------------------------------------------------
(* FreeResources and HostBridgeFreeExistingConfig                          *)

\* A node that was given back, or had nothing.
Frees(b, s, t, r, om, oi) ==
  /\ r \in FreeStates /\ Sorted(b, r, om, oi) /\ ~r.refused
  /\ Full(b, s, om, oi) => Full(b, r, om, oi)
  /\ ~Mine(b, r.nodes[t])
  /\ \A u \in Types \ {t} : r.nodes[u] = s.nodes[u]
  /\ r.status = IF Mine(b, s.nodes[t]) THEN "EFI_SUCCESS" ELSE s.status

\* FreeResources for an allocated node: the GCD has the range, and takes it.
LEMMA FreedSorts ==
  ASSUME NEW b \in Bridges, NEW s \in FreeStates, NEW om, NEW oi,
         Sorted(b, s, om, oi), ~s.refused, NEW t \in ResTypes, Mine(b, s.nodes[t]),
         NEW r, r = Freed(b, s, t)
  PROVE  Frees(b, s, t, r, om, oi)
<1>. DEFINE R == Claimed(b, t, s.nodes[t])
            n == [Unused EXCEPT !.tracked = s.nodes[t].tracked]
            new == [s.nodes EXCEPT ![t] = n]
<1>1. s.nodes \in [Types -> Node] /\ t \in Types
  BY Five DEF FreeStates
<1>2. n \in Node /\ ~Mine(b, n) /\ n.length = 0
  <2>1. 0 \in Addresses
    BY Arithmetic
  <2>. QED  BY <1>1, <2>1 DEF Node, Mine, Unused
<1>3. R # {} /\ R \subseteq Space(s, t)
  BY Five DEF Sorted, Stands, MemTypes, IoTypes, Space
<1>4. r = [s EXCEPT !.mem = IF t = "TypeIo" THEN s.mem ELSE s.mem \ R,
                    !.io = IF t = "TypeIo" THEN s.io \ R ELSE s.io,
                    !.nodes = new, !.status = "EFI_SUCCESS"]
  BY <1>3 DEF Freed, Mine, Space
<1>5. new \in [Types -> Node] /\ new[t] = n /\ \A u \in Types \ {t} : new[u] = s.nodes[u]
  BY <1>1, <1>2
<1>. HIDE DEF R, n, new
<1>6. /\ r.nodes = new /\ r.status = "EFI_SUCCESS" /\ r.refused = s.refused
      /\ r.mem = IF t = "TypeIo" THEN s.mem ELSE s.mem \ R
      /\ r.io = IF t = "TypeIo" THEN s.io \ R ELSE s.io
  BY <1>4 DEF FreeStates
<1>7. r \in FreeStates
  <2>1. r.mem \subseteq Addresses /\ r.io \subseteq Addresses
    BY <1>6 DEF FreeStates
  <2>2. DOMAIN r = DOMAIN s /\ r = [x \in DOMAIN r |-> r[x]]
    BY <1>4
  <2>. QED  BY <1>5, <1>6, <2>1, <2>2 DEF FreeStates, Statuses
<1>8. Blank(new)
  BY <1>2, <1>5, Five DEF Blank, Sorted
<1>9. CASE t = "TypeIo"
  <2>1. \A u \in MemTypes : new[u] = s.nodes[u]
    BY <1>5, <1>9, Five DEF MemTypes
  <2>2. /\ Stands(b, new, MemTypes, r.mem, om)
        /\ Exact(b, s.nodes, MemTypes, s.mem, om) => Exact(b, new, MemTypes, r.mem, om)
    BY <2>1, <1>6, <1>9 DEF Sorted, Stands, Exact
  <2>3. /\ Stands(b, new, IoTypes, r.io, oi)
        /\ Exact(b, s.nodes, IoTypes, s.io, oi) => Exact(b, new, IoTypes, r.io, oi)
    <3>1. IoTypes \in SUBSET Types /\ t \in IoTypes /\ Stands(b, s.nodes, IoTypes, s.io, oi)
      BY <1>9, Five DEF IoTypes, Sorted
    <3>2. r.io = s.io \ Claimed(b, t, s.nodes[t])
      BY <1>6, <1>9 DEF R
    <3>. QED  BY <1>1, <1>2, <3>1, <3>2, Removing DEF new
  <2>. QED  BY <1>2, <1>5, <1>6, <1>7, <1>8, <2>2, <2>3 DEF Sorted, Full, Frees
<1>10. CASE t # "TypeIo"
  <2>1. new["TypeIo"] = s.nodes["TypeIo"]
    BY <1>5, <1>10, Five
  <2>2. /\ Stands(b, new, IoTypes, r.io, oi)
        /\ Exact(b, s.nodes, IoTypes, s.io, oi) => Exact(b, new, IoTypes, r.io, oi)
    BY <2>1, <1>6, <1>10 DEF Sorted, Stands, Exact, IoTypes
  <2>3. /\ Stands(b, new, MemTypes, r.mem, om)
        /\ Exact(b, s.nodes, MemTypes, s.mem, om) => Exact(b, new, MemTypes, r.mem, om)
    <3>1. MemTypes \in SUBSET Types /\ t \in MemTypes /\ Stands(b, s.nodes, MemTypes, s.mem, om)
      BY <1>10, Five DEF MemTypes, Sorted
    <3>2. r.mem = s.mem \ Claimed(b, t, s.nodes[t])
      BY <1>6, <1>10 DEF R
    <3>. QED  BY <1>1, <1>2, <3>1, <3>2, Removing DEF new
  <2>. QED  BY <1>2, <1>5, <1>6, <1>7, <1>8, <2>2, <2>3 DEF Sorted, Full, Frees
<1>. QED  BY <1>9, <1>10

\* The loop of either: the types done are free, the others as at first.
FreeInv(b, first, s, done, om, oi) ==
  /\ s \in FreeStates /\ Sorted(b, s, om, oi) /\ ~s.refused
  /\ Full(b, first, om, oi) => Full(b, s, om, oi)
  /\ done \subseteq ResTypes
  /\ \A u \in done : ~Mine(b, s.nodes[u])
  /\ \A u \in Types \ done : s.nodes[u] = first.nodes[u]
  /\ (\E u \in done : Mine(b, first.nodes[u])) => s.status = "EFI_SUCCESS"

\* A turn keeps the invariant of either loop.
LEMMA FreeTurns ==
  ASSUME NEW b \in Bridges, NEW first, NEW s, NEW om, NEW oi, NEW done,
         FreeInv(b, first, s, done, om, oi),
         NEW t \in ResTypes, t \notin done, NEW now, now = done \cup {t},
         NEW r, \/ b \notin Keep /\ r = Freed(b, s, t)
                \/ b \in Keep /\ r = Undone(b, s, t)
  PROVE  FreeInv(b, first, r, now, om, oi)
<1>1. s \in FreeStates /\ Sorted(b, s, om, oi) /\ ~s.refused
  BY DEF FreeInv
<1>2. CASE Mine(b, s.nodes[t])
  <2>1. r = Freed(b, s, t)
    BY <1>1, <1>2 DEF Undone, Mine
  <2>2. Frees(b, s, t, r, om, oi)
    BY <1>1, <1>2, <2>1, FreedSorts
  <2>3. r \in FreeStates /\ Sorted(b, r, om, oi) /\ ~r.refused /\ r.status = "EFI_SUCCESS"
    BY <1>2, <2>2 DEF Frees
  <2>4. Full(b, first, om, oi) => Full(b, r, om, oi)
    BY <2>2 DEF FreeInv, Frees
  <2>5. ~Mine(b, r.nodes[t]) /\ \A u \in Types \ {t} : r.nodes[u] = s.nodes[u]
    BY <2>2 DEF Frees
  <2>6. /\ \A u \in done : ~Mine(b, s.nodes[u])
        /\ \A u \in Types \ done : s.nodes[u] = first.nodes[u]
        /\ done \subseteq ResTypes
    BY DEF FreeInv
  <2>7. t \in Types
    BY Five
  <2>8. \A u \in now : ~Mine(b, r.nodes[u])
    BY <2>5, <2>6, Five
  <2>. QED  BY <2>3, <2>4, <2>5, <2>6, <2>8 DEF FreeInv
<1>3. CASE ~Mine(b, s.nodes[t])
  <2>1. r = s
    BY <1>1, <1>3 DEF Freed, Undone, Mine
  <2>2. s.nodes[t] = first.nodes[t]
    BY Five DEF FreeInv
  <2>. QED  BY <1>3, <2>1, <2>2 DEF FreeInv
<1>. QED  BY <1>2, <1>3

GiveBack(b, s, t) == IF b \in Keep THEN Undone(b, s, t) ELSE Freed(b, s, t)

\* All five turns.
LEMMA FreeLoop ==
  ASSUME NEW b \in Bridges, NEW first \in FreeStates, NEW om, NEW oi,
         Sorted(b, first, om, oi), ~first.refused,
         NEW r, r = InTypeOrder(LAMBDA s, t : GiveBack(b, s, t), first)
  PROVE  FreeInv(b, first, r, ResTypes, om, oi)
<1>. DEFINE s1 == GiveBack(b, first, "TypeIo")
            s2 == GiveBack(b, s1, "TypeMem32")
            s3 == GiveBack(b, s2, "TypePMem32")
            s4 == GiveBack(b, s3, "TypeMem64")
            s5 == GiveBack(b, s4, "TypePMem64")
            d1 == {"TypeIo"}
            d2 == {"TypeIo", "TypeMem32"}
            d3 == {"TypeIo", "TypeMem32", "TypePMem32"}
            d4 == {"TypeIo", "TypeMem32", "TypePMem32", "TypeMem64"}
            d5 == {"TypeIo", "TypeMem32", "TypePMem32", "TypeMem64", "TypePMem64"}
<1>1. FreeInv(b, first, first, {}, om, oi)
  BY DEF FreeInv
<1>2. r = s5 /\ d5 = ResTypes
  BY Five DEF InTypeOrder
<1>3. /\ d1 = {} \cup {"TypeIo"} /\ d2 = d1 \cup {"TypeMem32"} /\ d3 = d2 \cup {"TypePMem32"}
      /\ d4 = d3 \cup {"TypeMem64"} /\ d5 = d4 \cup {"TypePMem64"}
      /\ "TypeIo" \notin {} /\ "TypeMem32" \notin d1 /\ "TypePMem32" \notin d2
      /\ "TypeMem64" \notin d3 /\ "TypePMem64" \notin d4
  OBVIOUS
<1>4. \A s, t : \/ b \notin Keep /\ GiveBack(b, s, t) = Freed(b, s, t)
                \/ b \in Keep /\ GiveBack(b, s, t) = Undone(b, s, t)
  BY DEF GiveBack
<1>. HIDE DEF s1, s2, s3, s4, s5, d1, d2, d3, d4, d5
<1>5. FreeInv(b, first, s1, d1, om, oi)
  BY <1>1, <1>3, <1>4, FreeTurns, Five DEF s1
<1>6. FreeInv(b, first, s2, d2, om, oi)
  BY <1>3, <1>4, <1>5, FreeTurns, Five DEF s2
<1>7. FreeInv(b, first, s3, d3, om, oi)
  BY <1>3, <1>4, <1>6, FreeTurns, Five DEF s3
<1>8. FreeInv(b, first, s4, d4, om, oi)
  BY ZenonT(60), <1>3, <1>4, <1>7, FreeTurns, Five DEF s4
<1>9. FreeInv(b, first, s5, d5, om, oi)
  BY <1>3, <1>4, <1>8, FreeTurns, Five DEF s5
<1>. QED  BY <1>2, <1>9

-----------------------------------------------------------------------------
(* HostBridgeKeepExistingConfig                                            *)

\* The types to come are as they were.
KeptInv(b, first, s, done, om, oi) ==
  /\ s \in KeepStates /\ Sorted(b, s, om, oi)
  /\ Full(b, first, om, oi) => Full(b, s, om, oi)
  /\ \A u \in Types \ done : s.nodes[u] = Unused

\* A turn of HostBridgeKeepExistingConfig: the range of a window is claimed, kept
\* without asking, or left out.
LEMMA KeptTurns ==
  ASSUME NEW b \in Keep, NEW first, NEW s, NEW om, NEW oi, NEW done,
         KeptInv(b, first, s, done, om, oi),
         NEW t \in ResTypes, t \notin done, NEW now, now = done \cup {t},
         NEW r, r = Kept(b, s, t)
  PROVE  KeptInv(b, first, r, now, om, oi)
<1>. DEFINE w == Window[b][t]
            base == IF t = "TypeIo" THEN w.base ELSE ToHost(w.base, Translation(w))
            a == AllocateResource(IF t = "TypeIo" THEN s.ioSpace ELSE Addresses,
                                  Space(s, t), w.length, 2, base, Sub(Add(base, w.length), 1))
            x == [Unused EXCEPT !.length = w.length, !.status = "ResAllocated"]
            y == [x EXCEPT !.tracked = TRUE]
            plain == [x EXCEPT !.base = w.base]
            asks  == [y EXCEPT !.status = "ResSubmitted"]
            sp == [s EXCEPT !.nodes = [s.nodes EXCEPT ![t] = plain]]
            sa == [s EXCEPT !.nodes = [s.nodes EXCEPT ![t] = asks]]
            at == IF t = "TypeIo" THEN ToHost(a, Translation(w)) ELSE a
<1>1. /\ s \in KeepStates /\ Sorted(b, s, om, oi)
      /\ Full(b, first, om, oi) => Full(b, s, om, oi)
      /\ s.nodes \in [Types -> Node] /\ t \in Types /\ b \in Bridges
      /\ s.nodes[t] = Unused /\ ~Mine(b, s.nodes[t])
  BY Five, BridgesAssumption DEF KeptInv, KeepStates, Mine, Unused
<1>2. /\ w.base \in Addresses /\ w.length \in Addresses /\ Translation(w) \in Addresses
      /\ 0 \in Addresses
  BY <1>1, Windows, Arithmetic
<1>3. /\ plain \in Node /\ asks \in Node /\ ~Mine(b, plain) /\ ~Mine(b, asks)
      /\ plain.status # "ResNone" /\ asks.status # "ResNone" /\ asks.tracked = TRUE
      /\ asks.length = w.length
  BY <1>2 DEF Node, Mine, Unused
<1>4. r = s \/ r = sp \/ (a # NoAddress /\ r = Claim(b, sa, t, at))
  <2>. DEFINE sy == [s EXCEPT !.nodes[t] = y]
  <2>1. Claim(b, sa, t, at) = Claim(b, sy, t, at)
    <3>. DEFINE n == Placed(asks, at)
    <3>. HIDE DEF at, w
    <3>. HIDE DEF y
    <3>2. Placed(y, at) = n
      <4>1. \A z, v : v = Placed(z, at) => /\ DOMAIN v = DOMAIN z /\ v = [f \in DOMAIN z |-> v[f]]
                                         /\ \A f \in DOMAIN z : v[f] = IF f = "base" THEN at
                                              ELSE IF f = "status" THEN "ResAllocated" ELSE z[f]
        BY DEF Placed
      <4>2. DOMAIN asks = DOMAIN y /\ \A f \in DOMAIN y : f # "status" => asks[f] = y[f]
        OBVIOUS
      <4>. HIDE DEF asks
      <4>. QED  BY <4>1, <4>2
    <3>3. /\ sy.nodes = [s.nodes EXCEPT ![t] = y] /\ sa.nodes = [s.nodes EXCEPT ![t] = asks]
          /\ sy.nodes[t] = y /\ sa.nodes[t] = asks
          /\ sy.mem = s.mem /\ sy.io = s.io /\ sa.mem = s.mem /\ sa.io = s.io
      BY <1>1 DEF KeepStates
    <3>. DEFINE nodes == [s.nodes EXCEPT ![t] = n]
                made == [s EXCEPT !.nodes = nodes,
                           !.mem = IF t = "TypeIo" THEN s.mem ELSE s.mem \cup Claimed(b, t, n),
                           !.io = IF t = "TypeIo" THEN s.io \cup Claimed(b, t, n) ELSE s.io]
    <3>4. [sy.nodes EXCEPT ![t] = n] = nodes /\ [sa.nodes EXCEPT ![t] = n] = nodes
      BY <1>1, <3>3
    <3>. HIDE DEF n, nodes
    <3>5. Claim(b, sy, t, at) = made
      BY <1>1, <3>2, <3>3, <3>4 DEF Claim, Placed, KeepStates
    <3>6. Claim(b, sa, t, at) = made
      BY <1>1, <3>3, <3>4 DEF Claim, Placed, n, KeepStates
    <3>. QED  BY <3>5, <3>6
  <2>2. r = s \/ r = sp \/ (a # NoAddress /\ r = Claim(b, sy, t, at))
    BY DEF Kept, Space
  <2>. QED  BY <2>1, <2>2
<1>. HIDE DEF plain, asks, x, y
<1>5. CASE r = s
  BY <1>5, <1>1 DEF KeptInv
<1>6. ASSUME NEW n \in Node, ~Mine(b, n), n.status # "ResNone",
             NEW q, q = [s EXCEPT !.nodes = [s.nodes EXCEPT ![t] = n]]
      PROVE  /\ q \in KeepStates /\ Sorted(b, q, om, oi)
             /\ Full(b, s, om, oi) => Full(b, q, om, oi)
             /\ q.nodes[t] = n /\ q.mem = s.mem /\ q.io = s.io /\ q.ioSpace = s.ioSpace
             /\ \A u \in Types \ {t} : q.nodes[u] = s.nodes[u]
  <2>. DEFINE new == [s.nodes EXCEPT ![t] = n]
  <2>1. /\ new \in [Types -> Node] /\ new[t] = n
        /\ \A u \in Types \ {t} : new[u] = s.nodes[u]
    BY <1>1
  <2>2. /\ q.nodes = new /\ q.mem = s.mem /\ q.io = s.io /\ q.ioSpace = s.ioSpace
        /\ q \in KeepStates
    BY <1>6, <2>1, <1>1 DEF KeepStates
  <2>. HIDE DEF new
  <2>3. Blank(new)
    BY <1>1, <1>6, <2>1, Five DEF Sorted, Blank
  <2>4. /\ MemTypes \subseteq Types /\ IoTypes \subseteq Types
        /\ \A u \in Types : Mine(b, s.nodes[u]) => new[u] = s.nodes[u]
        /\ \A u \in Types : \/ Mine(b, s.nodes[u]) /\ new[u] = s.nodes[u]
                            \/ ~Mine(b, new[u])
    BY <1>1, <1>6, <2>1, Five DEF MemTypes, IoTypes
  <2>5. /\ Stands(b, new, MemTypes, s.mem, om)
        /\ Exact(b, s.nodes, MemTypes, s.mem, om) => Exact(b, new, MemTypes, s.mem, om)
        /\ Stands(b, new, IoTypes, s.io, oi)
        /\ Exact(b, s.nodes, IoTypes, s.io, oi) => Exact(b, new, IoTypes, s.io, oi)
    <3>1. Stands(b, s.nodes, MemTypes, s.mem, om) /\ Stands(b, s.nodes, IoTypes, s.io, oi)
      BY <1>1 DEF Sorted
    <3>. QED  BY <2>4, <3>1, Keeping
  <2>. QED  BY <2>1, <2>2, <2>3, <2>5 DEF Sorted, Full
<1>7. CASE r = sp
  <2>1. /\ sp \in KeepStates /\ Sorted(b, sp, om, oi)
        /\ Full(b, s, om, oi) => Full(b, sp, om, oi)
        /\ \A u \in Types \ {t} : sp.nodes[u] = s.nodes[u]
    BY <1>3, <1>6
  <2>. HIDE DEF sp
  <2>. QED  BY <1>1, <1>7, <2>1 DEF KeptInv
<1>8. CASE a # NoAddress /\ r = Claim(b, sa, t, at)
  <2>1. /\ sa \in KeepStates /\ Sorted(b, sa, om, oi)
        /\ Full(b, s, om, oi) => Full(b, sa, om, oi)
        /\ sa.nodes[t] = asks /\ sa.mem = s.mem /\ sa.io = s.io
        /\ \A u \in Types \ {t} : sa.nodes[u] = s.nodes[u]
    <3>1. sa = [s EXCEPT !.nodes = [s.nodes EXCEPT ![t] = asks]]
      OBVIOUS
    <3>2. asks \in Node /\ ~Mine(b, asks) /\ asks.status # "ResNone"
      BY <1>3
    <3>. HIDE DEF at, a, w, sa, sp, base
    <3>3. sa \in KeepStates /\ Sorted(b, sa, om, oi) /\ (Full(b, s, om, oi) => Full(b, sa, om, oi))
      BY <3>1, <3>2, <1>6
    <3>4. sa.nodes[t] = asks
      BY <3>1, <3>2, <1>6
    <3>5. sa.mem = s.mem /\ sa.io = s.io
      BY <3>1, <3>2, <1>6
    <3>6. \A u \in Types \ {t} : sa.nodes[u] = s.nodes[u]
      BY <3>1, <3>2, <1>6
    <3>. QED  BY <3>3, <3>4, <3>5, <3>6
  <2>2. /\ a \in Addresses /\ w.length > 0
        /\ Span(a, w.length) \subseteq (IF t = "TypeIo" THEN s.ioSpace ELSE Addresses) \ Space(s, t)
    BY <1>8, AllocateFits
  <2>. DEFINE n == Placed(asks, at)
  <2>3. n.base = at /\ n.length = w.length
    BY <1>3 DEF Placed, Node
  <2>. HIDE DEF sa, a, n, w
  <2>4. at \in Addresses /\ Claimed(b, t, n) = Span(a, w.length)
    BY <1>2, <2>2, <2>3, Arithmetic DEF Claimed, ToHost, ToDevice, w
  <2>5. Span(a, w.length) # {} /\ Span(a, w.length) \subseteq Addresses \ Space(sa, t)
    <3>1. a \in Span(a, w.length)
      <4>1. a \in Int /\ w.length \in Int /\ w.length > 0
        BY <1>2, <2>2, Arithmetic DEF Addresses
      <4>. HIDE DEF at, sp, base
      <4>. QED  BY <4>1 DEF Span
    <3>2. s.ioSpace \subseteq Addresses
      BY <1>1 DEF KeepStates
    <3>. QED  BY <2>1, <2>2, <3>1, <3>2 DEF Space
  <2>6. sa \in TurnStates \cup KeepStates /\ (b \in Keep => sa.nodes[t].tracked = TRUE)
        /\ n = Placed(sa.nodes[t], at)
    BY <1>3, <2>1 DEF n
  <2>7. ~Mine(b, sa.nodes[t])
    BY <1>3, <2>1
  <2>. HIDE DEF at
  <2>8. Claims(b, sa, t, r, om, oi)
    BY <1>1, <1>8, <2>1, <2>4, <2>5, <2>6, ClaimSorts
  <2>9. /\ r \in KeepStates /\ Sorted(b, r, om, oi)
        /\ Full(b, sa, om, oi) => Full(b, r, om, oi)
        /\ \A u \in Types \ {t} : r.nodes[u] = sa.nodes[u]
    BY <2>1, <2>7, <2>8 DEF Claims
  <2>. QED  BY <1>1, <2>1, <2>9 DEF KeptInv
<1>. QED  BY <1>4, <1>5, <1>7, <1>8

\* All five turns, and the bus numbers.
LEMMA KeepSorts ==
  ASSUME NEW b \in Keep, NEW first \in KeepStates, NEW om, NEW oi,
         Sorted(b, first, om, oi),
         first.nodes = [t \in Types |-> Unused],
         NEW r, r = KeepExistingConfig(b, first)
  PROVE  /\ r \in KeepStates /\ Sorted(b, r, om, oi)
         /\ Full(b, first, om, oi) => Full(b, r, om, oi)
<1>. DEFINE s1 == Kept(b, first, "TypeIo")
            s2 == Kept(b, s1, "TypeMem32")
            s3 == Kept(b, s2, "TypePMem32")
            s4 == Kept(b, s3, "TypeMem64")
            s5 == Kept(b, s4, "TypePMem64")
            d1 == {"TypeIo"}
            d2 == {"TypeIo", "TypeMem32"}
            d3 == {"TypeIo", "TypeMem32", "TypePMem32"}
            d4 == {"TypeIo", "TypeMem32", "TypePMem32", "TypeMem64"}
            d5 == {"TypeIo", "TypeMem32", "TypePMem32", "TypeMem64", "TypePMem64"}
            w  == Window[b].TypeBus
            n  == [base |-> w.base, length |-> w.length, align |-> 0,
                   status |-> "ResAllocated", tracked |-> TRUE]
<1>1. KeptInv(b, first, first, {}, om, oi)
  BY DEF KeptInv
<1>2. r = [s5 EXCEPT !.nodes.TypeBus = n]
  BY DEF KeepExistingConfig, InTypeOrder
<1>3. /\ d1 = {} \cup {"TypeIo"} /\ d2 = d1 \cup {"TypeMem32"} /\ d3 = d2 \cup {"TypePMem32"}
      /\ d4 = d3 \cup {"TypeMem64"} /\ d5 = d4 \cup {"TypePMem64"}
      /\ "TypeIo" \notin {} /\ "TypeMem32" \notin d1 /\ "TypePMem32" \notin d2
      /\ "TypeMem64" \notin d3 /\ "TypePMem64" \notin d4
  OBVIOUS
<1>4. n \in Node
  <2>1. b \in Bridges /\ "TypeBus" \in Types
    BY Five, BridgesAssumption
  <2>2. w \in [base : Addresses, parent : Addresses, length : Addresses]
    BY <2>1, Windows
  <2>. QED  BY <2>2, Arithmetic DEF Node
<1>. HIDE DEF s1, s2, s3, s4, s5, d1, d2, d3, d4, d5, n
<1>5. KeptInv(b, first, s1, d1, om, oi)
  BY <1>1, <1>3, KeptTurns, Five DEF s1
<1>6. KeptInv(b, first, s2, d2, om, oi)
  BY <1>3, <1>5, KeptTurns, Five DEF s2
<1>7. KeptInv(b, first, s3, d3, om, oi)
  BY <1>3, <1>6, KeptTurns, Five DEF s3
<1>8. KeptInv(b, first, s4, d4, om, oi)
  BY <1>3, <1>7, KeptTurns, Five DEF s4
<1>9. KeptInv(b, first, s5, d5, om, oi)
  BY <1>3, <1>8, KeptTurns, Five DEF s5
<1>10. /\ s5 \in KeepStates /\ Sorted(b, s5, om, oi)
       /\ Full(b, first, om, oi) => Full(b, s5, om, oi)
       /\ s5.nodes \in [Types -> Node]
  BY <1>9 DEF KeptInv, KeepStates
<1>. DEFINE new == [s5.nodes EXCEPT !["TypeBus"] = n]
<1>11. r = [s5 EXCEPT !.nodes = new]
  BY <1>2
<1>12. new \in [Types -> Node] /\ \A u \in ResTypes : new[u] = s5.nodes[u]
  BY <1>4, <1>10, Five
<1>. HIDE DEF new
<1>13. /\ r.nodes = new /\ r.mem = s5.mem /\ r.io = s5.io
       /\ r \in KeepStates
  BY <1>10, <1>11, <1>12 DEF KeepStates
<1>14. MemTypes \subseteq ResTypes /\ IoTypes \subseteq ResTypes
  BY Five DEF MemTypes, IoTypes
<1>15. Blank(new)
  BY <1>10, <1>12 DEF Sorted, Blank
<1>16. /\ Stands(b, new, MemTypes, s5.mem, om) /\ Stands(b, new, IoTypes, s5.io, oi)
       /\ Exact(b, s5.nodes, MemTypes, s5.mem, om) => Exact(b, new, MemTypes, s5.mem, om)
       /\ Exact(b, s5.nodes, IoTypes, s5.io, oi) => Exact(b, new, IoTypes, s5.io, oi)
  <2>1. /\ Stands(b, s5.nodes, MemTypes, s5.mem, om) /\ Stands(b, s5.nodes, IoTypes, s5.io, oi)
    BY <1>10 DEF Sorted
  <2>2. /\ \A u \in MemTypes : new[u] = s5.nodes[u]
        /\ \A u \in IoTypes : new[u] = s5.nodes[u]
    BY <1>12, <1>14
  <2>. QED  BY <2>1, <2>2, Keeping
<1>. QED  BY <1>10, <1>12, <1>13, <1>15, <1>16 DEF Sorted, Full

-----------------------------------------------------------------------------
(* The nodes of all bridges                                                *)

\* What the other bridges have.
Others(nd, b, T) ==
  {a \in Addresses : \E c \in Bridges \ {b} : \E t \in T :
     Mine(c, nd[c][t]) /\ a \in Claimed(c, t, nd[c][t])}

Global(nd, T, M) == \A b \in Bridges : Stands(b, nd[b], T, M, Others(nd, b, T))
Whole(nd, T, M) ==
  \A a \in M : \E b \in Bridges : \E t \in T :
    Mine(b, nd[b][t]) /\ a \in Claimed(b, t, nd[b][t])

\* A bridge that changes its own nodes, and leaves the others what they have.
LEMMA Joining ==
  ASSUME NEW nd, DOMAIN nd = Bridges, NEW T, NEW M, NEW N, Global(nd, T, M),
         NEW b \in Bridges, NEW new, Stands(b, new, T, N, Others(nd, b, T)),
         NEW nd2, nd2 = [nd EXCEPT ![b] = new]
  PROVE  /\ Global(nd2, T, N)
         /\ Exact(b, new, T, N, Others(nd, b, T)) => Whole(nd2, T, N)
<1>. DEFINE R(k, c, t) == Claimed(c, t, k[c][t])
            Has(k, c, t) == Mine(c, k[c][t])
<1>1. nd2[b] = new /\ \A c \in Bridges \ {b} : nd2[c] = nd[c]
  OBVIOUS
<1>2. /\ \A c \in Bridges \ {b}, t \in T :
           R(nd2, c, t) = R(nd, c, t) /\ (Has(nd2, c, t) <=> Has(nd, c, t))
      /\ \A t \in T : R(nd2, b, t) = Claimed(b, t, new[t]) /\ (Has(nd2, b, t) <=> Mine(b, new[t]))
  BY <1>1
<1>3. \A k, c, a : a \in Others(k, c, T) <=>
        a \in Addresses /\ \E d \in Bridges \ {c} : \E t \in T : Has(k, d, t) /\ a \in R(k, d, t)
  BY DEF Others
<1>4. \A k, c, P : Stands(c, k[c], T, P, Others(k, c, T)) <=>
        /\ Others(k, c, T) \subseteq P /\ P \subseteq Addresses
        /\ \A t \in T : Has(k, c, t) => R(k, c, t) # {} /\ R(k, c, t) \subseteq P \ Others(k, c, T)
        /\ \A t, u \in T : t # u /\ Has(k, c, t) /\ Has(k, c, u) =>
             R(k, c, t) \cap R(k, c, u) = {}
  BY DEF Stands
<1>5. Others(nd2, b, T) = Others(nd, b, T)
  <2>. HIDE DEF R, Has
  <2>1. ASSUME NEW a
        PROVE  a \in Others(nd2, b, T) <=> a \in Others(nd, b, T)
    <3>1. \A d \in Bridges \ {b}, u \in T :
            (Has(nd2, d, u) /\ a \in R(nd2, d, u)) <=> (Has(nd, d, u) /\ a \in R(nd, d, u))
      BY <1>2, Zenon
    <3>2. (\E d \in Bridges \ {b} : \E u \in T : Has(nd2, d, u) /\ a \in R(nd2, d, u))
            <=> (\E d \in Bridges \ {b} : \E u \in T : Has(nd, d, u) /\ a \in R(nd, d, u))
      BY <3>1, Zenon
    <3>. QED  BY ZenonT(60), <1>3, <3>2
  <2>. QED  BY <2>1
<1>6. Stands(b, nd2[b], T, N, Others(nd2, b, T))
  BY <1>1, <1>5
<1>7. ASSUME NEW c \in Bridges, c # b
      PROVE  Stands(c, nd2[c], T, N, Others(nd2, c, T))
  <2>1. Stands(c, nd[c], T, M, Others(nd, c, T)) /\ M \subseteq Addresses
    BY DEF Global, Stands
  <2>2. Others(nd2, b, T) \subseteq N /\ N \subseteq Addresses
    BY <1>6 DEF Stands
  <2>3. /\ \A t \in T : Has(nd2, b, t) =>
             R(nd2, b, t) # {} /\ R(nd2, b, t) \subseteq N \ Others(nd2, b, T)
        /\ \A t, u \in T : t # u /\ Has(nd2, b, t) /\ Has(nd2, b, u) =>
             R(nd2, b, t) \cap R(nd2, b, u) = {}
    <3>. HIDE DEF R, Has
    <3>. QED  BY ONLY <1>4, <1>6, Zenon
  <2>4. /\ \A t \in T : Has(nd, c, t) =>
             R(nd, c, t) # {} /\ R(nd, c, t) \subseteq M \ Others(nd, c, T)
        /\ \A t, u \in T : t # u /\ Has(nd, c, t) /\ Has(nd, c, u) =>
             R(nd, c, t) \cap R(nd, c, u) = {}
    BY <1>4, <2>1
  <2>. HIDE DEF R, Has
  <2>5. ASSUME NEW t \in T, Has(nd2, c, t)
        PROVE  R(nd2, c, t) # {} /\ R(nd2, c, t) \subseteq Others(nd2, b, T)
    <3>1. R(nd2, c, t) # {} /\ R(nd2, c, t) \subseteq Addresses
      BY <1>2, <1>7, <2>1, <2>4, <2>5
    <3>2. ASSUME NEW a \in R(nd2, c, t)
          PROVE  a \in Others(nd2, b, T)
      BY <1>3, <1>7, <2>5, <3>1, <3>2
    <3>. QED  BY <3>1, <3>2
  <2>6. ASSUME NEW t \in T, Has(nd2, c, t), NEW a \in R(nd2, c, t)
        PROVE  a \in N /\ a \notin Others(nd2, c, T)
    <3>1. a \in N /\ a \in Others(nd2, b, T)
      BY <2>2, <2>5, <2>6
    <3>2. ASSUME NEW d \in Bridges \ {c}, NEW u \in T, Has(nd2, d, u), a \in R(nd2, d, u)
          PROVE  FALSE
      <4>1. CASE d = b
        BY <2>3, <3>1, <3>2, <4>1
      <4>2. CASE d # b
        <5>1. Has(nd, d, u) /\ a \in R(nd, d, u) /\ Has(nd, c, t) /\ a \in R(nd, c, t)
          BY <1>2, <1>7, <2>6, <3>2, <4>2
        <5>2. a \in Others(nd, c, T)
          BY <1>3, <2>1, <2>2, <3>1, <3>2, <5>1
        <5>. QED  BY <2>4, <5>1, <5>2
      <4>. QED  BY <4>1, <4>2
    <3>. QED  BY <1>3, <3>1, <3>2
  <2>7. Others(nd2, c, T) \subseteq N
    <3>1. ASSUME NEW a \in Addresses, NEW d \in Bridges \ {c}, NEW u \in T, Has(nd2, d, u),
                 a \in R(nd2, d, u)
          PROVE  a \in N
      <4>1. CASE d = b
        BY <2>3, <3>1, <4>1
      <4>2. CASE d # b
        <5>1. a \in Others(nd2, b, T)
          BY <1>3, <3>1, <4>2
        <5>. QED  BY <2>2, <5>1
      <4>. QED  BY <4>1, <4>2
    <3>. QED  BY <1>3, <3>1
  <2>8. \A t, u \in T : t # u /\ Has(nd2, c, t) /\ Has(nd2, c, u) =>
          R(nd2, c, t) \cap R(nd2, c, u) = {}
    <3>1. \A t \in T : R(nd2, c, t) = R(nd, c, t) /\ (Has(nd2, c, t) <=> Has(nd, c, t))
      BY ONLY <1>2, <1>7
    <3>. QED  BY ONLY <2>4, <3>1
  <2>. QED  BY ZenonT(60), <1>4, <2>2, <2>5, <2>6, <2>7, <2>8
<1>8. ASSUME Exact(b, new, T, N, Others(nd, b, T))
      PROVE  Whole(nd2, T, N)
  <2>1. ASSUME NEW a \in N
        PROVE  \E c \in Bridges : \E t \in T : Has(nd2, c, t) /\ a \in R(nd2, c, t)
    <3>1. CASE a \in Others(nd2, b, T)
      <4>. HIDE DEF R, Has
      <4>. QED  BY <1>3, <3>1
    <3>2. CASE a \notin Others(nd2, b, T)
      <4>1. \E t \in T : Mine(b, new[t]) /\ a \in Claimed(b, t, new[t])
        BY <1>5, <1>8, <3>2 DEF Exact
      <4>. QED  BY <1>2, <4>1
    <3>. QED  BY <3>1, <3>2
  <2>. QED  BY <2>1 DEF Whole
<1>. QED  BY <1>6, <1>7, <1>8 DEF Global

\* What nobody else has in an exact map is the bridge's own.
LEMMA Splitting ==
  ASSUME NEW nd, NEW T, NEW M, Whole(nd, T, M), M \subseteq Addresses, NEW b \in Bridges
  PROVE  Exact(b, nd[b], T, M, Others(nd, b, T))
<1>1. ASSUME NEW a \in M \ Others(nd, b, T)
      PROVE  \E t \in T : Mine(b, nd[b][t]) /\ a \in Claimed(b, t, nd[b][t])
  <2>1. PICK c \in Bridges : \E t \in T : Mine(c, nd[c][t]) /\ a \in Claimed(c, t, nd[c][t])
    BY DEF Whole
  <2>2. c = b
    BY <2>1 DEF Others
  <2>. QED  BY <2>1, <2>2
<1>. QED  BY <1>1 DEF Exact

-----------------------------------------------------------------------------
(* The invariant                                                           *)

Agree ==
  /\ Global(node, MemTypes, mem) /\ Global(node, IoTypes, io)
  /\ \A b \in Bridges : Blank(node[b])

\* Nothing leaked.
AllThere == Whole(node, MemTypes, mem) /\ Whole(node, IoTypes, io)

\* A bridge that is not started has nothing, and the PCI bus driver does not
\* enumerate one that keeps its configuration: no other bridge sets the PCD
\* before the driver looks.
Flags ==
  /\ \A b \in Bridges \ started : node[b] = [t \in Types |-> Unused]
  /\ enumerating \cap Keep = {}
  /\ connecting # None => connecting \in started /\ (pcd.noEnum <=> connecting \in Keep)

\* What was asked for is not forgotten.
Requests ==
  \A b \in submitted : \A t \in asked[b] : t \in ResTypes /\ node[b][t].status # "ResNone"

IInv == TypeOK /\ Agree /\ Flags /\ Requests

\* Nodes of b that may follow in s, as to those of the other bridges.
Fits(b, s) == Sorted(b, s, Others(node, b, MemTypes), Others(node, b, IoTypes))
Fills(b, s) == Full(b, s, Others(node, b, MemTypes), Others(node, b, IoTypes))
Now(b) == [nodes |-> node[b], mem |-> mem, io |-> io]

\* The part of TypeOK the lemmas use.
LEMMA Typed ==
  ASSUME TypeOK
  PROVE  /\ mem \subseteq Addresses /\ io \subseteq Addresses /\ ioSpace \subseteq Addresses
         /\ node \in [Bridges -> [Types -> Node]]
BY DEF TypeOK, Node

\* From all bridges to one.
LEMMA Splits ==
  ASSUME TypeOK, Agree, NEW b \in Bridges
  PROVE  Fits(b, Now(b)) /\ (AllThere => Fills(b, Now(b)))
<1>1. Fits(b, Now(b))
  BY Typed DEF Agree, Global, Fits, Sorted, Now
<1>2. ASSUME AllThere PROVE Fills(b, Now(b))
  BY <1>2, Typed, Splitting DEF AllThere, Fills, Full, Now
<1>. QED  BY <1>1, <1>2

\* And back, for the bridge that took the step.
LEMMA Joins ==
  ASSUME TypeOK, Agree, NEW b \in Bridges, NEW s, Fits(b, s),
         node' = [node EXCEPT ![b] = s.nodes], mem' = s.mem, io' = s.io
  PROVE  /\ node' \in [Bridges -> [Types -> Node]]
         /\ mem' \subseteq Addresses /\ io' \subseteq Addresses
         /\ Agree' /\ (Fills(b, s) => AllThere')
<1>1. /\ s.nodes \in [Types -> Node] /\ Blank(s.nodes)
      /\ Stands(b, s.nodes, MemTypes, mem', Others(node, b, MemTypes))
      /\ Stands(b, s.nodes, IoTypes, io', Others(node, b, IoTypes))
  BY DEF Fits, Sorted
<1>2. node' \in [Bridges -> [Types -> Node]] /\ DOMAIN node = Bridges
  BY <1>1, Typed
<1>3. mem' \subseteq Addresses /\ io' \subseteq Addresses
  BY <1>1 DEF Stands
<1>4. /\ Global(node', MemTypes, mem')
      /\ Exact(b, s.nodes, MemTypes, mem', Others(node, b, MemTypes)) =>
           Whole(node', MemTypes, mem')
  BY <1>1, <1>2, Joining DEF Agree
<1>5. /\ Global(node', IoTypes, io')
      /\ Exact(b, s.nodes, IoTypes, io', Others(node, b, IoTypes)) =>
           Whole(node', IoTypes, io')
  BY <1>1, <1>2, Joining DEF Agree
<1>6. \A c \in Bridges : Blank(node'[c])
  <2>1. \A c \in Bridges : node'[c] = IF c = b THEN s.nodes ELSE node[c]
    BY <1>2
  <2>. QED  BY <1>1, <2>1 DEF Agree
<1>. QED  BY <1>2, <1>3, <1>4, <1>5, <1>6 DEF Agree, AllThere, Fills, Full

\* Calls that leave the nodes and the maps alone.
LEMMA Unmoved ==
  ASSUME Agree, UNCHANGED <<node, mem, io>>
  PROVE  Agree' /\ (AllThere => AllThere')
BY DEF Agree, AllThere

\* New nodes none of which is in the GCD.
LEMMA Reset ==
  ASSUME NEW b, NEW s, NEW om, NEW oi, Sorted(b, s, om, oi),
         NEW new \in [Types -> Node], Blank(new),
         \A u \in ResTypes : ~Mine(b, new[u]) \/ new[u] = s.nodes[u],
         NEW z, z.nodes = new, z.mem = s.mem, z.io = s.io
  PROVE  /\ Sorted(b, z, om, oi)
         /\ Full(b, s, om, oi) /\ (\A u \in ResTypes : Mine(b, s.nodes[u]) => new[u] = s.nodes[u]) =>
              Full(b, z, om, oi)
<1>1. MemTypes \subseteq ResTypes /\ IoTypes \subseteq ResTypes /\ ResTypes \subseteq Types
  BY Five DEF MemTypes, IoTypes
<1>2. \A u \in ResTypes : \/ Mine(b, s.nodes[u]) /\ new[u] = s.nodes[u]
                          \/ ~Mine(b, new[u])
  OBVIOUS
<1>3. Stands(b, s.nodes, MemTypes, s.mem, om) /\ Stands(b, s.nodes, IoTypes, s.io, oi)
  BY DEF Sorted
<1>4. Stands(b, new, MemTypes, s.mem, om) /\ Stands(b, new, IoTypes, s.io, oi)
  BY <1>1, <1>2, <1>3, Keeping
<1>5. ASSUME Full(b, s, om, oi), \A u \in ResTypes : Mine(b, s.nodes[u]) => new[u] = s.nodes[u]
      PROVE  Exact(b, new, MemTypes, s.mem, om) /\ Exact(b, new, IoTypes, s.io, oi)
  BY <1>1, <1>2, <1>3, <1>5, Keeping DEF Full
<1>. QED  BY <1>4, <1>5 DEF Sorted, Full

\* The lengths of nodes that are not allocated do not matter.
LEMMA Zeroed ==
  ASSUME NEW b, NEW s, NEW om, NEW oi, Sorted(b, s, om, oi),
         NEW z, z = [nodes |-> FailedZeroed(s.nodes), mem |-> s.mem, io |-> s.io]
  PROVE  /\ Sorted(b, z, om, oi) /\ (Full(b, s, om, oi) => Full(b, z, om, oi))
         /\ \A u \in Types : z.nodes[u].status = s.nodes[u].status
<1>. DEFINE new == FailedZeroed(s.nodes)
<1>1. s.nodes \in [Types -> Node] /\ 0 \in Addresses /\ ResTypes \subseteq Types
  BY Arithmetic, Five DEF Sorted
<1>2. ASSUME NEW u \in Types
      PROVE  /\ new[u] \in Node /\ new[u].status = s.nodes[u].status
             /\ \/ new[u] = s.nodes[u]
                \/ new[u].length = 0 /\ new[u].status # "ResAllocated"
  <2>1. CASE new[u] = s.nodes[u]
    BY <1>1, <2>1
  <2>2. CASE new[u] = [s.nodes[u] EXCEPT !.length = 0] /\ s.nodes[u].status # "ResAllocated"
    <3>1. s.nodes[u] \in Node
      BY <1>1
    <3>. HIDE DEF new
    <3>. QED  BY <1>1, <2>2, <3>1 DEF Node
  <2>. QED  BY <2>1, <2>2 DEF FailedZeroed
<1>3. new \in [Types -> Node]
  <2>1. new = [u \in Types |-> new[u]]
    BY DEF FailedZeroed
  <2>. HIDE DEF new
  <2>. QED  BY <1>2, <2>1
<1>4. z.nodes = new /\ z.mem = s.mem /\ z.io = s.io
  OBVIOUS
<1>. HIDE DEF new
<1>5. Blank(new)
  BY <1>1, <1>2 DEF Sorted, Blank
<1>6. \A u \in ResTypes : ~Mine(b, new[u]) \/ new[u] = s.nodes[u]
  BY <1>1, <1>2 DEF Mine
<1>7. \A u \in ResTypes : Mine(b, s.nodes[u]) => new[u] = s.nodes[u]
  BY <1>1, <1>2 DEF Mine
<1>8. Sorted(b, z, om, oi) /\ (Full(b, s, om, oi) => Full(b, z, om, oi))
  BY <1>3, <1>4, <1>5, <1>6, <1>7, Reset
<1>. QED  BY <1>2, <1>4, <1>8

-----------------------------------------------------------------------------
(* The phases                                                              *)

\* The PCI bus driver's bridges are started and do not keep their configuration:
\* all their allocated nodes are in the GCD.
LEMMA Enumerated ==
  ASSUME IInv, NEW b \in enumerating
  PROVE  /\ b \in Bridges /\ b \in started /\ b \notin Keep
         /\ \A n : Mine(b, n) <=> n.status = "ResAllocated"
         /\ Fits(b, Now(b)) /\ (AllThere => Fills(b, Now(b)))
         /\ Now(b).nodes = node[b] /\ Now(b).mem = mem /\ Now(b).io = io
         /\ node[b] \in [Types -> Node]
<1>1. b \in Bridges /\ b \in started
  BY DEF IInv, TypeOK
<1>. QED  BY <1>1, Splits, Typed DEF IInv, Flags, Mine, Now

\* What all phases have in common.
Phase(b) ==
  /\ UNCHANGED <<ioSpace, started, connecting, enumerating, pcd>>
  /\ submitted' \subseteq submitted \cup {b} /\ canRestart' \subseteq canRestart \cup {b}
  /\ \A c \in Bridges \ {b} : asked'[c] = asked[c]
  /\ asked' \in [Bridges -> SUBSET Types]
  /\ last'.bridge = b /\ last'.status \in Statuses

\* A phase that leaves fitting nodes keeps the invariant.
LEMMA PhaseKeeps ==
  ASSUME IInv, NEW b \in enumerating, Phase(b),
         NEW s, Fits(b, s),
         node' = [node EXCEPT ![b] = s.nodes], mem' = s.mem, io' = s.io,
         b \in submitted' => \A t \in asked'[b] : t \in ResTypes /\ s.nodes[t].status # "ResNone"
  PROVE  IInv' /\ (Fills(b, s) => AllThere')
<1>1. /\ b \in Bridges /\ b \in started /\ TypeOK /\ Agree
      /\ node \in [Bridges -> [Types -> Node]]
  BY Enumerated, Typed DEF IInv
<1>2. /\ node' \in [Bridges -> [Types -> Node]]
      /\ mem' \subseteq Addresses /\ io' \subseteq Addresses
      /\ Agree' /\ (Fills(b, s) => AllThere')
  BY <1>1, Joins
<1>3. TypeOK'
  BY <1>1, <1>2 DEF TypeOK, Phase, Node
<1>4. /\ node'[b] = s.nodes
      /\ \A c \in Bridges \ {b} : node'[c] = node[c]
  BY <1>1
<1>5. Flags'
  BY <1>1, <1>4 DEF Flags, Phase, IInv
<1>6. Requests'
  <2>1. ASSUME NEW c \in submitted', NEW t \in asked'[c]
        PROVE  t \in ResTypes /\ node'[c][t].status # "ResNone"
    <3>1. CASE c = b
      BY <1>4, <2>1, <3>1
    <3>2. CASE c # b
      <4>1. c \in submitted /\ c \in Bridges /\ t \in asked[c] /\ node'[c] = node[c]
        BY <1>1, <1>4, <2>1, <3>2 DEF Phase, TypeOK
      <4>. QED  BY <4>1 DEF IInv, Requests
    <3>. QED  BY <3>1, <3>2
  <2>. QED  BY <2>1 DEF Requests
<1>. QED  BY <1>2, <1>3, <1>5, <1>6 DEF IInv

\* When nothing of the nodes changes that anybody sees.
LEMMA PhaseStays ==
  ASSUME IInv, NEW b \in enumerating, Phase(b), UNCHANGED <<node, mem, io>>,
         submitted' \subseteq submitted, asked' = asked
  PROVE  IInv' /\ (AllThere => AllThere')
<1>1. /\ b \in Bridges /\ Fits(b, Now(b)) /\ (AllThere => Fills(b, Now(b)))
      /\ Now(b).nodes = node[b] /\ Now(b).mem = mem /\ Now(b).io = io
      /\ node \in [Bridges -> [Types -> Node]]
  BY Enumerated, Typed DEF IInv
<1>2. node' = [node EXCEPT ![b] = Now(b).nodes]
  BY <1>1
<1>3. b \in submitted' => \A t \in asked'[b] : t \in ResTypes /\ Now(b).nodes[t].status # "ResNone"
  BY <1>1 DEF IInv, Requests
<1>4. mem' = Now(b).mem /\ io' = Now(b).io
  BY <1>1
<1>. DEFINE s == Now(b)
<1>5. Fits(b, s) /\ node' = [node EXCEPT ![b] = s.nodes] /\ mem' = s.mem /\ io' = s.io
      /\ (b \in submitted' => \A t \in asked'[b] : t \in ResTypes /\ s.nodes[t].status # "ResNone")
  BY <1>1, <1>2, <1>3, <1>4
<1>. HIDE DEF s
<1>6. IInv' /\ (Fills(b, s) => AllThere')
  BY <1>5, PhaseKeeps
<1>. QED  BY <1>1, <1>6 DEF s

\* The assumptions under which nothing leaks.
Tidy == Careful /\ Stoppable \subseteq Keep

\* What one step preserves.
Good == IInv' /\ (Tidy /\ AllThere => AllThere')

\* AllocateResources: the loop of turns, then the lengths of what failed.
LEMMA AllocateResourcesKeeps ==
  ASSUME IInv, NEW b \in enumerating, AllocateResources(b)
  PROVE  Good
<1>1. b \in Bridges /\ b \notin Keep /\ TypeOK
  BY Enumerated DEF IInv
<1>2. Phase(b) /\ UNCHANGED <<submitted, asked>>
  <2>1. UNCHANGED <<ioSpace, bridgeVars, pcd, asked>>
    BY DEF AllocateResources
  <2>2. last'.bridge = b /\ last'.status \in Statuses
    <3>1. CASE b \notin submitted
      BY <3>1 DEF AllocateResources, Returns, Statuses
    <3>2. CASE b \in submitted
      <4>1. Allocation(b).status \in Statuses
        <5>1. Sorted(b, Now(b), Others(node, b, MemTypes), Others(node, b, IoTypes))
          BY Enumerated DEF Fits
        <5>. QED  BY <1>1, <5>1, Typed, AllocationSorts DEF TurnStates, Now
      <4>. QED  BY <3>2, <4>1 DEF AllocateResources, Returns
    <3>. QED  BY <3>1, <3>2
  <2>. QED  BY <1>1, <2>1, <2>2 DEF Phase, bridgeVars, TypeOK
<1>3. CASE b \notin submitted
  <2>1. UNCHANGED <<node, mem, io>>
    BY <1>3 DEF AllocateResources
  <2>. QED  BY <1>2, <2>1, PhaseStays DEF Good
<1>4. CASE b \in submitted
  <2>. DEFINE s == Allocation(b)
              z == [nodes |-> FailedZeroed(s.nodes), mem |-> s.mem, io |-> s.io]
              om == Others(node, b, MemTypes)
              oi == Others(node, b, IoTypes)
  <2>1. /\ node' = [node EXCEPT ![b] = z.nodes] /\ mem' = z.mem /\ io' = z.io
        /\ Careful => ~Holds(b)
    BY <1>4 DEF AllocateResources, Client
  <2>2. /\ Sorted(b, s, om, oi) /\ SameRequests(node[b], s.nodes)
        /\ Fills(b, Now(b)) /\ ~Holds(b) => Full(b, s, om, oi)
    <3>1. Sorted(b, [nodes |-> node[b], mem |-> mem, io |-> io], om, oi)
      BY Enumerated DEF Fits, Now
    <3>. QED  BY <1>1, <3>1, Typed, AllocationSorts DEF Fills, Now
  <2>. HIDE DEF s
  <2>3. /\ Sorted(b, z, om, oi) /\ (Full(b, s, om, oi) => Full(b, z, om, oi))
        /\ \A u \in Types : z.nodes[u].status = s.nodes[u].status
    BY <2>2, Zeroed
  <2>. HIDE DEF z
  <2>4. Fits(b, z) /\ (Tidy /\ AllThere => Fills(b, z))
    BY <2>1, <2>2, <2>3, Enumerated DEF Fits, Fills, Tidy
  <2>5. \A t \in asked'[b] : t \in ResTypes /\ z.nodes[t].status # "ResNone"
    <3>1. \A t \in asked[b] : t \in ResTypes /\ node[b][t].status # "ResNone"
      BY <1>4 DEF IInv, Requests
    <3>. QED  BY <1>2, <2>2, <2>3, <3>1, Five DEF SameRequests
  <2>6. IInv' /\ (Fills(b, z) => AllThere')
    BY <1>2, <2>1, <2>4, <2>5, PhaseKeeps
  <2>. QED  BY <2>4, <2>6 DEF Good
<1>. QED  BY <1>3, <1>4

\* BeginEnumeration forgets the nodes; nothing leaks if none was allocated.
LEMMA BeginEnumerationKeeps ==
  ASSUME IInv, NEW b \in enumerating, BeginEnumeration(b)
  PROVE  Good
<1>1. b \in Bridges /\ b \notin Keep /\ TypeOK /\ node[b] \in [Types -> Node]
  BY Enumerated DEF IInv
<1>2. Phase(b)
  <2>1. /\ UNCHANGED <<ioSpace, started, connecting, enumerating, pcd>>
        /\ submitted' \subseteq submitted \cup {b} /\ canRestart' \subseteq canRestart \cup {b}
    BY DEF BeginEnumeration, gcdVars
  <2>2. /\ \A c \in Bridges \ {b} : asked'[c] = asked[c]
        /\ asked' \in [Bridges -> SUBSET Types]
    <3>1. asked' = asked \/ asked' = [asked EXCEPT ![b] = {}]
      BY DEF BeginEnumeration
    <3>. QED  BY <1>1, <3>1 DEF TypeOK
  <2>3. last'.bridge = b /\ last'.status \in Statuses
    BY DEF BeginEnumeration, Returns, Statuses
  <2>. QED  BY <2>1, <2>2, <2>3 DEF Phase
<1>3. CASE b \notin canRestart
  BY <1>2, <1>3, PhaseStays DEF Good, BeginEnumeration, gcdVars
<1>4. CASE b \in canRestart
  <2>. DEFINE new == [t \in Types |-> [Unused EXCEPT !.tracked = node[b][t].tracked]]
              z == [nodes |-> new, mem |-> mem, io |-> io]
  <2>1. /\ node' = [node EXCEPT ![b] = new] /\ mem' = mem /\ io' = io
        /\ b \notin submitted' /\ (Careful => ~Holds(b))
    BY <1>4 DEF BeginEnumeration, gcdVars, Client
  <2>2. \A t \in Types : new[t] \in Node /\ new[t].status = "ResNone" /\ new[t].length = 0
    BY <1>1, Arithmetic DEF Node, Unused
  <2>3. new \in [Types -> Node]
    BY <2>2
  <2>. HIDE DEF new
  <2>4. Blank(new) /\ \A t \in Types : ~Mine(b, new[t])
    BY <2>2, Five DEF Blank, Mine
  <2>5. Careful => \A t \in ResTypes : ~Mine(b, node[b][t])
    BY <2>1 DEF Holds, Mine
  <2>6. z.nodes = new /\ z.mem = mem /\ z.io = io
    OBVIOUS
  <2>. HIDE DEF z
  <2>7. Fits(b, z) /\ (Tidy /\ AllThere => Fills(b, z))
    <3>1. Fits(b, Now(b)) /\ (AllThere => Fills(b, Now(b))) /\ Now(b).nodes = node[b]
          /\ Now(b).mem = mem /\ Now(b).io = io
      BY Enumerated
    <3>. DEFINE s == Now(b)
    <3>2. Sorted(b, s, Others(node, b, MemTypes), Others(node, b, IoTypes))
      BY <3>1 DEF Fits
    <3>3. \A t \in ResTypes : ~Mine(b, new[t])
      BY <2>4, Five
    <3>4. s.nodes = node[b] /\ z.mem = s.mem /\ z.io = s.io
      BY <2>6, <3>1
    <3>5. AllThere => Full(b, s, Others(node, b, MemTypes), Others(node, b, IoTypes))
      BY <3>1 DEF Fills
    <3>. HIDE DEF s
    <3>. QED  BY <2>3, <2>4, <2>5, <2>6, <3>2, <3>3, <3>4, <3>5, Reset DEF Fits, Fills, Tidy
  <2>8. node' = [node EXCEPT ![b] = z.nodes] /\ mem' = z.mem /\ io' = z.io
    BY <2>1, <2>6
  <2>9. IInv' /\ (Fills(b, z) => AllThere')
    BY <1>2, <2>1, <2>7, <2>8, PhaseKeeps
  <2>. QED  BY <2>7, <2>9 DEF Good
<1>. QED  BY <1>3, <1>4

\* BeginBusAllocation and SetBusNumbers leave the address types alone.
LEMMA BeginBusAllocationKeeps ==
  ASSUME IInv, NEW b \in enumerating, BeginBusAllocation(b)
  PROVE  Good
<1>1. Phase(b)
  BY Enumerated DEF BeginBusAllocation, Phase, IInv, TypeOK, gcdVars, Returns, Statuses
<1>. QED  BY <1>1, PhaseStays DEF Good, BeginBusAllocation, gcdVars

\* SetBusNumbers changes the node of the bus numbers only.
LEMMA SetBusNumbersKeeps ==
  ASSUME IInv, NEW b \in enumerating, NEW first \in Addresses, NEW length \in Addresses,
         SetBusNumbers(b, first, length)
  PROVE  Good
<1>1. /\ b \in Bridges /\ b \notin Keep /\ TypeOK /\ node[b] \in [Types -> Node]
      /\ node \in [Bridges -> [Types -> Node]]
  BY Enumerated, Typed DEF IInv
<1>2. Phase(b) /\ UNCHANGED <<submitted, asked, mem, io>>
  <2>1. UNCHANGED <<gcdVars, bridgeVars, pcd, asked>>
    BY DEF SetBusNumbers
  <2>2. last'.bridge = b /\ last'.status \in Statuses
    BY DEF SetBusNumbers, Returns, Statuses
  <2>. QED  BY <1>1, <2>1, <2>2 DEF Phase, TypeOK, gcdVars, bridgeVars
<1>3. CASE node' = node
  BY <1>2, <1>3, PhaseStays DEF Good
<1>4. CASE node' = [node EXCEPT ![b].TypeBus.base = first, ![b].TypeBus.length = length,
                                ![b].TypeBus.status = "ResAllocated"]
  <2>. DEFINE n == [node[b]["TypeBus"] EXCEPT !.base = first, !.length = length,
                                             !.status = "ResAllocated"]
              new == [node[b] EXCEPT !["TypeBus"] = n]
              z == [nodes |-> new, mem |-> mem, io |-> io]
  <2>1. n \in Node
    <3>1. node[b]["TypeBus"] \in Node
      BY <1>1, Five
    <3>2. "ResAllocated" \in {"ResNone", "ResSubmitted", "ResAllocated"}
      OBVIOUS
    <3>3. \A d \in Node : [d EXCEPT !.base = first, !.length = length,
                                   !.status = "ResAllocated"] \in Node
      BY ONLY <3>2, first \in Addresses, length \in Addresses DEF Node
    <3>. QED  BY ONLY <3>1, <3>3
  <2>2. node' = [node EXCEPT ![b] = new]
    BY <1>1, <1>4, Five
  <2>. HIDE DEF n
  <2>3. new \in [Types -> Node] /\ \A t \in ResTypes : new[t] = node[b][t]
    BY <1>1, <2>1, Five
  <2>4. z.nodes = new /\ z.mem = mem /\ z.io = io
    OBVIOUS
  <2>. HIDE DEF new, z
  <2>5. Fits(b, z) /\ (AllThere => Fills(b, z))
    <3>. DEFINE s == Now(b)
    <3>1. /\ Sorted(b, s, Others(node, b, MemTypes), Others(node, b, IoTypes))
          /\ AllThere => Full(b, s, Others(node, b, MemTypes), Others(node, b, IoTypes))
          /\ s.nodes = node[b] /\ s.mem = mem /\ s.io = io
      BY Enumerated DEF Fits, Fills
    <3>. HIDE DEF s
    <3>2. Blank(new)
      BY <2>3, <3>1 DEF Sorted, Blank
    <3>3. \A t \in ResTypes : new[t] = s.nodes[t]
      BY <2>3, <3>1
    <3>. QED  BY <2>3, <2>4, <3>1, <3>2, <3>3, Reset DEF Fits, Fills
  <2>6. b \in submitted' => \A t \in asked'[b] : t \in ResTypes /\ z.nodes[t].status # "ResNone"
    BY <1>2, <2>3, <2>4 DEF IInv, Requests
  <2>7. node' = [node EXCEPT ![b] = z.nodes] /\ mem' = z.mem /\ io' = z.io
    BY <1>2, <2>2, <2>4
  <2>8. IInv' /\ (Fills(b, z) => AllThere')
    BY <1>2, <2>5, <2>6, <2>7, PhaseKeeps
  <2>. QED  BY <2>5, <2>8 DEF Good
<1>. QED  BY <1>3, <1>4 DEF SetBusNumbers

\* FreeResources gives back every node, and reports success if there was one.
LEMMA FreeResourcesKeeps ==
  ASSUME IInv, NEW b \in enumerating, FreeResources(b)
  PROVE  /\ Good
         /\ last'.op = "FreeResources" =>
              last'.status = "EFI_SUCCESS" /\ ~Holds(b)' /\ b \in canRestart'
<1>1. /\ b \in Bridges /\ b \notin Keep /\ TypeOK /\ node[b] \in [Types -> Node]
      /\ node \in [Bridges -> [Types -> Node]]
  BY Enumerated, Typed DEF IInv
<1>. DEFINE om == Others(node, b, MemTypes)
            oi == Others(node, b, IoTypes)
<1>2. PICK garbage \in Garbage :
        LET s == Release(b, garbage) IN
         /\ node' = [node EXCEPT ![b] = s.nodes]
         /\ mem' = s.mem /\ io' = s.io
         /\ submitted'  = IF s.refused THEN submitted ELSE submitted \ {b}
         /\ canRestart' = IF s.refused THEN canRestart ELSE canRestart \cup {b}
         /\ Returns(IF Holds(b) THEN "FreeResources" ELSE "FreeNothing", b, s.status)
  BY DEF FreeResources
<1>. DEFINE first == [nodes |-> node[b], mem |-> mem, io |-> io, refused |-> FALSE,
                      status |-> garbage]
            s == Release(b, garbage)
<1>3. FreeInv(b, first, s, ResTypes, om, oi)
  <2>1. s = InTypeOrder(LAMBDA r, t : GiveBack(b, r, t), first)
    BY <1>1 DEF Release, GiveBack, InTypeOrder
  <2>2. first \in FreeStates
    BY <1>1, Typed DEF FreeStates, Garbage, Statuses
  <2>3. Sorted(b, first, om, oi) /\ ~first.refused
    BY Enumerated DEF Fits, Sorted, Now
  <2>. HIDE DEF s, first
  <2>. QED  BY <1>1, <2>1, <2>2, <2>3, FreeLoop
<1>4. /\ first.nodes = node[b] /\ (AllThere => Full(b, first, om, oi))
  BY Enumerated DEF Fills, Full, Now
<1>5. /\ node' = [node EXCEPT ![b] = s.nodes] /\ mem' = s.mem /\ io' = s.io
      /\ submitted'  = IF s.refused THEN submitted ELSE submitted \ {b}
      /\ canRestart' = IF s.refused THEN canRestart ELSE canRestart \cup {b}
      /\ last' = [op |-> IF Holds(b) THEN "FreeResources" ELSE "FreeNothing", bridge |-> b,
                  status |-> s.status]
  BY <1>2 DEF Returns
<1>. HIDE DEF s, first
<1>6. /\ s \in FreeStates /\ Sorted(b, s, om, oi) /\ ~s.refused
      /\ Full(b, first, om, oi) => Full(b, s, om, oi)
      /\ \A t \in ResTypes : ~Mine(b, s.nodes[t])
      /\ (\E t \in ResTypes : Mine(b, node[b][t])) => s.status = "EFI_SUCCESS"
  BY <1>3, <1>4 DEF FreeInv
<1>7. /\ UNCHANGED <<ioSpace, started, connecting, enumerating, pcd, asked>>
      /\ submitted' = submitted \ {b} /\ canRestart' = canRestart \cup {b}
      /\ last'.bridge = b /\ last'.status = s.status /\ s.status \in Statuses
  BY <1>5, <1>6 DEF FreeResources, FreeStates
<1>8. Phase(b)
  BY <1>1, <1>7 DEF Phase, TypeOK
<1>9. Fits(b, s) /\ (AllThere => Fills(b, s))
  BY <1>4, <1>6 DEF Fits, Fills
<1>10. IInv' /\ (Fills(b, s) => AllThere')
  BY <1>5, <1>7, <1>8, <1>9, PhaseKeeps
<1>11. node'[b] = s.nodes
  BY <1>1, <1>5
<1>12. ASSUME last'.op = "FreeResources"
       PROVE  last'.status = "EFI_SUCCESS" /\ ~Holds(b)' /\ b \in canRestart'
  <2>1. Holds(b)
    BY <1>5, <1>12
  <2>2. s.status = "EFI_SUCCESS"
    BY <1>6, <2>1, Enumerated DEF Holds
  <2>3. ~Holds(b)'
    BY <1>6, <1>11, Enumerated DEF Holds
  <2>. QED  BY <1>7, <2>2, <2>3
<1>. QED  BY <1>9, <1>10, <1>12 DEF Good

Descriptor == [space : {"io", "mem", "bus"}, bits : Nat, prefetch : BOOLEAN,
               length : Addresses, align : Addresses]

\* A descriptor asks for one of the five types, and a type that is asked for has
\* a last descriptor.
LEMMA Entries ==
  ASSUME NEW cfg \in Seq(Descriptor)
  PROVE  /\ Requested(cfg) \subseteq ResTypes
         /\ \A t \in Requested(cfg) : /\ Entry(cfg, t) \in Descriptor
                                      /\ \E i \in DOMAIN cfg : Entry(cfg, t) = cfg[i] /\ TypeOf(cfg[i]) = t
<1>1. \A i \in DOMAIN cfg : cfg[i] \in Descriptor
  OBVIOUS
<1>2. \A d \in Descriptor : TypeOf(d) \in ResTypes
  BY Five DEF Descriptor, TypeOf
<1>3. ASSUME NEW t \in Requested(cfg)
      PROVE  /\ Entry(cfg, t) \in Descriptor
             /\ \E i \in DOMAIN cfg : Entry(cfg, t) = cfg[i] /\ TypeOf(cfg[i]) = t
  <2>. DEFINE I == {i \in DOMAIN cfg : TypeOf(cfg[i]) = t}
              Keys == {Len(cfg) - i : i \in I}
  <2>1. Keys \subseteq Nat /\ Keys # {} /\ I \subseteq Nat /\ Len(cfg) \in Nat
    BY DEF Requested
  <2>2. Least(Keys) \in Keys /\ \A x \in Keys : Least(Keys) <= x
    <3>. HIDE DEF Keys
    <3>. QED  BY <2>1, LeastIsLeast
  <2>3. PICK i \in I : Least(Keys) = Len(cfg) - i
    BY <2>2
  <2>4. ASSUME NEW j \in I
        PROVE  j <= i
    <3>1. Len(cfg) - j \in Keys
      OBVIOUS
    <3>2. Len(cfg) - i <= Len(cfg) - j
      BY <2>2, <2>3, <3>1
    <3>. HIDE DEF I, Keys
    <3>. QED  BY <2>1, <3>2
  <2>5. TypeOf(cfg[i]) = t /\ \A j \in DOMAIN cfg : TypeOf(cfg[j]) = t => j <= i
    BY <2>4
  <2>6. PICK k \in DOMAIN cfg : Entry(cfg, t) = cfg[k] /\ TypeOf(cfg[k]) = t
    BY <2>5 DEF Entry
  <2>. QED  BY <1>1, <2>6
<1>. QED  BY <1>1, <1>2, <1>3 DEF Requested

\* SubmitResources overwrites the nodes of the types asked for.
LEMMA SubmitResourcesKeeps ==
  ASSUME IInv, NEW b \in enumerating, NEW cfg \in Configurations, SubmitResources(b, cfg)
  PROVE  Good
<1>1. /\ b \in Bridges /\ b \notin Keep /\ TypeOK /\ node[b] \in [Types -> Node]
      /\ node \in [Bridges -> [Types -> Node]]
  BY Enumerated, Typed DEF IInv
<1>2. /\ Requested(cfg) \subseteq ResTypes /\ ResTypes \subseteq Types
      /\ \A t \in Requested(cfg) : /\ Entry(cfg, t).length \in Addresses
                                    /\ Entry(cfg, t).align \in Addresses
  <2>1. cfg \in Seq(Descriptor)
    BY ConfigurationsAssumption DEF Descriptor
  <2>. QED  BY <2>1, Entries, Five DEF Descriptor
<1>3. Phase(b)
  <2>1. /\ UNCHANGED <<ioSpace, started, connecting, enumerating, pcd, canRestart>>
        /\ submitted' \subseteq submitted \cup {b}
    BY DEF SubmitResources, gcdVars
  <2>2. /\ \A c \in Bridges \ {b} : asked'[c] = asked[c]
        /\ asked' \in [Bridges -> SUBSET Types]
    <3>1. asked' = asked \/ asked' = [asked EXCEPT ![b] = Requested(cfg)]
      BY DEF SubmitResources
    <3>2. asked \in [Bridges -> SUBSET Types] /\ Requested(cfg) \in SUBSET Types
      BY <1>1, <1>2 DEF TypeOK
    <3>3. b \in Bridges
      BY <1>1
    <3>. QED  BY ONLY <3>1, <3>2, <3>3
  <2>3. last'.bridge = b /\ last'.status \in Statuses
    <3>1. \/ Returns("SubmitResources", b, "EFI_INVALID_PARAMETER")
          \/ Returns("SubmitResources", b, "EFI_SUCCESS")
      BY DEF SubmitResources
    <3>. QED  BY <3>1 DEF Returns, Statuses
  <2>. QED  BY <2>1, <2>2, <2>3 DEF Phase
<1>4. CASE \E i \in DOMAIN cfg : ~Accepted(b, cfg[i])
  BY <1>3, <1>4, PhaseStays DEF Good, SubmitResources, gcdVars
<1>5. CASE ~\E i \in DOMAIN cfg : ~Accepted(b, cfg[i])
  <2>. DEFINE new == [t \in Types |->
                        IF t \in Requested(cfg)
                        THEN [node[b][t] EXCEPT !.length = Entry(cfg, t).length,
                                !.align = Entry(cfg, t).align, !.status = "ResSubmitted"]
                        ELSE node[b][t]]
              z == [nodes |-> new, mem |-> mem, io |-> io]
  <2>1. /\ node' = [node EXCEPT ![b] = new] /\ mem' = mem /\ io' = io
        /\ asked'[b] = Requested(cfg) /\ (Careful => ~Holds(b))
    BY <1>1, <1>5 DEF SubmitResources, gcdVars, Client, TypeOK
  <2>2. \A t \in Types : /\ new[t] \in Node
                         /\ t \in Requested(cfg) => new[t].status = "ResSubmitted"
                         /\ t \notin Requested(cfg) => new[t] = node[b][t]
    <3>1. ASSUME NEW t \in Types, t \in Requested(cfg)
          PROVE  new[t] \in Node /\ new[t].status = "ResSubmitted"
      <4>1. node[b][t] \in Node
        BY <1>1, <3>1
      <4>. QED  BY <1>2, <3>1, <4>1 DEF Node
    <3>2. ASSUME NEW t \in Types, t \notin Requested(cfg)
          PROVE  new[t] \in Node /\ new[t] = node[b][t]
      BY <1>1, <3>2
    <3>. QED  BY <3>1, <3>2
  <2>3. new \in [Types -> Node]
    <3>1. new = [t \in Types |-> new[t]]
      OBVIOUS
    <3>. HIDE DEF new
    <3>. QED  BY <2>2, <3>1
  <2>4. z.nodes = new /\ z.mem = mem /\ z.io = io
    OBVIOUS
  <2>. HIDE DEF new, z
  <2>5. Fits(b, z) /\ (Tidy /\ AllThere => Fills(b, z))
    <3>. DEFINE s == Now(b)
    <3>1. /\ Sorted(b, s, Others(node, b, MemTypes), Others(node, b, IoTypes))
          /\ AllThere => Full(b, s, Others(node, b, MemTypes), Others(node, b, IoTypes))
          /\ s.nodes = node[b] /\ s.mem = mem /\ s.io = io
      BY Enumerated DEF Fits, Fills
    <3>. HIDE DEF s
    <3>2. Blank(new)
      BY <2>2, <3>1, Five DEF Sorted, Blank
    <3>3. \A t \in ResTypes : ~Mine(b, new[t]) \/ new[t] = s.nodes[t]
      BY <2>2, <3>1, Five DEF Mine
    <3>4. Careful => \A t \in ResTypes : ~Mine(b, s.nodes[t])
      BY <2>1, <3>1 DEF Holds, Mine
    <3>5. Careful => \A t \in ResTypes : Mine(b, s.nodes[t]) => new[t] = s.nodes[t]
      BY <3>4
    <3>6. /\ Sorted(b, z, Others(node, b, MemTypes), Others(node, b, IoTypes))
          /\ Careful /\ AllThere => Full(b, z, Others(node, b, MemTypes), Others(node, b, IoTypes))
      BY <2>3, <2>4, <3>1, <3>2, <3>3, <3>5, Reset
    <3>. QED  BY <3>6 DEF Fits, Fills, Tidy
  <2>6. \A t \in asked'[b] : t \in ResTypes /\ z.nodes[t].status # "ResNone"
    BY <1>2, <2>1, <2>2, <2>4
  <2>7. node' = [node EXCEPT ![b] = z.nodes] /\ mem' = z.mem /\ io' = z.io
    BY <2>1, <2>4
  <2>8. IInv' /\ (Fills(b, z) => AllThere')
    BY <1>3, <2>5, <2>6, <2>7, PhaseKeeps
  <2>. QED  BY <2>5, <2>8 DEF Good
<1>. QED  BY <1>4, <1>5

-----------------------------------------------------------------------------
(* Binding                                                                 *)

\* What RootBridgeCreate adds to the I/O space lies in it.
LEMMA IoAddedExists ==
  ASSUME NEW b \in Bridges
  PROVE  IoAdded(Window[b].TypeIo) \subseteq Addresses
<1>1. /\ Window[b].TypeIo \in [base : Addresses, parent : Addresses, length : Addresses]
      /\ Window[b].TypeIo.base + Window[b].TypeIo.length <= Word
  BY Windows, IoAssumption, Five
<1>2. Span(Window[b].TypeIo.base, Window[b].TypeIo.length) \subseteq Addresses
  BY <1>1, Arithmetic DEF Span, Addresses
<1>. QED  BY <1>2 DEF IoAdded

\* A bridge that comes or goes: what binding has in common.
Binds(b) ==
  /\ asked' \in [Bridges -> SUBSET Types] /\ \A c \in Bridges \ {b} : asked'[c] = asked[c]
  /\ submitted' \subseteq submitted \ {b} /\ canRestart' \subseteq Bridges
  /\ enumerating' \subseteq enumerating /\ enumerating' \subseteq started'
  /\ ioSpace' \subseteq Addresses
  /\ pcd' \in [ecam : Bridges \cup {None}, noEnum : BOOLEAN, ioTranslation : Addresses]
  /\ last'.bridge = b /\ last'.status \in Statuses

\* Binding that leaves fitting nodes keeps the invariant.
LEMMA BindingKeeps ==
  ASSUME IInv, NEW b \in Bridges, Binds(b),
         NEW s, Fits(b, s),
         node' = [node EXCEPT ![b] = s.nodes], mem' = s.mem, io' = s.io,
         \/ started' = started \cup {b} /\ connecting' = b /\ (pcd'.noEnum <=> b \in Keep)
         \/ started' = started \ {b} /\ connecting' = None /\ s.nodes = [t \in Types |-> Unused]
  PROVE  IInv' /\ (Fills(b, s) => AllThere')
<1>1. TypeOK /\ Agree /\ node \in [Bridges -> [Types -> Node]]
  BY Typed DEF IInv
<1>2. /\ node' \in [Bridges -> [Types -> Node]]
      /\ mem' \subseteq Addresses /\ io' \subseteq Addresses
      /\ Agree' /\ (Fills(b, s) => AllThere')
  BY <1>1, Joins
<1>3. TypeOK'
  BY <1>1, <1>2 DEF TypeOK, Binds, Node
<1>4. /\ node'[b] = s.nodes
      /\ \A c \in Bridges \ {b} : node'[c] = node[c]
  BY <1>1
<1>5. Flags'
  <2>1. enumerating' \cap Keep = {}
    BY DEF IInv, Flags, Binds
  <2>2. \A c \in Bridges \ started' : node'[c] = [t \in Types |-> Unused]
    BY <1>4 DEF IInv, Flags
  <2>3. connecting' # None => connecting' \in started' /\ (pcd'.noEnum <=> connecting' \in Keep)
    OBVIOUS
  <2>. QED  BY <2>1, <2>2, <2>3 DEF Flags
<1>6. Requests'
  <2>1. ASSUME NEW c \in submitted', NEW t \in asked'[c]
        PROVE  t \in ResTypes /\ node'[c][t].status # "ResNone"
    <3>1. c \in submitted /\ c \in Bridges /\ t \in asked[c] /\ node'[c] = node[c]
      BY <1>1, <1>4, <2>1 DEF Binds, TypeOK
    <3>. QED  BY <3>1 DEF IInv, Requests
  <2>. QED  BY <2>1 DEF Requests
<1>. QED  BY <1>2, <1>3, <1>5, <1>6 DEF IInv

\* The PCDs and the I/O space after RootBridgeCreate, whether it failed later or not.
LEMMA Announcing ==
  ASSUME TypeOK, NEW b \in Bridges, Announced(b, Window[b].TypeIo)
  PROVE  /\ ioSpace' \subseteq Addresses /\ ioSpace \cup IoAdded(Window[b].TypeIo) \subseteq Addresses
         /\ pcd' \in [ecam : Bridges \cup {None}, noEnum : BOOLEAN, ioTranslation : Addresses]
         /\ pcd'.noEnum <=> b \in Keep
<1>1. Translation(Window[b].TypeIo) \in Addresses
  BY Windows, Five
<1>2. IoTranslation(Window[b].TypeIo) \in Addresses
  BY <1>1, Arithmetic DEF IoTranslation, TypeOK
<1>3. NoEnum(b) \in BOOLEAN
  BY DEF NoEnum
<1>. QED  BY <1>2, <1>3, IoAddedExists DEF Announced, TypeOK, NoEnum

\* New nodes are empty.
LEMMA Empty ==
  /\ [t \in Types |-> Unused] \in [Types -> Node] /\ Blank([t \in Types |-> Unused])
  /\ \A b \in Bridges, t \in Types : ~Mine(b, [u \in Types |-> Unused][t])
<1>1. Unused \in Node /\ Unused.status = "ResNone" /\ Unused.length = 0
  BY Arithmetic DEF Unused, Node
<1>. QED  BY <1>1, Five DEF Blank, Mine

\* DriverStart, which may fail at two places.
LEMMA DriverStartKeeps ==
  ASSUME IInv, NEW b \in Bridges, connecting \in {None, b}, DriverStart(b)
  PROVE  Good
<1>1. /\ TypeOK /\ Agree /\ b \notin started /\ UNCHANGED <<enumerating, asked>>
      /\ node[b] = [t \in Types |-> Unused] /\ node \in [Bridges -> [Types -> Node]]
      /\ connecting = None
  <2>1. TypeOK /\ Agree /\ b \notin started /\ UNCHANGED <<enumerating, asked>>
    BY DEF IInv, DriverStart
  <2>. QED  BY <2>1, Typed DEF IInv, Flags
<1>2. Fits(b, Now(b)) /\ (AllThere => Fills(b, Now(b)))
  BY <1>1, Splits
<1>3. CASE UNCHANGED <<mem, io, node, started, submitted, canRestart>> /\ connecting' = None
  <2>1. /\ ioSpace' \subseteq Addresses
        /\ pcd' \in [ecam : Bridges \cup {None}, noEnum : BOOLEAN, ioTranslation : Addresses]
    <3>1. CASE Announced(b, Window[b].TypeIo)
      BY <1>1, <3>1, Announcing
    <3>2. CASE UNCHANGED <<ioSpace, pcd>>
      BY <1>1, <3>2 DEF TypeOK
    <3>. QED  BY <3>1, <3>2 DEF DriverStart, RootBridgeCreate
  <2>2. last'.bridge = b /\ last'.status \in Statuses
    BY DEF DriverStart, Returns, Statuses
  <2>3. TypeOK'
    BY <1>1, <1>3, <2>1, <2>2 DEF TypeOK
  <2>4. Agree' /\ (AllThere => AllThere')
    BY <1>1, <1>3, Unmoved
  <2>5. Flags' /\ Requests'
    BY <1>1, <1>3 DEF IInv, Flags, Requests
  <2>. QED  BY <2>3, <2>4, <2>5 DEF Good, IInv
<1>4. CASE /\ RootBridgeCreate(b) /\ started' = started \cup {b} /\ connecting' = b
           /\ Returns("DriverStart", b, "EFI_SUCCESS")
  <2>. DEFINE s == [nodes |-> [t \in Types |-> Unused], mem |-> mem, io |-> io,
                    ioSpace |-> ioSpace \cup IoAdded(Window[b].TypeIo)]
              k == IF b \in Keep THEN KeepExistingConfig(b, s) ELSE s
              om == Others(node, b, MemTypes)
              oi == Others(node, b, IoTypes)
  <2>1. /\ Announced(b, Window[b].TypeIo) /\ mem' = k.mem /\ io' = k.io
        /\ node' = [node EXCEPT ![b] = k.nodes]
        /\ submitted' = submitted \ {b} /\ canRestart' = canRestart \cup {b}
    BY <1>4 DEF RootBridgeCreate
  <2>2. s \in KeepStates
    BY <1>1, <2>1, Announcing, Typed, Empty DEF KeepStates
  <2>3. Sorted(b, s, om, oi) /\ (AllThere => Full(b, s, om, oi))
        /\ s.nodes = [t \in Types |-> Unused]
    BY <1>1, <1>2 DEF Fits, Fills, Sorted, Full, Now
  <2>. HIDE DEF s, om, oi
  <2>5. Sorted(b, k, om, oi) /\ (AllThere => Full(b, k, om, oi))
    BY <2>2, <2>3, KeepSorts
  <2>. HIDE DEF k
  <2>6. Fits(b, k) /\ (AllThere => Fills(b, k))
    BY <2>5 DEF Fits, Fills, om, oi
  <2>7. Binds(b)
    BY <1>1, <1>4, <2>1, Announcing DEF Binds, TypeOK, Returns, Statuses
  <2>8. pcd'.noEnum <=> b \in Keep
    BY <1>1, <2>1, Announcing
  <2>9. IInv' /\ (Fills(b, k) => AllThere')
    BY <1>4, <2>1, <2>6, <2>7, <2>8, BindingKeeps
  <2>. QED  BY <2>6, <2>9 DEF Good
<1>. QED  BY <1>3, <1>4 DEF DriverStart

\* ConnectPciBus: the PCD is still what DriverStart of the bridge made it.
LEMMA ConnectPciBusKeeps ==
  ASSUME IInv, NEW b \in Bridges, ConnectPciBus(b)
  PROVE  Good
<1>1. /\ connecting = b /\ connecting' = None /\ b # None
      /\ enumerating' = IF pcd.noEnum THEN enumerating ELSE enumerating \cup {b}
      /\ UNCHANGED <<gcdVars, node, started, submitted, canRestart, pcd, asked, last>>
  BY BridgesAssumption DEF ConnectPciBus
<1>2. b \in started /\ (pcd.noEnum <=> b \in Keep) /\ TypeOK /\ Agree
  BY <1>1 DEF IInv, Flags
<1>3. TypeOK'
  BY <1>1, <1>2 DEF TypeOK, gcdVars
<1>4. Agree' /\ (AllThere => AllThere')
  BY <1>1, <1>2, Unmoved DEF gcdVars
<1>5. Flags' /\ Requests'
  BY <1>1, <1>2 DEF IInv, Flags, Requests
<1>. QED  BY <1>3, <1>4, <1>5 DEF Good, IInv

\* DriverStop: a bridge that keeps its configuration gives back what it claimed.
LEMMA DriverStopKeeps ==
  ASSUME IInv, NEW b \in Bridges, DriverStop(b)
  PROVE  Good
<1>1. TypeOK /\ Agree /\ node \in [Bridges -> [Types -> Node]]
  BY Typed DEF IInv
<1>. DEFINE first == [nodes |-> node[b], mem |-> mem, io |-> io, refused |-> FALSE,
                      status |-> "EFI_SUCCESS"]
            u == IF b \in Keep THEN InTypeOrder(LAMBDA r, t : Undone(b, r, t), first) ELSE first
            om == Others(node, b, MemTypes)
            oi == Others(node, b, IoTypes)
            new == [t \in Types |-> Unused]
            z == [nodes |-> new, mem |-> u.mem, io |-> u.io]
<1>2. /\ first \in FreeStates /\ ~first.refused /\ Sorted(b, first, om, oi)
      /\ AllThere => Full(b, first, om, oi)
  BY <1>1, Typed, Splits DEF FreeStates, Statuses, Fits, Fills, Sorted, Full, Now
<1>3. Sorted(b, u, om, oi)
      /\ (b \in Keep => /\ \A t \in ResTypes : ~Mine(b, u.nodes[t])
                        /\ AllThere => Full(b, u, om, oi))
  <2>1. CASE b \notin Keep
    BY <1>2, <2>1
  <2>2. CASE b \in Keep
    <3>1. u = InTypeOrder(LAMBDA r, t : GiveBack(b, r, t), first)
      BY <2>2 DEF GiveBack, InTypeOrder
    <3>. HIDE DEF u, first, om, oi
    <3>2. FreeInv(b, first, u, ResTypes, om, oi)
      BY <1>2, <3>1, FreeLoop
    <3>. QED  BY <1>2, <3>2 DEF FreeInv
  <2>. QED  BY <2>1, <2>2
<1>4. /\ b \in Stoppable /\ mem' = u.mem /\ io' = u.io /\ node' = [node EXCEPT ![b] = new]
      /\ started' = started \ {b} /\ submitted' = submitted \ {b}
      /\ canRestart' = canRestart \ {b} /\ enumerating' = enumerating \ {b}
      /\ connecting' = None /\ asked' = [asked EXCEPT ![b] = {}]
      /\ last' = [op |-> "DriverStop", bridge |-> b, status |-> "EFI_SUCCESS"]
      /\ UNCHANGED <<ioSpace, pcd>>
  BY DEF DriverStop, Returns
<1>5. Binds(b)
  BY <1>1, <1>4 DEF Binds, TypeOK, Statuses
<1>6. z.nodes = new /\ z.mem = u.mem /\ z.io = u.io
  OBVIOUS
<1>7. new \in [Types -> Node] /\ Blank(new) /\ \A t \in ResTypes : ~Mine(b, new[t])
  BY Empty, Five
<1>. HIDE DEF z, u, first
<1>8. Fits(b, z) /\ (Tidy /\ AllThere => Fills(b, z))
  <2>. HIDE DEF new, om, oi
  <2>1. /\ Sorted(b, z, om, oi)
        /\ Full(b, u, om, oi) /\ (\A t \in ResTypes : Mine(b, u.nodes[t]) => new[t] = u.nodes[t]) =>
             Full(b, z, om, oi)
    BY <1>3, <1>6, <1>7, Reset
  <2>2. Tidy => b \in Keep
    BY <1>4 DEF Tidy
  <2>3. Tidy /\ AllThere => Full(b, z, om, oi)
    BY <1>3, <2>1, <2>2
  <2>. QED  BY <2>1, <2>3 DEF Fits, Fills, om, oi
<1>9. node' = [node EXCEPT ![b] = z.nodes] /\ mem' = z.mem /\ io' = z.io
  BY <1>4, <1>6
<1>10. IInv' /\ (Fills(b, z) => AllThere')
  BY <1>4, <1>5, <1>6, <1>8, <1>9, BindingKeeps
<1>. QED  BY <1>8, <1>10 DEF Good

-----------------------------------------------------------------------------
(* The theorems                                                            *)

\* At first no bridge has anything.
LEMMA Starts == Init => IInv /\ AllThere
<1>. SUFFICES ASSUME Init PROVE IInv /\ AllThere
  OBVIOUS
<1>1. \A b \in Bridges : node[b] = [t \in Types |-> Unused]
  BY DEF Init
<1>2. node \in [Bridges -> [Types -> Node]]
  BY Empty DEF Init
<1>3. TypeOK
  BY <1>2, Arithmetic DEF Init, TypeOK, Node, Statuses
<1>4. Agree
  <2>1. \A b \in Bridges : Blank(node[b])
    BY <1>1, Empty
  <2>2. ASSUME NEW T \in SUBSET Types
        PROVE  Global(node, T, {})
    <3>1. ASSUME NEW b \in Bridges, NEW t \in T
          PROVE  ~Mine(b, node[b][t])
      BY <1>1, <3>1, Empty
    <3>2. \A b \in Bridges : Others(node, b, T) = {}
      BY <3>1 DEF Others
    <3>. QED  BY <3>1, <3>2 DEF Global, Stands
  <2>. QED  BY <2>1, <2>2, Five DEF Agree, Init, MemTypes, IoTypes
<1>5. Flags /\ Requests /\ AllThere
  BY <1>1 DEF Flags, Requests, AllThere, Whole, Init
<1>. QED  BY <1>3, <1>4, <1>5 DEF IInv

\* The arguments of SetBusNumbers are addresses.
LEMMA BusNumbers ==
  ASSUME NEW b \in Bridges
  PROVE  /\ Window[b].TypeBus.base \in Addresses /\ LastOf(Window[b].TypeBus) \in Addresses
         /\ 1 \in Addresses /\ 2 \in Addresses
<1>1. Word >= 4
  BY WordAssumption
<1>. QED  BY <1>1, Windows, Five, WordAssumption DEF Addresses

\* Every step keeps the invariant.
LEMMA Steps == IInv /\ [Next]_vars => Good
<1>. SUFFICES ASSUME IInv, [Next]_vars PROVE Good
  OBVIOUS
<1>1. CASE UNCHANGED vars
  <2>1. UNCHANGED <<mem, io, ioSpace, node, started, submitted, canRestart, connecting,
                    enumerating, pcd, asked, last>>
    BY <1>1 DEF vars, gcdVars, bridgeVars
  <2>2. TypeOK'
    BY <2>1 DEF IInv, TypeOK
  <2>3. Flags' /\ Requests'
    BY <2>1 DEF IInv, Flags, Requests
  <2>. QED  BY <2>1, <2>2, <2>3, Unmoved DEF IInv, Good
<1>2. ASSUME NEW b \in Bridges, connecting \in {None, b}, Binding(b)
      PROVE  Good
  BY <1>2, DriverStartKeeps, ConnectPciBusKeeps, DriverStopKeeps DEF Binding
<1>3. ASSUME NEW b \in Bridges, Phases(b)
      PROVE  Good
  <2>1. b \in enumerating
    BY <1>3 DEF Phases, BeginEnumeration, BeginBusAllocation, AllocateResources, FreeResources,
                SubmitResources, SetBusNumbers, Client
  <2>2. CASE BeginEnumeration(b) \/ BeginBusAllocation(b)
    BY <2>1, <2>2, BeginEnumerationKeeps, BeginBusAllocationKeeps
  <2>3. CASE AllocateResources(b) \/ FreeResources(b)
    BY <2>1, <2>3, AllocateResourcesKeeps, FreeResourcesKeeps
  <2>4. CASE \E cfg \in Configurations : SubmitResources(b, cfg)
    BY <2>1, <2>4, SubmitResourcesKeeps
  <2>5. CASE SetBusNumbers(b, Window[b].TypeBus.base, 1)
    BY <2>1, <2>5, BusNumbers, SetBusNumbersKeeps
  <2>6. CASE SetBusNumbers(b, LastOf(Window[b].TypeBus), 2)
    BY <2>1, <2>6, BusNumbers, SetBusNumbersKeeps
  <2>. QED  BY SMTT(60), <1>3, <2>2, <2>3, <2>4, <2>5, <2>6 DEF Phases
<1>. QED  BY <1>1, <1>2, <1>3 DEF Next

\* The invariant implies the properties.
LEMMA Apart == IInv => NodesBacked
<1>. SUFFICES ASSUME IInv PROVE NodesBacked
  OBVIOUS
<1>. DEFINE T(S) == IF S THEN IoTypes ELSE MemTypes
            G(S) == IF S THEN io ELSE mem
<1>1. ASSUME NEW S \in BOOLEAN, NEW p \in Nodes(S)
      PROVE  /\ p[1] \in Bridges /\ p[2] \in T(S) /\ p = <<p[1], p[2]>>
             /\ Mine(p[1], node[p[1]][p[2]])
  BY <1>1, Five DEF Nodes, Backed, Allocated, Mine, IoTypes, MemTypes
<1>2. ASSUME NEW S \in BOOLEAN
      PROVE  Global(node, T(S), G(S)) /\ G(S) \subseteq Addresses
  BY Typed DEF IInv, Agree
<1>. HIDE DEF T, G
<1>3. ASSUME NEW S \in BOOLEAN, NEW p \in Nodes(S)
      PROVE  RangeOf(p) # {} /\ RangeOf(p) \subseteq G(S) \ Others(node, p[1], T(S))
  BY <1>1, <1>2, <1>3 DEF Global, Stands, RangeOf
<1>4. ASSUME NEW S \in BOOLEAN, NEW p \in Nodes(S), NEW q \in Nodes(S), p # q
      PROVE  RangeOf(p) \cap RangeOf(q) = {}
  <2>0. /\ p[1] \in Bridges /\ p[2] \in T(S) /\ p = <<p[1], p[2]>> /\ Mine(p[1], node[p[1]][p[2]])
        /\ q[1] \in Bridges /\ q[2] \in T(S) /\ q = <<q[1], q[2]>> /\ Mine(q[1], node[q[1]][q[2]])
    BY <1>1
  <2>1. CASE p[1] = q[1]
    <3>1. p[2] # q[2]
      BY <1>4, <2>0, <2>1
    <3>2. Stands(p[1], node[p[1]], T(S), G(S), Others(node, p[1], T(S)))
      BY <1>2, <2>0 DEF Global
    <3>. QED  BY <2>0, <2>1, <3>1, <3>2 DEF Stands, RangeOf
  <2>2. CASE p[1] # q[1]
    <3>1. RangeOf(q) \subseteq Others(node, p[1], T(S))
      <4>1. RangeOf(q) \subseteq Addresses
        BY <1>2, <1>3
      <4>. QED  BY <2>0, <2>2, <4>1 DEF Others, RangeOf
    <3>. QED  BY <1>3, <3>1
  <2>. QED  BY <2>1, <2>2
<1>5. G(FALSE) = mem /\ G(TRUE) = io
  BY DEF G
<1>6. /\ \A p \in Nodes(FALSE) : RangeOf(p) # {} /\ RangeOf(p) \subseteq mem
      /\ \A p \in Nodes(TRUE)  : RangeOf(p) # {} /\ RangeOf(p) \subseteq io
  BY <1>3, <1>5
<1>. QED  BY <1>4, <1>6 DEF NodesBacked

\* With nothing leaked, the maps are the union of the ranges.
LEMMA Accounted == IInv /\ AllThere => NothingLeaks
<1>. SUFFICES ASSUME IInv, AllThere PROVE NothingLeaks
  OBVIOUS
<1>1. NodesBacked
  BY Apart
<1>2. ASSUME NEW a \in mem
      PROVE  \E p \in Nodes(FALSE) : a \in RangeOf(p)
  <2>1. PICK b \in Bridges, t \in MemTypes : Mine(b, node[b][t]) /\ a \in Claimed(b, t, node[b][t])
    BY DEF AllThere, Whole
  <2>2. <<b, t>> \in Nodes(FALSE) /\ RangeOf(<<b, t>>) = Claimed(b, t, node[b][t])
    BY <2>1 DEF Nodes, Backed, Allocated, Mine, MemTypes, RangeOf
  <2>. QED  BY <2>1, <2>2
<1>3. ASSUME NEW a \in io
      PROVE  \E p \in Nodes(TRUE) : a \in RangeOf(p)
  <2>1. PICK b \in Bridges, t \in IoTypes : Mine(b, node[b][t]) /\ a \in Claimed(b, t, node[b][t])
    BY DEF AllThere, Whole
  <2>2. <<b, t>> \in Nodes(TRUE) /\ RangeOf(<<b, t>>) = Claimed(b, t, node[b][t])
    BY <2>1, Five DEF Nodes, Backed, Allocated, Mine, IoTypes, RangeOf
  <2>. QED  BY <2>1, <2>2
<1>4. /\ \A p \in Nodes(FALSE) : RangeOf(p) \subseteq mem
      /\ \A p \in Nodes(TRUE)  : RangeOf(p) \subseteq io
  BY <1>1 DEF NodesBacked
<1>5. mem = UNION {RangeOf(p) : p \in Nodes(FALSE)}
  BY <1>2, <1>4
<1>6. io = UNION {RangeOf(p) : p \in Nodes(TRUE)}
  BY <1>3, <1>4
<1>. QED  BY <1>5, <1>6 DEF NothingLeaks

\* The nodes, the maps and the flags of every bridge stay in a proper state.
THEOREM TypeCorrect == Spec => []TypeOK
<1>1. Init => IInv
  BY Starts
<1>2. IInv /\ [Next]_vars => IInv'
  BY Steps DEF Good
<1>3. IInv => TypeOK
  BY DEF IInv
<1>. QED  BY <1>1, <1>2, <1>3, PTL DEF Spec

\* Whatever the bridges are asked for, and in whatever order: what a ResAllocNode
\* says is allocated is allocated in the GCD, and no two nodes share an address.
THEOREM Backing == Spec => []NodesBacked
<1>1. Init => IInv
  BY Starts
<1>2. IInv /\ [Next]_vars => IInv'
  BY Steps DEF Good
<1>3. IInv => NodesBacked
  BY Apart
<1>. QED  BY <1>1, <1>2, <1>3, PTL DEF Spec

\* With a PCI bus driver that frees what it got before it starts over, and if
\* only bridges that keep their configuration are disconnected (RootBridgeFree
\* gives back nothing else), the GCD has nothing that no ResAllocNode has.
THEOREM NoLeaks ==
  ASSUME Careful, Stoppable \subseteq Keep
  PROVE  Spec => []NothingLeaks
<1>. DEFINE Inv == IInv /\ AllThere
<1>1. Init => Inv
  BY Starts
<1>2. Inv /\ [Next]_vars => Inv'
  BY Steps DEF Good, Tidy
<1>3. Inv => NothingLeaks
  BY Accounted
<1>. HIDE DEF Inv
<1>. QED  BY <1>1, <1>2, <1>3, PTL DEF Spec

\* "Keep existing PCI(e) BAR configuration": while such a bridge is started its
\* nodes never change, whatever the other bridges do.
THEOREM Keeps == Spec => KeptStays
<1>. DEFINE A == \A b \in Keep \cap started : b \in started' => node'[b] = node[b]
<1>1. Init => IInv
  BY Starts
<1>2. IInv /\ [Next]_vars => IInv'
  BY Steps DEF Good
<1>3. IInv /\ [Next]_vars => [A]_vars
  <2>. SUFFICES ASSUME IInv, Next, NEW b \in Keep \cap started, b \in started'
                PROVE  node'[b] = node[b]
    OBVIOUS
  <2>1. PICK c \in Bridges : Binding(c) \/ Phases(c)
    BY DEF Next
  <2>2. /\ node \in [Bridges -> [Types -> Node]] /\ b \in Bridges
    BY Typed DEF IInv, TypeOK
  <2>3. CASE Phases(c)
    <3>1. c \in enumerating
      BY <2>3 DEF Phases, BeginEnumeration, BeginBusAllocation, AllocateResources, FreeResources,
                  SubmitResources, SetBusNumbers, Client
    <3>2. c # b
      BY <3>1 DEF IInv, Flags
    <3>3. \A x : node' = [node EXCEPT ![c] = x] => node'[b] = node[b]
      BY <2>2, <3>2
    <3>4. node' = node \/ \E x : node' = [node EXCEPT ![c] = x]
      <4>1. CASE BeginEnumeration(c) \/ BeginBusAllocation(c)
        BY <4>1 DEF BeginEnumeration, BeginBusAllocation
      <4>2. CASE AllocateResources(c)
        BY <4>2 DEF AllocateResources
      <4>3. CASE FreeResources(c)
        BY <4>3 DEF FreeResources
      <4>4. ASSUME NEW cfg \in Configurations, SubmitResources(c, cfg)
            PROVE  node' = node \/ \E x : node' = [node EXCEPT ![c] = x]
        BY <4>4 DEF SubmitResources
      <4>5. ASSUME NEW first, NEW length, SetBusNumbers(c, first, length)
            PROVE  node' = node \/ \E x : node' = [node EXCEPT ![c] = x]
        BY <4>5 DEF SetBusNumbers
      <4>. QED  BY <2>3, <4>1, <4>2, <4>3, <4>4, <4>5 DEF Phases
    <3>. QED  BY SMTT(60), <3>3, <3>4
  <2>4. CASE DriverStart(c)
    <3>1. c # b /\ (node' = node \/ \E x : node' = [node EXCEPT ![c] = x])
      BY <2>4 DEF DriverStart, RootBridgeCreate
    <3>. QED  BY <2>2, <3>1
  <2>5. CASE ConnectPciBus(c)
    BY <2>5 DEF ConnectPciBus
  <2>6. CASE DriverStop(c)
    <3>1. c # b /\ \E x : node' = [node EXCEPT ![c] = x]
      BY <2>6 DEF DriverStop
    <3>. QED  BY <2>2, <3>1
  <2>. QED  BY <2>1, <2>3, <2>4, <2>5, <2>6 DEF Binding
<1>. QED  BY <1>1, <1>2, <1>3, PTL DEF Spec, KeptStays

\* AllocateResources and FreeResources say the truth about everything at once.
THEOREM Honest == Spec => []StatusHonest
<1>. DEFINE Inv == IInv /\ StatusHonest
<1>1. Init => Inv
  BY Starts DEF Init, StatusHonest
<1>2. Inv /\ [Next]_vars => Inv'
  <2>. SUFFICES ASSUME Inv, [Next]_vars PROVE StatusHonest'
    BY Steps DEF Good
  <2>1. IInv'
    BY Steps DEF Good
  <2>2. CASE UNCHANGED <<last, node, asked, canRestart>>
    BY <2>2 DEF StatusHonest, Allocated, Holds
  <2>3. ASSUME last'.op \notin {"AllocateResources", "FreeResources"}
        PROVE  StatusHonest'
    BY <2>3 DEF StatusHonest
  <2>4. ASSUME NEW b \in enumerating, AllocateResources(b)
        PROVE  StatusHonest'
    <3>1. last'.op = "AllocateResources" /\ last'.bridge = b
      BY <2>4 DEF AllocateResources, Returns
    <3>2. ASSUME last'.status = "EFI_SUCCESS"
          PROVE  /\ \A t \in ResTypes : node'[b][t].status \in {"ResAllocated", "ResNone"}
                 /\ b \in submitted'
      <4>. DEFINE s == Allocation(b)
                  z == [nodes |-> FailedZeroed(s.nodes), mem |-> s.mem, io |-> s.io]
      <4>1. b \in submitted
        BY <2>4, <3>2 DEF AllocateResources, Returns
      <4>2. /\ node' = [node EXCEPT ![b] = z.nodes] /\ s.status = "EFI_SUCCESS"
            /\ submitted' = submitted
        BY <2>4, <3>2, <4>1 DEF AllocateResources, Returns, bridgeVars
      <4>3. /\ Sorted(b, s, Others(node, b, MemTypes), Others(node, b, IoTypes))
            /\ \A t \in ResTypes : s.nodes[t].status \in {"ResAllocated", "ResNone"}
        <5>1. Sorted(b, [nodes |-> node[b], mem |-> mem, io |-> io],
                     Others(node, b, MemTypes), Others(node, b, IoTypes))
          BY Enumerated DEF Fits, Now
        <5>2. b \in Bridges /\ b \notin Keep /\ TypeOK
          BY Enumerated DEF IInv
        <5>. HIDE DEF z
        <5>. QED  BY <4>2, <5>1, <5>2, Typed, AllocationSorts
      <4>. HIDE DEF s
      <4>4. \A t \in Types : z.nodes[t].status = s.nodes[t].status
        <5>. DEFINE om == Others(node, b, MemTypes)
                    oi == Others(node, b, IoTypes)
        <5>1. Sorted(b, s, om, oi)
          BY <4>3
        <5>. HIDE DEF om, oi
        <5>2. /\ Sorted(b, z, om, oi) /\ (Full(b, s, om, oi) => Full(b, z, om, oi))
              /\ \A t \in Types : z.nodes[t].status = s.nodes[t].status
          BY <5>1, Zeroed
        <5>. QED  BY <5>2
      <4>. HIDE DEF z
      <4>5. node'[b] = z.nodes
        BY <4>2, Enumerated, Typed DEF IInv
      <4>. QED  BY <4>1, <4>2, <4>3, <4>4, <4>5, Five
    <3>3. ASSUME last'.status = "EFI_SUCCESS"
          PROVE  \A t \in asked'[b] : t \in ResTypes /\ node'[b][t].status = "ResAllocated"
      BY <2>1, <3>2, <3>3 DEF IInv, Requests
    <3>. QED  BY <3>1, <3>2, <3>3 DEF StatusHonest, Allocated
  <2>5. ASSUME NEW b \in enumerating, FreeResources(b)
        PROVE  StatusHonest'
    <3>1. last'.op # "AllocateResources" /\ last'.bridge = b
      BY <2>5 DEF FreeResources, Returns
    <3>2. last'.op = "FreeResources" =>
            last'.status = "EFI_SUCCESS" /\ ~Holds(b)' /\ b \in canRestart'
      BY <2>5, FreeResourcesKeeps
    <3>. QED  BY <3>1, <3>2 DEF StatusHonest, Holds
  <2>6. ASSUME NEW b \in Bridges, Phases(b)
        PROVE  StatusHonest'
    <3>1. b \in enumerating
      BY <2>6 DEF Phases, BeginEnumeration, BeginBusAllocation, AllocateResources, FreeResources,
                  SubmitResources, SetBusNumbers, Client
    <3>2. CASE BeginEnumeration(b) \/ BeginBusAllocation(b)
      BY <2>3, <3>2 DEF BeginEnumeration, BeginBusAllocation, Returns
    <3>3. ASSUME NEW cfg \in Configurations, SubmitResources(b, cfg)
          PROVE  StatusHonest'
      <4>1. \/ Returns("SubmitResources", b, "EFI_INVALID_PARAMETER")
            \/ Returns("SubmitResources", b, "EFI_SUCCESS")
        BY <3>3 DEF SubmitResources
      <4>. QED  BY <2>3, <4>1 DEF Returns
    <3>4. ASSUME NEW first, NEW length, SetBusNumbers(b, first, length)
          PROVE  StatusHonest'
      BY <2>3, <3>4 DEF SetBusNumbers, Returns
    <3>. QED  BY SMTT(60), <2>4, <2>5, <2>6, <3>1, <3>2, <3>3, <3>4 DEF Phases
  <2>7. ASSUME NEW b \in Bridges, Binding(b)
        PROVE  StatusHonest'
    <3>1. CASE DriverStart(b) \/ DriverStop(b)
      <4>1. \/ Returns("DriverStart", b, "EFI_SUCCESS")
            \/ Returns("DriverStart", b, "EFI_OUT_OF_RESOURCES")
            \/ Returns("DriverStop", b, "EFI_SUCCESS")
        BY <3>1 DEF DriverStart, DriverStop
      <4>. QED  BY <2>3, <4>1 DEF Returns
    <3>2. CASE ConnectPciBus(b)
      BY <2>2, <3>2 DEF ConnectPciBus
    <3>. QED  BY <2>7, <3>1, <3>2 DEF Binding
  <2>. QED  BY <2>2, <2>6, <2>7 DEF Next, vars, bridgeVars
<1>3. Inv => StatusHonest
  OBVIOUS
<1>. HIDE DEF Inv
<1>. QED  BY <1>1, <1>2, <1>3, PTL DEF Spec

-----------------------------------------------------------------------------
(* Where allocated addresses lie                                           *)

\* Multiples of m.
LEMMA Multiple ==
  ASSUME NEW m \in Nat \ {0}, NEW k \in Int
  PROVE  (m * k) % m = 0
<1>1. PICK z \in Int : z = m * k
  OBVIOUS
<1>2. PICK q \in Int, r \in 0..(m - 1) : q = z \div m /\ r = z % m /\ z = m * q + r
  OBVIOUS
<1>3. PICK d \in Int : d = k - q
  OBVIOUS
<1>4. m * d = m * k - m * q /\ m * k \in Int /\ m * q \in Int
  BY <1>3
<1>5. m * d = r
  BY <1>1, <1>2, <1>4
<1>6. d >= 1 => m * d >= m
  OBVIOUS
<1>7. d <= -1 => m * d <= -m
  OBVIOUS
<1>8. r = 0
  BY <1>5, <1>6, <1>7
<1>. QED  BY <1>1, <1>2, <1>8

\* What is left of a number without its remainder is a multiple.
LEMMA Quotient ==
  ASSUME NEW m \in Nat \ {0}, NEW x \in Int
  PROVE  /\ x % m \in 0..(m - 1)
         /\ \E k \in Int : x - (x % m) = m * k
<1>1. PICK q \in Int, r \in 0..(m - 1) : q = x \div m /\ r = x % m /\ x = m * q + r
  OBVIOUS
<1>2. m * q \in Int
  OBVIOUS
<1>3. x - r = m * q
  BY <1>1, <1>2
<1>. QED  BY <1>1, <1>3

\* Sums and differences of multiples are multiples.
LEMMA Multiples ==
  ASSUME NEW m \in Nat \ {0}, NEW x \in Int, NEW y \in Int, x % m = 0, y % m = 0
  PROVE  (x + y) % m = 0 /\ (x - y) % m = 0
<1>1. PICK k \in Int, l \in Int : x = m * k /\ y = m * l
  <2>1. (\E k \in Int : x - (x % m) = m * k) /\ (\E k \in Int : y - (y % m) = m * k)
    BY Quotient
  <2>2. x - 0 = x /\ y - 0 = y
    OBVIOUS
  <2>. QED  BY <2>1, <2>2
<1>2. PICK i \in Int, j \in Int : i = k + l /\ j = k - l
  OBVIOUS
<1>3. m * i = m * k + m * l /\ m * j = m * k - m * l
  BY <1>2
<1>4. x + y = m * i /\ x - y = m * j
  BY <1>1, <1>3
<1>. QED  BY <1>2, <1>4, Multiple

\* Rounding up, where that does not wrap.
LEMMA RoundsUp ==
  ASSUME NEW base \in Addresses, NEW step \in Nat \ {0}, base + step < Word,
         NEW g, g = AlignUp(base, step)
  PROVE  /\ g \in Addresses /\ base <= g /\ g < base + step /\ g % step = 0
         /\ base % step = 0 => g = base
<1>1. PICK r \in 0..(step - 1) : r = base % step
  BY Quotient DEF Addresses
<1>2. Word \in Nat /\ base \in Nat /\ base < Word
  BY Arithmetic DEF Addresses
<1>3. CASE r = 0
  BY <1>1, <1>2, <1>3 DEF AlignUp
<1>4. CASE r # 0
  <2>1. g = base + (step - r)
    BY <1>1, <1>2, <1>4 DEF AlignUp, Add
  <2>2. PICK z \in Int, y \in Int : z = base - r /\ y = step
    BY <1>2
  <2>3. z % step = 0
    <3>1. base \in Int
      BY <1>2
    <3>2. PICK k \in Int : base - (base % step) = step * k
      BY <3>1, Quotient
    <3>. QED  BY <1>1, <2>2, <3>2, Multiple
  <2>4. y % step = 0
    BY <2>2, Multiple
  <2>5. (z + y) % step = 0
    BY <2>3, <2>4, Multiples
  <2>6. g = z + y
    BY <1>2, <2>1, <2>2
  <2>. QED  BY <1>1, <1>2, <1>4, <2>1, <2>5, <2>6 DEF Addresses
<1>. QED  BY <1>3, <1>4

\* AllocateResource stays between BaseAddress and Limit, on a step from where it
\* starts, if Length and a step fit behind Limit.
LEMMA AllocateWithin ==
  ASSUME NEW space \in SUBSET Addresses, NEW ledger, NEW length \in Addresses,
         NEW step \in Nat \ {0}, NEW base \in Addresses, NEW limit \in Addresses,
         limit + 1 + length + step < Word,
         NEW a, a = AllocateResource(space, ledger, length, step, base, limit), a # NoAddress
  PROVE  /\ a \in Addresses /\ length > 0 /\ base <= a /\ a + length <= limit + 1
         /\ base % step = 0 => (a - base) % step = 0
<1>. DEFINE start == AlignUp(base, step)
            Tried(x) == \A y \in start..x : (y - start) % step = 0 => InLimit(y, length, limit)
            hits == {x \in Addresses : /\ x >= start /\ (x - start) % step = 0
                                       /\ Tried(x) /\ Claimable(x, length, space, ledger)}
<1>1. a = IF base < limit /\ hits # {} THEN Least(hits) ELSE NoAddress
  BY DEF AllocateResource
<1>2. Addresses \subseteq Nat /\ Word \in Nat /\ \A x \in Addresses : x < Word
  <2>1. Word \in Nat
    BY Arithmetic
  <2>. QED  BY <2>1 DEF Addresses
<1>3. a \in hits /\ base < limit
  <2>1. hits \in SUBSET Nat
    BY <1>2
  <2>. HIDE DEF hits
  <2>. QED  BY <1>1, <2>1, LeastIsLeast
<1>4. /\ a \in Addresses /\ a >= start /\ (a - start) % step = 0 /\ Tried(a)
      /\ Claimable(a, length, space, ledger)
  BY <1>3
<1>. HIDE DEF hits
<1>5. /\ start \in Addresses /\ base <= start /\ start < base + step
      /\ base % step = 0 => start = base
  <2>1. base + step < Word
    BY <1>2, <1>3
  <2>. QED  BY <2>1, RoundsUp
<1>. HIDE DEF start
<1>6. length > 0 /\ a + length <= Word
  <2>1. length > 0 /\ Span(a, length) \subseteq Addresses
    BY <1>4 DEF Claimable
  <2>2. PICK x \in Nat : x = a + length - 1
    BY <1>2, <1>4, <2>1
  <2>3. x \in Span(a, length)
    BY <1>2, <1>4, <2>1, <2>2 DEF Span
  <2>4. x < Word
    BY <1>2, <2>1, <2>3
  <2>. QED  BY <1>2, <1>4, <2>1, <2>2, <2>4
<1>7. ASSUME NEW x \in Nat, InLimit(x, length, limit), x + length < Word
      PROVE  x + length <= limit + 1
  BY <1>2, <1>7 DEF InLimit, Add
<1>8. a + length <= limit + 1
  <2>1. CASE a = start
    <3>1. a + length < Word
      BY <1>2, <1>3, <1>5, <2>1
    <3>2. (a - start) % step = 0 /\ a \in start..a
      BY <1>2, <1>4, <1>5
    <3>. QED  BY <1>2, <1>4, <1>7, <3>1, <3>2
  <2>2. CASE a # start
    <3>1. PICK e \in Int : e = a - start /\ e > 0 /\ e % step = 0
      BY <1>2, <1>4, <1>5, <2>2
    <3>2. e >= step
      <4>1. PICK k \in Int : e = step * k
        <5>1. PICK k \in Int : e - (e % step) = step * k
          BY Quotient
        <5>2. e - 0 = e
          OBVIOUS
        <5>. QED  BY <3>1, <5>1, <5>2
      <4>2. k <= 0 => step * k <= 0
        OBVIOUS
      <4>3. k >= 1 => step * k >= step
        OBVIOUS
      <4>. QED  BY <3>1, <4>1, <4>2, <4>3
    <3>3. PICK x \in Nat : x = a - step /\ x >= start
      BY <1>2, <1>4, <1>5, <3>1, <3>2
    <3>4. (x - start) % step = 0
      <4>1. step \in Int /\ step % step = 0
        BY Multiple
      <4>2. (e - step) % step = 0
        BY <3>1, <4>1, Multiples
      <4>3. x - start = e - step
        BY <1>2, <1>4, <1>5, <3>1, <3>3
      <4>. QED  BY <4>2, <4>3
    <3>5. InLimit(x, length, limit)
      BY <1>2, <1>4, <1>5, <3>3, <3>4
    <3>6. x + length < Word
      BY <1>2, <1>4, <1>6, <3>3
    <3>7. x + length <= limit + 1
      BY <1>7, <3>5, <3>6
    <3>8. a + length < Word
      BY <1>2, <1>4, <3>3, <3>7
    <3>9. (a - start) % step = 0 /\ a \in start..a
      BY <1>2, <1>4, <1>5
    <3>. QED  BY <1>2, <1>4, <1>7, <3>8, <3>9
  <2>. QED  BY <2>1, <2>2
<1>9. base <= a
  BY <1>2, <1>4, <1>5
<1>. QED  BY <1>4, <1>5, <1>6, <1>8, <1>9

\* Nothing is found in a range that is absent.
LEMMA AllocateNothing ==
  ASSUME NEW space, NEW ledger, NEW length \in Addresses, NEW step \in Nat \ {0}
  PROVE  AllocateResource(space, ledger, length, step, 0, NoAddress) = NoAddress
<1>1. 0 % step = 0 /\ AlignUp(0, step) = 0
  <2>1. (step * 0) % step = 0 /\ step * 0 = 0
    BY Multiple
  <2>. QED  BY <2>1 DEF AlignUp
<1>2. InLimit(0, length, NoAddress) => length = 0
  BY Arithmetic DEF InLimit, Add, NoAddress, Addresses
<1>3. ASSUME NEW x \in Addresses,
             \A y \in 0..x : (y - 0) % step = 0 => InLimit(y, length, NoAddress),
             Claimable(x, length, space, ledger)
      PROVE  FALSE
  <2>1. 0 \in 0..x /\ 0 - 0 = 0
    BY Arithmetic DEF Addresses
  <2>2. InLimit(0, length, NoAddress)
    BY <1>1, <1>3, <2>1
  <2>3. length # 0
    BY <1>3 DEF Claimable
  <2>. QED  BY <1>2, <2>2, <2>3
<1>. QED  BY <1>1, <1>3 DEF AllocateResource

\* The two ways to write a translated address: what goes up by d on one side goes
\* up by d on the other.
LEMMA Translates ==
  ASSUME NEW w \in [base : Addresses, parent : Addresses, length : Addresses],
         NEW d \in Nat
  PROVE  /\ w.base + d < Word /\ w.parent + d < Word =>
              ToHost(w.base + d, Translation(w)) = w.parent + d
         /\ w.parent + d < Word /\ w.base + d < Word =>
              ToDevice(w.parent + d, Translation(w)) = w.base + d
<1>1. PICK x \in Nat, y \in Nat : x = w.base /\ y = w.parent /\ x < Word /\ y < Word
  BY Arithmetic DEF Addresses
<1>2. Word \in Nat
  BY Arithmetic
<1>3. Translation(w) = IF y <= x THEN x - y ELSE x - y + Word
  BY <1>1 DEF Translation, Sub
<1>. QED  BY <1>1, <1>2, <1>3 DEF ToHost, ToDevice, Sub, Add

\* The last address of a range that does not reach the end of the address space.
LEMMA LastAddress ==
  ASSUME NEW w \in [base : Addresses, parent : Addresses, length : Addresses],
         w.length > 0, w.base + w.length < Word
  PROVE  LastOf(w) = w.base + (w.length - 1)
<1>1. PICK x \in Nat, l \in Nat : x = w.base /\ l = w.length /\ l > 0
  BY Arithmetic DEF Addresses
<1>2. Word \in Nat /\ Word >= 2
  BY Arithmetic
<1>. QED  BY <1>1, <1>2 DEF LastOf, Add, Sub

\* Room for more behind the range, on both sides of the bridge for memory.
Room(w, t, more) ==
  Valid(w) => /\ w.base + w.length + more < Word
              /\ t # "TypeIo" => w.parent + w.length + more < Word
\* A range that is not there.
Cleared(w) == ~Valid(w) => w.base = 0 /\ w.parent = 0
\* Where the range of a type has the addresses from x on.
In(w, x, length) == Valid(w) /\ w.base <= x /\ x + length <= w.base + w.length

\* Memory for a node: in the range, and aligned on the device's side.
LEMMA MemoryWithin ==
  ASSUME NEW b \in Bridges, NEW s, NEW u \in ResTypes, NEW n \in Node, NEW cap \in Nat \ {0},
         NEW a, a = FromMemory(b, s, n, u, cap), a # NoAddress,
         NEW w, w = Window[b][u], NEW step, step = n.align + 1,
         Cleared(w), u # "TypeIo",
         Valid(w) => /\ Room(w, u, n.length + step) /\ step <= cap
                     /\ Translation(w) % step = 0 /\ Word % step = 0
  PROVE  /\ a \in Addresses /\ In(w, ToDevice(a, Translation(w)), n.length)
         /\ ToDevice(a, Translation(w)) % step = 0
<1>1. w \in [base : Addresses, parent : Addresses, length : Addresses]
  BY Windows, Five
<1>2. PICK x \in Nat, y \in Nat, l \in Nat :
        /\ x = w.base /\ y = w.parent /\ l = w.length /\ x \in Addresses /\ y \in Addresses
        /\ x < Word /\ y < Word /\ l < Word
  <2>1. w.base \in Addresses /\ w.parent \in Addresses /\ w.length \in Addresses
    BY <1>1
  <2>2. \A z \in Addresses : z \in Nat /\ z < Word
    BY Arithmetic DEF Addresses
  <2>. QED  BY <2>1, <2>2
<1>3. PICK m \in Nat, k \in Nat \ {0} :
        m = n.length /\ k = step /\ m \in Addresses /\ k < Word + 1 /\ n.length \in Addresses
  BY Arithmetic DEF Node, Addresses
<1>4. Word \in Nat /\ Word >= 2 /\ NoAddress \in Addresses /\ Addresses \subseteq Nat
  BY Arithmetic DEF Addresses
<1>. DEFINE T == Translation(w)
<1>5. T \in Nat /\ T = IF y <= x THEN x - y ELSE x - y + Word
  <2>1. T = IF y <= x THEN x - y ELSE x - y + Word
    BY <1>2 DEF Translation, Sub
  <2>. QED  BY <1>2, <1>4, <2>1
<1>6. a = AllocateResource(Addresses, s.mem, m, Smaller(step, cap),
                           ToHost(AlignUp(x, k), T), ToHost(LastOf(w), T))
  BY <1>2, <1>3 DEF FromMemory
<1>7. CASE ~Valid(w)
  <2>1. x = 0 /\ y = 0 /\ l = 0
    BY <1>2, <1>7 DEF Cleared, Valid
  <2>2. T = 0
    BY <1>5, <2>1
  <2>3. AlignUp(x, k) = 0
    <3>1. (k * 0) % k = 0 /\ k * 0 = 0
      BY Multiple
    <3>. QED  BY <2>1, <3>1 DEF AlignUp
  <2>4. LastOf(w) = NoAddress
    BY <1>2, <1>4, <2>1 DEF LastOf, Add, Sub, NoAddress
  <2>5. ToHost(0, T) = 0 /\ ToHost(NoAddress, T) = NoAddress
    BY <1>4, <2>2 DEF ToHost, Sub, NoAddress
  <2>6. a = AllocateResource(Addresses, s.mem, m, Smaller(step, cap), 0, NoAddress)
    BY <1>6, <2>3, <2>4, <2>5
  <2>7. Smaller(step, cap) \in Nat \ {0}
    BY <1>3 DEF Smaller
  <2>. QED  BY <1>3, <2>6, <2>7, AllocateNothing
<1>8. CASE Valid(w)
  <2>1. x + l + m + k < Word /\ y + l + m + k < Word /\ l > 0 /\ k <= cap
    BY <1>2, <1>3, <1>8 DEF Room, Valid
  <2>2. Smaller(step, cap) = k
    BY <1>3, <2>1 DEF Smaller
  <2>3. PICK g \in Addresses : g = AlignUp(x, k) /\ x <= g /\ g < x + k /\ g % k = 0
    <3>1. x + k < Word
      BY <1>2, <1>3, <1>4, <2>1
    <3>. DEFINE g == AlignUp(x, k)
    <3>2. g \in Addresses /\ x <= g /\ g < x + k /\ g % k = 0
      BY <1>2, <1>3, <3>1, RoundsUp
    <3>. QED  BY <3>2
  <2>4. PICK d \in Nat : d = g - x /\ d < k /\ g = x + d
    BY <1>2, <1>3, <1>4, <2>3
  <2>5. /\ \A e \in Nat : y + e < Word /\ x + e < Word =>
             ToHost(x + e, T) = y + e /\ ToDevice(y + e, T) = x + e
    BY <1>1, <1>2, Translates
  <2>6. ToHost(AlignUp(x, k), T) = y + d
    <3>1. y + d < Word /\ x + d < Word
      BY <1>2, <1>3, <1>4, <2>1, <2>4
    <3>. QED  BY <2>3, <2>4, <2>5, <3>1
  <2>7. ToHost(LastOf(w), T) = y + (l - 1)
    <3>1. LastOf(w) = x + (l - 1)
      <4>1. x + l < Word
        BY <1>2, <1>3, <1>4, <2>1
      <4>. QED  BY <1>1, <1>2, <2>1, <4>1, LastAddress
    <3>2. l - 1 \in Nat /\ y + (l - 1) < Word /\ x + (l - 1) < Word
      BY <1>2, <1>3, <1>4, <2>1
    <3>. QED  BY <2>5, <3>1, <3>2
  <2>8. y + d \in Addresses /\ y + (l - 1) \in Addresses
    BY <1>2, <1>3, <1>4, <2>1, <2>4 DEF Addresses
  <2>9. (y + d) % k = 0
    <3>1. T % k = 0 /\ Word % k = 0 /\ g % k = 0
      BY <1>3, <1>8, <2>3
    <3>2. y + d = g - T \/ y + d = (g - T) + Word
      BY <1>2, <1>4, <1>5, <2>4
    <3>3. g \in Int /\ T \in Int /\ Word \in Int /\ g - T \in Int
      BY <1>4, <1>5, <2>3
    <3>4. (g - T) % k = 0
      BY <1>3, <3>1, <3>3, Multiples
    <3>5. ((g - T) + Word) % k = 0
      BY <1>3, <3>1, <3>3, <3>4, Multiples
    <3>. QED  BY <3>2, <3>4, <3>5
  <2>10. /\ a \in Addresses /\ m > 0 /\ y + d <= a /\ a + m <= (y + (l - 1)) + 1
         /\ (a - (y + d)) % k = 0
    <3>1. a = AllocateResource(Addresses, s.mem, m, k, y + d, y + (l - 1))
      BY <1>6, <2>2, <2>6, <2>7
    <3>2. (y + (l - 1)) + 1 + m + k < Word
      BY <1>2, <1>3, <1>4, <2>1
    <3>. QED  BY <1>3, <2>8, <2>9, <3>1, <3>2, AllocateWithin
  <2>11. PICK e \in Nat : e = a - y /\ a = y + e /\ e + m <= l
    <3>1. PICK z \in Nat : z = a
      BY <1>4, <2>10
    <3>2. z - y \in Nat /\ z = y + (z - y) /\ (z - y) + m <= l
      BY <1>2, <1>3, <2>4, <2>10, <3>1
    <3>. QED  BY <3>1, <3>2
  <2>12. ToDevice(a, T) = x + e
    <3>1. y + e < Word /\ x + e < Word
      BY <1>2, <1>3, <1>4, <2>1, <2>11
    <3>. QED  BY <2>5, <2>11, <3>1
  <2>13. (x + e) % k = 0
    <3>1. x + e = g + (a - (y + d)) /\ g \in Int /\ a - (y + d) \in Int
      <4>1. PICK z \in Nat : z = a /\ z = y + e
        BY <1>4, <2>10, <2>11
      <4>2. PICK h \in Nat : h = g /\ h = x + d
        BY <1>2, <2>4
      <4>. QED  BY <1>2, <4>1, <4>2
    <3>2. PICK c \in Int : c = a - (y + d) /\ c % k = 0
      BY <2>10, <3>1
    <3>3. (g + c) % k = 0
      <4>1. g \in Int /\ g % k = 0 /\ c \in Int /\ c % k = 0 /\ k \in Nat \ {0}
        BY <2>3, <3>1, <3>2
      <4>. QED  BY ONLY <4>1, Multiples
    <3>4. x + e = g + c
      BY <3>1, <3>2
    <3>. QED  BY <3>3, <3>4
  <2>14. In(w, x + e, m)
    BY <1>2, <1>3, <1>8, <2>11 DEF In
  <2>. QED  BY <1>3, <2>10, <2>12, <2>13, <2>14
<1>. QED  BY <1>7, <1>8

\* I/O for a node.  The GCD has the device's addresses, the node the host's.
LEMMA IoWithin ==
  ASSUME NEW b \in Bridges, NEW s, NEW n \in Node, ioSpace \subseteq Addresses,
         NEW a, a = FromIo(b, s, n), a # NoAddress,
         NEW w, w = Window[b].TypeIo, NEW step, step = n.align + 1,
         Cleared(w), Valid(w) => Room(w, "TypeIo", n.length + step) /\ step <= MaxIoStep
  PROVE  /\ a \in Addresses /\ In(w, ToDevice(a, Translation(w)), n.length)
         /\ ToDevice(a, Translation(w)) % step = 0
<1>1. w \in [base : Addresses, parent : Addresses, length : Addresses] /\ Translation(w) \in Addresses
  BY Windows, Five
<1>2. PICK x \in Nat, l \in Nat :
        /\ x = w.base /\ l = w.length /\ x \in Addresses /\ x < Word /\ l < Word
  <2>1. w.base \in Addresses /\ w.length \in Addresses
    BY <1>1
  <2>2. \A z \in Addresses : z \in Nat /\ z < Word
    BY Arithmetic DEF Addresses
  <2>. QED  BY <2>1, <2>2
<1>3. PICK m \in Nat, k \in Nat \ {0} :
        m = n.length /\ k = step /\ m \in Addresses /\ k < Word + 1 /\ n.length \in Addresses
  BY Arithmetic DEF Node, Addresses
<1>4. Word \in Nat /\ Word >= 2 /\ NoAddress \in Addresses /\ Addresses \subseteq Nat
      /\ MaxIoStep \in Nat \ {0}
  BY Arithmetic, WordAssumption DEF Addresses
<1>. DEFINE d == AllocateResource(ioSpace, s.io, m, Smaller(step, MaxIoStep), AlignUp(x, k), LastOf(w))
<1>5. a = IF d = NoAddress THEN d ELSE ToHost(d, Translation(w))
  BY <1>2, <1>3 DEF FromIo
<1>6. d # NoAddress /\ a = ToHost(d, Translation(w))
  BY <1>5
<1>. HIDE DEF d
<1>7. ASSUME d \in Addresses
      PROVE  a \in Addresses /\ ToDevice(a, Translation(w)) = d
  BY <1>1, <1>6, <1>7, Arithmetic DEF ToHost, ToDevice
<1>8. CASE ~Valid(w)
  <2>1. x = 0 /\ l = 0
    BY <1>2, <1>8 DEF Cleared, Valid
  <2>2. AlignUp(x, k) = 0
    <3>1. (k * 0) % k = 0 /\ k * 0 = 0
      BY Multiple
    <3>. QED  BY <2>1, <3>1 DEF AlignUp
  <2>3. LastOf(w) = NoAddress
    BY <1>2, <1>4, <2>1 DEF LastOf, Add, Sub, NoAddress
  <2>4. Smaller(step, MaxIoStep) \in Nat \ {0}
    BY <1>3, <1>4 DEF Smaller
  <2>. QED  BY <1>3, <1>6, <2>2, <2>3, <2>4, AllocateNothing DEF d
<1>9. CASE Valid(w)
  <2>1. x + l + m + k < Word /\ l > 0 /\ k <= MaxIoStep
    BY <1>2, <1>3, <1>9 DEF Room, Valid
  <2>2. Smaller(step, MaxIoStep) = k
    BY <1>3, <1>4, <2>1 DEF Smaller
  <2>3. PICK g \in Addresses : g = AlignUp(x, k) /\ x <= g /\ g % k = 0
    <3>1. x + k < Word
      BY <1>2, <1>3, <1>4, <2>1
    <3>. DEFINE g == AlignUp(x, k)
    <3>2. g \in Addresses /\ x <= g /\ g % k = 0
      BY <1>2, <1>3, <3>1, RoundsUp
    <3>. QED  BY <3>2
  <2>4. LastOf(w) = x + (l - 1) /\ LastOf(w) \in Addresses /\ LastOf(w) + 1 + m + k < Word
    <3>1. x + l < Word
      BY <1>2, <1>3, <1>4, <2>1
    <3>2. LastOf(w) = x + (l - 1)
      BY <1>1, <1>2, <2>1, <3>1, LastAddress
    <3>3. x + (l - 1) \in 0..(Word - 1) /\ (x + (l - 1)) + 1 + m + k < Word
      BY <1>2, <1>3, <1>4, <2>1
    <3>. QED  BY <3>2, <3>3 DEF Addresses
  <2>5. d \in Addresses /\ m > 0 /\ g <= d /\ d + m <= LastOf(w) + 1 /\ (d - g) % k = 0
    <3>1. d = AllocateResource(ioSpace, s.io, m, k, g, LastOf(w))
      BY <2>2, <2>3 DEF d
    <3>. QED  BY <1>3, <1>6, <2>3, <2>4, <3>1, AllocateWithin
  <2>6. d % k = 0
    <3>1. PICK z \in Nat, h \in Nat : z = d /\ h = g
      BY <1>4, <2>3, <2>5
    <3>2. PICK c \in Int : c = z - h /\ c % k = 0
      BY <2>5, <3>1
    <3>3. (h + c) % k = 0
      <4>1. h \in Int /\ h % k = 0 /\ c \in Int /\ c % k = 0 /\ k \in Nat \ {0}
        BY <2>3, <3>1, <3>2
      <4>. QED  BY ONLY <4>1, Multiples
    <3>4. d = h + c
      BY <3>1, <3>2
    <3>. QED  BY <3>3, <3>4
  <2>7. In(w, d, m)
    <3>1. PICK z \in Nat, h \in Nat : z = d /\ h = g
      BY <1>4, <2>3, <2>5
    <3>2. x <= z /\ z + m <= x + l
      BY <1>2, <1>3, <2>3, <2>4, <2>5, <3>1
    <3>. QED  BY <1>2, <1>3, <1>9, <3>1, <3>2 DEF In
  <2>. QED  BY <1>3, <1>7, <2>5, <2>6, <2>7
<1>. QED  BY <1>8, <1>9

\* The largest step for a type, and the types in whose ranges it may end up.
Cap(t) ==
  CASE t = "TypeIo"                         -> MaxIoStep
    [] t \in {"TypeMem32", "TypePMem32"}    -> Size4G \div 2
    [] t \in {"TypeMem64", "TypePMem64"}    -> Word \div 2
Ways(t) ==
  {t} \cup {u \in ResTypes : \/ t = "TypeMem64" /\ u = "TypeMem32"
                             \/ t = "TypePMem64" /\ u = "TypePMem32"}

\* What a bridge may be asked for.
Descriptors == UNION {{cfg[i] : i \in DOMAIN cfg} : cfg \in Configurations}
Asked(b, t) == {d \in Descriptors : Accepted(b, d) /\ TypeOf(d) = t}

\* The ranges of the bridges are such that the loop of AllocateResource stops
\* before an address wraps, and every alignment asked for divides the address
\* space and is not above the cap of the range.  A range that a type falls back
\* to is moved as far as the type's own is, or would be.
WindowsFit ==
  \A b \in Bridges, t \in ResTypes :
    LET w == Window[b][t] IN
      /\ Cleared(w)
      /\ b \in Keep => Room(w, t, w.length + 2)
      /\ \A d \in Asked(b, t) : \A u \in Ways(t) : Valid(Window[b][u]) =>
           /\ Room(Window[b][u], u, d.length + (d.align + 1)) /\ d.align + 1 <= Cap(u)
           /\ Word % (d.align + 1) = 0
           /\ Translation(Window[b][u]) = Translation(w)

\* A node with its addresses where one of the ranges is.
Decoded(b, t, n) ==
  LET p == ToDevice(n.base, Translation(Window[b][t]))
  IN p % (n.align + 1) = 0 /\ \E u \in Ways(t) : In(Window[b][u], p, n.length)

\* The length and alignment in a node are those of a descriptor, or the length is
\* zero after a failure; and what is allocated is decoded.
Known(b, t, n) ==
  /\ n.status # "ResNone" /\ b \notin Keep =>
       \E d \in Asked(b, t) : n.align = d.align /\ n.length \in {d.length, 0}
  /\ Mine(b, n) => Decoded(b, t, n)
AllKnown(b, nodes) == \A t \in ResTypes : Known(b, t, nodes[t])

\* A descriptor has a length and an alignment below 2^64.
LEMMA AskedTypes ==
  ASSUME NEW b, NEW t, NEW d \in Asked(b, t)
  PROVE  d.length \in Addresses /\ d.align \in Addresses
<1>1. PICK cfg \in Configurations : \E i \in DOMAIN cfg : d = cfg[i]
  BY DEF Asked, Descriptors
<1>2. PICK i \in DOMAIN cfg : d = cfg[i]
  BY <1>1
<1>. DEFINE D == [space : {"io", "mem", "bus"}, bits : Nat, prefetch : BOOLEAN,
                  length : Addresses, align : Addresses]
<1>3. cfg \in Seq(D)
  BY ConfigurationsAssumption
<1>4. d \in D
  <2>. HIDE DEF D
  <2>. QED  BY <1>2, <1>3
<1>. QED  BY <1>4

\* Less room is enough for less.
LEMMA LessRoom ==
  ASSUME NEW b \in Bridges, NEW u \in ResTypes, NEW more \in Nat, NEW less \in Nat, less <= more,
         Room(Window[b][u], u, more)
  PROVE  Room(Window[b][u], u, less)
<1>1. Window[b][u] \in [base : Addresses, parent : Addresses, length : Addresses]
  BY Windows, Five
<1>2. PICK x \in Nat, y \in Nat, l \in Nat :
        x = Window[b][u].base /\ y = Window[b][u].parent /\ l = Window[b][u].length
  <2>1. Addresses \subseteq Nat
    BY Arithmetic DEF Addresses
  <2>. QED  BY <1>1, <2>1
<1>3. Word \in Nat
  BY Arithmetic
<1>. QED  BY <1>2, <1>3 DEF Room

\* Where a request is placed, one of the ranges decodes it.
LEMMA PlacedDecoded ==
  ASSUME WindowsFit, NEW b \in Bridges, b \notin Keep, NEW s \in TurnStates,
         ioSpace \subseteq Addresses, NEW t \in ResTypes,
         Known(b, t, s.nodes[t]), s.nodes[t].status # "ResNone", Aligned(b, s.nodes, t),
         NEW a, a = BaseAddress(b, s, t), a # NoAddress
  PROVE  Decoded(b, t, Placed(s.nodes[t], a))
<1>. DEFINE n == s.nodes[t]
            step == n.align + 1
<1>1. n \in Node
  BY Five DEF TurnStates
<1>2. PICK d \in Asked(b, t) : n.align = d.align /\ n.length \in {d.length, 0}
  BY DEF Known
<1>3. PICK m \in Nat, k \in Nat, more \in Nat :
        m = n.length /\ k = n.align /\ more = d.length + (d.align + 1) /\ m + (k + 1) <= more
  <2>1. Addresses \subseteq Nat
    BY Arithmetic DEF Addresses
  <2>2. d.length \in Nat /\ d.align \in Nat /\ n.length \in Nat /\ n.align \in Nat
    BY <1>1, <2>1, AskedTypes DEF Node
  <2>. QED  BY <1>2, <2>2
<1>4. Placed(n, a).base = a /\ Placed(n, a).align = n.align /\ Placed(n, a).length = n.length
  BY <1>1 DEF Placed, Node
<1>5. /\ \A u \in Ways(t) : u \in ResTypes /\ Cleared(Window[b][u])
      /\ \A u \in Ways(t) : Valid(Window[b][u]) =>
           /\ Room(Window[b][u], u, n.length + step) /\ step <= Cap(u) /\ Word % step = 0
           /\ Translation(Window[b][u]) = Translation(Window[b][t])
  <2>1. \A u \in Ways(t) : u \in ResTypes
    BY DEF Ways
  <2>2. ASSUME NEW u \in Ways(t), Valid(Window[b][u])
        PROVE  /\ Room(Window[b][u], u, more) /\ step <= Cap(u) /\ Word % step = 0
               /\ Translation(Window[b][u]) = Translation(Window[b][t])
    BY <1>2, <1>3, <2>2 DEF WindowsFit
  <2>3. m + (k + 1) \in Nat
    OBVIOUS
  <2>. QED  BY <1>3, <2>1, <2>2, <2>3, LessRoom DEF WindowsFit
<1>6. ASSUME NEW u \in Ways(t), u # "TypeIo", a = FromMemory(b, s, n, u, Cap(u))
      PROVE  Decoded(b, t, Placed(n, a))
  <2>1. Cap(u) \in Nat \ {0}
    <3>1. u \in {"TypeMem32", "TypePMem32", "TypeMem64", "TypePMem64"}
      BY <1>5, <1>6, Five
    <3>2. Size4G \div 2 \in Nat \ {0} /\ Word \div 2 \in Nat \ {0}
      BY WordAssumption
    <3>. QED  BY <3>1, <3>2 DEF Cap
  <2>2. Valid(Window[b][u]) => Translation(Window[b][u]) % step = 0
    BY <1>5 DEF Aligned
  <2>3. /\ In(Window[b][u], ToDevice(a, Translation(Window[b][u])), n.length)
        /\ ToDevice(a, Translation(Window[b][u])) % step = 0
    <3>. DEFINE w == Window[b][u]
    <3>1. /\ u \in ResTypes /\ Cleared(w)
          /\ Valid(w) => /\ Room(w, u, n.length + step) /\ step <= Cap(u)
                         /\ Translation(w) % step = 0 /\ Word % step = 0
      BY <1>5, <2>2
    <3>. HIDE DEF n, w
    <3>. QED  BY <1>1, <1>6, <2>1, <3>1, MemoryWithin DEF w
  <2>4. Translation(Window[b][u]) = Translation(Window[b][t])
    BY <1>5, <2>3 DEF In
  <2>. QED  BY <1>4, <2>3, <2>4 DEF Decoded
<1>7. CASE t = "TypeIo"
  <2>1. a = FromIo(b, s, n)
    BY <1>7 DEF BaseAddress
  <2>2. t \in Ways(t)
    BY DEF Ways
  <2>3. In(Window[b][t], ToDevice(a, Translation(Window[b][t])), n.length)
        /\ ToDevice(a, Translation(Window[b][t])) % step = 0
    <3>. DEFINE w == Window[b].TypeIo
    <3>1. /\ Cleared(w)
          /\ Valid(w) => Room(w, "TypeIo", n.length + step) /\ step <= MaxIoStep
      BY <1>5, <1>7, <2>2 DEF Cap
    <3>. HIDE DEF n, w
    <3>2. In(w, ToDevice(a, Translation(w)), n.length) /\ ToDevice(a, Translation(w)) % step = 0
      BY <1>1, <2>1, <3>1, IoWithin DEF w
    <3>. QED  BY <1>7, <3>2 DEF w
  <2>. QED  BY <1>4, <2>2, <2>3 DEF Decoded
<1>8. CASE t # "TypeIo"
  <2>1. \E u \in Ways(t) : u # "TypeIo" /\ a = FromMemory(b, s, n, u, Cap(u))
    <3>1. t \in {"TypeMem32", "TypePMem32", "TypeMem64", "TypePMem64"}
      BY <1>8, Five
    <3>2. "TypeMem32" \in ResTypes /\ "TypePMem32" \in ResTypes
      BY Five
    <3>3. CASE t = "TypeMem32"
      BY <3>3 DEF BaseAddress, Ways, Cap
    <3>4. CASE t = "TypePMem32"
      BY <3>4 DEF BaseAddress, Ways, Cap
    <3>5. CASE t = "TypeMem64"
      <4>1. Ways(t) = {"TypeMem64", "TypeMem32"}
        BY <3>2, <3>5 DEF Ways
      <4>. QED  BY <3>5, <4>1 DEF BaseAddress, WithFallback, Cap
    <3>6. CASE t = "TypePMem64"
      <4>1. Ways(t) = {"TypePMem64", "TypePMem32"}
        BY <3>2, <3>6 DEF Ways
      <4>. QED  BY <3>6, <4>1 DEF BaseAddress, WithFallback, Cap
    <3>. QED  BY <3>1, <3>3, <3>4, <3>5, <3>6
  <2>. QED  BY <1>6, <2>1
<1>. QED  BY <1>7, <1>8

\* The loop of AllocateResources with its nodes known.
KnownInv(b, first, s, done, k, om, oi) ==
  LoopInv(b, first, s, done, k, om, oi) /\ AllKnown(b, s.nodes)

\* A turn keeps the nodes known: it changes none, or places one that was asked for.
LEMMA KnownTurns ==
  ASSUME WindowsFit, NEW b \in Bridges, b \notin Keep, ioSpace \subseteq Addresses,
         NEW first, NEW s, NEW om, NEW oi, NEW done, NEW k \in 0..4,
         KnownInv(b, first, s, done, k, om, oi),
         NEW t \in ResTypes, t \notin done,
         NEW r, r = Turn(b, s, t), NEW now, now = done \cup {t}, NEW next, next = k + 1
  PROVE  KnownInv(b, first, r, now, next, om, oi)
<1>1. LoopInv(b, first, s, done, k, om, oi) /\ AllKnown(b, s.nodes)
  BY DEF KnownInv
<1>2. LoopInv(b, first, r, now, next, om, oi)
  BY <1>1, LoopTurns
<1>3. /\ s \in TurnStates /\ s.handled \in SUBSET ResTypes /\ s.handled # ResTypes
      /\ s.nodes \in [Types -> Node] /\ Blank(s.nodes)
  <2>1. s \in TurnStates /\ s.handled \in SUBSET ResTypes /\ Cardinality(s.handled) <= k
    BY <1>1 DEF LoopInv, TurnStates
  <2>2. s.nodes \in [Types -> Node] /\ Blank(s.nodes)
    BY <1>1 DEF LoopInv, Sorted
  <2>. QED  BY <2>1, <2>2, Counted
<1>. DEFINE pick == MaxAligned(s.nodes, ResTypes \ s.handled)
            mark == [s EXCEPT !.handled = @ \cup {pick}]
            a == BaseAddress(b, s, pick)
            n == Placed(s.nodes[pick], a)
<1>4. pick \in ResTypes
  <2>1. ResTypes \ s.handled \in SUBSET ResTypes /\ ResTypes \ s.handled # {}
    BY <1>3
  <2>. QED  BY <1>3, <2>1, PickIsOpen
<1>5. \/ r.nodes = s.nodes
      \/ /\ Aligned(b, s.nodes, pick) /\ a # NoAddress
         /\ r.nodes = [s.nodes EXCEPT ![pick] = n]
  <2>1. mark \in TurnStates /\ mark.nodes = s.nodes
    BY <1>3, <1>4 DEF TurnStates
  <2>2. Claim(b, mark, pick, a).nodes = [s.nodes EXCEPT ![pick] = n]
    <3>. HIDE DEF a, pick, mark
    <3>. QED  BY <2>1 DEF Claim, Placed, TurnStates
  <2>3. [s EXCEPT !.handled = @ \cup {t}].nodes = s.nodes
    BY <1>3 DEF TurnStates
  <2>4. [mark EXCEPT !.status = "EFI_OUT_OF_RESOURCES"].nodes = s.nodes
    BY <2>1 DEF TurnStates
  <2>. QED  BY <2>2, <2>3, <2>4 DEF Turn
<1>. HIDE DEF pick, a
<1>6. ASSUME Aligned(b, s.nodes, pick), a # NoAddress,
             r.nodes = [s.nodes EXCEPT ![pick] = n]
      PROVE  AllKnown(b, r.nodes)
  <2>1. s.nodes[pick].length > 0
    BY <1>3, <1>4, <1>6, BaseFits DEF a
  <2>2. s.nodes[pick].status # "ResNone"
    BY <1>3, <1>4, <2>1 DEF Blank
  <2>3. Known(b, pick, s.nodes[pick])
    BY <1>1, <1>4 DEF AllKnown
  <2>4. Decoded(b, pick, n)
    BY <1>3, <1>4, <1>6, <2>2, <2>3, PlacedDecoded DEF a
  <2>5. n.align = s.nodes[pick].align /\ n.length = s.nodes[pick].length
    BY <1>3, <1>4, Five DEF Placed, Node
  <2>. HIDE DEF n
  <2>6. Known(b, pick, n)
    BY <2>2, <2>3, <2>4, <2>5 DEF Known
  <2>7. \A u \in ResTypes : r.nodes[u] = IF u = pick THEN n ELSE s.nodes[u]
    BY <1>3, <1>6, Five
  <2>. QED  BY <1>1, <2>6, <2>7 DEF AllKnown
<1>7. AllKnown(b, r.nodes)
  BY <1>1, <1>5, <1>6
<1>. QED  BY <1>2, <1>7 DEF KnownInv

\* All turns, and the lengths of what failed.
LEMMA AllocationKnown ==
  ASSUME WindowsFit, NEW b \in Bridges, b \notin Keep, ioSpace \subseteq Addresses,
         mem \subseteq Addresses, io \subseteq Addresses, node \in [Bridges -> [Types -> Node]],
         NEW om, NEW oi, Sorted(b, [nodes |-> node[b], mem |-> mem, io |-> io], om, oi),
         AllKnown(b, node[b])
  PROVE  AllKnown(b, FailedZeroed(Allocation(b).nodes))
<1>. DEFINE s0 == [nodes |-> node[b], mem |-> mem, io |-> io, handled |-> {}, status |-> "EFI_SUCCESS"]
            s1 == Turn(b, s0, "TypeIo")
            s2 == Turn(b, s1, "TypeMem32")
            s3 == Turn(b, s2, "TypePMem32")
            s4 == Turn(b, s3, "TypeMem64")
            s5 == Turn(b, s4, "TypePMem64")
<1>1. Allocation(b) = s5
  BY DEF Allocation, InTypeOrder
<1>2. KnownInv(b, s0, s0, {}, 0, om, oi)
  <2>1. s0 \in TurnStates
    BY DEF TurnStates, Statuses
  <2>2. Sorted(b, s0, om, oi)
    BY DEF Sorted
  <2>. QED  BY <2>1, <2>2, FS_EmptySet DEF KnownInv, LoopInv, SameRequests, GoesWell
<1>. HIDE DEF s0, s1, s2, s3, s4, s5
<1>. DEFINE d1 == {"TypeIo"}
            d2 == {"TypeIo", "TypeMem32"}
            d3 == {"TypeIo", "TypeMem32", "TypePMem32"}
            d4 == {"TypeIo", "TypeMem32", "TypePMem32", "TypeMem64"}
            d5 == {"TypeIo", "TypeMem32", "TypePMem32", "TypeMem64", "TypePMem64"}
<1>d. /\ d1 = {} \cup {"TypeIo"} /\ d2 = d1 \cup {"TypeMem32"} /\ d3 = d2 \cup {"TypePMem32"}
      /\ d4 = d3 \cup {"TypeMem64"} /\ d5 = d4 \cup {"TypePMem64"}
      /\ "TypeIo" \notin {} /\ "TypeMem32" \notin d1 /\ "TypePMem32" \notin d2
      /\ "TypeMem64" \notin d3 /\ "TypePMem64" \notin d4
  OBVIOUS
<1>. HIDE DEF d1, d2, d3, d4, d5
<1>3. KnownInv(b, s0, s1, d1, 1, om, oi)
  BY <1>2, <1>d, KnownTurns, Five DEF s1
<1>4. KnownInv(b, s0, s2, d2, 2, om, oi)
  BY <1>3, <1>d, KnownTurns, Five DEF s2
<1>5. KnownInv(b, s0, s3, d3, 3, om, oi)
  BY <1>4, <1>d, KnownTurns, Five DEF s3
<1>6. KnownInv(b, s0, s4, d4, 4, om, oi)
  BY <1>5, <1>d, KnownTurns, Five DEF s4
<1>7. KnownInv(b, s0, s5, d5, 5, om, oi)
  BY <1>6, <1>d, KnownTurns, Five DEF s5
<1>8. AllKnown(b, s5.nodes) /\ s5.nodes \in [Types -> Node]
  BY <1>7 DEF KnownInv, LoopInv, Sorted
<1>9. ASSUME NEW t \in ResTypes
      PROVE  Known(b, t, FailedZeroed(s5.nodes)[t])
  <2>. DEFINE n == s5.nodes[t]
  <2>1. n \in Node /\ Known(b, t, n) /\ t \in Types
    BY <1>8, Five DEF AllKnown
  <2>2. FailedZeroed(s5.nodes)[t] = IF n.status # "ResAllocated" THEN [n EXCEPT !.length = 0] ELSE n
    BY <2>1 DEF FailedZeroed
  <2>. HIDE DEF n
  <2>3. CASE n.status # "ResAllocated"
    <3>. DEFINE z == [n EXCEPT !.length = 0]
    <3>1. z.status = n.status /\ z.align = n.align /\ z.length = 0
      BY <2>1 DEF Node
    <3>. HIDE DEF z
    <3>2. ~Mine(b, z)
      BY <2>3, <3>1 DEF Mine
    <3>3. Known(b, t, z)
      BY <2>1, <3>1, <3>2 DEF Known
    <3>. QED  BY <2>2, <2>3, <3>3 DEF z
  <2>. QED  BY <2>1, <2>2, <2>3
<1>. QED  BY <1>1, <1>9 DEF AllKnown

\* A state of the loop of FreeResources with its nodes known.
Loose(b, s) ==
  /\ DOMAIN s = {"nodes", "mem", "io", "refused", "status"} /\ DOMAIN s.nodes = Types
  /\ AllKnown(b, s.nodes)

\* A turn empties the node or leaves it as it is.
LEMMA FreedKnown ==
  ASSUME NEW b, NEW s, Loose(b, s), NEW t \in ResTypes, NEW r, r = Freed(b, s, t)
  PROVE  Loose(b, r)
<1>. DEFINE n == [Unused EXCEPT !.tracked = s.nodes[t].tracked]
<1>1. DOMAIN s = {"nodes", "mem", "io", "refused", "status"} /\ DOMAIN s.nodes = Types
      /\ AllKnown(b, s.nodes) /\ t \in Types
  BY Five DEF Loose
<1>2. DOMAIN r = DOMAIN s /\ (r.nodes = s.nodes \/ r.nodes = [s.nodes EXCEPT ![t] = n])
  <2>1. CASE r = s
    BY <2>1
  <2>2. CASE r = [s EXCEPT !.refused = TRUE, !.status = "EFI_NOT_FOUND"]
    BY <1>1, <2>2
  <2>3. ASSUME NEW M, NEW I, r = [s EXCEPT !.mem = M, !.io = I, !.nodes = [s.nodes EXCEPT ![t] = n],
                                           !.status = "EFI_SUCCESS"]
        PROVE  DOMAIN r = DOMAIN s /\ r.nodes = [s.nodes EXCEPT ![t] = n]
    <3>. HIDE DEF n
    <3>. QED  BY <1>1, <2>3
  <2>4. \/ r = s \/ r = [s EXCEPT !.refused = TRUE, !.status = "EFI_NOT_FOUND"]
        \/ \E M, I : r = [s EXCEPT !.mem = M, !.io = I, !.nodes = [s.nodes EXCEPT ![t] = n],
                                   !.status = "EFI_SUCCESS"]
    <3>. DEFINE range == Claimed(b, t, s.nodes[t])
                M == IF t = "TypeIo" THEN s.mem ELSE s.mem \ range
                I == IF t = "TypeIo" THEN s.io \ range ELSE s.io
    <3>1. \/ r = s \/ r = [s EXCEPT !.refused = TRUE, !.status = "EFI_NOT_FOUND"]
          \/ r = [s EXCEPT !.mem = M, !.io = I, !.nodes = [s.nodes EXCEPT ![t] = n],
                           !.status = "EFI_SUCCESS"]
      BY DEF Freed
    <3>. HIDE DEF M, I, n
    <3>. QED  BY <3>1, Zenon
  <2>. QED  BY <2>1, <2>2, <2>3, <2>4
<1>3. Known(b, t, n)
  BY DEF Known, Mine, Unused
<1>. HIDE DEF n
<1>4. DOMAIN r.nodes = Types
  BY <1>1, <1>2
<1>5. \A u \in ResTypes : r.nodes[u] = s.nodes[u] \/ (u = t /\ r.nodes[u] = n)
  BY <1>1, <1>2, Five
<1>6. AllKnown(b, r.nodes)
  BY <1>1, <1>3, <1>5 DEF AllKnown
<1>. QED  BY <1>1, <1>2, <1>4, <1>6 DEF Loose

\* All five turns of FreeResources.
LEMMA ReleaseKnown ==
  ASSUME NEW b, DOMAIN node[b] = Types, AllKnown(b, node[b]), NEW garbage
  PROVE  AllKnown(b, Release(b, garbage).nodes)
<1>. DEFINE s0 == [nodes |-> node[b], mem |-> mem, io |-> io, refused |-> FALSE, status |-> garbage]
            s1 == Freed(b, s0, "TypeIo")
            s2 == Freed(b, s1, "TypeMem32")
            s3 == Freed(b, s2, "TypePMem32")
            s4 == Freed(b, s3, "TypeMem64")
            s5 == Freed(b, s4, "TypePMem64")
<1>1. Release(b, garbage) = s5
  BY DEF Release, InTypeOrder
<1>2. Loose(b, s0)
  BY DEF Loose
<1>. HIDE DEF s0, s1, s2, s3, s4, s5
<1>3. Loose(b, s1)
  BY <1>2, FreedKnown, Five DEF s1
<1>4. Loose(b, s2)
  BY <1>3, FreedKnown, Five DEF s2
<1>5. Loose(b, s3)
  BY <1>4, FreedKnown, Five DEF s3
<1>6. Loose(b, s4)
  BY <1>5, FreedKnown, Five DEF s4
<1>7. Loose(b, s5)
  BY <1>6, FreedKnown, Five DEF s5
<1>. QED  BY <1>1, <1>7 DEF Loose

\* A range that is kept is claimed where it is.
LEMMA KeptWithin ==
  ASSUME WindowsFit, NEW b \in Keep, NEW t \in ResTypes, NEW w, w = Window[b][t], Valid(w),
         NEW space \in SUBSET Addresses, NEW ledger,
         NEW base, base = IF t = "TypeIo" THEN w.base ELSE ToHost(w.base, Translation(w)),
         NEW a, a = AllocateResource(space, ledger, w.length, 2, base, Sub(Add(base, w.length), 1)),
         a # NoAddress,
         NEW at, at = IF t = "TypeIo" THEN ToHost(a, Translation(w)) ELSE a
  PROVE  In(w, ToDevice(at, Translation(w)), w.length)
<1>1. /\ w \in [base : Addresses, parent : Addresses, length : Addresses]
      /\ Translation(w) \in Addresses /\ Room(w, t, w.length + 2)
  BY Windows, Five, BridgesAssumption DEF WindowsFit
<1>2. PICK x \in Nat, y \in Nat, l \in Nat :
        /\ x = w.base /\ y = w.parent /\ l = w.length /\ x \in Addresses /\ y \in Addresses
        /\ x < Word /\ y < Word /\ l < Word /\ l \in Addresses
  <2>1. w.base \in Addresses /\ w.parent \in Addresses /\ w.length \in Addresses
    BY <1>1
  <2>2. \A z \in Addresses : z \in Nat /\ z < Word
    BY Arithmetic DEF Addresses
  <2>. QED  BY <2>1, <2>2
<1>3. /\ l > 0 /\ x + l + (l + 2) < Word /\ Word \in Nat
      /\ t # "TypeIo" => y + l + (l + 2) < Word
  BY <1>1, <1>2, Arithmetic DEF Room, Valid
<1>4. ASSUME NEW z \in Nat, z = base, z \in Addresses, z + l + (l + 2) < Word
      PROVE  a = z
  <2>1. Sub(Add(base, w.length), 1) = z + (l - 1)
    <3>1. Add(z, l) = z + l
      BY <1>2, <1>3, <1>4 DEF Add
    <3>2. Sub(z + l, 1) = z + (l - 1)
      BY <1>2, <1>3, <1>4 DEF Sub
    <3>. QED  BY <1>2, <1>4, <3>1, <3>2
  <2>2. z + (l - 1) \in Addresses /\ (z + (l - 1)) + 1 + l + 2 < Word /\ 2 \in Nat \ {0}
    BY <1>2, <1>3, <1>4 DEF Addresses
  <2>3. a = AllocateResource(space, ledger, l, 2, z, z + (l - 1))
    BY <1>2, <1>4, <2>1
  <2>4. a \in Addresses /\ z <= a /\ a + l <= (z + (l - 1)) + 1
    BY <1>2, <1>4, <2>2, <2>3, AllocateWithin
  <2>5. PICK v \in Nat : v = a
    BY <2>4 DEF Addresses
  <2>. QED  BY <1>2, <1>4, <2>4, <2>5
<1>5. CASE t = "TypeIo"
  <2>1. a = x /\ a \in Addresses
    BY <1>2, <1>3, <1>4, <1>5
  <2>2. ToDevice(at, Translation(w)) = x
    BY <1>1, <1>5, <2>1, Arithmetic DEF ToHost, ToDevice
  <2>. QED  BY <1>2, <2>2 DEF In
<1>6. CASE t # "TypeIo"
  <2>1. \A e \in Nat : y + e < Word /\ x + e < Word =>
          ToHost(x + e, Translation(w)) = y + e /\ ToDevice(y + e, Translation(w)) = x + e
    BY <1>1, <1>2, Translates
  <2>2. 0 \in Nat /\ x + 0 = x /\ y + 0 = y
    BY <1>2
  <2>3. ToHost(x, Translation(w)) = y /\ ToDevice(y, Translation(w)) = x
    BY <1>2, <2>1, <2>2
  <2>4. a = y
    BY <1>2, <1>3, <1>4, <1>6, <2>3
  <2>. QED  BY <1>2, <1>6, <2>3, <2>4 DEF In
<1>. QED  BY <1>5, <1>6

\* A turn of HostBridgeKeepExistingConfig.
LEMMA KeptKnown ==
  ASSUME WindowsFit, NEW b \in Keep, NEW first, NEW s, NEW om, NEW oi, NEW done,
         KeptInv(b, first, s, done, om, oi), AllKnown(b, s.nodes),
         NEW t \in ResTypes, t \notin done, NEW now, now = done \cup {t},
         NEW r, r = Kept(b, s, t)
  PROVE  KeptInv(b, first, r, now, om, oi) /\ AllKnown(b, r.nodes)
<1>1. KeptInv(b, first, r, now, om, oi)
  BY KeptTurns
<1>2. s \in KeepStates /\ s.nodes \in [Types -> Node] /\ t \in Types
  BY Five DEF KeptInv, KeepStates
<1>. DEFINE w == Window[b][t]
            base == IF t = "TypeIo" THEN w.base ELSE ToHost(w.base, Translation(w))
            space == IF t = "TypeIo" THEN s.ioSpace ELSE Addresses
            ledger == IF t = "TypeIo" THEN s.io ELSE s.mem
            a == AllocateResource(space, ledger, w.length, 2, base, Sub(Add(base, w.length), 1))
            x == [Unused EXCEPT !.length = w.length, !.status = "ResAllocated"]
            y == [x EXCEPT !.tracked = TRUE]
            plain == [x EXCEPT !.base = w.base]
            at == IF t = "TypeIo" THEN ToHost(a, Translation(w)) ELSE a
            n == Placed(y, at)
<1>3. \/ r = s
      \/ r = [s EXCEPT !.nodes[t] = plain]
      \/ Valid(w) /\ a # NoAddress /\ r = Claim(b, [s EXCEPT !.nodes[t] = y], t, at)
  BY DEF Kept
<1>. HIDE DEF a, at
<1>4. n.align = 0 /\ n.base = at /\ n.length = w.length
  BY DEF Placed, Unused
<1>5. plain.tracked = FALSE
  BY DEF Unused
<1>6. Valid(w) /\ a # NoAddress => Known(b, t, n)
  <2>. SUFFICES ASSUME Valid(w), a # NoAddress PROVE Known(b, t, n)
    OBVIOUS
  <2>1. space \in SUBSET Addresses
    BY <1>2 DEF KeepStates
  <2>2. In(w, ToDevice(at, Translation(w)), w.length)
    <3>. HIDE DEF w, space, ledger, n
    <3>. QED  BY <2>1, KeptWithin DEF w, a, at
  <2>3. ToDevice(at, Translation(w)) % 1 = 0
    <3>. DEFINE p == ToDevice(at, Translation(w))
    <3>1. p \in Int
      <4>1. a \in Addresses /\ Translation(w) \in Addresses
        BY <2>1, AllocateFits, Windows, Five, BridgesAssumption DEF a
      <4>2. at \in Addresses
        BY <4>1, Arithmetic DEF at, ToHost
      <4>3. p \in Addresses
        BY <4>1, <4>2, Arithmetic DEF ToDevice
      <4>. QED  BY <4>3, Arithmetic DEF Addresses
    <3>. HIDE DEF p
    <3>2. p % 1 = 0
      BY <3>1
    <3>. QED  BY <3>2 DEF p
  <2>4. t \in Ways(t)
    BY DEF Ways
  <2>. HIDE DEF n
  <2>5. n.align + 1 = 1
    BY <1>4
  <2>. QED  BY <1>4, <2>2, <2>3, <2>4, <2>5 DEF Known, Decoded
<1>7. Known(b, t, plain)
  BY <1>5 DEF Known, Mine
<1>8. \/ r.nodes = s.nodes
      \/ r.nodes = [s.nodes EXCEPT ![t] = plain]
      \/ Valid(w) /\ a # NoAddress /\ r.nodes = [s.nodes EXCEPT ![t] = n]
  <2>. HIDE DEF plain, x, y, w
  <2>1. [s EXCEPT !.nodes[t] = plain].nodes = [s.nodes EXCEPT ![t] = plain]
    BY <1>2 DEF KeepStates
  <2>2. Claim(b, [s EXCEPT !.nodes[t] = y], t, at).nodes = [s.nodes EXCEPT ![t] = n]
    <3>. DEFINE q == [s EXCEPT !.nodes[t] = y]
    <3>1. q.nodes = [s.nodes EXCEPT ![t] = y] /\ q.nodes[t] = y /\ "nodes" \in DOMAIN q
      BY <1>2 DEF KeepStates
    <3>. HIDE DEF q
    <3>2. Claim(b, q, t, at).nodes = [q.nodes EXCEPT ![t] = n]
      BY <3>1 DEF Claim, Placed
    <3>3. [q.nodes EXCEPT ![t] = n] = [s.nodes EXCEPT ![t] = n]
      <4>. HIDE DEF n
      <4>. QED  BY <1>2, <3>1
    <3>. QED  BY <3>2, <3>3 DEF q
  <2>. QED  BY <1>3, <2>1, <2>2
<1>. HIDE DEF n, plain, w
<1>9. \A u \in ResTypes : \/ r.nodes[u] = s.nodes[u]
                          \/ u = t /\ Known(b, t, r.nodes[u])
  BY <1>2, <1>6, <1>7, <1>8, Five
<1>10. AllKnown(b, r.nodes)
  BY <1>9 DEF AllKnown
<1>. QED  BY <1>1, <1>10

\* New nodes are known.
LEMMA EmptyKnown ==
  ASSUME NEW b
  PROVE  AllKnown(b, [t \in Types |-> Unused])
BY Five DEF AllKnown, Known, Mine, Unused

\* All turns, and the bus numbers.
LEMMA KeepKnown ==
  ASSUME WindowsFit, NEW b \in Keep, NEW first \in KeepStates, NEW om, NEW oi,
         Sorted(b, first, om, oi), first.nodes = [t \in Types |-> Unused]
  PROVE  AllKnown(b, KeepExistingConfig(b, first).nodes)
<1>. DEFINE s1 == Kept(b, first, "TypeIo")
            s2 == Kept(b, s1, "TypeMem32")
            s3 == Kept(b, s2, "TypePMem32")
            s4 == Kept(b, s3, "TypeMem64")
            s5 == Kept(b, s4, "TypePMem64")
            d1 == {"TypeIo"}
            d2 == {"TypeIo", "TypeMem32"}
            d3 == {"TypeIo", "TypeMem32", "TypePMem32"}
            d4 == {"TypeIo", "TypeMem32", "TypePMem32", "TypeMem64"}
            d5 == {"TypeIo", "TypeMem32", "TypePMem32", "TypeMem64", "TypePMem64"}
            w  == Window[b].TypeBus
            n  == [base |-> w.base, length |-> w.length, align |-> 0,
                   status |-> "ResAllocated", tracked |-> TRUE]
<1>1. KeptInv(b, first, first, {}, om, oi) /\ AllKnown(b, first.nodes)
  BY EmptyKnown DEF KeptInv
<1>2. KeepExistingConfig(b, first) = [s5 EXCEPT !.nodes.TypeBus = n]
  BY DEF KeepExistingConfig, InTypeOrder
<1>3. /\ d1 = {} \cup {"TypeIo"} /\ d2 = d1 \cup {"TypeMem32"} /\ d3 = d2 \cup {"TypePMem32"}
      /\ d4 = d3 \cup {"TypeMem64"} /\ d5 = d4 \cup {"TypePMem64"}
      /\ "TypeIo" \notin {} /\ "TypeMem32" \notin d1 /\ "TypePMem32" \notin d2
      /\ "TypeMem64" \notin d3 /\ "TypePMem64" \notin d4
  OBVIOUS
<1>. HIDE DEF s1, s2, s3, s4, s5, d1, d2, d3, d4, d5, n
<1>4. KeptInv(b, first, s1, d1, om, oi) /\ AllKnown(b, s1.nodes)
  BY <1>1, <1>3, KeptKnown, Five DEF s1
<1>5. KeptInv(b, first, s2, d2, om, oi) /\ AllKnown(b, s2.nodes)
  BY <1>3, <1>4, KeptKnown, Five DEF s2
<1>6. KeptInv(b, first, s3, d3, om, oi) /\ AllKnown(b, s3.nodes)
  BY <1>3, <1>5, KeptKnown, Five DEF s3
<1>7. KeptInv(b, first, s4, d4, om, oi) /\ AllKnown(b, s4.nodes)
  BY <1>3, <1>6, KeptKnown, Five DEF s4
<1>8. KeptInv(b, first, s5, d5, om, oi) /\ AllKnown(b, s5.nodes)
  BY <1>3, <1>7, KeptKnown, Five DEF s5
<1>9. s5 \in KeepStates /\ s5.nodes \in [Types -> Node]
  BY <1>8 DEF KeptInv, KeepStates
<1>10. \A u \in ResTypes : KeepExistingConfig(b, first).nodes[u] = s5.nodes[u]
  <2>1. [s5 EXCEPT !.nodes.TypeBus = n].nodes = [s5.nodes EXCEPT !.TypeBus = n]
    BY <1>9 DEF KeepStates
  <2>. QED  BY <1>2, <1>9, <2>1, Five
<1>. QED  BY <1>8, <1>10 DEF AllKnown

\* All bridges.
DecodedInv == \A b \in Bridges : AllKnown(b, node[b])

\* A step changes the nodes of one bridge.
LEMMA KnownStep ==
  ASSUME TypeOK, DecodedInv, NEW b \in Bridges, NEW new, AllKnown(b, new),
         node' = node \/ node' = [node EXCEPT ![b] = new]
  PROVE  DecodedInv'
<1>1. \A c \in Bridges : node'[c] = node[c] \/ (c = b /\ node'[c] = new)
  BY Typed
<1>2. \A c \in Bridges : AllKnown(c, node'[c])
  BY <1>1 DEF DecodedInv
<1>. QED  BY <1>2 DEF DecodedInv, AllKnown, Known, Mine, Decoded

\* AllocateResources places what was asked for where it is decoded.
LEMMA AllocateResourcesDecodes ==
  ASSUME WindowsFit, IInv, DecodedInv, NEW b \in enumerating, AllocateResources(b)
  PROVE  DecodedInv'
<1>1. /\ b \in Bridges /\ b \notin Keep /\ TypeOK
      /\ Sorted(b, [nodes |-> node[b], mem |-> mem, io |-> io],
                Others(node, b, MemTypes), Others(node, b, IoTypes))
  BY Enumerated DEF IInv, Fits, Now
<1>2. AllKnown(b, FailedZeroed(Allocation(b).nodes))
  BY <1>1, Typed, AllocationKnown DEF DecodedInv
<1>3. node' = node \/ node' = [node EXCEPT ![b] = FailedZeroed(Allocation(b).nodes)]
  BY DEF AllocateResources
<1>. QED  BY <1>1, <1>2, <1>3, KnownStep

\* BeginEnumeration forgets the nodes.
LEMMA BeginEnumerationDecodes ==
  ASSUME IInv, DecodedInv, NEW b \in enumerating, BeginEnumeration(b)
  PROVE  DecodedInv'
<1>. DEFINE new == [t \in Types |-> [Unused EXCEPT !.tracked = node[b][t].tracked]]
<1>1. b \in Bridges /\ TypeOK
  BY Enumerated DEF IInv
<1>2. AllKnown(b, new)
  BY Five DEF AllKnown, Known, Mine, Unused
<1>3. node' = node \/ node' = [node EXCEPT ![b] = new]
  BY DEF BeginEnumeration
<1>. HIDE DEF new
<1>. QED  BY <1>1, <1>2, <1>3, KnownStep

\* SetBusNumbers changes the node of the bus numbers, which has no address.
LEMMA SetBusNumbersDecodes ==
  ASSUME IInv, DecodedInv, NEW b \in enumerating, NEW first, NEW length,
         SetBusNumbers(b, first, length)
  PROVE  DecodedInv'
<1>1. b \in Bridges /\ TypeOK /\ node[b] \in [Types -> Node]
  BY Enumerated DEF IInv
<1>2. CASE node' = node
  BY <1>1, <1>2, KnownStep DEF DecodedInv
<1>3. CASE node' # node
  <2>. DEFINE n == [node[b]["TypeBus"] EXCEPT !.base = first, !.length = length,
                                             !.status = "ResAllocated"]
              new == [node[b] EXCEPT !["TypeBus"] = n]
  <2>1. node' = [node EXCEPT ![b] = new]
    <3>1. node' = [node EXCEPT ![b].TypeBus.base = first, ![b].TypeBus.length = length,
                              ![b].TypeBus.status = "ResAllocated"]
      BY <1>3 DEF SetBusNumbers
    <3>2. node \in [Bridges -> [Types -> Node]]
      BY <1>1, Typed
    <3>. QED  BY <1>1, <3>1, <3>2, Five
  <2>2. \A t \in ResTypes : new[t] = node[b][t]
    BY <1>1, Five
  <2>. HIDE DEF new
  <2>3. AllKnown(b, new)
    BY <1>1, <2>2 DEF DecodedInv, AllKnown
  <2>. QED  BY <1>1, <2>1, <2>3, KnownStep
<1>. QED  BY <1>2, <1>3

\* FreeResources empties nodes.
LEMMA FreeResourcesDecodes ==
  ASSUME IInv, DecodedInv, NEW b \in enumerating, FreeResources(b)
  PROVE  DecodedInv'
<1>1. b \in Bridges /\ TypeOK /\ node[b] \in [Types -> Node]
  BY Enumerated DEF IInv
<1>2. PICK garbage \in Garbage : node' = [node EXCEPT ![b] = Release(b, garbage).nodes]
  BY DEF FreeResources
<1>3. AllKnown(b, Release(b, garbage).nodes)
  BY <1>1, ReleaseKnown DEF DecodedInv
<1>. QED  BY <1>1, <1>2, <1>3, KnownStep

\* SubmitResources writes the lengths and alignments of descriptors it accepted.
LEMMA SubmitResourcesDecodes ==
  ASSUME IInv, DecodedInv, NEW b \in enumerating, NEW cfg \in Configurations, SubmitResources(b, cfg)
  PROVE  DecodedInv'
<1>1. b \in Bridges /\ TypeOK /\ node[b] \in [Types -> Node]
  BY Enumerated DEF IInv
<1>2. CASE node' = node
  BY <1>1, <1>2, KnownStep DEF DecodedInv
<1>3. CASE node' # node
  <2>. DEFINE new == [t \in Types |->
                        IF t \in Requested(cfg)
                        THEN [node[b][t] EXCEPT !.length = Entry(cfg, t).length,
                                !.align = Entry(cfg, t).align, !.status = "ResSubmitted"]
                        ELSE node[b][t]]
  <2>1. node' = [node EXCEPT ![b] = new] /\ \A i \in DOMAIN cfg : Accepted(b, cfg[i])
    BY <1>3 DEF SubmitResources
  <2>2. \A t \in Requested(cfg) :
          \E i \in DOMAIN cfg : Entry(cfg, t) = cfg[i] /\ TypeOf(cfg[i]) = t
    <3>1. cfg \in Seq(Descriptor)
      BY ConfigurationsAssumption DEF Descriptor
    <3>. QED  BY <3>1, Entries
  <2>3. ASSUME NEW t \in ResTypes
        PROVE  Known(b, t, new[t])
    <3>1. node[b][t] \in Node /\ t \in Types
      BY <1>1, Five
    <3>2. CASE t \notin Requested(cfg)
      BY <1>1, <3>1, <3>2 DEF DecodedInv, AllKnown
    <3>3. CASE t \in Requested(cfg)
      <4>. DEFINE n == [node[b][t] EXCEPT !.length = Entry(cfg, t).length,
                                          !.align = Entry(cfg, t).align, !.status = "ResSubmitted"]
                  d == Entry(cfg, t)
      <4>1. d \in Asked(b, t)
        <5>1. PICK i \in DOMAIN cfg : d = cfg[i] /\ TypeOf(cfg[i]) = t
          BY <2>2, <3>3
        <5>2. Accepted(b, d) /\ TypeOf(d) = t
          BY <2>1, <5>1
        <5>3. d \in Descriptors
          BY <5>1 DEF Descriptors
        <5>. QED  BY <5>2, <5>3 DEF Asked
      <4>2. n.status = "ResSubmitted" /\ n.align = d.align /\ n.length = d.length
        <5>. HIDE DEF d
        <5>. QED  BY <3>1 DEF Node, d
      <4>3. new[t] = n
        BY <3>1, <3>3
      <4>. HIDE DEF n, d, new
      <4>4. ~Mine(b, n)
        BY <4>2 DEF Mine
      <4>. QED  BY <4>1, <4>2, <4>3, <4>4 DEF Known
    <3>. QED  BY <3>2, <3>3
  <2>. HIDE DEF new
  <2>4. AllKnown(b, new)
    BY <2>3 DEF AllKnown
  <2>. QED  BY <1>1, <2>1, <2>4, KnownStep
<1>. QED  BY <1>2, <1>3

\* Binding: new nodes, or those of the configuration kept.
LEMMA BindingDecodes ==
  ASSUME WindowsFit, IInv, DecodedInv, NEW b \in Bridges, connecting \in {None, b}, Binding(b)
  PROVE  DecodedInv'
<1>1. TypeOK /\ DecodedInv /\ AllKnown(b, node[b])
  BY DEF IInv, DecodedInv
<1>2. CASE node' = node
  BY <1>1, <1>2, KnownStep
<1>3. CASE DriverStop(b)
  <2>1. node' = [node EXCEPT ![b] = [t \in Types |-> Unused]]
    BY <1>3 DEF DriverStop
  <2>. QED  BY <1>1, <2>1, EmptyKnown, KnownStep
<1>4. CASE DriverStart(b) /\ RootBridgeCreate(b)
  <2>. DEFINE s == [nodes |-> [t \in Types |-> Unused], mem |-> mem, io |-> io,
                    ioSpace |-> ioSpace \cup IoAdded(Window[b].TypeIo)]
              k == IF b \in Keep THEN KeepExistingConfig(b, s) ELSE s
  <2>1. /\ Announced(b, Window[b].TypeIo) /\ node' = [node EXCEPT ![b] = k.nodes]
        /\ b \notin started
    BY <1>4 DEF RootBridgeCreate, DriverStart
  <2>2. s \in KeepStates /\ s.nodes = [t \in Types |-> Unused]
    BY <1>1, <2>1, Announcing, Typed, Empty DEF KeepStates
  <2>3. Sorted(b, s, Others(node, b, MemTypes), Others(node, b, IoTypes))
    <3>1. Fits(b, Now(b)) /\ node[b] = [t \in Types |-> Unused]
      BY <2>1, Splits DEF IInv, Flags
    <3>. QED  BY <3>1 DEF Fits, Sorted, Now
  <2>. HIDE DEF s
  <2>4. AllKnown(b, k.nodes)
    BY <2>2, <2>3, KeepKnown, EmptyKnown
  <2>. QED  BY <1>1, <2>1, <2>4, KnownStep
<1>5. \/ node' = node \/ DriverStop(b) \/ (DriverStart(b) /\ RootBridgeCreate(b))
  BY DEF Binding, DriverStart, ConnectPciBus
<1>. QED  BY <1>2, <1>3, <1>4, <1>5

\* Every step, given that the ranges fit.
LEMMA DecodedSteps == WindowsFit /\ IInv /\ DecodedInv /\ [Next]_vars => DecodedInv'
<1>. SUFFICES ASSUME WindowsFit, IInv, DecodedInv, [Next]_vars PROVE DecodedInv'
  OBVIOUS
<1>1. CASE UNCHANGED vars
  BY <1>1 DEF vars, DecodedInv, AllKnown, Known, Mine, Decoded
<1>2. ASSUME NEW b \in Bridges, connecting \in {None, b}, Binding(b)
      PROVE  DecodedInv'
  BY <1>2, BindingDecodes
<1>3. ASSUME NEW b \in Bridges, Phases(b)
      PROVE  DecodedInv'
  <2>1. b \in enumerating
    BY <1>3 DEF Phases, Client, BeginEnumeration, BeginBusAllocation, AllocateResources,
                FreeResources, SubmitResources, SetBusNumbers
  <2>2. CASE BeginBusAllocation(b)
    <3>1. node' = node /\ TypeOK /\ AllKnown(b, node[b])
      BY <1>3, <2>2 DEF BeginBusAllocation, IInv, DecodedInv
    <3>. QED  BY <1>3, <3>1, KnownStep
  <2>3. CASE \E cfg \in Configurations : SubmitResources(b, cfg)
    BY <2>1, <2>3, SubmitResourcesDecodes
  <2>4. CASE \E first, length : SetBusNumbers(b, first, length)
    BY <2>1, <2>4, SetBusNumbersDecodes
  <2>5. CASE BeginEnumeration(b) \/ AllocateResources(b) \/ FreeResources(b)
    BY <2>1, <2>5, BeginEnumerationDecodes, AllocateResourcesDecodes, FreeResourcesDecodes
  <2>. QED  BY SMTT(60), <1>3, <2>2, <2>3, <2>4, <2>5 DEF Phases
<1>. QED  BY <1>1, <1>2, <1>3 DEF Next

\* What is allocated is decoded.
LEMMA AllDecoded == IInv /\ DecodedInv => ProposedDecoded
<1>. SUFFICES ASSUME IInv, DecodedInv, NEW b \in Bridges, NEW t \in Backed(b)
              PROVE  LET n == node[b][t]
                         Fit(u) == Valid(Window[b][u]) /\
                           Span(Proposed(b, t), n.length)
                             \subseteq Span(Window[b][u].base, Window[b][u].length)
                     IN /\ Proposed(b, t) % (n.align + 1) = 0
                        /\ \/ Fit(t)
                           \/ t = "TypeMem64" /\ Fit("TypeMem32")
                           \/ t = "TypePMem64" /\ Fit("TypePMem32")
  BY DEF ProposedDecoded
<1>. DEFINE n == node[b][t]
            p == Proposed(b, t)
<1>1. t \in ResTypes /\ Mine(b, n) /\ n \in Node
  BY Typed, Five DEF IInv, Backed, Allocated, Mine
<1>2. Decoded(b, t, n)
  BY <1>1 DEF DecodedInv, AllKnown, Known
<1>3. PICK u \in Ways(t) : In(Window[b][u], p, n.length)
  BY <1>2 DEF Decoded, Proposed
<1>4. p % (n.align + 1) = 0
  BY <1>2 DEF Decoded, Proposed
<1>5. u \in ResTypes /\ Window[b][u] \in [base : Addresses, parent : Addresses, length : Addresses]
  BY <1>1, Windows, Five DEF Ways
<1>6. p \in Addresses
  <2>1. n.base \in Addresses /\ Translation(Window[b][t]) \in Addresses
    BY <1>1, Windows, Five DEF Node
  <2>. QED  BY <2>1, Arithmetic DEF Proposed, ToDevice
<1>7. Span(p, n.length) \subseteq Span(Window[b][u].base, Window[b][u].length)
  <2>1. PICK x \in Nat, l \in Nat, q \in Nat, m \in Nat :
          x = Window[b][u].base /\ l = Window[b][u].length /\ q = p /\ m = n.length
    <3>1. Addresses \subseteq Nat
      BY Arithmetic DEF Addresses
    <3>. QED  BY <1>1, <1>5, <1>6, <3>1 DEF Node
  <2>2. x <= q /\ q + m <= x + l
    BY <1>3, <2>1 DEF In
  <2>3. q..(q + m - 1) \subseteq x..(x + l - 1)
    BY <2>1, <2>2
  <2>. QED  BY <2>1, <2>3 DEF Span
<1>8. Valid(Window[b][u])
  BY <1>3 DEF In
<1>9. \/ u = t
      \/ t = "TypeMem64" /\ u = "TypeMem32"
      \/ t = "TypePMem64" /\ u = "TypePMem32"
  BY DEF Ways
<1>. QED  BY <1>4, <1>7, <1>8, <1>9

\* "we restrict the alignment of Translation to be larger than any BAR alignment":
\* where the ranges of the bridges fit, the device address that GetProposedResources
\* reports is aligned as requested and a range of the bridge decodes it, whatever the
\* PCI bus driver asks for and in whatever order.  With a range that is moved further
\* than that of the type that falls back to it, it is not so: see PciHostFallback.
THEOREM Decodes ==
  ASSUME WindowsFit
  PROVE  Spec => []ProposedDecoded
<1>. DEFINE Inv == IInv /\ DecodedInv
<1>1. Init => Inv
  <2>1. Init => DecodedInv
    BY EmptyKnown DEF Init, DecodedInv
  <2>. QED  BY <2>1, Starts
<1>2. Inv /\ [Next]_vars => Inv'
  BY Steps, DecodedSteps DEF Good
<1>3. Inv => ProposedDecoded
  BY AllDecoded
<1>. HIDE DEF Inv
<1>. QED  BY <1>1, <1>2, <1>3, PTL DEF Spec
=============================================================================
