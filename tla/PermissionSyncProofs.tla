------------------------ MODULE PermissionSyncProofs ------------------------
(***************************************************************************)
(* Proofs about PermissionSync for any registry and any number of rows and *)
(* requests: without overlap no row is there twice, and an undisturbed     *)
(* sync leaves every route of the registry in the table.                   *)
(***************************************************************************)
EXTENDS PermissionSync, TLAPS

LEMMA RegistryFacts ==
    /\ Len(Registry) \in Nat
    /\ \A n \in 1..Len(Registry) : Registry[n] \in Key
    /\ \A m, n \in 1..Len(Registry) : Registry[m] = Registry[n] => m = n
  BY RegistryAssumption

Updates == {"check", "found", "loaded"}

LEMMA BusyFields ==
    ASSUME NEW r \in Busy
    PROVE  /\ r.pc \in {"find", "insert", "store"} \cup Updates
           /\ r # Idle
           /\ r.pc \in {"find", "insert"} => r \in [pc: {"find", "insert"}, at: 1..Len(Registry)]
           /\ r.pc = "store" => r \in [pc: {"store"}, key: Key]
           /\ r.pc \in {"check", "found"} => r \in [pc: {"check", "found"}, id: Id, key: Key]
           /\ r.pc = "loaded" => r \in [pc: {"loaded"}, id: Id, key: Key, have: Key \cup {None}]
  BY DEF Busy, Idle, Updates

\* What the slots hold, read off the type invariant.
LEMMA Slots ==
    ASSUME TypeOK, NEW q \in Request
    PROVE  /\ req[q] = Idle <=> req[q].pc = "idle"
           /\ req[q] # Idle => req[q] \in Busy
           /\ req[q].pc \in {"find", "insert"} => req[q].at \in 1..Len(Registry)
           /\ req[q].pc = "store" => req[q].key \in Key
           /\ req[q].pc \in Updates => req[q].id \in Id /\ req[q].key \in Key
           /\ req[q].pc = "loaded" => req[q].have \in Key \cup {None}
<1>1. req[q] \in Busy \cup {Idle}
  BY DEF TypeOK
<1>2. CASE req[q] = Idle
  BY <1>2 DEF Idle, Updates
<1>3. CASE req[q] \in Busy
  BY <1>3, BusyFields DEF Updates, Idle
<1> QED BY <1>1, <1>2, <1>3

LEMMA EndSlot ==
    ASSUME TypeOK, NEW q \in Request, End(q)
    PROVE  /\ req' \in [Request -> Busy \cup {Idle}]
           /\ req'[q] = Idle /\ req'[q].pc = "idle"
           /\ \A x \in Request \ {q} : req'[x] = req[x]
  BY DEF TypeOK, End, Idle

LEMMA BeginSlot ==
    ASSUME TypeOK, NEW q \in Request, NEW r \in Busy, Begin(q, r)
    PROVE  /\ req' \in [Request -> Busy \cup {Idle}]
           /\ req'[q] = r
           /\ \A x \in Request \ {q} : req'[x] = req[x]
           /\ quiet' \in BOOLEAN
           /\ quiet' => quiet /\ \A x \in Request : req[x] = Idle
           /\ req[q].pc = "idle"
<1>1. quiet' = (quiet /\ \A x \in Request : req[x] = Idle)
  BY DEF Begin
<1>2. quiet' => quiet /\ \A x \in Request : req[x] = Idle
  BY <1>1
<1>3. quiet' \in BOOLEAN
  BY <1>1
<1> QED BY <1>2, <1>3 DEF TypeOK, Begin, Idle

\* Nothing is promised of a slot that is idle.
LEMMA IdleIsFree ==
    ASSUME NEW q \in Request, req[q].pc = "idle"
    PROVE  StillFree(q)
  BY DEF StillFree

\* A request in flight while nobody overlaps is the only one.
LEMMA OnlyOne ==
    ASSUME TypeOK, QuietInv, quiet, NEW q \in Request, req[q] # Idle
    PROVE  /\ \A x \in Request \ {q} : req[x] = Idle /\ req[x].pc = "idle"
           /\ StillFree(q)
           /\ \A i, j \in Rows : perm[i] = perm[j] => i = j
  BY DEF QuietInv, Idle

\* Steps that move slot q only: what the slot promises carries over.
LEMMA MoveSlot ==
    ASSUME TypeOK, QuietInv, NEW q \in Request, req[q] # Idle,
           \A x \in Request \ {q} : req'[x] = req[x],
           quiet' = quiet, perm' = perm,
           quiet => StillFree(q)'
    PROVE  QuietInv'
<1> SUFFICES ASSUME quiet PROVE QuietInv'
  BY DEF QuietInv
<1>1. /\ \A x \in Request \ {q} : req'[x] = Idle /\ req'[x].pc = "idle"
      /\ \A i, j \in Rows : perm[i] = perm[j] => i = j
  BY OnlyOne
<1>2. \A x \in Request : StillFree(x)'
  BY <1>1, IdleIsFree DEF StillFree
<1>3. \A x, y \in Request : req'[x] # Idle /\ req'[y] # Idle => x = y
  BY <1>1
<1> QED BY <1>1, <1>2, <1>3 DEF QuietInv, Rows

\* Steps that change the table and leave slot q, which alone is in flight,
\* with a promise that holds.
LEMMA WriteSlot ==
    ASSUME TypeOK, QuietInv, NEW q \in Request, req[q] # Idle,
           \A x \in Request \ {q} : req'[x] = req[x],
           quiet' = quiet,
           quiet => StillFree(q)',
           quiet => \A i, j \in Rows' : perm'[i] = perm'[j] => i = j
    PROVE  QuietInv'
<1> SUFFICES ASSUME quiet PROVE QuietInv'
  BY DEF QuietInv
<1>1. \A x \in Request \ {q} : req'[x] = Idle /\ req'[x].pc = "idle"
  BY OnlyOne
<1>2. \A x \in Request : StillFree(x)'
  BY <1>1, IdleIsFree DEF StillFree
<1>3. \A x, y \in Request : req'[x] # Idle /\ req'[y] # Idle => x = y
  BY <1>1
<1> QED BY <1>1, <1>2, <1>3 DEF QuietInv

\* A new request meets nobody, or nothing is promised any more.
LEMMA StartSlot ==
    ASSUME TypeOK, QuietInv, NEW q \in Request,
           \A x \in Request \ {q} : req'[x] = req[x],
           quiet' => quiet /\ \A x \in Request : req[x] = Idle,
           perm' = perm,
           quiet' => StillFree(q)'
    PROVE  QuietInv'
<1> SUFFICES ASSUME quiet' PROVE QuietInv'
  BY DEF QuietInv
<1>1. \A x \in Request \ {q} : req'[x] = Idle /\ req'[x].pc = "idle"
  BY DEF Idle
<1>2. \A x \in Request : StillFree(x)'
  BY <1>1, IdleIsFree DEF StillFree
<1>3. \A x, y \in Request : req'[x] # Idle /\ req'[y] # Idle => x = y
  BY <1>1
<1>4. \A i, j \in Rows : perm[i] = perm[j] => i = j
  BY DEF QuietInv
<1> QED BY <1>1, <1>2, <1>3, <1>4 DEF QuietInv, Rows

\* Rows that are added do not take a key away.
LEMMA PresentGrows ==
    ASSUME \A i \in Rows : perm'[i] = perm[i], Rows \subseteq Rows'
    PROVE  \A k \in Key : Present(k) => Present(k)'
  BY DEF Present

-----------------------------------------------------------------------------
\* The loop of a sync goes on, or ends with every route in the table: what
\* Advance does to the three parts of the invariant it can disturb.
LEMMA AdvanceStep ==
    ASSUME IndInv, NEW q \in Request, req[q].pc \in {"find", "insert"}, Advance(q),
           \A k \in Key : Present(k) => Present(k)',
           NEW at, at = req[q].at, Present(Registry[at])'
    PROVE  /\ req' \in [Request -> Busy \cup {Idle}]
           /\ \A x \in Request \ {q} : req'[x] = req[x]
           /\ req'[q].pc \in {"idle", "find"}
           /\ steady' \subseteq Request /\ covered' \in BOOLEAN
           /\ SteadyInv' /\ AllRoutesPresent'
<1>0. /\ at \in 1..Len(Registry) /\ Len(Registry) \in Nat
      /\ req[q] \in [pc: {"find", "insert"}, at: 1..Len(Registry)]
  BY Slots, BusyFields, RegistryFacts DEF IndInv, Idle
<1>1. q \in steady => \A n \in 1..at : Present(Registry[n])'
  <2> SUFFICES ASSUME q \in steady, NEW n \in 1..at PROVE Present(Registry[n])'
    OBVIOUS
  <2>1. CASE n = at
    BY <2>1
  <2>2. CASE n # at
    <3>1. n \in 1..(at - 1)
      BY <1>0, <2>2
    <3>2. Present(Registry[n]) /\ Registry[n] \in Key
      BY <1>0, <3>1, RegistryFacts DEF IndInv, SteadyInv
    <3> QED BY <3>2
  <2> QED BY <2>1, <2>2
<1>2. \A x \in steady \ {q} : /\ req[x].pc \in {"find", "insert"}
                              /\ \A n \in 1..(req[x].at - 1) : Present(Registry[n])'
  <2> SUFFICES ASSUME NEW x \in steady \ {q}
               PROVE  /\ req[x].pc \in {"find", "insert"}
                      /\ \A n \in 1..(req[x].at - 1) : Present(Registry[n])'
    OBVIOUS
  <2>1. /\ req[x].pc \in {"find", "insert"}
        /\ \A n \in 1..(req[x].at - 1) : Present(Registry[n])
    BY DEF IndInv, SteadyInv
  <2>2. req[x].at \in 1..Len(Registry)
    BY <2>1, Slots DEF IndInv, TypeOK
  <2> QED BY <1>0, <2>1, <2>2, RegistryFacts
<1>3. covered => \A n \in 1..Len(Registry) : Present(Registry[n])'
  BY RegistryFacts DEF IndInv, AllRoutesPresent, Present
<1>4. CASE at < Len(Registry)
  <2>1. /\ req' = [req EXCEPT ![q] = [pc |-> "find", at |-> at + 1]]
        /\ steady' = steady /\ covered' = covered
    BY <1>4 DEF Advance
  <2>2. [pc |-> "find", at |-> at + 1] \in Busy
    BY <1>0, <1>4 DEF Busy
  <2>3. /\ req' \in [Request -> Busy \cup {Idle}]
        /\ req'[q].pc = "find" /\ req'[q].at = at + 1
        /\ \A x \in Request \ {q} : req'[x] = req[x]
    BY <2>1, <2>2 DEF IndInv, TypeOK
  <2>4. SteadyInv'
    <3> SUFFICES ASSUME NEW x \in steady
                 PROVE  /\ req'[x].pc \in {"find", "insert"}
                        /\ \A n \in 1..(req'[x].at - 1) : Present(Registry[n])'
      BY <2>1 DEF SteadyInv
    <3>1. CASE x = q
      <4>1. req'[x].at - 1 = at
        BY <1>0, <2>3, <3>1
      <4> QED BY <1>1, <2>3, <3>1, <4>1
    <3>2. CASE x # q
      <4>1. req'[x] = req[x]
        BY <2>3, <3>2 DEF IndInv, TypeOK
      <4> QED BY <1>2, <3>2, <4>1
    <3> QED BY <3>1, <3>2
  <2>5. AllRoutesPresent'
    BY <1>3, <2>1 DEF AllRoutesPresent, Present
  <2> QED BY <2>1, <2>3, <2>4, <2>5 DEF IndInv, TypeOK
<1>5. CASE ~(at < Len(Registry))
  <2>1. /\ End(q) /\ steady' = steady \ {q} /\ covered' = (covered \/ q \in steady)
    BY <1>5 DEF Advance
  <2>2. /\ req' \in [Request -> Busy \cup {Idle}]
        /\ req'[q].pc = "idle"
        /\ \A x \in Request \ {q} : req'[x] = req[x]
    BY <2>1, EndSlot DEF IndInv
  <2>3. SteadyInv'
    BY <1>2, <2>1, <2>2 DEF SteadyInv, IndInv, TypeOK
  <2>4. at = Len(Registry)
    BY <1>0, <1>5
  <2>5. AllRoutesPresent'
    BY <1>1, <1>3, <2>1, <2>4 DEF AllRoutesPresent, Present
  <2>6. covered' \in BOOLEAN
    BY <2>1
  <2> QED BY <2>1, <2>2, <2>3, <2>5, <2>6 DEF IndInv, TypeOK
<1> QED BY <1>4, <1>5

\* Steps of a request that is no sync, with the table as it was.
LEMMA SyncsKept ==
    ASSUME IndInv, NEW q \in Request, req[q].pc \notin {"find", "insert"},
           \A x \in Request \ {q} : req'[x] = req[x],
           perm' = perm, steady' = steady, covered' = covered
    PROVE  SteadyInv' /\ AllRoutesPresent'
<1>1. \A x \in steady : req'[x] = req[x]
  BY DEF IndInv, SteadyInv, TypeOK
<1> QED BY <1>1 DEF IndInv, SteadyInv, AllRoutesPresent, Present, Rows

LEMMA Step == IndInv /\ [Next]_vars => IndInv'
<1> SUFFICES ASSUME IndInv, [Next]_vars PROVE IndInv'
  OBVIOUS
<1>0. TypeOK /\ QuietInv /\ SteadyInv /\ IssuedInv /\ AllRoutesPresent
  BY DEF IndInv
<1>begin. ASSUME NEW q \in Request, SyncBegin(q) PROVE IndInv'
  <2> DEFINE r == [pc |-> "find", at |-> 1]
  <2>0. r \in Busy
    BY <1>begin, RegistryFacts DEF SyncBegin, Busy
  <2>1. /\ req' \in [Request -> Busy \cup {Idle}] /\ req'[q] = r /\ req[q].pc = "idle"
        /\ \A x \in Request \ {q} : req'[x] = req[x]
        /\ quiet' \in BOOLEAN
        /\ quiet' => quiet /\ \A x \in Request : req[x] = Idle
    BY <1>0, <1>begin, <2>0, BeginSlot DEF SyncBegin
  <2>2. steady' = steady \cup {q} /\ perm' = perm /\ issued' = issued /\ covered' = covered
    BY <1>begin DEF SyncBegin
  <2>3. TypeOK'
    BY <1>0, <2>1, <2>2 DEF TypeOK
  <2>4. QuietInv'
    <3>1. StillFree(q)'
      BY <2>1 DEF StillFree
    <3> QED BY <1>0, <2>1, <2>2, <3>1, StartSlot
  <2>5. SteadyInv'
    <3>1. \A x \in steady : req'[x] = req[x]
      BY <1>0, <2>1 DEF SteadyInv, TypeOK
    <3> QED BY <1>0, <2>1, <2>2, <3>1 DEF SteadyInv, Present, Rows
  <2>6. IssuedInv'
    BY <1>0, <2>1, <2>2 DEF IssuedInv
  <2>7. AllRoutesPresent'
    BY <1>0, <2>2 DEF AllRoutesPresent, Present, Rows
  <2> QED BY <2>3, <2>4, <2>5, <2>6, <2>7 DEF IndInv
<1>find. ASSUME NEW q \in Request, SyncFind(q) PROVE IndInv'
  <2>1. req[q].pc = "find" /\ perm' = perm /\ issued' = issued /\ quiet' = quiet
    BY <1>find DEF SyncFind
  <2>2. PICK at \in 1..Len(Registry) : at = req[q].at
    BY <1>0, <2>1, Slots
  <2>3. req[q] \in [pc: {"find", "insert"}, at: 1..Len(Registry)] /\ req[q] # Idle
    BY <1>0, <2>1, Slots, BusyFields DEF Idle
  <2>4. CASE Present(Registry[at])
    <3>1. Advance(q)
      BY <1>find, <2>2, <2>4 DEF SyncFind
    <3>2. /\ Present(Registry[at])' /\ \A k \in Key : Present(k) => Present(k)'
      BY <2>1, <2>4 DEF Present, Rows
    <3>3. /\ req' \in [Request -> Busy \cup {Idle}]
          /\ \A x \in Request \ {q} : req'[x] = req[x]
          /\ req'[q].pc \in {"idle", "find"}
          /\ steady' \subseteq Request /\ covered' \in BOOLEAN
          /\ SteadyInv' /\ AllRoutesPresent'
      BY <2>1, <2>2, <3>1, <3>2, AdvanceStep
    <3>4. TypeOK'
      BY <1>0, <2>1, <3>3 DEF TypeOK
    <3>5. QuietInv'
      <4>1. StillFree(q)'
        BY <3>3 DEF StillFree
      <4> QED BY <1>0, <2>1, <2>3, <3>3, <4>1, MoveSlot
    <3>6. IssuedInv'
      BY <1>0, <2>1, <3>3 DEF IssuedInv
    <3> QED BY <3>3, <3>4, <3>5, <3>6 DEF IndInv
  <2>5. CASE ~Present(Registry[at])
    <3>1. /\ req' = [req EXCEPT ![q].pc = "insert"] /\ steady' = steady /\ covered' = covered
      BY <1>find, <2>2, <2>5 DEF SyncFind
    <3>2. [req[q] EXCEPT !.pc = "insert"] \in [pc: {"find", "insert"}, at: 1..Len(Registry)]
      BY <2>3
    <3>3. /\ req' \in [Request -> Busy \cup {Idle}]
          /\ req'[q].pc = "insert" /\ req'[q].at = at
          /\ \A x \in Request \ {q} : req'[x] = req[x]
      BY <1>0, <2>2, <2>3, <3>1, <3>2 DEF TypeOK, Busy
    <3>4. TypeOK'
      BY <1>0, <2>1, <3>1, <3>3 DEF TypeOK
    <3>5. QuietInv'
      <4>1. ~Present(Registry[at])'
        BY <2>1, <2>5 DEF Present, Rows
      <4>2. StillFree(q)'
        BY <3>3, <4>1 DEF StillFree
      <4> QED BY <1>0, <2>1, <2>3, <3>3, <4>2, MoveSlot
    <3>6. SteadyInv'
      <4>1. \A x \in Request : req'[x].at = req[x].at \/ req'[x] = req[x]
        BY <2>2, <3>3
      <4> QED BY <1>0, <2>1, <2>2, <3>1, <3>3, <4>1 DEF SteadyInv, Present, Rows, TypeOK
    <3>7. IssuedInv'
      BY <1>0, <2>1, <3>3 DEF IssuedInv
    <3>8. AllRoutesPresent'
      BY <1>0, <2>1, <3>1 DEF AllRoutesPresent, Present, Rows
    <3> QED BY <3>4, <3>5, <3>6, <3>7, <3>8 DEF IndInv
  <2> QED BY <2>4, <2>5
<1>insert. ASSUME NEW q \in Request, NEW i \in Id, SyncInsert(q, i) PROVE IndInv'
  <2>1. /\ req[q].pc = "insert" /\ i \notin issued /\ issued' = issued \cup {i}
        /\ quiet' = quiet /\ Advance(q)
    BY <1>insert DEF SyncInsert
  <2>2. PICK at \in 1..Len(Registry) : at = req[q].at
    BY <1>0, <2>1, Slots
  <2>3. PICK k \in Key : k = Registry[at]
    BY RegistryFacts
  <2>4. perm' = [perm EXCEPT ![i] = k]
    BY <1>insert, <2>2, <2>3 DEF SyncInsert
  <2>5. /\ perm[i] = None /\ perm'[i] = k /\ k # None
        /\ Rows' = Rows \cup {i} /\ \A j \in Rows : perm'[j] = perm[j]
    BY <1>0, <2>1, <2>4, RegistryAssumption DEF TypeOK, Rows
  <2>6. Present(Registry[at])' /\ \A key \in Key : Present(key) => Present(key)'
    BY <2>3, <2>5 DEF Present
  <2>7. /\ req' \in [Request -> Busy \cup {Idle}]
        /\ \A x \in Request \ {q} : req'[x] = req[x]
        /\ req'[q].pc \in {"idle", "find"}
        /\ steady' \subseteq Request /\ covered' \in BOOLEAN
        /\ SteadyInv' /\ AllRoutesPresent'
    BY <2>1, <2>2, <2>6, AdvanceStep
  <2>8. TypeOK'
    BY <1>0, <2>1, <2>4, <2>7 DEF TypeOK
  <2>9. QuietInv'
    <3>1. req[q] # Idle
      BY <2>1 DEF Idle
    <3>2. StillFree(q)'
      BY <2>7 DEF StillFree
    <3>3. quiet => \A m, n \in Rows' : perm'[m] = perm'[n] => m = n
      <4> SUFFICES ASSUME quiet PROVE \A m, n \in Rows' : perm'[m] = perm'[n] => m = n
        OBVIOUS
      <4>1. StillFree(q) /\ \A m, n \in Rows : perm[m] = perm[n] => m = n
        BY <1>0, <3>1, OnlyOne
      <4>2. \A m \in Rows : perm[m] # k
        BY <2>1, <2>2, <2>3, <4>1 DEF StillFree, Present
      <4> QED BY <2>5, <4>1, <4>2
    <3> QED BY <1>0, <2>1, <2>7, <3>1, <3>2, <3>3, WriteSlot
  <2>10. IssuedInv'
    BY <1>0, <2>1, <2>7 DEF IssuedInv
  <2> QED BY <2>7, <2>8, <2>9, <2>10 DEF IndInv
<1>storefind. ASSUME NEW q \in Request, NEW k \in Key, StoreFind(q, k) PROVE IndInv'
  <2> DEFINE r == [pc |-> "store", key |-> k]
  <2>0. r \in Busy
    BY DEF Busy
  <2>1. /\ req' \in [Request -> Busy \cup {Idle}] /\ req'[q] = r /\ req[q].pc = "idle"
        /\ \A x \in Request \ {q} : req'[x] = req[x]
        /\ quiet' \in BOOLEAN
        /\ quiet' => quiet /\ \A x \in Request : req[x] = Idle
    BY <1>0, <1>storefind, <2>0, BeginSlot DEF StoreFind
  <2>2. /\ ~Taken(k, {})
        /\ steady' = steady /\ perm' = perm /\ issued' = issued /\ covered' = covered
    BY <1>storefind DEF StoreFind
  <2>3. StillFree(q)'
    BY <2>1, <2>2 DEF StillFree, Taken, Rows
  <2>4. TypeOK'
    BY <1>0, <2>1, <2>2 DEF TypeOK
  <2>5. QuietInv'
    BY <1>0, <2>1, <2>2, <2>3, StartSlot
  <2>6. SteadyInv'
    <3>1. \A x \in steady : req'[x] = req[x]
      BY <1>0, <2>1 DEF SteadyInv, TypeOK
    <3> QED BY <1>0, <2>2, <3>1 DEF SteadyInv, Present, Rows
  <2>7. IssuedInv'
    BY <1>0, <2>1, <2>2 DEF IssuedInv
  <2>8. AllRoutesPresent'
    BY <1>0, <2>2 DEF AllRoutesPresent, Present, Rows
  <2> QED BY <2>4, <2>5, <2>6, <2>7, <2>8 DEF IndInv
<1>storesave. ASSUME NEW q \in Request, NEW i \in Id, StoreSave(q, i) PROVE IndInv'
  <2>1. /\ req[q].pc = "store" /\ i \notin issued /\ issued' = issued \cup {i}
        /\ quiet' = quiet /\ steady' = steady /\ covered' = covered
    BY <1>storesave DEF StoreSave
  <2>2. /\ req' \in [Request -> Busy \cup {Idle}] /\ req'[q].pc = "idle"
        /\ \A x \in Request \ {q} : req'[x] = req[x]
    BY <1>0, <1>storesave, EndSlot DEF StoreSave
  <2>3. PICK k \in Key : k = req[q].key
    BY <1>0, <2>1, Slots
  <2>4. perm' = [perm EXCEPT ![i] = k]
    BY <1>storesave, <2>3 DEF StoreSave
  <2>5. /\ perm[i] = None /\ perm'[i] = k /\ k # None
        /\ Rows' = Rows \cup {i} /\ \A j \in Rows : perm'[j] = perm[j]
    BY <1>0, <2>1, <2>4, RegistryAssumption DEF TypeOK, Rows
  <2>6. \A n \in 1..Len(Registry) : Present(Registry[n]) => Present(Registry[n])'
    BY <2>5 DEF Present
  <2>7. TypeOK'
    BY <1>0, <2>1, <2>2, <2>4 DEF TypeOK
  <2>8. QuietInv'
    <3>1. req[q] # Idle
      BY <2>1 DEF Idle
    <3>2. StillFree(q)'
      BY <2>2 DEF StillFree
    <3>3. quiet => \A m, n \in Rows' : perm'[m] = perm'[n] => m = n
      <4> SUFFICES ASSUME quiet PROVE \A m, n \in Rows' : perm'[m] = perm'[n] => m = n
        OBVIOUS
      <4>1. StillFree(q) /\ \A m, n \in Rows : perm[m] = perm[n] => m = n
        BY <1>0, <3>1, OnlyOne
      <4>2. \A m \in Rows : perm[m] # k
        BY <2>1, <2>3, <4>1 DEF StillFree, Taken
      <4> QED BY <2>5, <4>1, <4>2
    <3> QED BY <1>0, <2>1, <2>2, <3>1, <3>2, <3>3, WriteSlot
  <2>9. SteadyInv'
    <3> SUFFICES ASSUME NEW x \in steady
                 PROVE  /\ req'[x].pc \in {"find", "insert"}
                        /\ \A n \in 1..(req'[x].at - 1) : Present(Registry[n])'
      BY <2>1 DEF SteadyInv
    <3>1. req'[x] = req[x] /\ req[x].pc \in {"find", "insert"}
      BY <1>0, <2>1, <2>2 DEF SteadyInv, TypeOK
    <3>2. req[x].at \in 1..Len(Registry)
      BY <1>0, <3>1, Slots DEF TypeOK
    <3> QED BY <1>0, <2>6, <3>1, <3>2, RegistryFacts DEF SteadyInv
  <2>10. IssuedInv'
    BY <1>0, <2>1, <2>2 DEF IssuedInv
  <2>11. AllRoutesPresent'
    BY <1>0, <2>1, <2>6 DEF AllRoutesPresent, Present
  <2> QED BY <2>7, <2>8, <2>9, <2>10, <2>11 DEF IndInv
<1>check. ASSUME NEW q \in Request, NEW i \in Id, NEW k \in Key, UpdateCheck(q, i, k)
          PROVE IndInv'
  <2> DEFINE r == [pc |-> "check", id |-> i, key |-> k]
  <2>0. r \in Busy
    BY DEF Busy
  <2>1. /\ req' \in [Request -> Busy \cup {Idle}] /\ req'[q] = r /\ req[q].pc = "idle"
        /\ \A x \in Request \ {q} : req'[x] = req[x]
        /\ quiet' \in BOOLEAN
        /\ quiet' => quiet /\ \A x \in Request : req[x] = Idle
    BY <1>0, <1>check, <2>0, BeginSlot DEF UpdateCheck
  <2>2. /\ ~Taken(k, {i}) /\ i \in issued
        /\ steady' = steady /\ perm' = perm /\ issued' = issued /\ covered' = covered
    BY <1>check DEF UpdateCheck
  <2>3. StillFree(q)'
    BY <2>1, <2>2 DEF StillFree, Taken, Rows
  <2>4. TypeOK'
    BY <1>0, <2>1, <2>2 DEF TypeOK
  <2>5. QuietInv'
    BY <1>0, <2>1, <2>2, <2>3, StartSlot
  <2>6. SteadyInv' /\ AllRoutesPresent'
    BY <2>1, <2>2, SyncsKept
  <2>7. IssuedInv'
    BY <1>0, <2>1, <2>2 DEF IssuedInv
  <2> QED BY <2>4, <2>5, <2>6, <2>7 DEF IndInv
<1>found. ASSUME NEW q \in Request, UpdateFind(q) PROVE IndInv'
  <2>1. /\ req[q].pc = "check" /\ req' = [req EXCEPT ![q].pc = "found"]
        /\ quiet' = quiet /\ steady' = steady /\ perm' = perm /\ issued' = issued
        /\ covered' = covered
    BY <1>found DEF UpdateFind
  <2>2. req[q] \in [pc: {"check", "found"}, id: Id, key: Key] /\ req[q] # Idle
    BY <1>0, <2>1, Slots, BusyFields DEF Idle
  <2>3. /\ req' \in [Request -> Busy \cup {Idle}]
        /\ req'[q].pc = "found" /\ req'[q].id = req[q].id /\ req'[q].key = req[q].key
        /\ \A x \in Request \ {q} : req'[x] = req[x]
    <3>1. [req[q] EXCEPT !.pc = "found"] \in [pc: {"check", "found"}, id: Id, key: Key]
      BY <2>2
    <3> QED BY <1>0, <2>1, <2>2, <3>1 DEF TypeOK, Busy
  <2>4. TypeOK'
    BY <1>0, <2>1, <2>3 DEF TypeOK
  <2>5. QuietInv'
    <3>1. quiet => StillFree(q)
      BY <1>0, <2>2, OnlyOne
    <3>2. quiet => StillFree(q)'
      BY <2>1, <2>3, <3>1 DEF StillFree, Taken, Rows
    <3> QED BY <1>0, <2>1, <2>2, <2>3, <3>2, MoveSlot
  <2>6. SteadyInv' /\ AllRoutesPresent'
    BY <2>1, <2>3, SyncsKept
  <2>7. IssuedInv'
    BY <1>0, <2>1, <2>3 DEF IssuedInv
  <2> QED BY <2>4, <2>5, <2>6, <2>7 DEF IndInv
<1>load. ASSUME NEW q \in Request, SaveLoad(q) PROVE IndInv'
  <2>0. req[q].pc = "found"
    BY <1>load DEF SaveLoad
  <2>1. PICK i \in Id, k \in Key : i = req[q].id /\ k = req[q].key
    BY <1>0, <2>0, Slots DEF Updates
  <2>2. /\ req' = [req EXCEPT ![q] = [pc |-> "loaded", id |-> i, key |-> k, have |-> perm[i]]]
        /\ quiet' = quiet /\ steady' = steady /\ perm' = perm /\ issued' = issued
        /\ covered' = covered
    BY <1>load, <2>1 DEF SaveLoad
  <2>3. [pc |-> "loaded", id |-> i, key |-> k, have |-> perm[i]] \in Busy
    BY <1>0 DEF TypeOK, Busy
  <2>4. /\ req' \in [Request -> Busy \cup {Idle}]
        /\ req'[q].pc = "loaded" /\ req'[q].id = i /\ req'[q].key = k /\ req'[q].have = perm[i]
        /\ \A x \in Request \ {q} : req'[x] = req[x]
    BY <1>0, <2>2, <2>3 DEF TypeOK
  <2>5. req[q] # Idle
    BY <2>0 DEF Idle
  <2>6. TypeOK'
    BY <1>0, <2>2, <2>4 DEF TypeOK
  <2>7. QuietInv'
    <3>1. quiet => StillFree(q)
      BY <1>0, <2>5, OnlyOne
    <3>2. quiet => ~Taken(k, {i})
      BY <2>0, <2>1, <3>1 DEF StillFree
    <3>3. quiet => StillFree(q)'
      BY <2>2, <2>4, <3>2 DEF StillFree, Taken, Rows
    <3> QED BY <1>0, <2>2, <2>4, <2>5, <3>3, MoveSlot
  <2>8. SteadyInv' /\ AllRoutesPresent'
    BY <2>0, <2>2, <2>4, SyncsKept
  <2>9. IssuedInv'
    BY <1>0, <2>0, <2>1, <2>2, <2>4 DEF IssuedInv
  <2> QED BY <2>6, <2>7, <2>8, <2>9 DEF IndInv
<1>commit. ASSUME NEW q \in Request, SaveCommit(q) PROVE IndInv'
  <2>0. req[q].pc = "loaded"
    BY <1>commit DEF SaveCommit
  <2>1. PICK i \in Id, k \in Key, have \in Key \cup {None} :
          i = req[q].id /\ k = req[q].key /\ have = req[q].have
    BY <1>0, <2>0, Slots DEF Updates
  <2>2. /\ issued' = issued /\ quiet' = quiet /\ steady' = {} /\ covered' = FALSE
        /\ End(q)
    BY <1>commit DEF SaveCommit, Disturbed
  <2>3. /\ req' \in [Request -> Busy \cup {Idle}]
        /\ req'[q].pc = "idle" /\ \A x \in Request \ {q} : req'[x] = req[x]
    BY <1>0, <2>2, EndSlot
  <2>4. \/ /\ have # None /\ perm[i] # None
           /\ perm' = [perm EXCEPT ![i] = ColumnsAfterSave(perm[i], have, k)]
        \/ have # None /\ perm[i] = None /\ perm' = perm
        \/ have = None /\ perm[i] = None /\ perm' = [perm EXCEPT ![i] = k]
    BY <1>commit, <2>1 DEF SaveCommit
  <2>5. i \in issued /\ perm \in [Id -> Key \cup {None}]
    BY <1>0, <2>0, <2>1 DEF IssuedInv, TypeOK, Updates
  <2>6. perm[i] # None /\ have # None =>
          /\ ColumnsAfterSave(perm[i], have, k) \in Key
          /\ perm[i] = have => ColumnsAfterSave(perm[i], have, k) = k
    <3> SUFFICES ASSUME perm[i] # None, have # None
                 PROVE  /\ ColumnsAfterSave(perm[i], have, k) \in Key
                        /\ perm[i] = have => ColumnsAfterSave(perm[i], have, k) = k
      OBVIOUS
    <3>1. perm[i] \in [name: Name, kind: Kind] /\ have \in [name: Name, kind: Kind]
          /\ k \in [name: Name, kind: Kind]
      BY <2>5 DEF Key
    <3>2. ColumnsAfterSave(perm[i], have, k) =
            [name |-> IF k.name # have.name THEN k.name ELSE perm[i].name,
             kind |-> IF k.kind # have.kind THEN k.kind ELSE perm[i].kind]
      BY <3>1 DEF ColumnsAfterSave
    <3> QED BY <3>1, <3>2 DEF Key
  <2>7. TypeOK'
    <3>1. perm' \in [Id -> Key \cup {None}]
      BY <2>4, <2>5, <2>6
    <3>2. \A j \in Id : j # i => perm'[j] = perm[j]
      BY <2>4, <2>5
    <3> QED BY <1>0, <2>2, <2>3, <2>5, <3>1, <3>2 DEF TypeOK
  <2>8. QuietInv'
    <3>1. req[q] # Idle
      BY <2>0 DEF Idle
    <3>2. StillFree(q)'
      BY <2>3 DEF StillFree
    <3>3. quiet => \A m, n \in Rows' : perm'[m] = perm'[n] => m = n
      <4> SUFFICES ASSUME quiet PROVE \A m, n \in Rows' : perm'[m] = perm'[n] => m = n
        OBVIOUS
      <4>1. StillFree(q) /\ \A m, n \in Rows : perm[m] = perm[n] => m = n
        BY <1>0, <3>1, OnlyOne
      <4>2. ~Taken(k, {i}) /\ perm[i] \in {have, None}
        BY <2>0, <2>1, <4>1 DEF StillFree
      <4>3. perm' = perm \/ perm' = [perm EXCEPT ![i] = k]
        BY <2>4, <2>6, <4>2
      <4>4. \A m \in Rows \ {i} : perm[m] # k
        BY <4>2 DEF Taken
      <4>5. CASE perm' = perm
        BY <4>1, <4>5 DEF Rows
      <4>6. CASE perm' = [perm EXCEPT ![i] = k]
        <5>1. /\ perm'[i] = k /\ \A j \in Id \ {i} : perm'[j] = perm[j]
              /\ Rows' \subseteq Rows \cup {i}
          BY <2>5, <4>6 DEF Rows
        <5> QED BY <4>1, <4>4, <5>1 DEF Rows
      <4> QED BY <4>3, <4>5, <4>6
    <3> QED BY <1>0, <2>2, <2>3, <3>1, <3>2, <3>3, WriteSlot
  <2>9. SteadyInv' /\ AllRoutesPresent'
    BY <2>2 DEF SteadyInv, AllRoutesPresent
  <2>10. IssuedInv'
    BY <1>0, <2>2, <2>3 DEF IssuedInv
  <2> QED BY <2>7, <2>8, <2>9, <2>10 DEF IndInv
<1>delete. ASSUME NEW I \in SUBSET Id, Delete(I) PROVE IndInv'
  <2>1. /\ perm' = [i \in Id |-> IF i \in I THEN None ELSE perm[i]]
        /\ issued' = issued /\ req' = req /\ quiet' = quiet
        /\ steady' = {} /\ covered' = FALSE
    BY <1>delete DEF Delete, Disturbed
  <2>2. /\ \A i \in Id : perm'[i] \in {perm[i], None}
        /\ Rows' \subseteq Rows /\ \A i \in Rows' : perm'[i] = perm[i]
    BY <1>0, <2>1 DEF Rows
  <2>3. TypeOK'
    BY <1>0, <2>1 DEF TypeOK
  <2>4. QuietInv'
    <3> SUFFICES ASSUME quiet PROVE QuietInv'
      BY <2>1 DEF QuietInv
    <3>1. \A q \in Request : StillFree(q)'
      <4> SUFFICES ASSUME NEW q \in Request PROVE StillFree(q)'
        OBVIOUS
      <4>1. StillFree(q)
        BY <1>0 DEF QuietInv
      <4>2. req[q].pc \in Updates => req[q].id \in Id
        BY <1>0, Slots
      <4>3. req[q].pc = "loaded" => perm'[req[q].id] \in {req[q].have, None}
        BY <2>2, <4>1, <4>2 DEF StillFree, Updates
      <4> QED BY <2>1, <2>2, <4>1, <4>3 DEF StillFree, Present, Taken
    <3>2. \A q, x \in Request : req'[q] # Idle /\ req'[x] # Idle => q = x
      BY <1>0, <2>1 DEF QuietInv
    <3>3. \A i, j \in Rows' : perm'[i] = perm'[j] => i = j
      BY <1>0, <2>2 DEF QuietInv
    <3> QED BY <3>1, <3>2, <3>3 DEF QuietInv
  <2>5. SteadyInv' /\ AllRoutesPresent'
    BY <2>1 DEF SteadyInv, AllRoutesPresent
  <2>6. IssuedInv'
    BY <1>0, <2>1 DEF IssuedInv
  <2> QED BY <2>3, <2>4, <2>5, <2>6 DEF IndInv
<1>fail. ASSUME NEW q \in Request, Fail(q) PROVE IndInv'
  <2>1. /\ req[q] # Idle /\ steady' = steady \ {q}
        /\ perm' = perm /\ issued' = issued /\ quiet' = quiet /\ covered' = covered
    BY <1>fail DEF Fail
  <2>2. /\ req' \in [Request -> Busy \cup {Idle}]
        /\ req'[q].pc = "idle" /\ \A x \in Request \ {q} : req'[x] = req[x]
    BY <1>0, <1>fail, EndSlot DEF Fail
  <2>3. TypeOK'
    BY <1>0, <2>1, <2>2 DEF TypeOK
  <2>4. QuietInv'
    <3>1. StillFree(q)'
      BY <2>2 DEF StillFree
    <3> QED BY <1>0, <2>1, <2>2, <3>1, MoveSlot
  <2>5. SteadyInv'
    BY <1>0, <2>1, <2>2 DEF SteadyInv, Present, Rows, TypeOK
  <2>6. IssuedInv'
    BY <1>0, <2>1, <2>2 DEF IssuedInv
  <2>7. AllRoutesPresent'
    BY <1>0, <2>1 DEF AllRoutesPresent, Present, Rows
  <2> QED BY <2>3, <2>4, <2>5, <2>6, <2>7 DEF IndInv
<1>stutter. ASSUME UNCHANGED vars PROVE IndInv'
  <2>1. /\ perm' = perm /\ issued' = issued /\ req' = req /\ quiet' = quiet
        /\ steady' = steady /\ covered' = covered
    BY <1>stutter DEF vars
  <2> QED BY <2>1 DEF IndInv, TypeOK, QuietInv, StillFree, Taken, SteadyInv, IssuedInv,
                      AllRoutesPresent, Present, Rows
<1> QED BY <1>begin, <1>find, <1>insert, <1>storefind, <1>storesave, <1>check, <1>found,
           <1>load, <1>commit, <1>delete, <1>fail, <1>stutter DEF Next

LEMMA Start == Init => IndInv
<1> SUFFICES ASSUME Init PROVE IndInv
  OBVIOUS
<1>1. \A q \in Request : req[q].pc = "idle" /\ req[q] = Idle
  BY DEF Init, Idle
<1>2. \A q \in Request : StillFree(q)
  BY <1>1 DEF StillFree
<1> QED BY <1>1, <1>2 DEF Init, IndInv, TypeOK, QuietInv, SteadyInv, IssuedInv,
                          AllRoutesPresent, Rows

-----------------------------------------------------------------------------
\* Whatever requests come, the inductive invariant holds.
THEOREM Invariance == Spec => []IndInv
  BY Start, Step, PTL DEF Spec

\* The rows and the syncs and forms in flight keep their types: a sync is never
\* past the end of the registry.
THEOREM TypeCorrect == Spec => []TypeOK
<1>1. IndInv => TypeOK
  BY DEF IndInv
<1> QED BY <1>1, Invariance, PTL

\* PermissionService without overlap: no two rows of the same name, method and
\* guard, for any registry, any forms and any order of the requests.
THEOREM OneRowEachAlways == Spec => []OneRowEach
<1>1. IndInv => OneRowEach
  BY DEF IndInv, QuietInv, OneRowEach
<1> QED BY <1>1, Invariance, PTL

\* syncFromRouteRegistry and syncFromRoutes: once a sync that met no deletion
\* and no edit has ended, every route of the registry has its row.
THEOREM RoutesPresentAlways == Spec => []AllRoutesPresent
<1>1. IndInv => AllRoutesPresent
  BY DEF IndInv
<1> QED BY <1>1, Invariance, PTL

=============================================================================
