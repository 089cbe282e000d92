--------------------------- MODULE RegistryProofs ---------------------------
(***************************************************************************)
(* Proofs about ModelManager, for any number of requests, models, any      *)
(* sizes, budget, policy and faults: the budget is committed at most once, *)
(* and without preemption the engines that exist fit into it and a lease   *)
(* is of the one engine that is loaded for its model.                      *)
(***************************************************************************)
EXTENDS ModelManager, QueueTheorems

ClientStates ==
  {"new", "ready", "waiting", "unloading", "sharing", "woken", "inherited", "loading",
   "aborting", "holding", "releasing", "dying", "done", "failed", "cancelled"}
Outcomes == {"none", "pending", "done", "error", "cancelled"}

(* An entry of a table names an engine, or a load, of its own model. *)
OfItsModel(table) ==
  /\ DOMAIN table \subseteq Models
  /\ \A m \in DOMAIN table : table[m] \in Clients /\ model[table[m]] = m

TypeOK ==
  /\ policy \in Policies
  /\ client \in [Clients -> ClientStates]
  /\ model \in [Clients -> Models]
  /\ uses \in [Clients -> Clients \cup {NoLoad}]
  /\ future \in [Clients -> Outcomes]
  /\ active \in [Clients -> Nat]
  /\ preempting \subseteq Clients /\ alive \subseteq Clients
  /\ used \in Seq(Clients) /\ Distinct(used)
  /\ stops \in [Tasks -> Seq(Clients)]
  /\ relisted \in BOOLEAN

TablesOK == OfItsModel(loaded) /\ OfItsModel(loading) /\ OfItsModel(unloading)

(* Nobody else ends the load of a request that is loading. *)
LoadersOK ==
  \A c \in Clients :
    client[c] = "loading" => model[c] \in DOMAIN loading /\ loading[model[c]] = c

(* What a request awaits or holds is of the model it asks for. *)
UsersOK ==
  \A c \in Clients :
    client[c] \in {"sharing", "woken", "holding"} =>
      uses[c] \in Clients /\ model[uses[c]] = model[c]

(* A request whose engines are being stopped awaits that. *)
StoppersOK ==
  \A c \in Clients : stops[c] # <<>> => client[c] \in {"unloading", "dying", "releasing"}

ManagerInv ==
  TypeOK /\ TablesOK /\ LoadersOK /\ UsersOK /\ StoppersOK /\ (relisted \/ Committed <= Budget)

----------------------------------------------------------------------------
(* Bytes.                                                                   *)

LEMMA BytesNat ==
  ASSUME NEW S \in SUBSET Models
  PROVE  IsFiniteSet(S) /\ Bytes(S) \in Nat /\ \A m \in S : Size[m] \in Nat /\ Size[m] >= 1
<1>1. IsFiniteSet(S) /\ \A m \in S : Size[m] \in Nat /\ Size[m] >= 1
  BY ModelManagerAssumptions, FS_Subset
<1> QED
  BY <1>1, UnitsFinite DEF Bytes

LEMMA BytesSubset ==
  ASSUME NEW S \in SUBSET Models, NEW T \in SUBSET S
  PROVE  Bytes(T) <= Bytes(S)
BY BytesNat, TotalSubset DEF Bytes

LEMMA BytesUnion ==
  ASSUME NEW S \in SUBSET Models, NEW T \in SUBSET Models
  PROVE  /\ Bytes(S \cup T) <= Bytes(S) + Bytes(T)
         /\ S \cap T = {} => Bytes(S \cup T) = Bytes(S) + Bytes(T)
<1>1. /\ IsFiniteSet(S) /\ IsFiniteSet(T) /\ \A m \in S \cup T : Size[m] \in Nat
  BY BytesNat
<1> QED
  BY <1>1, TotalUnion DEF Bytes

LEMMA BytesOne ==
  ASSUME NEW S \in SUBSET Models, NEW m \in Models
  PROVE  Bytes(S \cup {m}) <= Bytes(S) + Size[m]
<1>1. {m} \in SUBSET Models
  OBVIOUS
<1>2. Size[m] \in Nat
  BY <1>1, BytesNat
<1>3. Bytes({m}) = Size[m]
  BY <1>2, TotalOne DEF Bytes
<1>4. Bytes(S \cup {m}) <= Bytes(S) + Bytes({m})
  BY <1>1, BytesUnion
<1> QED
  BY <1>3, <1>4

(* What is moved from one table to another is counted once still. *)
LEMMA BytesMoved ==
  ASSUME NEW L \in SUBSET Models, NEW U \in SUBSET Models, NEW X \in SUBSET L
  PROVE  Bytes(L \ X) + Bytes(U \cup X) <= Bytes(L) + Bytes(U)
<1>1. Bytes(L) = Bytes(L \ X) + Bytes(X)
  <2>1. L \ X \in SUBSET Models /\ X \in SUBSET Models /\ (L \ X) \cap X = {}
        /\ (L \ X) \cup X = L
    OBVIOUS
  <2> QED
    BY <2>1, BytesUnion
<1>2. Bytes(U \cup X) <= Bytes(U) + Bytes(X)
  BY BytesUnion
<1>3. /\ Bytes(L) \in Nat /\ Bytes(U) \in Nat /\ Bytes(X) \in Nat
      /\ Bytes(L \ X) \in Nat /\ Bytes(U \cup X) \in Nat
  BY BytesNat
<1> QED
  BY <1>1, <1>2, <1>3

----------------------------------------------------------------------------
(* The engines that are chosen for unloading.                               *)

(* Loaded engines, each under its model. *)
Unloadable(es) ==
  /\ es \in Seq(Clients) /\ Distinct(es)
  /\ \A e \in ToSet(es) : model[e] \in DOMAIN loaded /\ loaded[model[e]] = e

LEMMA TouchFacts ==
  ASSUME NEW s \in Seq(Clients), NEW e \in Clients
  PROVE  LET t == Append(Without(s, {e}), e)
         IN  t \in Seq(Clients) /\ (Distinct(s) => Distinct(t))
<1>1. PICK w : w = Without(s, {e})
  OBVIOUS
<1>2. w \in Seq(Clients) /\ ToSet(w) = ToSet(s) \cap (ToSet(s) \ {e})
      /\ (Distinct(s) => Distinct(w))
  BY <1>1, WithinFacts DEF Without
<1>3. e \notin ToSet(w)
  BY <1>2
<1> QED
  BY <1>1, <1>2, <1>3, AppendDistinct

LEMMA CandidatesFacts ==
  ASSUME TypeOK, TablesOK, NEW ms, NEW busy \in BOOLEAN
  PROVE  /\ Unloadable(Candidates(ms, busy))
         /\ \A e \in ToSet(Candidates(ms, busy)) : model[e] \in ms /\ (busy \/ ~(active[e] > 0))
<1>1. PICK S : S = {e \in {loaded[n] : n \in DOMAIN loaded \cap ms} : busy <=> active[e] > 0}
  OBVIOUS
<1>2. PICK es : es = Candidates(ms, busy)
  OBVIOUS
<1>3. es \in Seq(Clients) /\ Distinct(es) /\ ToSet(es) = ToSet(used) \cap S
  BY <1>1, <1>2, WithinFacts DEF Candidates, TypeOK
<1>4. ASSUME NEW e \in S
      PROVE  /\ model[e] \in DOMAIN loaded /\ loaded[model[e]] = e
             /\ model[e] \in ms /\ (busy \/ ~(active[e] > 0))
  BY <1>1, <1>4 DEF TablesOK, OfItsModel
<1> QED
  BY <1>2, <1>3, <1>4 DEF Unloadable

LEMMA UnloadableSlice ==
  ASSUME NEW es, Unloadable(es), NEW n \in 0 .. Len(es)
  PROVE  Unloadable(SubSeq(es, 1, n)) /\ ToSet(SubSeq(es, 1, n)) \subseteq ToSet(es)
BY SliceFacts DEF Unloadable

LEMMA MakingRoomFacts ==
  ASSUME NEW es, Unloadable(es), NEW m
  PROVE  Unloadable(MakingRoom(es, m)) /\ ToSet(MakingRoom(es, m)) \subseteq ToSet(es)
<1>1. PICK enough :
        enough = {n \in 0 .. Len(es) :
                    Committed - Bytes(ModelsOf(SubSeq(es, 1, n))) + Size[m] <= Budget}
  OBVIOUS
<1>2. Len(es) \in 0 .. Len(es)
  BY DEF Unloadable
<1>3. PICK n : n = IF enough = {} THEN Len(es) ELSE Min(enough)
  OBVIOUS
<1>4. n \in 0 .. Len(es)
  <2>1. CASE enough = {}
    BY <1>2, <1>3, <2>1
  <2>2. CASE enough # {}
    <3>1. enough \in SUBSET Nat /\ enough \subseteq 0 .. Len(es)
      BY <1>1
    <3>2. \E x \in enough : \A y \in enough : x <= y
      BY <2>2, <3>1, LeastNatural
    <3>3. Min(enough) \in enough
      BY <3>2 DEF Min
    <3> QED
      BY <1>3, <2>2, <3>1, <3>3
  <2> QED
    BY <2>1, <2>2
<1>5. MakingRoom(es, m) = SubSeq(es, 1, n)
  BY <1>1, <1>3 DEF MakingRoom
<1> QED
  BY <1>4, <1>5, UnloadableSlice

(* _begin_unload_locked() moves entries from one table to another. *)
Moved(t, es) ==
  /\ ModelsOf(es) \subseteq DOMAIN loaded
  /\ DOMAIN loaded' = DOMAIN loaded \ ModelsOf(es)
  /\ \A m \in DOMAIN loaded' : loaded'[m] = loaded[m]
  /\ DOMAIN unloading' = DOMAIN unloading \cup ModelsOf(es)
  /\ \A m \in DOMAIN unloading' :
       unloading'[m] = IF m \in ModelsOf(es) THEN loaded[m] ELSE unloading[m]
  /\ stops' \in [Tasks -> Seq(Clients)]
  /\ \A u \in Tasks : stops'[u] = IF u = t THEN es ELSE stops[u]

LEMMA BeginUnloadFacts ==
  ASSUME TypeOK, NEW es, Unloadable(es), NEW t \in Tasks, BeginUnload(t, es)
  PROVE  Moved(t, es)
<1>1. \A i \in DOMAIN es : es[i] \in ToSet(es)
  BY DEF ToSet
<1>2. ModelsOf(es) \subseteq DOMAIN loaded
  BY <1>1 DEF ModelsOf, Unloadable
<1> QED
  BY <1>2 DEF BeginUnload, Drop, TypeOK, Unloadable, Moved

----------------------------------------------------------------------------
(* Every step keeps ManagerInv.                                             *)

(* Nobody starts a load, awaits or holds anything by moving from client to f. *)
Settles(f) ==
  /\ f \in [Clients -> ClientStates]
  /\ \A c \in Clients :
       /\ f[c] = "loading" => client[c] = "loading"
       /\ f[c] \in {"sharing", "woken", "holding"} => client[c] \in {"sharing", "woken", "holding"}
       /\ stops[c] # <<>> => f[c] \in {"unloading", "dying", "releasing"}

LEMMA NotifySettled ==
  ASSUME NEW f, Settles(f)
  PROVE  Settles(Notified(f))
<1>1. ASSUME NEW c \in Clients PROVE Notified(f)[c] = IF f[c] = "waiting" THEN "ready" ELSE f[c]
  BY DEF Notified
<1>2. Notified(f) \in [Clients -> ClientStates]
  BY DEF Notified, Settles, ClientStates
<1> QED
  BY <1>1, <1>2 DEF Settles

LEMMA NotifiedSettles ==
  ASSUME TypeOK, StoppersOK
  PROVE  Settles(client) /\ Settles(Notified(client))
<1>1. \A c \in Clients : c \in Tasks
  BY ModelManagerAssumptions DEF Clients, Tasks, Stopper
<1>2. Settles(client)
  BY DEF Settles, TypeOK, StoppersOK
<1> QED
  BY <1>2, NotifySettled

LEMMA SharersSettle ==
  ASSUME TypeOK, StoppersOK, NEW l \in Clients
  PROVE  Settles(SharersWoken(client, l))
BY NotifiedSettles DEF Settles, SharersWoken, TypeOK, ClientStates

(* One more request may settle down. *)
LEMMA OneSettles ==
  ASSUME NEW f, Settles(f), NEW c \in Clients, NEW s \in ClientStates,
         s \notin {"loading", "sharing", "woken", "holding"},
         stops[c] = <<>> \/ s \in {"unloading", "dying", "releasing"}
  PROVE  Settles([f EXCEPT ![c] = s])
BY DEF Settles

LEMMA QuietStep ==
  ASSUME ManagerInv, Settles(client'), preempting' \subseteq Clients,
         UNCHANGED <<policy, model, uses, tables, future, active, used, alive, stops, relisted>>
  PROVE  ManagerInv'
<1>1. TypeOK'
  BY DEF ManagerInv, TypeOK, Settles
<1>2. TablesOK'
  BY DEF ManagerInv, TablesOK, OfItsModel, tables
<1>3. LoadersOK' /\ UsersOK' /\ StoppersOK'
  BY DEF ManagerInv, Settles, LoadersOK, UsersOK, StoppersOK, tables
<1>4. relisted' \/ Committed' <= Budget
  BY DEF ManagerInv, Committed, tables
<1> QED
  BY <1>1, <1>2, <1>3, <1>4 DEF ManagerInv

LEMMA CommittedNat ==
  ASSUME TablesOK
  PROVE  /\ Bytes(DOMAIN loaded) \in Nat /\ Bytes(DOMAIN loading) \in Nat
         /\ Bytes(DOMAIN unloading) \in Nat /\ Committed \in Nat
<1>1. /\ Bytes(DOMAIN loaded) \in Nat /\ Bytes(DOMAIN loading) \in Nat
      /\ Bytes(DOMAIN unloading) \in Nat
  BY BytesNat DEF TablesOK, OfItsModel
<1> QED
  BY <1>1 DEF Committed

(* Tables that only lose entries commit no more than before. *)
LEMMA CommittedFalls ==
  ASSUME TablesOK, NEW l, NEW d, NEW u, l \subseteq DOMAIN loaded,
         d \subseteq DOMAIN loading, u \subseteq DOMAIN unloading
  PROVE  Bytes(l) + Bytes(d) + Bytes(u) <= Committed
<1>1. /\ DOMAIN loaded \in SUBSET Models /\ DOMAIN loading \in SUBSET Models
      /\ DOMAIN unloading \in SUBSET Models
      /\ l \in SUBSET Models /\ d \in SUBSET Models /\ u \in SUBSET Models
  BY DEF TablesOK, OfItsModel
<1>2. Bytes(l) <= Bytes(DOMAIN loaded)
  BY <1>1, BytesSubset
<1>3. Bytes(d) <= Bytes(DOMAIN loading)
  BY <1>1, BytesSubset
<1>4. Bytes(u) <= Bytes(DOMAIN unloading)
  BY <1>1, BytesSubset
<1>5. Bytes(l) \in Nat /\ Bytes(d) \in Nat /\ Bytes(u) \in Nat
  BY <1>1, BytesNat
<1> QED
  BY <1>2, <1>3, <1>4, <1>5, CommittedNat DEF Committed

(* The tables and the clients after engines have been chosen for unloading. *)
LEMMA UnloadStep ==
  ASSUME ManagerInv, NEW es, Unloadable(es), NEW t \in Tasks, BeginUnload(t, es),
         NEW f, Settles(f), preempting' \subseteq Clients,
         active' \in [Clients -> Nat], used' \in Seq(Clients), Distinct(used'),
         uses' \in [Clients -> Clients \cup {NoLoad}],
         \A c \in Clients : client'[c] \in {"sharing", "woken", "holding"} =>
                              client'[c] = f[c] /\ uses'[c] = uses[c],
         client' = f \/ (t \in Clients /\ \E s \in {"unloading", "releasing"} :
                                           client' = [f EXCEPT ![t] = s]),
         t \in Clients => client' # f \/ es = <<>>,
         UNCHANGED <<policy, model, loading, future, alive, relisted>>
  PROVE  ManagerInv'
<1> USE DEF ManagerInv
<1>1. PICK X : X = ModelsOf(es)
  OBVIOUS
<1>2. /\ X \subseteq DOMAIN loaded
      /\ DOMAIN loaded' = DOMAIN loaded \ X
      /\ \A m \in DOMAIN loaded' : loaded'[m] = loaded[m]
      /\ DOMAIN unloading' = DOMAIN unloading \cup X
      /\ \A m \in DOMAIN unloading' :
           unloading'[m] = IF m \in X THEN loaded[m] ELSE unloading[m]
      /\ stops' \in [Tasks -> Seq(Clients)]
      /\ \A u \in Tasks : stops'[u] = IF u = t THEN es ELSE stops[u]
  <2>1. TypeOK
    OBVIOUS
  <2>2. Moved(t, es)
    BY <2>1, BeginUnloadFacts
  <2> QED
    BY <1>1, <2>2 DEF Moved
<1>3. client' \in [Clients -> ClientStates]
  BY DEF Settles, ClientStates
<1>4. TypeOK'
  BY <1>2, <1>3 DEF TypeOK
<1>5. TablesOK'
  <2>1. OfItsModel(loaded)' /\ OfItsModel(loading)'
    BY <1>2 DEF TablesOK, OfItsModel
  <2>2. OfItsModel(unloading)'
    BY <1>2 DEF TablesOK, OfItsModel
  <2> QED
    BY <2>1, <2>2 DEF TablesOK
<1>6. LoadersOK'
  <2>1. \A c \in Clients : client'[c] = "loading" => client[c] = "loading"
    BY DEF Settles
  <2> QED
    BY <2>1 DEF LoadersOK
<1>7. UsersOK'
  <2>1. \A c \in Clients : client'[c] \in {"sharing", "woken", "holding"} =>
          client[c] \in {"sharing", "woken", "holding"} /\ uses'[c] = uses[c]
    BY DEF Settles
  <2> QED
    BY <2>1 DEF UsersOK
<1>8. StoppersOK'
  <2>1. \A c \in Clients : c \in Tasks
    BY ModelManagerAssumptions DEF Clients, Tasks, Stopper
  <2>2. ASSUME NEW c \in Clients, stops'[c] # <<>>
        PROVE  client'[c] \in {"unloading", "dying", "releasing"}
    <3>1. CASE c = t
      <4>1. client' # f
        BY <1>2, <2>1, <2>2, <3>1
      <4> QED
        BY <3>1, <4>1 DEF Settles
    <3>2. CASE c # t
      <4>1. stops[c] # <<>>
        BY <1>2, <2>1, <2>2, <3>2
      <4>2. client'[c] = f[c]
        BY <3>2 DEF Settles
      <4> QED
        BY <4>1, <4>2 DEF Settles
    <3> QED
      BY <3>1, <3>2
  <2> QED
    BY <2>2 DEF StoppersOK
<1>9. relisted' \/ Committed' <= Budget
  <2>1. PICK L, U : L = DOMAIN loaded /\ U = DOMAIN unloading
    OBVIOUS
  <2>2. L \in SUBSET Models /\ U \in SUBSET Models /\ X \in SUBSET L
    BY <1>2, <2>1 DEF TablesOK, OfItsModel
  <2>3. Bytes(L \ X) + Bytes(U \cup X) <= Bytes(L) + Bytes(U)
    BY <2>2, BytesMoved
  <2>4. /\ Bytes(L) \in Nat /\ Bytes(U) \in Nat /\ Bytes(DOMAIN loading) \in Nat
        /\ Bytes(L \ X) \in Nat /\ Bytes(U \cup X) \in Nat
    <3>1. L \ X \in SUBSET Models /\ U \cup X \in SUBSET Models
      BY <2>2
    <3> QED
      BY <2>1, <2>2, <3>1, BytesNat, CommittedNat
  <2>5. Committed' = Bytes(L \ X) + Bytes(DOMAIN loading) + Bytes(U \cup X)
    BY <1>2, <2>1 DEF Committed
  <2>6. Committed = Bytes(L) + Bytes(DOMAIN loading) + Bytes(U)
    BY <2>1 DEF Committed
  <2>7. Committed' <= Committed
    BY <2>3, <2>4, <2>5, <2>6
  <2> QED
    BY <2>4, <2>5, <2>6, <2>7, ModelManagerAssumptions
<1> QED
  BY <1>4, <1>5, <1>6, <1>7, <1>8, <1>9

LEMMA AcquireStep ==
  ASSUME ManagerInv, NEW c \in Clients, Acquire(c)
  PROVE  ManagerInv'
<1>1. /\ TypeOK /\ TablesOK /\ LoadersOK /\ UsersOK /\ StoppersOK
      /\ relisted \/ Committed <= Budget
  BY DEF ManagerInv
<1>2. /\ Settles(client) /\ Settles(Notified(client))
      /\ c \in Tasks
  BY <1>1, NotifiedSettles, ModelManagerAssumptions DEF Clients, Tasks, Stopper
<1>3. model[c] \in Models /\ (client[c] = "ready" => stops[c] = <<>>)
  BY <1>1 DEF TypeOK, StoppersOK
<1>4. ASSUME NEW s \in {"failed", "waiting"}, client[c] = "ready"
      PROVE  Settles([client EXCEPT ![c] = s]) /\ Settles([Notified(client) EXCEPT ![c] = s])
  <2>1. s \in ClientStates /\ s \notin {"loading", "sharing", "woken", "holding"}
    BY DEF ClientStates
  <2> QED
    BY <1>2, <1>3, <1>4, <2>1, OneSettles
<1>5. CASE AcquireRefused(c)
  <2>1. Settles(client')
    BY <1>4, <1>5 DEF AcquireRefused
  <2> QED
    BY <1>1, <1>5, <2>1, QuietStep DEF AcquireRefused, engines, TypeOK
<1>6. CASE AcquireLoaded(c)
  <2>1. PICK e : e = loaded[model[c]]
    OBVIOUS
  <2>2. e \in Clients /\ model[e] = model[c]
    BY <1>1, <1>6, <2>1 DEF AcquireLoaded, Claimable, TablesOK, OfItsModel
  <2>3. /\ client' = [client EXCEPT ![c] = "holding"] /\ uses' = [uses EXCEPT ![c] = e]
        /\ active' = [active EXCEPT ![e] = @ + 1]
        /\ used' = Append(Without(used, {e}), e)
    BY <1>6, <2>1 DEF AcquireLoaded, Claim, Touch
  <2>4. used' \in Seq(Clients) /\ Distinct(used')
    BY <1>1, <2>2, <2>3, TouchFacts DEF TypeOK
  <2>5. UNCHANGED <<policy, relisted, model, tables, future, preempting, alive, stops, shutdown>>
    BY <1>6 DEF AcquireLoaded
  <2>6. TypeOK'
    BY <1>1, <2>2, <2>3, <2>4, <2>5 DEF TypeOK, ClientStates
  <2>7. TablesOK'
    BY <1>1, <2>5 DEF TablesOK, OfItsModel, tables
  <2>8. LoadersOK' /\ UsersOK'
    BY <1>1, <2>2, <2>3, <2>5 DEF LoadersOK, UsersOK, tables, TypeOK
  <2>9. StoppersOK'
    BY <1>1, <1>3, <1>6, <2>3, <2>5 DEF StoppersOK, TypeOK, AcquireLoaded, Open
  <2>10. relisted' \/ Committed' <= Budget
    BY <1>1, <2>5 DEF Committed, tables
  <2> QED
    BY <2>6, <2>7, <2>8, <2>9, <2>10 DEF ManagerInv
<1>7. CASE AcquireShared(c)
  <2>1. PICK l : l = loading[model[c]]
    OBVIOUS
  <2>2. l \in Clients /\ model[l] = model[c]
    BY <1>1, <1>7, <2>1 DEF AcquireShared, TablesOK, OfItsModel
  <2>3. /\ client[c] = "ready" /\ uses' = [uses EXCEPT ![c] = l]
        /\ client' \in {[client EXCEPT ![c] = "sharing"], [client EXCEPT ![c] = "inherited"]}
    BY <1>7, <2>1 DEF AcquireShared, Open
  <2>4. UNCHANGED <<policy, relisted, model, tables, future, engines, stops, shutdown>>
    BY <1>7 DEF AcquireShared
  <2>5. TypeOK'
    BY <1>1, <2>2, <2>3, <2>4 DEF TypeOK, ClientStates, engines
  <2>6. TablesOK'
    BY <1>1, <2>4 DEF TablesOK, OfItsModel, tables
  <2>7. LoadersOK' /\ UsersOK'
    BY <1>1, <2>2, <2>3, <2>4 DEF LoadersOK, UsersOK, tables, TypeOK
  <2>8. StoppersOK'
    BY <1>1, <1>3, <2>3, <2>4 DEF StoppersOK, TypeOK
  <2>9. relisted' \/ Committed' <= Budget
    BY <1>1, <2>4 DEF Committed, tables
  <2> QED
    BY <2>5, <2>6, <2>7, <2>8, <2>9 DEF ManagerInv
<1>8. CASE AcquireAfterUnload(c)
  <2>1. Settles(client')
    BY <1>4, <1>8 DEF AcquireAfterUnload, Open
  <2> QED
    BY <1>1, <1>8, <2>1, QuietStep DEF AcquireAfterUnload, engines, TypeOK
<1>9. CASE AcquireEvicts(c)
  <2>1. PICK es : es = Evictions(c)
    OBVIOUS
  <2>2. Unloadable(es)
    BY <1>1, <2>1, CandidatesFacts, MakingRoomFacts DEF Evictions
  <2>3. client' = [client EXCEPT ![c] = "unloading"] /\ BeginUnload(c, es) /\ client[c] = "ready"
    BY <1>9, <2>1 DEF AcquireEvicts, NeedsRoom, Open
  <2>4. UNCHANGED <<policy, relisted, model, uses, loading, future, engines, shutdown>>
    BY <1>9 DEF AcquireEvicts
  <2>5. client'[c] = "unloading" /\ client' # client
    BY <1>1, <2>3 DEF TypeOK
  <2>6. \A d \in Clients : client'[d] \in {"sharing", "woken", "holding"} =>
                              client'[d] = client[d] /\ uses'[d] = uses[d]
    BY <1>1, <2>3, <2>4 DEF TypeOK
  <2>7. /\ preempting' \subseteq Clients /\ active' \in [Clients -> Nat]
        /\ used' \in Seq(Clients) /\ Distinct(used')
        /\ uses' \in [Clients -> Clients \cup {NoLoad}]
    BY <1>1, <2>4 DEF TypeOK, engines
  <2>8. UNCHANGED <<policy, model, loading, future, alive, relisted>>
    BY <2>4 DEF engines
  <2> QED
    BY <1>2, <2>2, <2>3, <2>5, <2>6, <2>7, <2>8, UnloadStep
<1>10. CASE AcquireReserves(c)
  <2>1. /\ client[c] = "ready" /\ model[c] \notin DOMAIN loading /\ Fits(model[c])
        /\ loading' = Bind(loading, model[c], c)
        /\ future' = [future EXCEPT ![c] = "pending"]
        /\ client' = [client EXCEPT ![c] = "loading"]
        /\ alive' = alive \cup {c}
        /\ UNCHANGED <<policy, relisted, model, uses, loaded, unloading, active, preempting,
                       used, stops, shutdown>>
    BY <1>10 DEF AcquireReserves, NeedsRoom, Open
  <2>2. /\ DOMAIN loading' = DOMAIN loading \cup {model[c]} /\ loading'[model[c]] = c
        /\ \A m \in DOMAIN loading : loading'[m] = loading[m]
    BY <2>1 DEF Bind
  <2>3. TypeOK'
    BY <1>1, <2>1 DEF TypeOK, ClientStates, Outcomes
  <2>4. TablesOK'
    BY <1>1, <1>3, <2>1, <2>2 DEF TablesOK, OfItsModel
  <2>5. LoadersOK'
    BY <1>1, <2>1, <2>2 DEF LoadersOK, TypeOK
  <2>6. UsersOK'
    BY <1>1, <2>1 DEF UsersOK, TypeOK
  <2>7. StoppersOK'
    BY <1>1, <1>3, <2>1 DEF StoppersOK, TypeOK
  <2>8. relisted' \/ Committed' <= Budget
    <3>1. PICK D : D = DOMAIN loading
      OBVIOUS
    <3>2. D \in SUBSET Models /\ Size[model[c]] \in Nat
      BY <1>1, <1>3, <3>1, ModelManagerAssumptions DEF TablesOK, OfItsModel
    <3>3. Bytes(D \cup {model[c]}) <= Bytes(D) + Size[model[c]]
      BY <1>3, <3>2, BytesOne
    <3>4. Bytes(D \cup {model[c]}) \in Nat
      BY <1>3, <3>2, BytesNat
    <3>5. Committed' = Bytes(DOMAIN loaded) + Bytes(D \cup {model[c]}) + Bytes(DOMAIN unloading)
      BY <2>1, <2>2, <3>1 DEF Committed
    <3>6. Committed = Bytes(DOMAIN loaded) + Bytes(D) + Bytes(DOMAIN unloading)
      BY <3>1 DEF Committed
    <3>7. Committed + Size[model[c]] <= Budget
      BY <2>1 DEF Fits
    <3>8. /\ Bytes(DOMAIN loaded) \in Nat /\ Bytes(D) \in Nat
          /\ Bytes(DOMAIN unloading) \in Nat /\ Budget \in Nat
      BY <1>1, <3>1, CommittedNat, ModelManagerAssumptions
    <3> QED
      BY <3>2, <3>3, <3>4, <3>5, <3>6, <3>7, <3>8
  <2> QED
    BY <2>3, <2>4, <2>5, <2>6, <2>7, <2>8 DEF ManagerInv
<1>11. CASE AcquireFails(c)
  <2>1. Settles(client')
    BY <1>4, <1>11 DEF AcquireFails, Blocked, NeedsRoom, Open
  <2> QED
    BY <1>1, <1>11, <2>1, QuietStep DEF AcquireFails, engines, TypeOK
<1>12. CASE AcquirePreempts(c)
  <2>1. PICK es : es = MakingRoom(Candidates(Others(model[c]), TRUE), model[c])
    OBVIOUS
  <2>2. Unloadable(es)
    BY <1>1, <2>1, CandidatesFacts, MakingRoomFacts
  <2>3. preempting' = preempting \cup ToSet(es)
    BY <1>12, <2>1 DEF AcquirePreempts
  <2>4. ToSet(es) \subseteq Clients
    BY <2>2 DEF Unloadable, ToSet
  <2>5. preempting' \subseteq Clients
    BY <1>1, <2>3, <2>4 DEF TypeOK
  <2>6. Settles(client')
    BY <1>4, <1>12 DEF AcquirePreempts, Blocked, NeedsRoom, Open
  <2> QED
    BY <1>1, <1>12, <2>5, <2>6, QuietStep DEF AcquirePreempts
<1>13. CASE AcquireWaits(c)
  <2>1. Settles(client')
    BY <1>4, <1>13 DEF AcquireWaits, Blocked, NeedsRoom, Open
  <2> QED
    BY <1>1, <1>13, <2>1, QuietStep DEF AcquireWaits, engines, TypeOK
<1> QED
  BY <1>5, <1>6, <1>7, <1>8, <1>9, <1>10, <1>11, <1>12, <1>13 DEF Acquire

(* The load of c is over, and nothing has been loaded. *)
LEMMA LoadOverStep ==
  ASSUME ManagerInv, NEW c \in Clients, client[c] = "loading",
         loading' = Drop(loading, {model[c]}), future' \in [Clients -> Outcomes],
         Settles(client'), client'[c] # "loading", alive' \subseteq alive,
         UNCHANGED <<policy, relisted, model, uses, loaded, unloading, active, preempting,
                     used, stops>>
  PROVE  ManagerInv'
<1>1. /\ TypeOK /\ TablesOK /\ LoadersOK /\ UsersOK /\ StoppersOK
      /\ relisted \/ Committed <= Budget
  BY DEF ManagerInv
<1>2. /\ DOMAIN loading' = DOMAIN loading \ {model[c]}
      /\ \A m \in DOMAIN loading' : loading'[m] = loading[m]
  BY DEF Drop
<1>3. TypeOK'
  BY <1>1 DEF TypeOK, Settles
<1>4. TablesOK'
  BY <1>1, <1>2 DEF TablesOK, OfItsModel
<1>5. LoadersOK'
  <2>1. ASSUME NEW d \in Clients, client'[d] = "loading"
        PROVE  model[d] \in DOMAIN loading' /\ loading'[model[d]] = d
    <3>1. client[d] = "loading" /\ d # c
      BY <2>1 DEF Settles
    <3>2. model[d] \in DOMAIN loading /\ loading[model[d]] = d /\ loading[model[c]] = c
      BY <1>1, <3>1 DEF LoadersOK
    <3> QED
      BY <1>2, <3>1, <3>2
  <2> QED
    BY <2>1 DEF LoadersOK
<1>6. UsersOK' /\ StoppersOK'
  BY <1>1 DEF UsersOK, StoppersOK, Settles
<1>7. relisted' \/ Committed' <= Budget
  <2>1. PICK D : D = DOMAIN loading'
    OBVIOUS
  <2>2. Bytes(DOMAIN loaded) + Bytes(D) + Bytes(DOMAIN unloading) <= Committed
    BY <1>1, <1>2, <2>1, CommittedFalls
  <2>3. Committed' = Bytes(DOMAIN loaded) + Bytes(D) + Bytes(DOMAIN unloading)
    BY <2>1 DEF Committed
  <2>4. D \in SUBSET Models
    BY <1>1, <1>2, <2>1 DEF TablesOK, OfItsModel
  <2>5. Bytes(D) \in Nat
    BY <2>4, BytesNat
  <2> QED
    BY <1>1, <2>2, <2>3, <2>5, CommittedNat, ModelManagerAssumptions
<1> QED
  BY <1>3, <1>4, <1>5, <1>6, <1>7 DEF ManagerInv

LEMMA LoadEndsStep ==
  ASSUME ManagerInv, NEW c \in Clients, LoadEnds(c)
  PROVE  ManagerInv'
<1>1. /\ TypeOK /\ TablesOK /\ LoadersOK /\ UsersOK /\ StoppersOK
      /\ relisted \/ Committed <= Budget
  BY DEF ManagerInv
<1>2. PICK f : f = Notified(SharersWoken(client, c))
  OBVIOUS
<1>3. Settles(f)
  BY <1>1, <1>2, SharersSettle, NotifySettled
<1>4. /\ client[c] = "loading" /\ client' = [f EXCEPT ![c] = "holding"]
      /\ uses' = [uses EXCEPT ![c] = c] /\ active' = [active EXCEPT ![c] = @ + 1]
      /\ used' = Append(Without(used, {c}), c)
      /\ loading' = Drop(loading, {model[c]}) /\ loaded' = Bind(loaded, model[c], c)
      /\ Resolve(c, "done")
      /\ UNCHANGED <<policy, relisted, model, unloading, preempting, alive, stops, shutdown>>
  BY <1>2 DEF LoadEnds, Claim, Touch
<1>5. /\ model[c] \in Models /\ model[c] \in DOMAIN loading /\ loading[model[c]] = c
  BY <1>1, <1>4 DEF LoadersOK, TypeOK
<1>6. /\ DOMAIN loading' = DOMAIN loading \ {model[c]}
      /\ \A m \in DOMAIN loading' : loading'[m] = loading[m]
      /\ DOMAIN loaded' = DOMAIN loaded \cup {model[c]}
      /\ \A m \in DOMAIN loaded' : loaded'[m] = IF m = model[c] THEN c ELSE loaded[m]
  BY <1>4 DEF Drop, Bind
<1>7. TypeOK'
  <2>1. used' \in Seq(Clients) /\ Distinct(used')
    BY <1>1, <1>4, TouchFacts DEF TypeOK
  <2>2. client' \in [Clients -> ClientStates]
    BY <1>3, <1>4 DEF Settles, ClientStates
  <2>3. future' \in [Clients -> Outcomes]
    BY <1>1, <1>4 DEF Resolve, TypeOK, Outcomes
  <2> QED
    BY <1>1, <1>4, <2>1, <2>2, <2>3 DEF TypeOK
<1>8. TablesOK'
  BY <1>1, <1>4, <1>5, <1>6 DEF TablesOK, OfItsModel
<1>9. ASSUME NEW d \in Clients PROVE client'[d] = IF d = c THEN "holding" ELSE f[d]
  BY <1>3, <1>4 DEF Settles
<1>10. LoadersOK'
  <2>1. ASSUME NEW d \in Clients, client'[d] = "loading"
        PROVE  model[d] \in DOMAIN loading' /\ loading'[model[d]] = d
    <3>1. client[d] = "loading" /\ d # c
      BY <1>3, <1>9, <2>1 DEF Settles
    <3>2. model[d] \in DOMAIN loading /\ loading[model[d]] = d
      BY <1>1, <3>1 DEF LoadersOK
    <3> QED
      BY <1>5, <1>6, <3>1, <3>2
  <2> QED
    BY <1>4, <2>1 DEF LoadersOK
<1>11. UsersOK'
  <2>1. ASSUME NEW d \in Clients, client'[d] \in {"sharing", "woken", "holding"}
        PROVE  uses'[d] \in Clients /\ model[uses'[d]] = model[d]
    <3>1. CASE d = c
      BY <1>1, <1>4, <3>1 DEF TypeOK
    <3>2. CASE d # c
      BY <1>1, <1>3, <1>4, <1>9, <2>1, <3>2 DEF TypeOK, UsersOK, Settles
    <3> QED
      BY <3>1, <3>2
  <2> QED
    BY <1>4, <2>1 DEF UsersOK
<1>12. StoppersOK'
  BY <1>1, <1>3, <1>4, <1>9 DEF StoppersOK, Settles
<1>13. relisted' \/ Committed' <= Budget
  <2>1. PICK L, D : L = DOMAIN loaded /\ D = DOMAIN loading
    OBVIOUS
  <2>2. PICK X : X = {model[c]}
    OBVIOUS
  <2>3. L \in SUBSET Models /\ D \in SUBSET Models /\ X \in SUBSET D
    BY <1>1, <1>5, <2>1, <2>2 DEF TablesOK, OfItsModel
  <2>4. Bytes(D \ X) + Bytes(L \cup X) <= Bytes(D) + Bytes(L)
    BY <2>3, BytesMoved
  <2>5. /\ Bytes(L) \in Nat /\ Bytes(D) \in Nat /\ Bytes(DOMAIN unloading) \in Nat
        /\ Bytes(D \ X) \in Nat /\ Bytes(L \cup X) \in Nat
    <3>1. D \ X \in SUBSET Models /\ L \cup X \in SUBSET Models
      BY <2>3
    <3> QED
      BY <1>1, <2>1, <2>3, <3>1, BytesNat, CommittedNat
  <2>6. Committed' = Bytes(L \cup X) + Bytes(D \ X) + Bytes(DOMAIN unloading)
    BY <1>4, <1>6, <2>1, <2>2 DEF Committed
  <2>7. Committed = Bytes(L) + Bytes(D) + Bytes(DOMAIN unloading)
    BY <2>1 DEF Committed
  <2>8. Committed' <= Committed
    BY <2>4, <2>5, <2>6, <2>7
  <2> QED
    BY <1>1, <1>4, <2>5, <2>6, <2>7, <2>8, ModelManagerAssumptions
<1> QED
  BY <1>7, <1>8, <1>10, <1>11, <1>12, <1>13 DEF ManagerInv

LEMMA ResumeLoadedStep ==
  ASSUME ManagerInv, NEW c \in Clients, ResumeLoaded(c)
  PROVE  ManagerInv'
<1>1. /\ TypeOK /\ TablesOK /\ LoadersOK /\ UsersOK /\ StoppersOK
      /\ relisted \/ Committed <= Budget
  BY DEF ManagerInv
<1>2. PICK e : e = uses[c]
  OBVIOUS
<1>3. /\ client[c] = "woken"
      /\ loaded' = IF model[c] \in DOMAIN loaded THEN loaded ELSE Bind(loaded, model[c], e)
      /\ relisted' = (relisted \/ model[c] \notin DOMAIN loaded)
      /\ \/ Claim(c, e, client)
         \/ /\ client' = [client EXCEPT ![c] = "ready"]
            /\ uses' = [uses EXCEPT ![c] = NoLoad] /\ UNCHANGED <<active, used>>
      /\ UNCHANGED <<policy, model, loading, unloading, future, preempting, alive, stops>>
  BY <1>2 DEF ResumeLoaded
<1>4. e \in Clients /\ model[e] = model[c] /\ model[c] \in Models
  BY <1>1, <1>2, <1>3 DEF UsersOK, TypeOK
<1>5. /\ DOMAIN loaded' = DOMAIN loaded \cup {model[c]}
      /\ \A m \in DOMAIN loaded' : loaded'[m] = IF m \in DOMAIN loaded THEN loaded[m] ELSE e
  BY <1>3 DEF Bind
<1>6. /\ used' \in Seq(Clients) /\ Distinct(used') /\ active' \in [Clients -> Nat]
      /\ uses' \in [Clients -> Clients \cup {NoLoad}]
      /\ client' \in {[client EXCEPT ![c] = "holding"], [client EXCEPT ![c] = "ready"]}
      /\ client' = [client EXCEPT ![c] = "holding"] => uses'[c] = e
      /\ \A d \in Clients : d # c => uses'[d] = uses[d]
  <2>1. CASE Claim(c, e, client)
    <3>1. used' \in Seq(Clients) /\ Distinct(used')
      BY <1>1, <1>4, <2>1, TouchFacts DEF TypeOK, Claim, Touch
    <3> QED
      BY <1>1, <1>4, <2>1, <3>1 DEF TypeOK, Claim
  <2>2. CASE ~Claim(c, e, client)
    <3>1. [client EXCEPT ![c] = "ready"] # [client EXCEPT ![c] = "holding"]
      BY <1>1 DEF TypeOK
    <3> QED
      BY <1>1, <1>3, <2>2, <3>1 DEF TypeOK
  <2> QED
    BY <2>1, <2>2
<1>7. TypeOK'
  <2>1. client' \in [Clients -> ClientStates]
    BY <1>1, <1>6 DEF TypeOK, ClientStates
  <2>2. relisted' \in BOOLEAN
    BY <1>3
  <2> QED
    BY <1>1, <1>3, <1>6, <2>1, <2>2 DEF TypeOK
<1>8. TablesOK'
  BY <1>1, <1>3, <1>4, <1>5 DEF TablesOK, OfItsModel
<1>9. LoadersOK'
  BY <1>1, <1>3, <1>6 DEF LoadersOK, TypeOK
<1>10. UsersOK'
  BY <1>1, <1>3, <1>4, <1>6 DEF UsersOK, TypeOK
<1>11. StoppersOK'
  BY <1>1, <1>3, <1>6 DEF StoppersOK, TypeOK
<1>12. relisted' \/ Committed' <= Budget
  BY <1>1, <1>3 DEF Committed
<1> QED
  BY <1>7, <1>8, <1>9, <1>10, <1>11, <1>12 DEF ManagerInv

LEMMA ReleaseStep ==
  ASSUME ManagerInv, NEW c \in Clients, Release(c)
  PROVE  ManagerInv'
<1>1. /\ TypeOK /\ TablesOK /\ LoadersOK /\ UsersOK /\ StoppersOK
      /\ relisted \/ Committed <= Budget
  BY DEF ManagerInv
<1>2. PICK e, n, last : /\ e = loaded[model[c]] /\ n = Decremented(active[e])
                        /\ last = (e \in preempting /\ n = 0)
  OBVIOUS
<1>3. PICK s : s = IF last THEN "releasing" ELSE "done"
  OBVIOUS
<1>4. /\ client[c] = "holding" /\ model[c] \in DOMAIN loaded
      /\ active' = [active EXCEPT ![e] = n] /\ used' = Append(Without(used, {e}), e)
      /\ \/ last /\ BeginUnload(c, <<e>>)
         \/ ~last /\ UNCHANGED <<loaded, unloading, stops>>
      /\ client' = Notified([client EXCEPT ![c] = s])
      /\ uses' = [uses EXCEPT ![c] = NoLoad]
      /\ UNCHANGED <<policy, relisted, model, loading, future, preempting, alive, shutdown>>
  BY <1>2, <1>3 DEF Release, Ending, Touch
<1>5. e \in Clients /\ model[e] = model[c] /\ loaded[model[e]] = e /\ n \in Nat
  BY <1>1, <1>2, <1>4 DEF TablesOK, OfItsModel, TypeOK, Decremented
<1>6. /\ used' \in Seq(Clients) /\ Distinct(used') /\ active' \in [Clients -> Nat]
      /\ uses' \in [Clients -> Clients \cup {NoLoad}]
  BY <1>1, <1>4, <1>5, TouchFacts DEF TypeOK
<1>7. PICK f : f = Notified(client)
  OBVIOUS
<1>8. Settles(f) /\ c \in Tasks
  BY <1>1, <1>7, NotifiedSettles, ModelManagerAssumptions DEF Clients, Tasks, Stopper
<1>9. client' = [f EXCEPT ![c] = s]
  BY <1>1, <1>3, <1>4, <1>7 DEF Notified, TypeOK
<1>10. \A d \in Clients : client'[d] = IF d = c THEN s ELSE f[d]
  BY <1>8, <1>9 DEF Settles
<1>11. CASE last
  <2>1. s = "releasing" /\ BeginUnload(c, <<e>>)
    BY <1>3, <1>4, <1>11
  <2>2. Unloadable(<<e>>)
    BY <1>4, <1>5 DEF Unloadable, Distinct, ToSet
  <2>3. f[c] = "holding"
    BY <1>4, <1>7 DEF Notified
  <2>4. client' # f
    BY <1>10, <2>1, <2>3
  <2>5. \A d \in Clients : client'[d] \in {"sharing", "woken", "holding"} =>
                             client'[d] = f[d] /\ uses'[d] = uses[d]
    BY <1>1, <1>4, <1>10, <2>1 DEF TypeOK
  <2>6. preempting' \subseteq Clients
    BY <1>1, <1>4 DEF TypeOK
  <2> QED
    BY <1>4, <1>6, <1>8, <1>9, <2>1, <2>2, <2>4, <2>5, <2>6, UnloadStep
<1>12. CASE ~last
  <2>1. s = "done" /\ UNCHANGED <<loaded, unloading, stops>>
    BY <1>3, <1>4, <1>12
  <2>2. stops[c] = <<>>
    BY <1>1, <1>4 DEF StoppersOK
  <2>3. s \in ClientStates /\ s \notin {"loading", "sharing", "woken", "holding"}
    BY <2>1 DEF ClientStates
  <2>4. Settles(client')
    BY <1>8, <1>9, <2>2, <2>3, OneSettles
  <2>5. TypeOK'
    BY <1>1, <1>4, <1>6, <2>1, <2>4 DEF TypeOK, Settles
  <2>6. TablesOK'
    BY <1>1, <1>4, <2>1 DEF TablesOK, OfItsModel
  <2>7. LoadersOK' /\ StoppersOK'
    BY <1>1, <1>4, <2>1, <2>4 DEF LoadersOK, StoppersOK, Settles
  <2>8. UsersOK'
    <3>1. ASSUME NEW d \in Clients, client'[d] \in {"sharing", "woken", "holding"}
          PROVE  uses'[d] \in Clients /\ model[uses'[d]] = model[d]
      <4>1. d # c
        BY <1>10, <2>1, <3>1
      <4>2. uses'[d] = uses[d] /\ client[d] \in {"sharing", "woken", "holding"}
        BY <1>1, <1>4, <2>4, <3>1, <4>1 DEF TypeOK, Settles
      <4> QED
        BY <1>1, <4>2 DEF UsersOK
    <3> QED
      BY <1>4, <3>1 DEF UsersOK
  <2>9. relisted' \/ Committed' <= Budget
    BY <1>1, <1>4, <2>1 DEF Committed
  <2> QED
    BY <2>5, <2>6, <2>7, <2>8, <2>9 DEF ManagerInv
<1> QED
  BY <1>11, <1>12

LEMMA ReleaseUnknownStep ==
  ASSUME ManagerInv, NEW c \in Clients, ReleaseUnknown(c)
  PROVE  ManagerInv'
<1>1. /\ TypeOK /\ TablesOK /\ LoadersOK /\ UsersOK /\ StoppersOK
      /\ relisted \/ Committed <= Budget
  BY DEF ManagerInv
<1>2. /\ client[c] = "holding" /\ client' = [client EXCEPT ![c] = "done"]
      /\ uses' = [uses EXCEPT ![c] = NoLoad]
      /\ UNCHANGED <<policy, relisted, model, tables, future, engines, stops, shutdown>>
  BY DEF ReleaseUnknown, Ending
<1>3. TypeOK'
  BY <1>1, <1>2 DEF TypeOK, ClientStates, engines
<1>4. TablesOK'
  BY <1>1, <1>2 DEF TablesOK, OfItsModel, tables
<1>5. LoadersOK' /\ UsersOK' /\ StoppersOK'
  BY <1>1, <1>2 DEF LoadersOK, UsersOK, StoppersOK, TypeOK, tables
<1>6. relisted' \/ Committed' <= Budget
  BY <1>1, <1>2 DEF Committed, tables
<1> QED
  BY <1>3, <1>4, <1>5, <1>6 DEF ManagerInv

(* stop() of an engine returns, or raises and ends its unload task. *)
LEMMA StopStep ==
  ASSUME ManagerInv, NEW t \in Tasks, StopEnds(t) \/ StopRaises(t)
  PROVE  ManagerInv'
<1>1. /\ TypeOK /\ TablesOK /\ LoadersOK /\ UsersOK /\ StoppersOK
      /\ relisted \/ Committed <= Budget
  BY DEF ManagerInv
<1>2. PICK f, e : f = Notified(client) /\ e = Head(stops[t])
  OBVIOUS
<1>3. Settles(f)
  BY <1>1, <1>2, NotifiedSettles
<1>4. stops[t] # <<>> /\ stops[t] \in Seq(Clients)
  BY <1>1 DEF StopEnds, StopRaises, TypeOK
<1>5. \E rest \in {<<>>, Tail(stops[t])}, x \in {"ready", "failed"} :
        /\ stops' = [stops EXCEPT ![t] = rest]
        /\ client' = IF rest = <<>> THEN AfterUnload(f, t, x) ELSE f
  <2>1. CASE StopEnds(t)
    BY <1>2, <2>1 DEF StopEnds
  <2>2. CASE StopRaises(t)
    BY <1>2, <2>2 DEF StopRaises
  <2> QED
    BY <2>1, <2>2
<1>6. PICK rest \in {<<>>, Tail(stops[t])}, x \in {"ready", "failed"} :
        /\ stops' = [stops EXCEPT ![t] = rest]
        /\ client' = IF rest = <<>> THEN AfterUnload(f, t, x) ELSE f
  BY <1>5
<1>7. /\ unloading' = Drop(unloading, {model[e]}) /\ alive' = alive \ {e}
      /\ UNCHANGED <<policy, relisted, model, uses, loaded, loading, future, active,
                     preempting, used>>
  BY <1>2 DEF StopEnds, StopRaises
<1>8. /\ DOMAIN unloading' = DOMAIN unloading \ {model[e]}
      /\ \A m \in DOMAIN unloading' : unloading'[m] = unloading[m]
  BY <1>7 DEF Drop
<1>9. rest \in Seq(Clients)
  <2>1. PICK s : s = stops[t]
    OBVIOUS
  <2>2. s \in Seq(Clients) /\ s # <<>>
    BY <1>4, <2>1
  <2>3. Tail(s) \in Seq(Clients) /\ <<>> \in Seq(Clients)
    BY <2>2
  <2> QED
    BY <1>6, <2>1, <2>3
<1>10. \A c \in Clients : c \in Tasks
  BY ModelManagerAssumptions DEF Clients, Tasks, Stopper
<1>11. /\ client' \in [Clients -> ClientStates]
       /\ \A c \in Clients :
            \/ client'[c] = f[c]
            \/ /\ c = t /\ rest = <<>>
               /\ client'[c] \in {"ready", "failed", "cancelled", "done"}
  <2>1. CASE rest = <<>>
    <3>1. client' = AfterUnload(f, t, x)
      BY <1>6, <2>1
    <3>2. ASSUME NEW c \in Clients, c = t
          PROVE  client'[c] \in {"ready", "failed", "cancelled", "done"}
      <4>1. f[c] \in {"unloading", "dying", "releasing"}
        BY <1>3, <1>4, <3>2 DEF Settles
      <4> QED
        BY <3>1, <3>2, <4>1 DEF AfterUnload
    <3>3. ASSUME NEW c \in Clients, c # t PROVE client'[c] = f[c]
      BY <3>1, <3>3 DEF AfterUnload
    <3>4. DOMAIN client' = Clients /\ client' = [c \in Clients |-> client'[c]]
      BY <3>1 DEF AfterUnload
    <3>5. \A c \in Clients : client'[c] \in ClientStates
      BY <1>3, <3>2, <3>3 DEF Settles, ClientStates
    <3> QED
      BY <2>1, <3>2, <3>3, <3>4, <3>5
  <2>2. CASE rest # <<>>
    BY <1>3, <1>6, <2>2 DEF Settles
  <2> QED
    BY <2>1, <2>2
<1>12. TypeOK'
  <2>1. stops' \in [Tasks -> Seq(Clients)]
    BY <1>1, <1>6, <1>9 DEF TypeOK
  <2>2. alive' \subseteq Clients
    BY <1>1, <1>7 DEF TypeOK
  <2> QED
    BY <1>1, <1>7, <1>11, <2>1, <2>2 DEF TypeOK
<1>13. TablesOK'
  BY <1>1, <1>7, <1>8 DEF TablesOK, OfItsModel
<1>14. LoadersOK' /\ UsersOK'
  <2>1. \A c \in Clients :
          /\ client'[c] = "loading" => client[c] = "loading"
          /\ client'[c] \in {"sharing", "woken", "holding"} =>
               client[c] \in {"sharing", "woken", "holding"}
    BY <1>3, <1>11 DEF Settles
  <2> QED
    BY <1>1, <1>7, <2>1 DEF LoadersOK, UsersOK
<1>15. StoppersOK'
  <2>1. ASSUME NEW c \in Clients, stops'[c] # <<>>
        PROVE  client'[c] \in {"unloading", "dying", "releasing"}
    <3>1. stops[c] # <<>> /\ ~(c = t /\ rest = <<>>)
      BY <1>1, <1>4, <1>6, <1>10, <2>1 DEF TypeOK
    <3>2. client'[c] = f[c]
      BY <1>11, <3>1
    <3> QED
      BY <1>3, <3>1, <3>2 DEF Settles
  <2> QED
    BY <2>1 DEF StoppersOK
<1>16. relisted' \/ Committed' <= Budget
  <2>1. PICK U : U = DOMAIN unloading'
    OBVIOUS
  <2>2. Bytes(DOMAIN loaded) + Bytes(DOMAIN loading) + Bytes(U) <= Committed
    BY <1>1, <1>8, <2>1, CommittedFalls
  <2>3. Committed' = Bytes(DOMAIN loaded) + Bytes(DOMAIN loading) + Bytes(U)
    BY <1>7, <2>1 DEF Committed
  <2>4. U \in SUBSET Models
    BY <1>1, <1>8, <2>1 DEF TablesOK, OfItsModel
  <2>5. Bytes(U) \in Nat
    BY <2>4, BytesNat
  <2> QED
    BY <1>1, <1>7, <2>2, <2>3, <2>5, CommittedNat, ModelManagerAssumptions
<1> QED
  BY <1>12, <1>13, <1>14, <1>15, <1>16 DEF ManagerInv

(* The reaper and shutdown() choose engines and notify those who wait. *)
LEMMA BackgroundUnload ==
  ASSUME ManagerInv, NEW es, Unloadable(es), NEW t \in {Reaper, Stopper}, BeginUnload(t, es),
         client' = Notified(client), preempting' \subseteq Clients,
         UNCHANGED <<policy, relisted, model, uses, loading, future, active, used, alive>>
  PROVE  ManagerInv'
<1>1. TypeOK /\ StoppersOK
  BY DEF ManagerInv
<1>2. t \in Tasks /\ t \notin Clients
  BY ModelManagerAssumptions DEF Reaper, Stopper, Tasks, Clients
<1>3. PICK f : f = Notified(client)
  OBVIOUS
<1>4. Settles(f)
  BY <1>1, <1>3, NotifiedSettles
<1>5. /\ active' \in [Clients -> Nat] /\ used' \in Seq(Clients) /\ Distinct(used')
      /\ uses' \in [Clients -> Clients \cup {NoLoad}]
  BY <1>1 DEF TypeOK
<1>6. \A c \in Clients : client'[c] = f[c] /\ uses'[c] = uses[c]
  BY <1>3
<1> QED
  BY <1>2, <1>3, <1>4, <1>5, <1>6, UnloadStep

LEMMA ManagerStep ==
  ASSUME ManagerInv, [Next]_vars
  PROVE  ManagerInv'
<1>1. /\ TypeOK /\ TablesOK /\ LoadersOK /\ UsersOK /\ StoppersOK
      /\ relisted \/ Committed <= Budget
  BY DEF ManagerInv
<1>2. Settles(client) /\ Settles(Notified(client))
  BY <1>1, NotifiedSettles
<1>3. ASSUME NEW c \in Clients, client[c] \notin {"unloading", "dying", "releasing"},
             NEW s \in {"ready", "failed", "inherited", "cancelled", "aborting"}
      PROVE  \A f : Settles(f) => Settles([f EXCEPT ![c] = s])
  <2>1. s \in ClientStates /\ s \notin {"loading", "sharing", "woken", "holding"}
    BY DEF ClientStates
  <2>2. stops[c] = <<>>
    BY <1>1, <1>3 DEF StoppersOK
  <2> QED
    BY <2>1, <2>2, OneSettles
<1>4. ASSUME NEW c \in Clients, Start(c) PROVE ManagerInv'
  <2>1. Settles(client')
    BY <1>2, <1>3, <1>4 DEF Start
  <2> QED
    BY <1>1, <1>4, <2>1, QuietStep DEF Start, engines, TypeOK
<1>5. ASSUME NEW c \in Clients, Timeout(c) PROVE ManagerInv'
  <2>1. Settles(client')
    BY <1>2, <1>3, <1>5 DEF Timeout
  <2> QED
    BY <1>1, <1>5, <2>1, QuietStep DEF Timeout, engines, TypeOK
<1>6. ASSUME NEW c \in Clients, ResumeFailed(c) PROVE ManagerInv'
  <2>1. PICK s \in {"failed", "inherited"} : client' = [client EXCEPT ![c] = s]
    BY <1>6 DEF ResumeFailed
  <2>2. client[c] = "woken"
    BY <1>6 DEF ResumeFailed
  <2>3. Settles(client')
    BY <1>2, <1>3, <2>1, <2>2
  <2> QED
    BY <1>1, <1>6, <2>3, QuietStep DEF ResumeFailed, engines, TypeOK
<1>7. ASSUME NEW c \in Clients, client[c] = "loading", NEW s \in {"failed", "aborting"}
      PROVE  LET f == Notified([SharersWoken(client, c) EXCEPT ![c] = s])
             IN  Settles(f) /\ f[c] # "loading"
  <2>1. PICK g : g = [SharersWoken(client, c) EXCEPT ![c] = s]
    OBVIOUS
  <2>2. Settles(g)
    BY <1>1, <1>3, <1>7, <2>1, SharersSettle
  <2>3. g[c] = s
    BY <2>1 DEF SharersWoken
  <2>4. Notified(g)[c] # "loading"
    BY <2>3 DEF Notified
  <2> QED
    BY <2>1, <2>2, <2>4, NotifySettled
<1>8. ASSUME NEW c \in Clients, LoadFails(c) PROVE ManagerInv'
  <2>1. client[c] = "loading" /\ Settles(client') /\ client'[c] # "loading"
    BY <1>7, <1>8 DEF LoadFails
  <2>2. future' \in [Clients -> Outcomes]
    BY <1>1, <1>8 DEF LoadFails, Resolve, TypeOK, Outcomes
  <2> QED
    BY <1>8, <2>1, <2>2, LoadOverStep DEF LoadFails
<1>9. ASSUME NEW c \in Clients, LoadEndsTooLate(c) PROVE ManagerInv'
  <2>1. client[c] = "loading" /\ Settles(client') /\ client'[c] # "loading"
    BY <1>7, <1>9 DEF LoadEndsTooLate
  <2>2. future' \in [Clients -> Outcomes]
    BY <1>1, <1>9 DEF LoadEndsTooLate, Resolve, TypeOK, Outcomes
  <2> QED
    BY <1>9, <2>1, <2>2, LoadOverStep DEF LoadEndsTooLate, engines
<1>10. ASSUME Settles(client'), future' \in [Clients -> Outcomes], alive' \subseteq alive,
              UNCHANGED <<policy, model, uses, tables, active, preempting, used, stops, relisted>>
       PROVE  ManagerInv'
  <2>1. TypeOK'
    BY <1>1, <1>10 DEF TypeOK, Settles
  <2>2. TablesOK'
    BY <1>1, <1>10 DEF TablesOK, OfItsModel, tables
  <2>3. LoadersOK' /\ UsersOK' /\ StoppersOK'
    BY <1>1, <1>10 DEF Settles, LoadersOK, UsersOK, StoppersOK, tables
  <2>4. relisted' \/ Committed' <= Budget
    BY <1>1, <1>10 DEF Committed, tables
  <2> QED
    BY <2>1, <2>2, <2>3, <2>4 DEF ManagerInv
<1>11. ASSUME NEW c \in Clients, LoadAborted(c) PROVE ManagerInv'
  <2>1. Settles(client')
    BY <1>2, <1>3, <1>11 DEF LoadAborted
  <2> QED
    BY <1>1, <1>10, <1>11, <2>1 DEF LoadAborted, TypeOK
<1>12. ASSUME NEW c \in Clients, Cancel(c) PROVE ManagerInv'
  <2>1. Settles(client')
    <3>1. CASE client[c] \in {"ready", "waiting", "woken", "loading", "aborting"}
      BY <1>2, <1>3, <1>12, <3>1 DEF Cancel
    <3>2. CASE client[c] = "sharing"
      <4>1. PICK l, g : l = uses[c] /\ g = [client EXCEPT ![c] = "cancelled"]
        OBVIOUS
      <4>2. Settles(g)
        BY <1>2, <1>3, <3>2, <4>1
      <4>3. client' = SharersWoken(g, l)
        BY <1>12, <3>2, <4>1 DEF Cancel
      <4> QED
        BY <4>2, <4>3 DEF SharersWoken, Settles, ClientStates
    <3>3. CASE client[c] = "unloading"
      <4>1. "dying" \in ClientStates
        BY DEF ClientStates
      <4> QED
        BY <1>2, <1>12, <3>3, <4>1, OneSettles DEF Cancel
    <3> QED
      BY <1>12, <3>1, <3>2, <3>3 DEF Cancel
  <2>2. future' \in [Clients -> Outcomes] /\ alive' \subseteq alive
    BY <1>1, <1>12 DEF Cancel, Resolve, TypeOK, Outcomes
  <2>3. UNCHANGED <<policy, model, uses, tables, active, preempting, used, stops, relisted>>
    BY <1>12 DEF Cancel
  <2> QED
    BY <1>10, <2>1, <2>2, <2>3
<1>13. ASSUME UnloadIdle PROVE ManagerInv'
  <2>1. PICK es, n : /\ es = Candidates(Models, FALSE) /\ n \in 1 .. Len(es)
                     /\ BeginUnload(Reaper, SubSeq(es, 1, n))
    BY <1>13 DEF UnloadIdle
  <2>2. Unloadable(es)
    BY <1>1, <2>1, CandidatesFacts
  <2>3. n \in 0 .. Len(es)
    <3>1. es \in Seq(Clients)
      BY <2>2 DEF Unloadable
    <3>2. PICK k : k = Len(es)
      OBVIOUS
    <3>3. k \in Nat
      BY <3>1, <3>2
    <3>4. n \in 1 .. k
      BY <2>1, <3>2
    <3>5. n \in 0 .. k
      BY <3>3, <3>4
    <3> QED
      BY <3>2, <3>5
  <2>4. Unloadable(SubSeq(es, 1, n))
    BY <2>2, <2>3, UnloadableSlice
  <2>5. /\ client' = Notified(client) /\ preempting' \subseteq Clients
        /\ UNCHANGED <<policy, relisted, model, uses, loading, future, active, used, alive>>
    BY <1>1, <1>13 DEF UnloadIdle, engines, TypeOK
  <2> QED
    BY <2>1, <2>4, <2>5, BackgroundUnload
<1>14. Unloadable(Candidates(Models, FALSE))
  BY <1>1, CandidatesFacts
<1>15. ASSUME ShutdownBegins PROVE ManagerInv'
  <2>1. preempting' \subseteq Clients
    BY <1>1, <1>15 DEF ShutdownBegins, TypeOK, TablesOK, OfItsModel
  <2> QED
    BY <1>14, <1>15, <2>1, BackgroundUnload DEF ShutdownBegins
<1>16. ASSUME ShutdownResumes PROVE ManagerInv'
  <2>1. /\ client' = Notified(client) /\ preempting' \subseteq Clients
        /\ UNCHANGED <<policy, relisted, model, uses, loading, future, active, used, alive>>
    BY <1>1, <1>16 DEF ShutdownResumes, engines, TypeOK
  <2> QED
    BY <1>14, <1>16, <2>1, BackgroundUnload DEF ShutdownResumes
<1>17. ASSUME ShutdownEnds PROVE ManagerInv'
  BY <1>1, <1>2, <1>17, QuietStep DEF ShutdownEnds, engines, TypeOK
<1>18. CASE UNCHANGED vars
  BY <1>1, <1>2, <1>18, QuietStep DEF vars, engines, TypeOK
<1>19. ASSUME NEW c \in Clients, ClientStep(c) PROVE ManagerInv'
  BY <1>6, <1>9, <1>11, <1>19, AcquireStep, LoadEndsStep, ResumeLoadedStep, ReleaseStep,
     ReleaseUnknownStep DEF ClientStep
<1> QED
  BY <1>4, <1>5, <1>8, <1>12, <1>13, <1>15, <1>16, <1>17, <1>18, <1>19, StopStep
     DEF Next, Progress, Environment, ShutdownStep

LEMMA ManagerStart ==
  ASSUME Init
  PROVE  ManagerInv
<1>1. TypeOK
  <2>1. policy \in Policies /\ model \in [Clients -> Models]
    BY ModelManagerAssumptions DEF Init, Clients
  <2>2. <<>> \in Seq(Clients) /\ Distinct(<<>>)
    BY DEF Distinct
  <2> QED
    BY <2>1, <2>2 DEF Init, TypeOK, ClientStates, Outcomes, NoLoad
<1>2. TablesOK
  BY DEF Init, TablesOK, OfItsModel, Empty
<1>3. LoadersOK /\ UsersOK /\ StoppersOK
  <2>1. \A c \in Clients : c \in Tasks
    BY ModelManagerAssumptions DEF Clients, Tasks, Stopper
  <2> QED
    BY <2>1 DEF Init, LoadersOK, UsersOK, StoppersOK
<1>4. Committed <= Budget
  <2>1. DOMAIN loaded = {} /\ DOMAIN loading = {} /\ DOMAIN unloading = {}
    BY DEF Init, Empty
  <2> QED
    BY <2>1, TotalEmpty, ModelManagerAssumptions DEF Committed, Bytes
<1> QED
  BY <1>1, <1>2, <1>3, <1>4 DEF ManagerInv

LEMMA ManagerInvariant == Spec => []ManagerInv
<1>1. Init => ManagerInv
  BY ManagerStart
<1>2. ManagerInv /\ [Next]_vars => ManagerInv'
  BY ManagerStep
<1> QED
  BY <1>1, <1>2, PTL DEF Spec

----------------------------------------------------------------------------
(* Without preemption.                                                      *)

Unloaded == {"new", "ready", "waiting", "unloading", "sharing", "woken"}

(* No model is in two tables. *)
Apart ==
  /\ DOMAIN loaded \cap DOMAIN loading = {}
  /\ DOMAIN loaded \cap DOMAIN unloading = {}
  /\ DOMAIN loading \cap DOMAIN unloading = {}

(* Who has not loaded anything yet has no future; a sharer that was woken with an *)
(* engine finds the engine in use.                                                *)
FuturesOK ==
  \A c \in Clients :
    /\ client[c] \in Unloaded => future[c] = "none"
    /\ client[c] = "sharing" => future[uses[c]] = "pending"
    /\ client[c] = "woken" => future[uses[c]] \notin {"none", "pending"}
    /\ client[c] = "woken" /\ future[uses[c]] = "done" => Holders(uses[c]) # {}

(* A loaded engine exists, and so does one that is being loaded. *)
EnginesOK ==
  /\ \A m \in DOMAIN loaded : loaded[m] \in alive
  /\ \A c \in Clients : client[c] = "loading" => c \in alive
  /\ \A c \in Clients : client[c] = "aborting" => \A m \in DOMAIN loaded : loaded[m] # c

(* Until shutdown() begins, every engine that exists is in a table. *)
Listed(e) ==
  \/ model[e] \in DOMAIN loaded /\ loaded[model[e]] = e
  \/ model[e] \in DOMAIN loading /\ loading[model[e]] = e
  \/ model[e] \in DOMAIN unloading /\ unloading[model[e]] = e
Covered == shutdown = "no" => \A e \in alive : Listed(e)

(* Every engine that is to be stopped is in _unloading, and stopped once. *)
StopsOK ==
  /\ \A t \in Tasks : Distinct(stops[t])
  /\ \A t \in Tasks : \A e \in ToSet(stops[t]) :
       model[e] \in DOMAIN unloading /\ unloading[model[e]] = e
  /\ \A t, u \in Tasks : t # u => ToSet(stops[t]) \cap ToSet(stops[u]) = {}

HoldersListed ==
  \A c \in Clients :
    client[c] = "holding" => model[c] \in DOMAIN loaded /\ loaded[model[c]] = uses[c]
LeasesCounted == \A e \in Clients : active[e] = Cardinality(Holders(e))

SizeOf == [e \in Clients |-> Size[model[e]]]

LeaseInv ==
  /\ shutdown = "no" => preempting = {}
  /\ ~relisted /\ Apart /\ FuturesOK /\ EnginesOK /\ Covered /\ StopsOK
  /\ HoldersListed /\ LeasesCounted

(* What exists is committed. *)
LEMMA ListedFit ==
  ManagerInv /\ Apart /\ (\A e \in alive : Listed(e)) => Total(alive, SizeOf) <= Committed
<1> SUFFICES ASSUME ManagerInv, Apart, \A e \in alive : Listed(e)
             PROVE  Total(alive, SizeOf) <= Committed
  OBVIOUS
<1>1. TypeOK /\ TablesOK
  BY DEF ManagerInv
<1>2. IsFiniteSet(alive)
  <2>1. IsFiniteSet(Clients)
    BY ModelManagerAssumptions, FS_Interval DEF Clients
  <2> QED
    BY <1>1, <2>1, FS_Subset DEF TypeOK
<1>3. \A d, e \in alive : model[d] = model[e] => d = e
  BY DEF Apart, Listed
<1>4. \A e \in alive : SizeOf[e] \in Nat /\ SizeOf[e] = Size[model[e]]
  BY <1>1, ModelManagerAssumptions DEF TypeOK, SizeOf
<1>5. PICK ms : ms = {model[e] : e \in alive}
  OBVIOUS
<1>6. Total(alive, SizeOf) = Bytes(ms)
  BY <1>2, <1>3, <1>4, <1>5, TotalImage DEF Bytes
<1>7. PICK L, D, U : L = DOMAIN loaded /\ D = DOMAIN loading /\ U = DOMAIN unloading
  OBVIOUS
<1>8. L \in SUBSET Models /\ D \in SUBSET Models /\ U \in SUBSET Models
  BY <1>1, <1>7 DEF TablesOK, OfItsModel
<1>9. ms \in SUBSET (L \cup (D \cup U))
  BY <1>5, <1>7 DEF Listed
<1>10. Bytes(ms) <= Bytes(L \cup (D \cup U))
  BY <1>8, <1>9, BytesSubset
<1>11. Bytes(L \cup (D \cup U)) <= Bytes(L) + Bytes(D \cup U)
  BY <1>8, BytesUnion
<1>12. Bytes(D \cup U) <= Bytes(D) + Bytes(U)
  BY <1>8, BytesUnion
<1>13. /\ Bytes(L) \in Nat /\ Bytes(D) \in Nat /\ Bytes(U) \in Nat /\ Bytes(D \cup U) \in Nat
       /\ Bytes(L \cup (D \cup U)) \in Nat /\ Bytes(ms) \in Nat
  BY <1>8, <1>9, BytesNat
<1>14. Committed = Bytes(L) + Bytes(D) + Bytes(U)
  BY <1>7 DEF Committed
<1> QED
  BY <1>6, <1>10, <1>11, <1>12, <1>13, <1>14

LEMMA HoldersFinite ==
  ASSUME NEW e
  PROVE  IsFiniteSet(Holders(e)) /\ Cardinality(Holders(e)) \in Nat
<1>1. IsFiniteSet(Clients)
  BY ModelManagerAssumptions, FS_Interval DEF Clients
<1>2. Holders(e) \in SUBSET Clients
  BY DEF Holders
<1> QED
  BY <1>1, <1>2, FS_Subset, FS_CardinalityType

(* Nobody moves to where it could have a lease, a load or a future. *)
Calms(f) ==
  \A c \in Clients :
    /\ f[c] = "holding" <=> client[c] = "holding"
    /\ \A s \in {"loading", "aborting", "sharing", "woken"} : f[c] = s => client[c] = s
    /\ f[c] \in Unloaded => client[c] \in Unloaded

LEMMA NotifiedCalms ==
  ASSUME NEW f, Calms(f)
  PROVE  Calms(Notified(f))
<1>1. ASSUME NEW c \in Clients PROVE Notified(f)[c] = IF f[c] = "waiting" THEN "ready" ELSE f[c]
  BY DEF Notified
<1> QED
  BY <1>1 DEF Calms, Unloaded

LEMMA OneCalms ==
  ASSUME TypeOK, NEW c \in Clients, client[c] # "holding",
         NEW s \in {"ready", "waiting", "failed", "inherited", "cancelled", "unloading",
                    "dying", "releasing", "done"},
         s \in Unloaded => client[c] \in Unloaded
  PROVE  Calms([client EXCEPT ![c] = s])
BY DEF Calms, TypeOK

LEMMA SameHolders ==
  ASSUME \A c \in Clients :
           /\ client'[c] = "holding" <=> client[c] = "holding"
           /\ client[c] = "holding" => uses'[c] = uses[c]
  PROVE  \A e : Holders(e)' = Holders(e)
BY DEF Holders

LEMMA FuturesCalm ==
  ASSUME FuturesOK, Calms(client'), future' = future,
         \A c \in Clients : client'[c] \in {"sharing", "woken", "holding"} => uses'[c] = uses[c]
  PROVE  FuturesOK'
<1>1. \A c \in Clients :
        /\ client'[c] = "holding" <=> client[c] = "holding"
        /\ client[c] = "holding" => uses'[c] = uses[c]
  BY DEF Calms
<1>2. \A e : Holders(e)' = Holders(e)
  BY <1>1, SameHolders
<1>3. ASSUME NEW c \in Clients
      PROVE  /\ client'[c] \in Unloaded => future'[c] = "none"
             /\ client'[c] = "sharing" => future'[uses'[c]] = "pending"
             /\ client'[c] = "woken" => future'[uses'[c]] \notin {"none", "pending"}
  BY DEF FuturesOK, Calms
<1>4. ASSUME NEW c \in Clients, client'[c] = "woken", future'[uses'[c]] = "done"
      PROVE  Holders(uses[c])' # {} /\ uses'[c] = uses[c]
  <2>1. client[c] = "woken" /\ uses'[c] = uses[c]
    BY <1>4 DEF Calms
  <2>2. Holders(uses[c]) # {}
    BY <1>4, <2>1 DEF FuturesOK
  <2> QED
    BY <1>2, <2>1, <2>2
<1> QED
  BY <1>3, <1>4 DEF FuturesOK

(* The future of l is resolved, and its sharers are woken. *)
LEMMA FuturesResolved ==
  ASSUME FuturesOK, NEW l \in Clients, NEW outcome \in {"done", "error", "cancelled"},
         TypeOK, Resolve(l, outcome),
         \A c \in Clients : client'[c] \in {"sharing", "woken"} => uses'[c] = uses[c],
         \A c \in Clients : client'[c] \in Unloaded => client[c] \in Unloaded,
         \A c \in Clients : client'[c] = "sharing" => client[c] = "sharing" /\ uses[c] # l,
         \A c \in Clients : client'[c] = "woken" =>
                              client[c] = "woken" \/ (client[c] = "sharing" /\ uses[c] = l),
         \A e \in Clients : Holders(e) # {} => Holders(e)' # {},
         outcome = "done" => Holders(l)' # {}, UsersOK
  PROVE  FuturesOK'
<1>1. \A c \in Clients : future'[c] = IF c = l /\ future[c] = "pending" THEN outcome ELSE future[c]
  BY DEF Resolve, TypeOK
<1>2. \A c \in Clients : client[c] \in {"sharing", "woken"} => uses[c] \in Clients
  BY DEF UsersOK
<1>3. ASSUME NEW c \in Clients, client'[c] \in Unloaded PROVE future'[c] = "none"
  BY <1>1, <1>3 DEF FuturesOK
<1>4. ASSUME NEW c \in Clients, client'[c] = "sharing" PROVE future'[uses'[c]] = "pending"
  BY <1>1, <1>2, <1>4 DEF FuturesOK
<1>5. ASSUME NEW c \in Clients, client'[c] = "woken"
      PROVE  /\ future'[uses'[c]] \notin {"none", "pending"}
             /\ future'[uses'[c]] = "done" => Holders(uses[c])' # {} /\ uses'[c] = uses[c]
  <2>1. uses'[c] = uses[c]
    BY <1>5
  <2>2. CASE client[c] = "woken"
    <3>1. uses[c] \in Clients /\ future[uses[c]] \notin {"none", "pending"}
      BY <1>2, <2>2 DEF FuturesOK
    <3>2. future'[uses[c]] = future[uses[c]]
      BY <1>1, <3>1
    <3>3. future[uses[c]] = "done" => Holders(uses[c]) # {}
      BY <2>2 DEF FuturesOK
    <3> QED
      BY <2>1, <3>1, <3>2, <3>3
  <2>3. CASE client[c] = "sharing" /\ uses[c] = l
    <3>1. future'[uses[c]] = outcome
      BY <1>1, <2>3 DEF FuturesOK
    <3> QED
      BY <2>1, <2>3, <3>1
  <2> QED
    BY <1>5, <2>2, <2>3
<1> QED
  BY <1>3, <1>4, <1>5 DEF FuturesOK

(* Only who waits, or asks, is moved: no table and no engine is touched. *)
LEMMA QuietLease ==
  ASSUME TypeOK, TypeOK', LeaseInv, Calms(client'), shutdown' = "no" => shutdown = "no",
         UNCHANGED <<model, uses, tables, future, engines, stops, relisted>>
  PROVE  LeaseInv'
<1>1. \A c \in Clients :
        /\ client'[c] = "holding" <=> client[c] = "holding"
        /\ client[c] = "holding" => uses'[c] = uses[c]
  BY DEF Calms
<1>2. FuturesOK'
  BY FuturesCalm DEF LeaseInv
<1>3. EnginesOK'
  BY DEF LeaseInv, EnginesOK, Calms, tables, engines
<1>4. Apart' /\ StopsOK' /\ Covered'
  BY DEF LeaseInv, Apart, StopsOK, Covered, Listed, tables, engines
<1>5. HoldersListed'
  BY <1>1 DEF LeaseInv, HoldersListed, tables
<1>6. LeasesCounted'
  <2>1. \A e : Holders(e)' = Holders(e)
    BY <1>1, SameHolders
  <2> QED
    BY <2>1 DEF LeaseInv, LeasesCounted, engines
<1> QED
  BY <1>2, <1>3, <1>4, <1>5, <1>6 DEF LeaseInv, engines

(* Idle engines are chosen for unloading, or one whose last lease ends. *)
LEMMA UnloadLease ==
  ASSUME ManagerInv, LeaseInv, NEW es, Unloadable(es), NEW t \in Tasks, BeginUnload(t, es),
         NEW f, Calms(f),
         \A c \in Clients :
           client'[c] = f[c] \/ (c = t /\ client'[c] \in {"unloading", "releasing"}),
         t \in Clients => client[t] = "ready" \/ client'[t] = "releasing",
         \A c \in Clients : client'[c] = "holding" => uses'[c] = uses[c],
         \A c \in Clients : client'[c] \in {"sharing", "woken"} => uses'[c] = uses[c],
         \A e \in Clients : Holders(e)' = Holders(e) \/ Holders(e)' = Holders(e) \ {t},
         \A e \in ToSet(es) : Holders(e)' = {},
         \A c \in Clients : client'[c] = "woken" /\ future[uses[c]] = "done" =>
                              Holders(uses[c])' # {},
         UNCHANGED <<model, loading, future, alive, relisted>>,
         shutdown' = "no" => shutdown = "no" /\ preempting' = preempting,
         LeasesCounted'
  PROVE  LeaseInv'
<1>1. TypeOK /\ TablesOK /\ LoadersOK /\ UsersOK
  BY DEF ManagerInv
<1>2. PICK X : X = ModelsOf(es)
  OBVIOUS
<1>3. Moved(t, es)
  BY <1>1, BeginUnloadFacts
<1>4. /\ X \subseteq DOMAIN loaded
      /\ DOMAIN loaded' = DOMAIN loaded \ X
      /\ \A m \in DOMAIN loaded' : loaded'[m] = loaded[m]
      /\ DOMAIN unloading' = DOMAIN unloading \cup X
      /\ \A m \in DOMAIN unloading' :
           unloading'[m] = IF m \in X THEN loaded[m] ELSE unloading[m]
      /\ \A u \in Tasks : stops'[u] = IF u = t THEN es ELSE stops[u]
  BY <1>2, <1>3 DEF Moved
<1>5. \A m : m \in X <=> \E e \in ToSet(es) : m = model[e]
  BY <1>2 DEF ModelsOf, ToSet
<1>6. \A c \in Clients :
        /\ client'[c] = "holding" => client[c] = "holding"
        /\ client'[c] \in Unloaded => client[c] \in Unloaded
        /\ \A s \in {"loading", "aborting", "sharing", "woken"} : client'[c] = s => client[c] = s
  BY DEF Calms, Unloaded
<1>7. Apart'
  BY <1>4 DEF LeaseInv, Apart
<1>8. FuturesOK'
  <2>1. ASSUME NEW c \in Clients
        PROVE  /\ client'[c] \in Unloaded => future'[c] = "none"
               /\ client'[c] = "sharing" => future'[uses'[c]] = "pending"
               /\ client'[c] = "woken" => future'[uses'[c]] \notin {"none", "pending"}
    BY <1>6 DEF LeaseInv, FuturesOK
  <2>2. ASSUME NEW c \in Clients, client'[c] = "woken", future'[uses'[c]] = "done"
        PROVE  Holders(uses[c])' # {} /\ uses'[c] = uses[c]
    BY <2>2
  <2> QED
    BY <2>1, <2>2 DEF FuturesOK
<1>9. EnginesOK'
  BY <1>4, <1>6 DEF LeaseInv, EnginesOK
<1>10. Covered'
  <2>1. ASSUME shutdown' = "no", NEW e \in alive PROVE Listed(e)'
    <3>1. Listed(e)
      BY <2>1 DEF LeaseInv, Covered
    <3> QED
      BY <1>4, <3>1 DEF LeaseInv, Apart, Listed
  <2> QED
    BY <2>1 DEF Covered
<1>11. StopsOK'
  <2>1. \A u \in Tasks : Distinct(stops[u])
    BY DEF LeaseInv, StopsOK
  <2>2. \A u \in Tasks : Distinct(stops'[u])
    BY <1>4, <2>1 DEF Unloadable
  <2>3. ASSUME NEW u \in Tasks, NEW e \in ToSet(stops'[u])
        PROVE  model[e] \in DOMAIN unloading' /\ unloading'[model[e]] = e
    <3>1. CASE u = t
      BY <1>4, <1>5, <2>3, <3>1 DEF Unloadable
    <3>2. CASE u # t
      <4>1. model[e] \in DOMAIN unloading /\ unloading[model[e]] = e
        BY <1>4, <2>3, <3>2 DEF LeaseInv, StopsOK
      <4> QED
        BY <1>4, <4>1 DEF LeaseInv, Apart
    <3> QED
      BY <3>1, <3>2
  <2>4. ASSUME NEW u \in Tasks, u # t PROVE ToSet(stops'[u]) \cap ToSet(es) = {}
    <3>1. ASSUME NEW e \in ToSet(stops'[u]) PROVE e \notin ToSet(es)
      <4>1. model[e] \in DOMAIN unloading
        BY <1>4, <2>4, <3>1 DEF LeaseInv, StopsOK
      <4> QED
        BY <4>1 DEF LeaseInv, Apart, Unloadable
    <3> QED
      BY <3>1
  <2>5. ASSUME NEW u \in Tasks, NEW v \in Tasks, u # v
        PROVE  ToSet(stops'[u]) \cap ToSet(stops'[v]) = {}
    <3>1. CASE u = t
      BY <1>4, <2>4, <2>5, <3>1
    <3>2. CASE v = t
      BY <1>4, <2>4, <2>5, <3>2
    <3>3. CASE u # t /\ v # t
      BY <1>4, <2>5, <3>3 DEF LeaseInv, StopsOK
    <3> QED
      BY <3>1, <3>2, <3>3
  <2> QED
    BY <2>2, <2>3, <2>5 DEF StopsOK
<1>12. HoldersListed'
  <2>1. ASSUME NEW c \in Clients, client'[c] = "holding"
        PROVE  model[c] \in DOMAIN loaded' /\ loaded'[model[c]] = uses'[c]
    <3>1. /\ client[c] = "holding" /\ uses'[c] = uses[c]
          /\ model[c] \in DOMAIN loaded /\ loaded[model[c]] = uses[c]
      BY <1>6, <2>1 DEF LeaseInv, HoldersListed
    <3>2. PICK e : e = uses[c]
      OBVIOUS
    <3>3. uses[c] \notin ToSet(es)
      <4>1. c \in Holders(e)'
        BY <2>1, <3>1, <3>2 DEF Holders
      <4> QED
        BY <3>2, <4>1
    <3>4. model[c] \notin X
      BY <1>5, <3>1, <3>3 DEF Unloadable
    <3> QED
      BY <1>4, <3>1, <3>4
  <2> QED
    BY <2>1 DEF HoldersListed
<1> QED
  BY <1>7, <1>8, <1>9, <1>10, <1>11, <1>12 DEF LeaseInv

LEMMA IdleUnheld ==
  ASSUME TypeOK, LeasesCounted, NEW e \in Clients, ~(active[e] > 0)
  PROVE  Holders(e) = {}
<1>1. active[e] = 0 /\ active[e] = Cardinality(Holders(e))
  BY DEF TypeOK, LeasesCounted
<1> QED
  BY <1>1, HoldersFinite, FS_EmptySet

(* Idle engines are chosen: nobody's lease is touched. *)
LEMMA IdleUnloadLease ==
  ASSUME ManagerInv, LeaseInv, NEW es, Unloadable(es),
         \A e \in ToSet(es) : ~(active[e] > 0),
         NEW t \in Tasks, BeginUnload(t, es), NEW f, Calms(f),
         \A c \in Clients :
           client'[c] = f[c] \/ (c = t /\ client[c] = "ready" /\ client'[c] = "unloading"),
         t \in Clients => client[t] = "ready",
         UNCHANGED <<model, uses, loading, future, active, alive, relisted>>,
         shutdown' = "no" => shutdown = "no" /\ preempting' = preempting
  PROVE  LeaseInv'
<1>1. TypeOK
  BY DEF ManagerInv
<1>2. \A c \in Clients :
        /\ client'[c] = "holding" <=> client[c] = "holding"
        /\ client[c] = "holding" => uses'[c] = uses[c]
  BY DEF Calms
<1>3. \A e : Holders(e)' = Holders(e)
  BY <1>2, SameHolders
<1>4. ASSUME NEW e \in ToSet(es) PROVE Holders(e)' = {}
  <2>1. e \in Clients
    BY DEF Unloadable, ToSet
  <2> QED
    BY <1>1, <1>3, <1>4, <2>1, IdleUnheld DEF LeaseInv
<1>5. LeasesCounted'
  BY <1>3 DEF LeaseInv, LeasesCounted
<1>6. ASSUME NEW c \in Clients, client'[c] = "woken", future[uses[c]] = "done"
      PROVE  Holders(uses[c])' # {}
  <2>1. client[c] = "woken"
    BY <1>6 DEF Calms
  <2>2. Holders(uses[c]) # {}
    BY <1>6, <2>1 DEF LeaseInv, FuturesOK
  <2> QED
    BY <1>3, <2>2
<1> QED
  BY <1>3, <1>4, <1>5, <1>6, UnloadLease

(* A lease is given and counted. *)
LEMMA ClaimCounts ==
  ASSUME TypeOK, LeasesCounted, NEW c \in Clients, client[c] # "holding", NEW e \in Clients,
         NEW f, Calms(f), \A d \in Clients : client'[d] = IF d = c THEN "holding" ELSE f[d],
         uses' = [uses EXCEPT ![c] = e], active' = [active EXCEPT ![e] = @ + 1]
  PROVE  /\ LeasesCounted' /\ c \in Holders(e)'
         /\ \A x : Holders(x) \subseteq Holders(x)'
<1>1. \A d \in Clients : uses'[d] = IF d = c THEN e ELSE uses[d]
  BY DEF TypeOK
<1>2. Holders(e)' = Holders(e) \cup {c} /\ c \notin Holders(e)
  BY <1>1 DEF Holders, Calms
<1>3. ASSUME NEW x, x # e PROVE Holders(x)' = Holders(x)
  BY <1>1, <1>3 DEF Holders, Calms
<1>4. Cardinality(Holders(e) \cup {c}) = Cardinality(Holders(e)) + 1
  BY <1>2, HoldersFinite, FS_AddElement
<1>5. ASSUME NEW x \in Clients PROVE active'[x] = Cardinality(Holders(x)')
  <2>1. active[x] = Cardinality(Holders(x))
    BY DEF LeasesCounted
  <2>2. active'[x] = IF x = e THEN active[x] + 1 ELSE active[x]
    BY DEF TypeOK
  <2> QED
    BY <1>2, <1>3, <1>4, <2>1, <2>2
<1>6. LeasesCounted'
  BY <1>5 DEF LeasesCounted
<1> QED
  BY <1>2, <1>3, <1>6

(* A lease of the engine that is loaded. *)
LEMMA ClaimLease ==
  ASSUME ManagerInv, LeaseInv, NEW c \in Clients, client[c] \in {"ready", "woken"},
         model[c] \in DOMAIN loaded, Claim(c, loaded[model[c]], client),
         UNCHANGED <<model, tables, future, preempting, alive, stops, shutdown, relisted>>
  PROVE  LeaseInv'
<1>1. TypeOK /\ TablesOK
  BY DEF ManagerInv
<1>2. PICK e : e = loaded[model[c]]
  OBVIOUS
<1>3. /\ client' = [client EXCEPT ![c] = "holding"] /\ uses' = [uses EXCEPT ![c] = e]
      /\ active' = [active EXCEPT ![e] = @ + 1]
  BY <1>2 DEF Claim
<1>4. e \in Clients
  BY <1>1, <1>2, <1>3 DEF TablesOK, OfItsModel
<1>5. Calms(client)
  BY DEF Calms
<1>6. \A d \in Clients : /\ client'[d] = IF d = c THEN "holding" ELSE client[d]
                         /\ uses'[d] = IF d = c THEN e ELSE uses[d]
  BY <1>1, <1>3 DEF TypeOK
<1>7. LeasesCounted' /\ \A x : Holders(x) \subseteq Holders(x)'
  BY <1>1, <1>3, <1>4, <1>5, <1>6, ClaimCounts DEF LeaseInv
<1>8. FuturesOK'
  <2>1. ASSUME NEW d \in Clients
        PROVE  /\ client'[d] \in Unloaded => future'[d] = "none"
               /\ client'[d] = "sharing" => future'[uses'[d]] = "pending"
               /\ client'[d] = "woken" => future'[uses'[d]] \notin {"none", "pending"}
    BY <1>3, <1>6 DEF LeaseInv, FuturesOK, Unloaded
  <2>2. ASSUME NEW d \in Clients, client'[d] = "woken", future'[uses'[d]] = "done"
        PROVE  Holders(uses[d])' # {}
    <3>1. client[d] = "woken" /\ uses'[d] = uses[d] /\ future[uses[d]] = "done"
      BY <1>3, <1>6, <2>2
    <3>2. PICK x : x = uses[d] /\ Holders(x) # {}
      BY <3>1 DEF LeaseInv, FuturesOK
    <3>3. Holders(x)' # {}
      BY <1>7, <3>2
    <3> QED
      BY <3>1, <3>2, <3>3
  <2> QED
    BY <2>1, <2>2 DEF FuturesOK
<1>9. Apart' /\ StopsOK' /\ Covered'
  BY <1>3 DEF LeaseInv, Apart, StopsOK, Covered, Listed, tables
<1>10. EnginesOK'
  BY <1>3, <1>6 DEF LeaseInv, EnginesOK, tables
<1>11. HoldersListed'
  BY <1>2, <1>3, <1>6 DEF LeaseInv, HoldersListed, tables
<1> QED
  BY <1>3, <1>7, <1>8, <1>9, <1>10, <1>11 DEF LeaseInv

LEMMA AcquireLease ==
  ASSUME ManagerInv, ManagerInv', LeaseInv, ~Preemptive, NEW c \in Clients, Acquire(c)
  PROVE  LeaseInv'
<1>1. /\ TypeOK /\ TablesOK /\ TypeOK' /\ TablesOK'
  BY DEF ManagerInv
<1>2. ASSUME client[c] = "ready", NEW s \in {"failed", "waiting"}
      PROVE  Calms([client EXCEPT ![c] = s])
  BY <1>1, <1>2, OneCalms DEF Unloaded
<1>3. CASE AcquireRefused(c)
  <2>1. Calms(client')
    BY <1>2, <1>3 DEF AcquireRefused
  <2> QED
    BY <1>1, <1>3, <2>1, QuietLease DEF AcquireRefused
<1>4. CASE AcquireAfterUnload(c)
  <2>1. Calms(client')
    BY <1>2, <1>4 DEF AcquireAfterUnload, Open
  <2> QED
    BY <1>1, <1>4, <2>1, QuietLease DEF AcquireAfterUnload
<1>5. CASE AcquireFails(c)
  <2>1. Calms(client')
    BY <1>2, <1>5 DEF AcquireFails, Blocked, NeedsRoom, Open
  <2> QED
    BY <1>1, <1>5, <2>1, QuietLease DEF AcquireFails
<1>6. CASE AcquireWaits(c)
  <2>1. Calms(client')
    BY <1>2, <1>6 DEF AcquireWaits, Blocked, NeedsRoom, Open
  <2> QED
    BY <1>1, <1>6, <2>1, QuietLease DEF AcquireWaits
<1>7. CASE AcquirePreempts(c)
  BY <1>7 DEF AcquirePreempts, Preemptive
<1>8. CASE AcquireEvicts(c)
  <2>1. PICK cs, es : cs = Candidates(Others(model[c]), FALSE) /\ es = MakingRoom(cs, model[c])
    OBVIOUS
  <2>2. Unloadable(cs) /\ \A e \in ToSet(cs) : ~(active[e] > 0)
    BY <1>1, <2>1, CandidatesFacts
  <2>3. Unloadable(es) /\ \A e \in ToSet(es) : ~(active[e] > 0)
    BY <2>1, <2>2, MakingRoomFacts
  <2>4. client' = [client EXCEPT ![c] = "unloading"] /\ BeginUnload(c, es) /\ client[c] = "ready"
    BY <1>8, <2>1 DEF AcquireEvicts, NeedsRoom, Open, Evictions
  <2>5. UNCHANGED <<policy, relisted, model, uses, loading, future, engines, shutdown>>
    BY <1>8 DEF AcquireEvicts
  <2>6. c \in Tasks
    BY ModelManagerAssumptions DEF Clients, Tasks, Stopper
  <2>7. /\ Calms(client) /\ \A d \in Clients : client'[d] = client[d]
             \/ (d = c /\ client[d] = "ready" /\ client'[d] = "unloading")
    BY <1>1, <2>4 DEF Calms, TypeOK
  <2>8. UNCHANGED <<model, uses, loading, future, active, alive, relisted, preempting, shutdown>>
    BY <2>5 DEF engines
  <2> QED
    BY <2>3, <2>4, <2>6, <2>7, <2>8, IdleUnloadLease
<1>9. CASE AcquireShared(c)
  <2>1. PICK l : l = loading[model[c]]
    OBVIOUS
  <2>2. /\ client[c] = "ready" /\ uses' = [uses EXCEPT ![c] = l]
        /\ client' = [client EXCEPT ![c] =
             IF future[l] = "pending" THEN "sharing" ELSE "inherited"]
        /\ UNCHANGED <<policy, relisted, model, tables, future, engines, stops, shutdown>>
    BY <1>9, <2>1 DEF AcquireShared, Open
  <2>3. \A d \in Clients : d # c => client'[d] = client[d] /\ uses'[d] = uses[d]
    BY <1>1, <2>2 DEF TypeOK
  <2>4. /\ uses'[c] = l /\ client'[c] \in {"sharing", "inherited"}
        /\ client'[c] = "sharing" => future[l] = "pending"
    BY <1>1, <2>2 DEF TypeOK
  <2>5. \A d \in Clients :
          /\ client'[d] = "holding" <=> client[d] = "holding"
          /\ client[d] = "holding" => uses'[d] = uses[d]
    BY <2>2, <2>3, <2>4
  <2>6. \A e : Holders(e)' = Holders(e)
    BY <2>5, SameHolders
  <2>7. FuturesOK'
    <3>1. ASSUME NEW d \in Clients
          PROVE  /\ client'[d] \in Unloaded => future'[d] = "none"
                 /\ client'[d] = "sharing" => future'[uses'[d]] = "pending"
                 /\ client'[d] = "woken" => future'[uses'[d]] \notin {"none", "pending"}
      BY <2>2, <2>3, <2>4 DEF LeaseInv, FuturesOK, Unloaded
    <3>2. ASSUME NEW d \in Clients, client'[d] = "woken", future'[uses'[d]] = "done"
          PROVE  Holders(uses[d])' # {}
      <4>1. client[d] = "woken" /\ uses'[d] = uses[d] /\ future[uses[d]] = "done"
        BY <2>2, <2>3, <2>4, <3>2
      <4>2. Holders(uses[d]) # {}
        BY <4>1 DEF LeaseInv, FuturesOK
      <4> QED
        BY <2>6, <4>1, <4>2
    <3> QED
      BY <3>1, <3>2 DEF FuturesOK
  <2>8. Apart' /\ StopsOK' /\ Covered'
    BY <2>2 DEF LeaseInv, Apart, StopsOK, Covered, Listed, tables, engines
  <2>9. EnginesOK'
    BY <2>2, <2>3, <2>4 DEF LeaseInv, EnginesOK, tables, engines
  <2>10. HoldersListed'
    BY <2>2, <2>3, <2>4 DEF LeaseInv, HoldersListed, tables
  <2>11. LeasesCounted'
    BY <2>2, <2>6 DEF LeaseInv, LeasesCounted, engines
  <2> QED
    BY <2>2, <2>7, <2>8, <2>9, <2>10, <2>11 DEF LeaseInv, engines
<1>10. CASE AcquireLoaded(c)
  BY <1>10, ClaimLease DEF AcquireLoaded, Open, Claimable
<1>11. CASE AcquireReserves(c)
  <2>1. /\ client[c] = "ready" /\ shutdown = "no" /\ ~Claimable(model[c])
        /\ model[c] \notin DOMAIN loading \cup DOMAIN unloading
        /\ loading' = Bind(loading, model[c], c)
        /\ future' = [future EXCEPT ![c] = "pending"]
        /\ client' = [client EXCEPT ![c] = "loading"]
        /\ alive' = alive \cup {c}
        /\ UNCHANGED <<policy, relisted, model, uses, loaded, unloading, active, preempting,
                       used, stops, shutdown>>
    BY <1>11 DEF AcquireReserves, NeedsRoom, Open
  <2>2. model[c] \notin DOMAIN loaded
    BY <2>1 DEF LeaseInv, Claimable
  <2>3. /\ DOMAIN loading' = DOMAIN loading \cup {model[c]} /\ loading'[model[c]] = c
        /\ \A m \in DOMAIN loading : loading'[m] = loading[m]
    BY <2>1 DEF Bind
  <2>4. \A d \in Clients : /\ client'[d] = IF d = c THEN "loading" ELSE client[d]
                           /\ future'[d] = IF d = c THEN "pending" ELSE future[d]
    BY <1>1, <2>1 DEF TypeOK
  <2>5. \A d \in Clients :
          /\ client'[d] = "holding" <=> client[d] = "holding"
          /\ client[d] = "holding" => uses'[d] = uses[d]
    BY <2>1, <2>4
  <2>6. \A e : Holders(e)' = Holders(e)
    BY <2>5, SameHolders
  <2>7. FuturesOK'
    <3>1. future[c] = "none"
      BY <2>1 DEF LeaseInv, FuturesOK, Unloaded
    <3>2. ASSUME NEW d \in Clients, client'[d] \in {"sharing", "woken"}
          PROVE  uses[d] \in Clients /\ uses[d] # c /\ future'[uses[d]] = future[uses[d]]
      <4>1. client[d] \in {"sharing", "woken"}
        BY <2>4, <3>2
      <4>2. uses[d] \in Clients /\ future[uses[d]] # "none"
        BY <4>1 DEF LeaseInv, FuturesOK, ManagerInv, UsersOK
      <4> QED
        BY <2>4, <3>1, <4>2
    <3>3. ASSUME NEW d \in Clients
          PROVE  /\ client'[d] \in Unloaded => future'[d] = "none"
                 /\ client'[d] = "sharing" => future'[uses'[d]] = "pending"
                 /\ client'[d] = "woken" => future'[uses'[d]] \notin {"none", "pending"}
      BY <2>1, <2>4, <3>2 DEF LeaseInv, FuturesOK, Unloaded
    <3>4. ASSUME NEW d \in Clients, client'[d] = "woken", future'[uses'[d]] = "done"
          PROVE  Holders(uses[d])' # {}
      <4>1. client[d] = "woken" /\ uses' = uses /\ future[uses[d]] = "done"
        BY <2>1, <2>4, <3>2, <3>4
      <4>2. PICK x : x = uses[d] /\ Holders(x) # {}
        BY <4>1 DEF LeaseInv, FuturesOK
      <4>3. Holders(x)' # {}
        BY <2>6, <4>2
      <4> QED
        BY <4>1, <4>2, <4>3
    <3> QED
      BY <3>3, <3>4 DEF FuturesOK
  <2>8. Apart'
    BY <2>1, <2>2, <2>3 DEF LeaseInv, Apart
  <2>9. StopsOK'
    BY <2>1 DEF LeaseInv, StopsOK
  <2>10. Covered'
    <3>1. ASSUME NEW e \in alive' PROVE Listed(e)'
      <4>1. CASE e = c
        BY <2>1, <2>3, <4>1 DEF Listed
      <4>2. CASE e \in alive
        <5>1. Listed(e)
          BY <2>1, <4>2 DEF LeaseInv, Covered
        <5> QED
          BY <2>1, <2>3, <5>1 DEF Listed
      <4> QED
        BY <2>1, <4>1, <4>2
    <3> QED
      BY <3>1 DEF Covered
  <2>11. EnginesOK'
    BY <2>1, <2>4 DEF LeaseInv, EnginesOK
  <2>12. HoldersListed'
    BY <2>1, <2>4 DEF LeaseInv, HoldersListed
  <2>13. LeasesCounted'
    BY <2>1, <2>6 DEF LeaseInv, LeasesCounted
  <2> QED
    BY <2>1, <2>7, <2>8, <2>9, <2>10, <2>11, <2>12, <2>13 DEF LeaseInv
<1> QED
  BY <1>3, <1>4, <1>5, <1>6, <1>7, <1>8, <1>9, <1>10, <1>11 DEF Acquire

LEMMA LoadEndsLease ==
  ASSUME ManagerInv, ManagerInv', LeaseInv, NEW c \in Clients, LoadEnds(c)
  PROVE  LeaseInv'
<1>1. /\ TypeOK /\ TablesOK /\ LoadersOK /\ UsersOK
  BY DEF ManagerInv
<1>2. PICK f : f = Notified(SharersWoken(client, c))
  OBVIOUS
<1>3. /\ client[c] = "loading" /\ shutdown = "no" /\ client' = [f EXCEPT ![c] = "holding"]
      /\ uses' = [uses EXCEPT ![c] = c] /\ active' = [active EXCEPT ![c] = @ + 1]
      /\ loading' = Drop(loading, {model[c]}) /\ loaded' = Bind(loaded, model[c], c)
      /\ Resolve(c, "done")
      /\ UNCHANGED <<policy, relisted, model, unloading, preempting, alive, stops, shutdown>>
  BY <1>2 DEF LoadEnds, Claim
<1>4. /\ model[c] \in DOMAIN loading /\ loading[model[c]] = c /\ model[c] \notin DOMAIN loaded
      /\ model[c] \notin DOMAIN unloading
  BY <1>1, <1>3 DEF LoadersOK, LeaseInv, Apart
<1>5. /\ DOMAIN loading' = DOMAIN loading \ {model[c]}
      /\ \A m \in DOMAIN loading' : loading'[m] = loading[m]
      /\ DOMAIN loaded' = DOMAIN loaded \cup {model[c]} /\ loaded'[model[c]] = c
      /\ \A m \in DOMAIN loaded : loaded'[m] = loaded[m]
  BY <1>3, <1>4 DEF Drop, Bind
<1>6. ASSUME NEW d \in Clients
      PROVE  f[d] = IF client[d] = "sharing" /\ uses[d] = c THEN "woken"
                    ELSE IF client[d] = "waiting" THEN "ready" ELSE client[d]
  BY <1>2 DEF Notified, SharersWoken
<1>7. ASSUME NEW d \in Clients
      PROVE  /\ client'[d] = IF d = c THEN "holding" ELSE f[d]
             /\ uses'[d] = IF d = c THEN c ELSE uses[d]
  <2>1. DOMAIN f = Clients
    BY <1>2 DEF Notified
  <2> QED
    BY <1>1, <1>3, <2>1 DEF TypeOK
<1>9. /\ LeasesCounted' /\ c \in Holders(c)'
      /\ \A x : Holders(x) \subseteq Holders(x)'
  <2>1. Holders(c)' = Holders(c) \cup {c} /\ c \notin Holders(c)
    BY <1>3, <1>6, <1>7 DEF Holders
  <2>2. ASSUME NEW x, x # c PROVE Holders(x)' = Holders(x)
    BY <1>3, <1>6, <1>7, <2>2 DEF Holders
  <2>3. Cardinality(Holders(c) \cup {c}) = Cardinality(Holders(c)) + 1
    BY <2>1, HoldersFinite, FS_AddElement
  <2>4. ASSUME NEW x \in Clients PROVE active'[x] = Cardinality(Holders(x)')
    <3>1. active[x] = Cardinality(Holders(x))
      BY DEF LeaseInv, LeasesCounted
    <3>2. active'[x] = IF x = c THEN active[x] + 1 ELSE active[x]
      BY <1>1, <1>3 DEF TypeOK
    <3> QED
      BY <2>1, <2>2, <2>3, <3>1, <3>2
  <2>5. LeasesCounted'
    BY <2>4 DEF LeasesCounted
  <2> QED
    BY <2>1, <2>2, <2>5
<1>10. FuturesOK'
  <2>1. \A d \in Clients : client'[d] \in {"sharing", "woken"} => uses'[d] = uses[d]
    BY <1>7
  <2>2. \A d \in Clients : client'[d] \in Unloaded => client[d] \in Unloaded
    BY <1>6, <1>7 DEF Unloaded
  <2>3. \A d \in Clients : client'[d] = "sharing" => client[d] = "sharing" /\ uses[d] # c
    BY <1>6, <1>7
  <2>4. \A d \in Clients : client'[d] = "woken" =>
                              client[d] = "woken" \/ (client[d] = "sharing" /\ uses[d] = c)
    BY <1>6, <1>7
  <2>5. \A e \in Clients : Holders(e) # {} => Holders(e)' # {}
    BY <1>9
  <2>6. Holders(c)' # {}
    BY <1>9
  <2> QED
    BY <1>1, <1>3, <2>1, <2>2, <2>3, <2>4, <2>5, <2>6, FuturesResolved DEF LeaseInv
<1>11. Apart'
  BY <1>3, <1>4, <1>5 DEF LeaseInv, Apart
<1>12. EnginesOK'
  <2>1. \A m \in DOMAIN loaded' : loaded'[m] \in alive'
    BY <1>3, <1>5 DEF LeaseInv, EnginesOK
  <2>2. \A d \in Clients : client'[d] = "loading" => d \in alive'
    BY <1>3, <1>6, <1>7 DEF LeaseInv, EnginesOK
  <2>3. ASSUME NEW d \in Clients, client'[d] = "aborting" PROVE \A m \in DOMAIN loaded' : loaded'[m] # d
    <3>1. client[d] = "aborting" /\ d # c
      BY <1>6, <1>7, <2>3
    <3> QED
      BY <1>5, <3>1 DEF LeaseInv, EnginesOK
  <2> QED
    BY <2>1, <2>2, <2>3 DEF EnginesOK
<1>13. Covered'
  <2>1. ASSUME NEW e \in alive PROVE Listed(e)'
    <3>1. Listed(e)
      BY <1>3 DEF LeaseInv, Covered
    <3> QED
      BY <1>3, <1>4, <1>5, <3>1 DEF Listed
  <2> QED
    BY <1>3, <2>1 DEF Covered
<1>14. StopsOK'
  BY <1>3 DEF LeaseInv, StopsOK
<1>15. HoldersListed'
  <2>1. ASSUME NEW d \in Clients, client'[d] = "holding"
        PROVE  model[d] \in DOMAIN loaded' /\ loaded'[model[d]] = uses'[d]
    <3>1. CASE d = c
      BY <1>5, <1>7, <3>1
    <3>2. CASE d # c
      <4>1. client[d] = "holding"
        BY <1>6, <1>7, <2>1, <3>2
      <4> QED
        BY <1>5, <1>7, <3>2, <4>1 DEF LeaseInv, HoldersListed
    <3> QED
      BY <3>1, <3>2
  <2> QED
    BY <1>3, <2>1 DEF HoldersListed
<1> QED
  BY <1>3, <1>9, <1>10, <1>11, <1>12, <1>13, <1>14, <1>15 DEF LeaseInv

(* The load of c ends without an engine; its engine may be stopped still. *)
LEMMA LoadOverLease ==
  ASSUME ManagerInv, LeaseInv, NEW c \in Clients, client[c] = "loading",
         NEW s \in {"failed", "aborting"},
         client' = Notified([SharersWoken(client, c) EXCEPT ![c] = s]),
         loading' = Drop(loading, {model[c]}), Resolve(c, "error"),
         alive' = alive \/ alive' = alive \ {c},
         s = "aborting" => shutdown # "no",
         s = "failed" => alive' = alive \ {c},
         UNCHANGED <<policy, relisted, model, uses, loaded, unloading, active, preempting,
                     used, stops, shutdown>>
  PROVE  LeaseInv'
<1>1. /\ TypeOK /\ TablesOK /\ LoadersOK /\ UsersOK
  BY DEF ManagerInv
<1>2. PICK g : g = [SharersWoken(client, c) EXCEPT ![c] = s]
  OBVIOUS
<1>3. ASSUME NEW d \in Clients
      PROVE  g[d] = IF d = c THEN s
                    ELSE IF client[d] = "sharing" /\ uses[d] = c THEN "woken" ELSE client[d]
  BY <1>2 DEF SharersWoken
<1>4. ASSUME NEW d \in Clients
      PROVE  client'[d] = IF g[d] = "waiting" THEN "ready" ELSE g[d]
  BY <1>2 DEF Notified
<1>5. ASSUME NEW d \in Clients
      PROVE  client'[d] = IF d = c THEN s
                          ELSE IF client[d] = "sharing" /\ uses[d] = c THEN "woken"
                          ELSE IF client[d] = "waiting" THEN "ready" ELSE client[d]
  BY <1>3, <1>4
<1>6. /\ model[c] \in DOMAIN loading /\ loading[model[c]] = c /\ model[c] \notin DOMAIN loaded
      /\ model[c] \notin DOMAIN unloading
  BY <1>1 DEF LoadersOK, LeaseInv, Apart
<1>7. /\ DOMAIN loading' = DOMAIN loading \ {model[c]}
      /\ \A m \in DOMAIN loading' : loading'[m] = loading[m]
  BY DEF Drop
<1>8. \A m \in DOMAIN loaded : loaded[m] # c
  BY <1>1, <1>6 DEF TablesOK, OfItsModel
<1>9. \A d \in Clients :
        /\ client'[d] = "holding" <=> client[d] = "holding"
        /\ client[d] = "holding" => uses'[d] = uses[d]
  BY <1>5
<1>10. \A e : Holders(e)' = Holders(e)
  BY <1>9, SameHolders
<1>11. FuturesOK'
  <2>1. \A d \in Clients : client'[d] \in {"sharing", "woken"} => uses'[d] = uses[d]
    OBVIOUS
  <2>2. \A d \in Clients : client'[d] \in Unloaded => client[d] \in Unloaded
    BY <1>5 DEF Unloaded
  <2>3. \A d \in Clients : client'[d] = "sharing" => client[d] = "sharing" /\ uses[d] # c
    BY <1>5
  <2>4. \A d \in Clients : client'[d] = "woken" =>
                              client[d] = "woken" \/ (client[d] = "sharing" /\ uses[d] = c)
    BY <1>5
  <2>5. \A e \in Clients : Holders(e) # {} => Holders(e)' # {}
    BY <1>10
  <2>6. FuturesOK
    BY DEF LeaseInv
  <2> QED
    BY <1>1, <2>1, <2>2, <2>3, <2>4, <2>5, <2>6, FuturesResolved
<1>12. Apart'
  BY <1>7 DEF LeaseInv, Apart
<1>13. EnginesOK'
  <2>1. \A m \in DOMAIN loaded' : loaded'[m] \in alive'
    BY <1>8 DEF LeaseInv, EnginesOK
  <2>2. \A d \in Clients : client'[d] = "loading" => d \in alive'
    BY <1>5 DEF LeaseInv, EnginesOK
  <2>3. \A d \in Clients : client'[d] = "aborting" => \A m \in DOMAIN loaded' : loaded'[m] # d
    BY <1>5, <1>8 DEF LeaseInv, EnginesOK
  <2> QED
    BY <2>1, <2>2, <2>3 DEF EnginesOK
<1>14. Covered'
  <2>1. ASSUME shutdown' = "no", NEW e \in alive' PROVE Listed(e)'
    <3>1. Listed(e) /\ e # c
      BY <2>1 DEF LeaseInv, Covered
    <3> QED
      BY <1>6, <1>7, <3>1 DEF Listed
  <2> QED
    BY <2>1 DEF Covered
<1>15. StopsOK' /\ HoldersListed'
  BY <1>9 DEF LeaseInv, StopsOK, HoldersListed
<1>16. LeasesCounted'
  BY <1>10 DEF LeaseInv, LeasesCounted
<1> QED
  BY <1>11, <1>12, <1>13, <1>14, <1>15, <1>16 DEF LeaseInv

LEMMA LoadAbortedLease ==
  ASSUME ManagerInv, LeaseInv, NEW c \in Clients, client[c] \in {"loading", "aborting"},
         NEW s \in {"failed", "cancelled"}, client' = [client EXCEPT ![c] = s],
         alive' \in {alive, alive \ {c}},
         UNCHANGED <<model, uses, tables, future, active, preempting, used, stops, shutdown,
                     relisted>>
  PROVE  LeaseInv'
<1>1. TypeOK /\ TablesOK /\ LoadersOK
  BY DEF ManagerInv
<1>2. Calms(client')
  BY <1>1, OneCalms DEF Unloaded
<1>3. \A d \in Clients :
        /\ client'[d] = "holding" <=> client[d] = "holding"
        /\ client[d] = "holding" => uses'[d] = uses[d]
  BY <1>2 DEF Calms
<1>4. \A e : Holders(e)' = Holders(e)
  BY <1>3, SameHolders
<1>5. FuturesOK'
  BY <1>2, FuturesCalm DEF LeaseInv
<1>6. \A m \in DOMAIN loaded : loaded[m] # c
  BY <1>1 DEF TablesOK, OfItsModel, LoadersOK, LeaseInv, Apart, EnginesOK
<1>7. EnginesOK'
  <2>1. \A d \in Clients : client'[d] = IF d = c THEN s ELSE client[d]
    BY <1>1 DEF TypeOK
  <2>2. \A m \in DOMAIN loaded' : loaded'[m] \in alive'
    BY <1>6 DEF LeaseInv, EnginesOK, tables
  <2>3. \A d \in Clients : client'[d] = "loading" => d \in alive'
    BY <2>1 DEF LeaseInv, EnginesOK
  <2>4. \A d \in Clients : client'[d] = "aborting" => \A m \in DOMAIN loaded' : loaded'[m] # d
    BY <2>1 DEF LeaseInv, EnginesOK, tables
  <2> QED
    BY <2>2, <2>3, <2>4 DEF EnginesOK
<1>8. Apart' /\ StopsOK' /\ HoldersListed'
  BY <1>3 DEF LeaseInv, Apart, StopsOK, HoldersListed, tables
<1>9. Covered'
  BY DEF LeaseInv, Covered, Listed, tables
<1>10. LeasesCounted'
  BY <1>4 DEF LeaseInv, LeasesCounted
<1> QED
  BY <1>5, <1>7, <1>8, <1>9, <1>10 DEF LeaseInv

(* What a sharer was woken with is loaded: nothing is registered again. *)
LEMMA ResumeLoadedLease ==
  ASSUME ManagerInv, ManagerInv', LeaseInv, NEW c \in Clients, ResumeLoaded(c)
  PROVE  LeaseInv'
<1>1. TypeOK /\ UsersOK
  BY DEF ManagerInv
<1>2. PICK e : e = uses[c]
  OBVIOUS
<1>3. client[c] = "woken" /\ future[e] = "done" /\ e \in Clients /\ model[e] = model[c]
  BY <1>1, <1>2 DEF ResumeLoaded, UsersOK
<1>4. PICK h \in Clients : client[h] = "holding" /\ uses[h] = e
  BY <1>2, <1>3 DEF LeaseInv, FuturesOK, Holders
<1>5. model[c] \in DOMAIN loaded /\ loaded[model[c]] = e
  BY <1>1, <1>3, <1>4 DEF LeaseInv, HoldersListed, UsersOK
<1>6. /\ UNCHANGED <<model, tables, future, preempting, alive, stops, shutdown, relisted>>
      /\ \/ Claim(c, e, client)
         \/ /\ client' = [client EXCEPT ![c] = "ready"]
            /\ uses' = [uses EXCEPT ![c] = NoLoad] /\ UNCHANGED <<active, used>>
  <2>1. loaded' = loaded /\ relisted' = relisted
    BY <1>5 DEF ResumeLoaded, ManagerInv, TypeOK
  <2> QED
    BY <1>2, <2>1 DEF ResumeLoaded, tables
<1>7. CASE Claim(c, e, client)
  BY <1>3, <1>5, <1>6, <1>7, ClaimLease
<1>8. CASE client' = [client EXCEPT ![c] = "ready"] /\ uses' = [uses EXCEPT ![c] = NoLoad]
             /\ UNCHANGED <<active, used>>
  <2>1. Calms(client')
    BY <1>1, <1>3, <1>8, OneCalms DEF Unloaded
  <2>2. \A d \in Clients : /\ client'[d] = IF d = c THEN "ready" ELSE client[d]
                           /\ d # c => uses'[d] = uses[d]
    BY <1>1, <1>8 DEF TypeOK
  <2>3. \A d \in Clients :
          /\ client'[d] = "holding" <=> client[d] = "holding"
          /\ client[d] = "holding" => uses'[d] = uses[d]
    BY <1>3, <2>2
  <2>4. \A x : Holders(x)' = Holders(x)
    BY <2>3, SameHolders
  <2>5. FuturesOK'
    <3>1. \A d \in Clients : client'[d] \in {"sharing", "woken", "holding"} => uses'[d] = uses[d]
      BY <2>2
    <3> QED
      BY <1>6, <2>1, <3>1, FuturesCalm DEF LeaseInv
  <2>6. EnginesOK'
    BY <1>6, <2>2 DEF LeaseInv, EnginesOK, tables
  <2>7. Apart' /\ StopsOK' /\ Covered'
    BY <1>6 DEF LeaseInv, Apart, StopsOK, Covered, Listed, tables
  <2>8. HoldersListed'
    BY <1>6, <2>3 DEF LeaseInv, HoldersListed, tables
  <2>9. LeasesCounted'
    BY <1>8, <2>4 DEF LeaseInv, LeasesCounted
  <2> QED
    BY <1>6, <2>5, <2>6, <2>7, <2>8, <2>9 DEF LeaseInv
<1> QED
  BY <1>6, <1>7, <1>8

LEMMA ReleaseLease ==
  ASSUME ManagerInv, ManagerInv', LeaseInv, NEW c \in Clients, Release(c)
  PROVE  LeaseInv'
<1>1. TypeOK /\ TablesOK /\ UsersOK
  BY DEF ManagerInv
<1>2. PICK e, n, last : /\ e = loaded[model[c]] /\ n = Decremented(active[e])
                        /\ last = (e \in preempting /\ n = 0)
  OBVIOUS
<1>3. PICK s : s = IF last THEN "releasing" ELSE "done"
  OBVIOUS
<1>4. /\ client[c] = "holding" /\ model[c] \in DOMAIN loaded
      /\ \A d \in Clients : client[d] = "woken" => uses[d] # uses[c]
      /\ active' = [active EXCEPT ![e] = n]
      /\ \/ last /\ BeginUnload(c, <<e>>)
         \/ ~last /\ UNCHANGED <<loaded, unloading, stops>>
      /\ client' = Notified([client EXCEPT ![c] = s])
      /\ uses' = [uses EXCEPT ![c] = NoLoad]
      /\ UNCHANGED <<policy, relisted, model, loading, future, preempting, alive, shutdown>>
  BY <1>2, <1>3 DEF Release, Ending
<1>5. e \in Clients /\ model[e] = model[c] /\ loaded[model[e]] = e /\ uses[c] = e
  BY <1>1, <1>2, <1>4 DEF TablesOK, OfItsModel, LeaseInv, HoldersListed
<1>6. PICK f : f = Notified(client)
  OBVIOUS
<1>7. Calms(client) /\ Calms(f)
  BY <1>6, NotifiedCalms DEF Calms
<1>8. \A d \in Clients : /\ client'[d] = IF d = c THEN s ELSE f[d]
                         /\ uses'[d] = IF d = c THEN NoLoad ELSE uses[d]
  <2>1. \A d \in Clients : client'[d] = IF d = c THEN s ELSE f[d]
    BY <1>1, <1>3, <1>4, <1>6 DEF Notified, TypeOK
  <2> QED
    BY <1>1, <1>4, <2>1 DEF TypeOK
<1>9. ASSUME NEW x
      PROVE  Holders(x)' = IF x = e THEN Holders(x) \ {c} ELSE Holders(x)
  <2>1. s # "holding"
    BY <1>3
  <2>2. \A d \in Clients : client'[d] = "holding" <=> client[d] = "holding" /\ d # c
    BY <1>7, <1>8, <2>1 DEF Calms
  <2>3. \A d \in Clients : d # c => uses'[d] = uses[d]
    BY <1>8
  <2>4. Holders(x)' = {d \in Clients : client'[d] = "holding" /\ uses'[d] = x}
    BY DEF Holders
  <2>5. Holders(x)' = {d \in Clients : client[d] = "holding" /\ uses[d] = x /\ d # c}
    BY <2>2, <2>3, <2>4
  <2> QED
    BY <1>5, <2>5 DEF Holders
<1>10. c \in Holders(e)
  BY <1>4, <1>5 DEF Holders
<1>11. /\ n = active[e] - 1 /\ n = Cardinality(Holders(e) \ {c}) /\ n \in Nat
  <2>1. Cardinality(Holders(e) \ {c}) = Cardinality(Holders(e)) - 1
    BY <1>10, HoldersFinite, FS_RemoveElement
  <2>2. Cardinality(Holders(e)) # 0
    BY <1>10, HoldersFinite, FS_EmptySet
  <2>3. active[e] = Cardinality(Holders(e)) /\ active[e] \in Nat
    BY <1>5, HoldersFinite DEF LeaseInv, LeasesCounted
  <2> QED
    BY <1>2, <2>1, <2>2, <2>3 DEF Decremented
<1>12. LeasesCounted'
  <2>1. ASSUME NEW x \in Clients PROVE active'[x] = Cardinality(Holders(x)')
    <3>1. active[x] = Cardinality(Holders(x))
      BY DEF LeaseInv, LeasesCounted
    <3>2. active'[x] = IF x = e THEN n ELSE active[x]
      BY <1>1, <1>4 DEF TypeOK
    <3> QED
      BY <1>9, <1>11, <3>1, <3>2
  <2> QED
    BY <2>1 DEF LeasesCounted
<1>13. ASSUME NEW d \in Clients, client'[d] = "woken", future[uses[d]] = "done"
       PROVE  Holders(uses[d])' # {} /\ uses'[d] = uses[d]
  <2>1. client[d] = "woken" /\ d # c /\ uses'[d] = uses[d]
    BY <1>3, <1>7, <1>8, <1>13 DEF Calms
  <2>2. PICK x : x = uses[d]
    OBVIOUS
  <2>3. x # e /\ Holders(x) # {}
    BY <1>4, <1>5, <1>13, <2>1, <2>2 DEF LeaseInv, FuturesOK
  <2>4. Holders(x)' # {}
    BY <1>9, <2>3
  <2> QED
    BY <2>1, <2>2, <2>4
<1>14. \A d \in Clients : client'[d] \in {"holding", "sharing", "woken"} => uses'[d] = uses[d]
  BY <1>3, <1>8
<1>15. CASE last
  <2>1. s = "releasing" /\ BeginUnload(c, <<e>>)
    BY <1>3, <1>4, <1>15
  <2>2. Unloadable(<<e>>) /\ ToSet(<<e>>) = {e}
    BY <1>4, <1>5 DEF Unloadable, Distinct, ToSet
  <2>3. Holders(e)' = {}
    <3>1. Cardinality(Holders(e) \ {c}) = 0
      BY <1>2, <1>11, <1>15
    <3>2. IsFiniteSet(Holders(e) \ {c})
      BY HoldersFinite, FS_Difference
    <3> QED
      BY <1>9, <3>1, <3>2, FS_EmptySet
  <2>4. c \in Tasks
    BY ModelManagerAssumptions DEF Clients, Tasks, Stopper
  <2>5. /\ client'[c] = "releasing"
        /\ \A d \in Clients :
             client'[d] = f[d] \/ (d = c /\ client'[d] \in {"unloading", "releasing"})
    BY <1>8, <2>1
  <2>6. \A x \in Clients : Holders(x)' = Holders(x) \/ Holders(x)' = Holders(x) \ {c}
    BY <1>9
  <2>7. \A x \in ToSet(<<e>>) : Holders(x)' = {}
    BY <2>2, <2>3
  <2> QED
    BY <1>4, <1>7, <1>12, <1>13, <1>14, <2>1, <2>2, <2>4, <2>5, <2>6, <2>7, UnloadLease
<1>16. CASE ~last
  <2>1. s = "done" /\ UNCHANGED <<loaded, unloading, stops>>
    BY <1>3, <1>4, <1>16
  <2>2. \A d \in Clients :
          /\ client'[d] = "holding" => client[d] = "holding"
          /\ client'[d] \in Unloaded => client[d] \in Unloaded
          /\ \A x \in {"loading", "aborting", "sharing", "woken"} : client'[d] = x => client[d] = x
    BY <1>7, <1>8, <2>1 DEF Calms, Unloaded
  <2>3. FuturesOK'
    <3>1. ASSUME NEW d \in Clients
          PROVE  /\ client'[d] \in Unloaded => future'[d] = "none"
                 /\ client'[d] = "sharing" => future'[uses'[d]] = "pending"
                 /\ client'[d] = "woken" => future'[uses'[d]] \notin {"none", "pending"}
      BY <1>4, <1>14, <2>2 DEF LeaseInv, FuturesOK
    <3>2. ASSUME NEW d \in Clients, client'[d] = "woken", future'[uses'[d]] = "done"
          PROVE  Holders(uses[d])' # {}
      BY <1>4, <1>13, <1>14, <3>2
    <3> QED
      BY <3>1, <3>2 DEF FuturesOK
  <2>4. Apart' /\ StopsOK' /\ Covered'
    BY <1>4, <2>1 DEF LeaseInv, Apart, StopsOK, Covered, Listed
  <2>5. EnginesOK'
    BY <1>4, <2>1, <2>2 DEF LeaseInv, EnginesOK
  <2>6. HoldersListed'
    BY <1>4, <1>14, <2>1, <2>2 DEF LeaseInv, HoldersListed
  <2> QED
    BY <1>4, <1>12, <2>3, <2>4, <2>5, <2>6 DEF LeaseInv
<1> QED
  BY <1>15, <1>16

(* A lease that ends without preemption is of a loaded model. *)
LEMMA ReleaseKnown ==
  ASSUME ManagerInv, LeaseInv, NEW c \in Clients, ReleaseUnknown(c)
  PROVE  FALSE
BY DEF ReleaseUnknown, Ending, LeaseInv, HoldersListed

(* An engine that was stopped, or whose stop() raised, is in _unloading only. *)
LEMMA StopLease ==
  ASSUME ManagerInv, ManagerInv', LeaseInv, NEW t \in Tasks, StopEnds(t) \/ StopRaises(t)
  PROVE  LeaseInv'
<1>1. TypeOK /\ TablesOK /\ LoadersOK /\ StoppersOK
  BY DEF ManagerInv
<1>2. PICK f, e, s : f = Notified(client) /\ e = Head(stops[t]) /\ s = stops[t]
  OBVIOUS
<1>3. s # <<>> /\ s \in Seq(Clients) /\ Distinct(s)
  BY <1>1, <1>2 DEF StopEnds, StopRaises, TypeOK, LeaseInv, StopsOK
<1>4. \E rest \in {<<>>, Tail(stops[t])}, x \in {"ready", "failed"} :
        /\ stops' = [stops EXCEPT ![t] = rest]
        /\ client' = IF rest = <<>> THEN AfterUnload(f, t, x) ELSE f
  <2>1. CASE StopEnds(t)
    BY <1>2, <2>1 DEF StopEnds
  <2>2. CASE StopRaises(t)
    BY <1>2, <2>2 DEF StopRaises
  <2> QED
    BY <2>1, <2>2
<1>5. PICK rest \in {<<>>, Tail(s)}, x \in {"ready", "failed"} :
        /\ stops' = [stops EXCEPT ![t] = rest]
        /\ client' = IF rest = <<>> THEN AfterUnload(f, t, x) ELSE f
  BY <1>2, <1>4
<1>6. /\ unloading' = Drop(unloading, {model[e]}) /\ alive' = alive \ {e}
      /\ shutdown' = "no" => shutdown = "no"
      /\ UNCHANGED <<policy, relisted, model, uses, loaded, loading, future, active,
                     preempting, used>>
  BY <1>2 DEF StopEnds, StopRaises
<1>7. e \in ToSet(s) /\ e \in Clients /\ model[e] \in DOMAIN unloading /\ unloading[model[e]] = e
  <2>1. e \in ToSet(s) /\ e \in Clients
    BY <1>2, <1>3, TailDistinct
  <2> QED
    BY <1>2, <2>1 DEF LeaseInv, StopsOK
<1>8. Distinct(rest) /\ ToSet(rest) \subseteq ToSet(s) \ {e}
  <2>1. Distinct(Tail(s)) /\ ToSet(Tail(s)) = ToSet(s) \ {e}
    BY <1>2, <1>3, TailDistinct
  <2>2. Distinct(<<>>) /\ ToSet(<<>>) = {}
    BY DEF Distinct, ToSet
  <2> QED
    BY <1>5, <2>1, <2>2
<1>9. \A c \in Clients :
        \/ client'[c] = f[c]
        \/ /\ c = t /\ client'[c] \in {"ready", "failed", "cancelled", "done"}
           /\ client[c] \in {"unloading", "dying", "releasing"}
           /\ client'[c] = "ready" => client[c] = "unloading"
  <2>1. CASE rest = <<>>
    <3>1. client' = AfterUnload(f, t, x)
      BY <1>5, <2>1
    <3>2. ASSUME NEW c \in Clients, c = t
          PROVE  /\ client'[c] \in {"ready", "failed", "cancelled", "done"}
                 /\ client[c] \in {"unloading", "dying", "releasing"}
                 /\ client'[c] = "ready" => client[c] = "unloading"
      <4>1. client[c] \in {"unloading", "dying", "releasing"}
        BY <1>1, <1>2, <1>3, <3>2 DEF StoppersOK
      <4>2. f[c] = client[c]
        BY <1>2, <4>1 DEF Notified
      <4> QED
        BY <3>1, <3>2, <4>1, <4>2 DEF AfterUnload
    <3>3. ASSUME NEW c \in Clients, c # t PROVE client'[c] = f[c]
      BY <3>1, <3>3 DEF AfterUnload
    <3> QED
      BY <3>2, <3>3
  <2>2. CASE rest # <<>>
    BY <1>5, <2>2
  <2> QED
    BY <2>1, <2>2
<1>10. Calms(client')
  <2>1. Calms(f)
    BY <1>2, NotifiedCalms DEF Calms
  <2> QED
    BY <1>9, <2>1 DEF Calms, Unloaded
<1>11. \A c \in Clients :
         /\ client'[c] = "holding" <=> client[c] = "holding"
         /\ client[c] = "holding" => uses'[c] = uses[c]
  BY <1>6, <1>10 DEF Calms
<1>12. /\ DOMAIN unloading' = DOMAIN unloading \ {model[e]}
       /\ \A m \in DOMAIN unloading' : unloading'[m] = unloading[m]
  BY <1>6 DEF Drop
<1>13. ASSUME NEW d, d # e, model[d] \in DOMAIN unloading, unloading[model[d]] = d
       PROVE  model[d] \in DOMAIN unloading' /\ unloading'[model[d]] = d
  BY <1>7, <1>12, <1>13
<1>14. FuturesOK'
  BY <1>6, <1>10, FuturesCalm DEF LeaseInv
<1>15. EnginesOK'
  <2>1. \A m \in DOMAIN loaded : loaded[m] # e
    BY <1>1, <1>7 DEF TablesOK, OfItsModel, LeaseInv, Apart
  <2>2. \A c \in Clients : client[c] = "loading" => c # e
    BY <1>1, <1>7 DEF LoadersOK, LeaseInv, Apart
  <2>3. \A c \in Clients : \A x1 \in {"loading", "aborting"} : client'[c] = x1 => client[c] = x1
    BY <1>10 DEF Calms
  <2> QED
    BY <1>6, <2>1, <2>2, <2>3 DEF LeaseInv, EnginesOK
<1>16. Apart'
  BY <1>6, <1>12 DEF LeaseInv, Apart
<1>17. Covered'
  <2>1. ASSUME shutdown' = "no", NEW d \in alive' PROVE Listed(d)'
    <3>1. d # e /\ Listed(d)
      BY <1>6, <2>1 DEF LeaseInv, Covered
    <3>2. CASE model[d] \in DOMAIN unloading /\ unloading[model[d]] = d
      BY <1>6, <1>13, <3>1, <3>2 DEF Listed
    <3>3. CASE ~(model[d] \in DOMAIN unloading /\ unloading[model[d]] = d)
      BY <1>6, <3>1, <3>3 DEF Listed
    <3> QED
      BY <3>2, <3>3
  <2> QED
    BY <2>1 DEF Covered
<1>18. StopsOK'
  <2>1. \A u \in Tasks : stops'[u] = IF u = t THEN rest ELSE stops[u]
    BY <1>1, <1>5 DEF TypeOK
  <2>2. \A u \in Tasks : Distinct(stops'[u])
    BY <1>8, <2>1 DEF LeaseInv, StopsOK
  <2>3. ASSUME NEW u \in Tasks, NEW d \in ToSet(stops'[u])
        PROVE  d \in ToSet(stops[u]) /\ d # e
    <3>1. CASE u = t
      BY <1>2, <1>8, <2>1, <2>3, <3>1
    <3>2. CASE u # t
      BY <1>2, <1>7, <2>1, <2>3, <3>2 DEF LeaseInv, StopsOK
    <3> QED
      BY <3>1, <3>2
  <2>4. \A u \in Tasks : \A d \in ToSet(stops'[u]) :
          model'[d] \in DOMAIN unloading' /\ unloading'[model'[d]] = d
    BY <1>6, <1>13, <2>3 DEF LeaseInv, StopsOK
  <2>5. \A u, v \in Tasks : u # v => ToSet(stops'[u]) \cap ToSet(stops'[v]) = {}
    BY <2>3 DEF LeaseInv, StopsOK
  <2> QED
    BY <2>2, <2>4, <2>5 DEF StopsOK
<1>19. HoldersListed'
  BY <1>6, <1>11 DEF LeaseInv, HoldersListed
<1>20. LeasesCounted'
  <2>1. \A d : Holders(d)' = Holders(d)
    BY <1>11, SameHolders
  <2> QED
    BY <1>6, <2>1 DEF LeaseInv, LeasesCounted
<1> QED
  BY <1>6, <1>14, <1>15, <1>16, <1>17, <1>18, <1>19, <1>20 DEF LeaseInv

LEMMA CancelLease ==
  ASSUME ManagerInv, ManagerInv', LeaseInv, NEW c \in Clients, Cancel(c)
  PROVE  LeaseInv'
<1>1. TypeOK /\ TypeOK' /\ UsersOK
  BY DEF ManagerInv
<1>2. UNCHANGED <<policy, relisted, model, uses, tables, active, preempting, used, stops,
                  shutdown>>
  BY DEF Cancel
<1>3. CASE /\ client[c] \in {"ready", "waiting", "woken"}
           /\ client' = [client EXCEPT ![c] = "cancelled"] /\ UNCHANGED <<future, alive>>
  <2>1. Calms(client')
    BY <1>1, <1>3, OneCalms DEF Unloaded
  <2> QED
    BY <1>1, <1>2, <1>3, <2>1, QuietLease DEF engines
<1>4. CASE /\ client[c] = "unloading" /\ client' = [client EXCEPT ![c] = "dying"]
           /\ UNCHANGED <<future, alive>>
  <2>1. Calms(client')
    BY <1>1, <1>4, OneCalms DEF Unloaded
  <2> QED
    BY <1>1, <1>2, <1>4, <2>1, QuietLease DEF engines
<1>5. CASE /\ client[c] \in {"loading", "aborting"}
           /\ client' = [client EXCEPT ![c] = "cancelled"]
           /\ alive' \in {alive, alive \ {c}} /\ UNCHANGED future
  BY <1>2, <1>5, LoadAbortedLease
<1>6. CASE /\ client[c] = "sharing" /\ Resolve(uses[c], "cancelled")
           /\ client' = SharersWoken([client EXCEPT ![c] = "cancelled"], uses[c])
           /\ UNCHANGED alive
  <2>1. PICK l : l = uses[c]
    OBVIOUS
  <2>2. l \in Clients /\ Resolve(l, "cancelled")
    BY <1>1, <1>6, <2>1 DEF UsersOK
  <2>3. ASSUME NEW d \in Clients
        PROVE  client'[d] = IF d = c THEN "cancelled"
                            ELSE IF client[d] = "sharing" /\ uses[d] = l THEN "woken"
                            ELSE client[d]
    <3>1. client' = SharersWoken([client EXCEPT ![c] = "cancelled"], l)
      BY <1>6, <2>1
    <3>2. [client EXCEPT ![c] = "cancelled"][d] = IF d = c THEN "cancelled" ELSE client[d]
      BY <1>1 DEF TypeOK
    <3> QED
      BY <3>1, <3>2 DEF SharersWoken
  <2>4. \A d \in Clients :
          /\ client'[d] = "holding" <=> client[d] = "holding"
          /\ client[d] = "holding" => uses'[d] = uses[d]
    BY <1>2, <1>6, <2>3
  <2>5. \A x : Holders(x)' = Holders(x)
    BY <2>4, SameHolders
  <2>6. \A d \in Clients :
          /\ client'[d] \in Unloaded => client[d] \in Unloaded
          /\ client'[d] = "sharing" => client[d] = "sharing" /\ uses[d] # l
          /\ client'[d] = "woken" =>
               client[d] = "woken" \/ (client[d] = "sharing" /\ uses[d] = l)
          /\ client'[d] = "loading" => client[d] = "loading"
          /\ client'[d] = "aborting" => client[d] = "aborting"
          /\ uses'[d] = uses[d]
    BY <1>2, <2>3 DEF Unloaded
  <2>7. FuturesOK'
    <3>1. \A x \in Clients : Holders(x) # {} => Holders(x)' # {}
      BY <2>5
    <3> QED
      BY <1>1, <2>2, <2>6, <3>1, FuturesResolved DEF LeaseInv
  <2>8. Apart' /\ StopsOK' /\ Covered'
    BY <1>2, <1>6 DEF LeaseInv, Apart, StopsOK, Covered, Listed, tables
  <2>9. EnginesOK'
    BY <1>2, <1>6, <2>6 DEF LeaseInv, EnginesOK, tables
  <2>10. HoldersListed'
    BY <1>2, <2>4 DEF LeaseInv, HoldersListed, tables
  <2>11. LeasesCounted'
    BY <1>2, <2>5 DEF LeaseInv, LeasesCounted
  <2> QED
    BY <1>2, <2>7, <2>8, <2>9, <2>10, <2>11 DEF LeaseInv
<1> QED
  BY <1>3, <1>4, <1>5, <1>6 DEF Cancel

(* The reaper and shutdown() unload what nobody uses. *)
LEMMA BackgroundLease ==
  ASSUME ManagerInv, LeaseInv,
         NEW es, NEW n \in 0 .. Len(Candidates(Models, FALSE)),
         es = SubSeq(Candidates(Models, FALSE), 1, n),
         NEW t \in {Reaper, Stopper}, BeginUnload(t, es), client' = Notified(client),
         UNCHANGED <<model, uses, loading, future, active, alive, relisted>>,
         shutdown' = "no" => shutdown = "no" /\ preempting' = preempting
  PROVE  LeaseInv'
<1>1. TypeOK /\ TablesOK
  BY DEF ManagerInv
<1>2. /\ Unloadable(Candidates(Models, FALSE))
      /\ \A e \in ToSet(Candidates(Models, FALSE)) : ~(active[e] > 0)
  BY <1>1, CandidatesFacts
<1>3. Unloadable(es) /\ ToSet(es) \subseteq ToSet(Candidates(Models, FALSE))
  BY <1>2, UnloadableSlice
<1>4. \A e \in ToSet(es) : ~(active[e] > 0)
  BY <1>2, <1>3
<1>5. t \in Tasks /\ t \notin Clients
  BY ModelManagerAssumptions DEF Reaper, Stopper, Tasks, Clients
<1>6. PICK f : f = Notified(client)
  OBVIOUS
<1>7. Calms(f)
  BY <1>6, NotifiedCalms DEF Calms
<1>8. \A c \in Clients : client'[c] = f[c]
  BY <1>6
<1> QED
  BY <1>3, <1>4, <1>5, <1>7, <1>8, IdleUnloadLease

LEMMA BackgroundStep ==
  ASSUME ManagerInv, LeaseInv, UnloadIdle \/ ShutdownBegins \/ ShutdownResumes
  PROVE  LeaseInv'
<1>1. TypeOK /\ TablesOK
  BY DEF ManagerInv
<1>2. PICK w : w = Candidates(Models, FALSE)
  BY Zenon
<1>3. w \in Seq(Clients)
  BY <1>1, <1>2, CandidatesFacts DEF Unloadable
<1>4. Len(w) \in Nat /\ w = SubSeq(w, 1, Len(w))
  BY <1>3
<1>5. Len(w) \in 0 .. Len(w)
  BY <1>4
<1>6. CASE UnloadIdle
  <2>1. PICK n \in 1 .. Len(w) : BeginUnload(Reaper, SubSeq(w, 1, n))
    BY <1>2, <1>6 DEF UnloadIdle
  <2>2. n \in 0 .. Len(w)
    BY <1>4, <2>1
  <2> QED
    BY <1>2, <1>6, <2>1, <2>2, BackgroundLease DEF UnloadIdle, engines
<1>7. CASE ShutdownBegins
  <2>1. BeginUnload(Stopper, SubSeq(w, 1, Len(w))) /\ shutdown' # "no"
    BY <1>2, <1>4, <1>7 DEF ShutdownBegins
  <2> QED
    BY <1>2, <1>5, <1>7, <2>1, BackgroundLease DEF ShutdownBegins
<1>8. CASE ShutdownResumes
  <2>1. BeginUnload(Stopper, SubSeq(w, 1, Len(w))) /\ shutdown' # "no"
    BY <1>2, <1>4, <1>8 DEF ShutdownResumes
  <2> QED
    BY <1>2, <1>5, <1>8, <2>1, BackgroundLease DEF ShutdownResumes, engines
<1> QED
  BY <1>6, <1>7, <1>8

LEMMA LeaseStep ==
  ASSUME ManagerInv, LeaseInv, ~Preemptive, [Next]_vars
  PROVE  LeaseInv'
<1>1. ManagerInv'
  BY ManagerStep
<1>2. TypeOK /\ TypeOK'
  BY <1>1 DEF ManagerInv
<1>3. Calms(client)
  BY DEF Calms
<1>4. ASSUME NEW c \in Clients, Start(c) PROVE LeaseInv'
  <2>1. Calms(client')
    BY <1>2, <1>4, OneCalms DEF Start, Unloaded
  <2> QED
    BY <1>2, <1>4, <2>1, QuietLease DEF Start
<1>5. ASSUME NEW c \in Clients, Timeout(c) PROVE LeaseInv'
  <2>1. Calms(client')
    BY <1>2, <1>5, OneCalms DEF Timeout, Unloaded
  <2> QED
    BY <1>2, <1>5, <2>1, QuietLease DEF Timeout
<1>6. ASSUME NEW c \in Clients, ResumeFailed(c) PROVE LeaseInv'
  <2>1. PICK s \in {"failed", "inherited"} : client' = [client EXCEPT ![c] = s]
    BY <1>6 DEF ResumeFailed
  <2>2. Calms(client')
    BY <1>2, <1>6, <2>1, OneCalms DEF ResumeFailed, Unloaded
  <2> QED
    BY <1>2, <1>6, <2>2, QuietLease DEF ResumeFailed
<1>7. ASSUME NEW c \in Clients, LoadFails(c) PROVE LeaseInv'
  BY <1>7, LoadOverLease DEF LoadFails
<1>8. ASSUME NEW c \in Clients, LoadEndsTooLate(c) PROVE LeaseInv'
  BY <1>8, LoadOverLease DEF LoadEndsTooLate, engines
<1>9. ASSUME NEW c \in Clients, LoadAborted(c) PROVE LeaseInv'
  BY <1>9, LoadAbortedLease DEF LoadAborted
<1>10. CASE ShutdownEnds
  <2>1. shutdown' # "no" /\ Calms(client')
    BY <1>3, <1>10 DEF ShutdownEnds
  <2> QED
    BY <1>2, <1>10, <2>1, QuietLease DEF ShutdownEnds
<1>11. CASE UNCHANGED vars
  <2>1. Calms(client')
    BY <1>3, <1>11 DEF vars
  <2> QED
    BY <1>2, <1>11, <2>1, QuietLease DEF vars
<1>12. ASSUME NEW c \in Clients, ClientStep(c) PROVE LeaseInv'
  BY <1>1, <1>6, <1>8, <1>9, <1>12, AcquireLease, LoadEndsLease, ResumeLoadedLease,
     ReleaseLease, ReleaseKnown DEF ClientStep
<1>13. ASSUME NEW t \in Tasks, StopEnds(t) \/ StopRaises(t) PROVE LeaseInv'
  BY <1>1, <1>13, StopLease
<1>14. ASSUME NEW c \in Clients, Cancel(c) PROVE LeaseInv'
  BY <1>1, <1>14, CancelLease
<1>15. CASE UnloadIdle \/ ShutdownBegins \/ ShutdownResumes
  BY <1>15, BackgroundStep
<1> QED
  BY <1>4, <1>5, <1>7, <1>10, <1>11, <1>12, <1>13, <1>14, <1>15
     DEF Next, Progress, Environment, ShutdownStep

(* Only a reservation lets an engine begin to take memory, and there is none once *)
(* shutdown() has begun; the policy and what is asked for never change.           *)
LEMMA Frame ==
  ASSUME [Next]_vars
  PROVE  policy' = policy /\ model' = model /\ (shutdown' # "no" => alive' \subseteq alive)
<1>1. ASSUME NEW c \in Clients, Acquire(c)
      PROVE  policy' = policy /\ model' = model /\ (shutdown' # "no" => alive' \subseteq alive)
  <2>1. ASSUME AcquireReserves(c)
        PROVE  policy' = policy /\ model' = model /\ (shutdown' # "no" => alive' \subseteq alive)
    BY <2>1 DEF AcquireReserves, NeedsRoom, Open
  <2>2. ASSUME \/ AcquireRefused(c) \/ AcquireShared(c)
               \/ AcquireAfterUnload(c) \/ AcquireFails(c) \/ AcquireWaits(c)
        PROVE  policy' = policy /\ model' = model /\ alive' \subseteq alive
    BY <2>2 DEF AcquireRefused, AcquireShared, AcquireAfterUnload, AcquireFails,
                AcquireWaits, engines
  <2>3. ASSUME AcquireEvicts(c) PROVE policy' = policy /\ model' = model /\ alive' \subseteq alive
    BY <2>3 DEF AcquireEvicts, engines
  <2>4. ASSUME AcquireLoaded(c) PROVE policy' = policy /\ model' = model /\ alive' \subseteq alive
    BY <2>4 DEF AcquireLoaded
  <2>5. ASSUME AcquirePreempts(c) PROVE policy' = policy /\ model' = model /\ alive' \subseteq alive
    BY <2>5 DEF AcquirePreempts
  <2> QED
    BY <1>1, <2>1, <2>2, <2>3, <2>4, <2>5 DEF Acquire
<1>2. ASSUME NEW c \in Clients, LoadEnds(c) \/ ResumeLoaded(c) \/ ResumeFailed(c)
      PROVE  policy' = policy /\ model' = model /\ alive' \subseteq alive
  BY <1>2 DEF LoadEnds, ResumeLoaded, ResumeFailed, engines
<1>3. ASSUME NEW c \in Clients, LoadEndsTooLate(c) \/ LoadAborted(c) \/ LoadFails(c)
      PROVE  policy' = policy /\ model' = model /\ alive' \subseteq alive
  BY <1>3 DEF LoadEndsTooLate, LoadAborted, LoadFails, engines
<1>4. ASSUME NEW c \in Clients, ReleaseUnknown(c) \/ Start(c) \/ Timeout(c)
      PROVE  policy' = policy /\ model' = model /\ alive' \subseteq alive
  BY <1>4 DEF ReleaseUnknown, Start, Timeout, engines
<1>5. ASSUME NEW c \in Clients, Release(c)
      PROVE  policy' = policy /\ model' = model /\ alive' \subseteq alive
  BY <1>5 DEF Release
<1>6. ASSUME NEW c \in Clients, Cancel(c)
      PROVE  policy' = policy /\ model' = model /\ alive' \subseteq alive
  BY <1>6 DEF Cancel
<1>7. ASSUME NEW t \in Tasks, StopEnds(t)
      PROVE  policy' = policy /\ model' = model /\ alive' \subseteq alive
  BY <1>7 DEF StopEnds
<1>8. ASSUME NEW t \in Tasks, StopRaises(t)
      PROVE  policy' = policy /\ model' = model /\ alive' \subseteq alive
  BY <1>8 DEF StopRaises
<1>9. ASSUME UnloadIdle \/ ShutdownBegins \/ ShutdownResumes \/ ShutdownEnds
      PROVE  policy' = policy /\ model' = model /\ alive' \subseteq alive
  <2>1. CASE UnloadIdle
    BY <2>1 DEF UnloadIdle, engines
  <2>2. CASE ShutdownBegins
    BY <2>2 DEF ShutdownBegins
  <2>3. CASE ShutdownResumes
    BY <2>3 DEF ShutdownResumes, engines
  <2>4. CASE ShutdownEnds
    BY <2>4 DEF ShutdownEnds, engines
  <2> QED
    BY <1>9, <2>1, <2>2, <2>3, <2>4
<1>10. CASE UNCHANGED vars
  BY <1>10 DEF vars, engines
<1> QED
  BY <1>1, <1>2, <1>3, <1>4, <1>5, <1>6, <1>7, <1>8, <1>9, <1>10
     DEF Next, Progress, Environment, ShutdownStep, ClientStep

LEMMA AliveFinite ==
  ASSUME TypeOK, NEW a \in SUBSET alive
  PROVE  /\ Total(a, SizeOf) <= Total(alive, SizeOf)
         /\ Total(a, SizeOf) \in Nat /\ Total(alive, SizeOf) \in Nat
<1>1. IsFiniteSet(Clients)
  BY ModelManagerAssumptions, FS_Interval DEF Clients
<1>2. IsFiniteSet(alive) /\ IsFiniteSet(a)
  BY <1>1, FS_Subset DEF TypeOK
<1>3. \A e \in alive : SizeOf[e] \in Nat
  BY ModelManagerAssumptions DEF TypeOK, SizeOf
<1> QED
  BY <1>2, <1>3, TotalSubset, UnitsFinite

(* What exists when shutdown() begins fits, and nothing is added after that. *)
LeftFits == shutdown # "no" => Total(alive, SizeOf) <= Budget
Unpreempted == ~Preemptive => LeaseInv /\ LeftFits

LEMMA EnginesFit ==
  ASSUME ManagerInv, LeaseInv, LeftFits
  PROVE  Total(alive, SizeOf) <= Budget
<1>1. CASE shutdown = "no"
  <2>1. Total(alive, SizeOf) <= Committed /\ Committed <= Budget
    BY <1>1, ListedFit DEF ManagerInv, LeaseInv, Covered
  <2>2. TypeOK /\ Committed \in Nat
    BY CommittedNat DEF ManagerInv
  <2>3. Total(alive, SizeOf) \in Nat
    BY <2>2, AliveFinite
  <2> QED
    BY <2>1, <2>2, <2>3, ModelManagerAssumptions
<1> QED
  BY <1>1 DEF LeftFits

LEMMA UnpreemptedStep ==
  ASSUME ManagerInv, Unpreempted, [Next]_vars
  PROVE  Unpreempted'
<1> SUFFICES ASSUME ~Preemptive'
             PROVE  LeaseInv' /\ LeftFits'
  BY DEF Unpreempted
<1>1. policy' = policy /\ model' = model /\ (shutdown' # "no" => alive' \subseteq alive)
  BY Frame
<1>2. ~Preemptive /\ LeaseInv /\ LeftFits
  BY <1>1 DEF Unpreempted, Preemptive
<1>3. LeaseInv'
  BY <1>2, LeaseStep
<1>4. ASSUME shutdown' # "no" PROVE Total(alive', SizeOf') <= Budget
  <2>1. TypeOK /\ SizeOf' = SizeOf
    BY <1>1 DEF ManagerInv, SizeOf
  <2>2. PICK a : a = alive'
    OBVIOUS
  <2>3. a \in SUBSET alive
    BY <1>1, <1>4, <2>2
  <2>4. /\ Total(a, SizeOf) <= Total(alive, SizeOf)
        /\ Total(a, SizeOf) \in Nat /\ Total(alive, SizeOf) \in Nat
    BY <2>1, <2>3, AliveFinite
  <2>5. Total(alive, SizeOf) <= Budget
    BY <1>2, EnginesFit
  <2> QED
    BY <2>1, <2>2, <2>4, <2>5, ModelManagerAssumptions
<1> QED
  BY <1>3, <1>4 DEF LeftFits

LEMMA UnpreemptedStart ==
  ASSUME Init
  PROVE  Unpreempted
<1>1. /\ ~relisted /\ preempting = {} /\ alive = {} /\ shutdown = "no"
      /\ DOMAIN loaded = {} /\ DOMAIN loading = {} /\ DOMAIN unloading = {}
      /\ \A t \in Tasks : stops[t] = <<>>
      /\ \A c \in Clients : client[c] = "new" /\ future[c] = "none" /\ active[c] = 0
  BY DEF Init, Empty
<1>2. Apart /\ EnginesOK /\ Covered /\ HoldersListed /\ FuturesOK
  BY <1>1 DEF Apart, EnginesOK, Covered, HoldersListed, FuturesOK, Unloaded
<1>3. StopsOK
  <2>1. Distinct(<<>>) /\ ToSet(<<>>) = {}
    BY DEF Distinct, ToSet
  <2> QED
    BY <1>1, <2>1 DEF StopsOK
<1>4. LeasesCounted
  <2>1. \A e : Holders(e) = {}
    BY <1>1 DEF Holders
  <2> QED
    BY <1>1, <2>1, FS_EmptySet DEF LeasesCounted
<1> QED
  BY <1>1, <1>2, <1>3, <1>4 DEF Unpreempted, LeaseInv, LeftFits

LEMMA UnpreemptedInvariant == Spec => []Unpreempted
<1>1. Init => Unpreempted
  BY UnpreemptedStart
<1>2. ManagerInv /\ Unpreempted /\ [Next]_vars => Unpreempted'
  BY UnpreemptedStep
<1> QED
  BY <1>1, <1>2, ManagerInvariant, PTL DEF Spec

----------------------------------------------------------------------------
(* The theorems.                                                            *)

(* An engine is registered again under preemption only, and until one is the    *)
(* models that are loaded, being loaded or being unloaded fit into the budget,  *)
(* whatever fails, is cancelled or preempted: _can_reserve_locked() counts all   *)
(* three tables and nothing leaves them before its memory is given up, or lost. *)
THEOREM BudgetCommittedOnce == Spec => []CommittedBounded
<1>1. ManagerInv /\ Unpreempted => CommittedBounded
  BY DEF ManagerInv, Unpreempted, LeaseInv, CommittedBounded
<1> QED
  BY <1>1, ManagerInvariant, UnpreemptedInvariant, PTL

(* Without preemption the engines that exist, half-started, half-stopped and *)
(* forgotten ones included, fit into the budget.                             *)
THEOREM EnginesFitTheBudget == Spec => []EnginesFitUnlessPreempted
<1>1. ManagerInv /\ Unpreempted => EnginesFitUnlessPreempted
  BY EnginesFit DEF Unpreempted, EnginesFitUnlessPreempted, SizeOf
<1> QED
  BY <1>1, ManagerInvariant, UnpreemptedInvariant, PTL

(* Without preemption a lease is of the one engine that is loaded for its model, *)
(* which nobody stops, and active_requests counts the leases exactly.            *)
THEOREM LeasesAreHonoured == Spec => []LeasesHonoured
<1>1. ManagerInv /\ Unpreempted => LeasesHonoured
  <2> SUFFICES ASSUME ManagerInv, LeaseInv PROVE LeasesHonoured
    BY DEF Unpreempted, LeasesHonoured
  <2>1. TablesOK
    BY DEF ManagerInv
  <2>2. \A c \in Clients : client[c] = "holding" =>
          /\ uses[c] \in alive /\ model[c] \in DOMAIN loaded
          /\ loaded[model[c]] = uses[c] /\ model[c] \notin DOMAIN unloading
    BY DEF LeaseInv, HoldersListed, EnginesOK, Apart
  <2>3. \A m \in DOMAIN loaded : active[loaded[m]] = Cardinality(Holders(loaded[m]))
    BY <2>1 DEF LeaseInv, LeasesCounted, TablesOK, OfItsModel
  <2> QED
    BY <2>2, <2>3 DEF LeasesHonoured
<1> QED
  BY <1>1, ManagerInvariant, UnpreemptedInvariant, PTL
=============================================================================
