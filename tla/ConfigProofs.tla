---------------------------- MODULE ConfigProofs ----------------------------
(***************************************************************************)
(* Proofs about Config, for every set of configurations.                   *)
(*                                                                         *)
(* The argument: IndInv says that the index is exactly the claims of the   *)
(* models visited, which do not collide.  The next model either has no     *)
(* collision and keeps this true, or collides with one of them or with     *)
(* itself, and then the file is ambiguous in whatever order it is read.    *)
(***************************************************************************)
EXTENDS Config, TLAPS

LEMMA InitInv == Init => IndInv
BY TTLsAreInts DEF Init, IndInv, TypeOK, Visited, NoIndex, Names

(* A collision with the models visited is one in every order.              *)
LEMMA CollisionIsReal ==
  ASSUME IndInv, NEW n \in todo, Collides(n)
  PROVE  ~Unambiguous(models)
<1>1. n \in Names(models)
  BY DEF IndInv, TypeOK
<1>2. CASE Claims(models, n) \cap DOMAIN aliasIndex # {}
  <2>1. PICK a \in Claims(models, n) : a \in DOMAIN aliasIndex
    BY <1>2
  <2>2. PICK m \in Visited : a \in Claims(models, m)
    BY <2>1 DEF IndInv
  <2>3. m # n /\ m \in Names(models)
    BY DEF Visited
  <2> QED
    BY <1>1, <2>1, <2>2, <2>3 DEF Unambiguous
<1>3. CASE n \in AliasSet(models[n])
  BY <1>1, <1>3 DEF Unambiguous
<1>4. CASE \E j, k \in DOMAIN models[n].aliases :
             j # k /\ models[n].aliases[j] = models[n].aliases[k]
  BY <1>1, <1>4 DEF Unambiguous
<1> QED
  BY <1>2, <1>3, <1>4 DEF Collides

(* Once every model is visited without a collision there is none.          *)
LEMMA AllVisited == ASSUME IndInv, todo = {} PROVE Unambiguous(models)
<1>1. Visited = Names(models)
  BY DEF Visited
<1>2. ASSUME NEW m \in Names(models), NEW n \in Names(models), m # n
      PROVE  Claims(models, m) \cap Claims(models, n) = {}
  BY <1>1, <1>2 DEF IndInv
<1> QED
  BY <1>1, <1>2 DEF IndInv, Unambiguous

LEMMA IndexStep ==
  ASSUME IndInv, NEW n \in Names(models), Index(n)
  PROVE  IndInv'
<1>1. TypeOK'
  BY DEF TypeOK, Index, IndInv
<1>2. Visited' = Visited \cup {n} /\ n \notin Visited /\ models' = models
  BY DEF Visited, TypeOK, Index, IndInv
<1>3. \A a \in Claims(models, n) : a \in DOMAIN aliasIndex' /\ aliasIndex'[a] = n
  BY DEF Index
<1>4. ASSUME NEW m \in Visited, NEW a \in Claims(models, m)
      PROVE  a \in DOMAIN aliasIndex' /\ aliasIndex'[a] = m
  <2>1. a \in DOMAIN aliasIndex /\ aliasIndex[a] = m
    BY DEF IndInv
  <2>2. a \notin Claims(models, n)
    BY <2>1 DEF Collides, Index
  <2> QED
    BY <2>1, <2>2 DEF Index
<1>5. ASSUME NEW m \in Visited'
      PROVE  /\ m \notin AliasSet(models[m])
             /\ \A j, k \in DOMAIN models[m].aliases :
                  models[m].aliases[j] = models[m].aliases[k] => j = k
             /\ \A a \in Claims(models, m) : a \in DOMAIN aliasIndex' /\ aliasIndex'[a] = m
  BY <1>2, <1>3, <1>4 DEF Collides, Index, IndInv
<1>6. \A a \in DOMAIN aliasIndex' : \E m \in Visited' : a \in Claims(models, m)
  BY <1>2 DEF Index, IndInv
<1>7. stage' = "index" /\ defaultTTL' # 0
  BY DEF Index, IndInv
<1> QED
  BY <1>1, <1>2, <1>5, <1>6, <1>7 DEF IndInv

LEMMA Step == IndInv /\ [Next]_vars => IndInv'
<1> SUFFICES ASSUME IndInv, [Next]_vars PROVE IndInv'
  OBVIOUS
<1>1. ASSUME ApplyDefaults PROVE IndInv'
  BY <1>1 DEF ApplyDefaults, IndInv, TypeOK, Visited
<1>2. ASSUME NEW n \in Names(models), Index(n) PROVE IndInv'
  BY <1>2, IndexStep
<1>3. ASSUME NEW n \in Names(models), RejectCollision(n) PROVE IndInv'
  <2>1. ~Unambiguous(models)
    BY <1>3, CollisionIsReal DEF RejectCollision
  <2> QED
    BY <1>3, <2>1 DEF RejectCollision, IndInv, TypeOK, Visited
<1>4. ASSUME IndexDone PROVE IndInv'
  BY <1>4 DEF IndexDone, IndInv, TypeOK, Visited
<1>5. ASSUME Validate PROVE IndInv'
  BY <1>5 DEF Validate, Validates, IndInv, TypeOK, Visited
<1>6. ASSUME UNCHANGED vars PROVE IndInv'
  BY <1>6 DEF vars, Validates, IndInv, TypeOK, Visited
<1> QED
  BY <1>1, <1>2, <1>3, <1>4, <1>5, <1>6 DEF Next

THEOREM Invariance == Spec => []IndInv
BY InitInv, Step, PTL DEF Spec

(* The fields keep their types while the index is built.                   *)
THEOREM TypeCorrect == Spec => []TypeOK
<1>1. IndInv => TypeOK
  BY DEF IndInv
<1> QED
  BY Invariance, <1>1, PTL

(* Load accepts exactly the unambiguous files that validate, in whatever   *)
(* order it visits the models and however many there are.                  *)
THEOREM LoadIsOrderFree == Spec => []AcceptanceIsOrderFree
<1>1. IndInv => AcceptanceIsOrderFree
  BY AllVisited DEF IndInv, AcceptanceIsOrderFree
<1> QED
  BY Invariance, <1>1, PTL

(* In a loaded configuration each name resolves to the model that claims   *)
(* it, and only claimed names are known.                                   *)
THEOREM ResolveIsCorrect == Spec => []ResolveFindsOwner
<1>1. IndInv => ResolveFindsOwner
  BY DEF IndInv, ResolveFindsOwner, Visited, Resolve, Known
<1> QED
  BY Invariance, <1>1, PTL

(* The idle time a loaded configuration gives a model is positive.         *)
THEOREM IdleTimesArePositive == Spec => []IdleTimeIsPositive
<1>1. IndInv => IdleTimeIsPositive
  <2> SUFFICES ASSUME IndInv, stage = "loaded", defaultTTL >= 0, NEW n \in Names(models)
               PROVE  TTL(n) > 0
    BY DEF IdleTimeIsPositive
  <2>1. models[n].ttl \in Int /\ defaultTTL \in Int /\ defaultTTL # 0
    BY TTLsAreInts DEF IndInv, TypeOK
  <2> QED
    BY <2>1 DEF TTL
<1> QED
  BY Invariance, <1>1, PTL
=============================================================================
