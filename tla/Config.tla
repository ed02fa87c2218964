------------------------------- MODULE Config -------------------------------
(***************************************************************************)
(* Loading a configuration (src/internal/config): Load applies the         *)
(* defaults, indexes names and aliases model by model in the order in      *)
(* which Go happens to iterate over the map, which differs from one start  *)
(* of the program to the next, and validates; Resolve and TTL are what the *)
(* proxy and the manager then ask.                                         *)
(*                                                                         *)
(* A configuration maps the names under `models' to records: `aliases' is  *)
(* the list as written, `cmd' the whitespace-separated fields of the       *)
(* command, `ttl' the number of seconds, `downloads' the kinds of entries  *)
(* in the list.                                                            *)
(***************************************************************************)
EXTENDS Integers, Sequences, Functions

CONSTANTS Configurations,  \* the `models' sections that may be in the file
          DefaultTTLs      \* the values `default_ttl' may have, 0 if absent

Names(cfg)     == DOMAIN cfg
AliasSet(m)    == Range(m.aliases)
Claims(cfg, n) == {n} \cup AliasSet(cfg[n])

ASSUME TTLsAreInts ==
  /\ DefaultTTLs \subseteq Int
  /\ \A cfg \in Configurations : \A n \in Names(cfg) : cfg[n].ttl \in Int

VARIABLES
  models,      \* c.Models
  defaultTTL,  \* c.Manager.DefaultTTL
  todo,        \* the models buildAliasIndex has not visited
  aliasIndex,  \* c.aliasIndex
  stage        \* "defaults", "index", "validate", "loaded" or "rejected"

vars == <<models, defaultTTL, todo, aliasIndex, stage>>

NoIndex == [a \in {} |-> a]

TypeOK ==
  /\ models \in Configurations
  /\ defaultTTL \in Int
  /\ todo \subseteq Names(models)
  /\ aliasIndex \in [DOMAIN aliasIndex -> Names(models)]
  /\ stage \in {"defaults", "index", "validate", "loaded", "rejected"}

Init ==
  /\ models \in Configurations
  /\ defaultTTL \in DefaultTTLs
  /\ todo = Names(models)
  /\ aliasIndex = NoIndex
  /\ stage = "defaults"

-----------------------------------------------------------------------------
\* Mutant: the defaults are left out.
ApplyDefaults_Missing ==
  /\ stage = "defaults" /\ stage' = "index"
  /\ UNCHANGED <<models, defaultTTL, todo, aliasIndex>>

ApplyDefaults ==
  /\ stage = "defaults" /\ stage' = "index"
  /\ defaultTTL' = IF defaultTTL = 0 THEN 300 ELSE defaultTTL
  /\ UNCHANGED <<models, todo, aliasIndex>>

\* Mutant: an alias is only compared with the names of models.
Collides_NamesOnly(n) ==
  \/ n \in DOMAIN aliasIndex
  \/ AliasSet(models[n]) \cap Names(models) # {}

\* the name, or an alias, is indexed already, or listed twice by the model
Collides(n) ==
  LET list == models[n].aliases IN
    \/ Claims(models, n) \cap DOMAIN aliasIndex # {}
    \/ n \in AliasSet(models[n])
    \/ \E j, k \in DOMAIN list : j # k /\ list[j] = list[k]

\* Mutant: the index keeps an older entry of the same name.
Index_KeepsOld(n) ==
  /\ stage = "index" /\ n \in todo
  /\ ~Collides(n)
  /\ aliasIndex' = [a \in DOMAIN aliasIndex \cup Claims(models, n) |->
                      IF a \in AliasSet(models[n]) THEN a
                      ELSE IF a = n THEN n ELSE aliasIndex[a]]
  /\ todo' = todo \ {n}
  /\ UNCHANGED <<models, defaultTTL, stage>>

Index(n) ==
  /\ stage = "index" /\ n \in todo
  /\ ~Collides(n)
  /\ aliasIndex' = [a \in DOMAIN aliasIndex \cup Claims(models, n) |->
                      IF a \in Claims(models, n) THEN n ELSE aliasIndex[a]]
  /\ todo' = todo \ {n}
  /\ UNCHANGED <<models, defaultTTL, stage>>

RejectCollision(n) ==
  /\ stage = "index" /\ n \in todo
  /\ Collides(n)
  /\ stage' = "rejected"
  /\ UNCHANGED <<models, defaultTTL, todo, aliasIndex>>

IndexDone ==
  /\ stage = "index" /\ todo = {}
  /\ stage' = "validate"
  /\ UNCHANGED <<models, defaultTTL, todo, aliasIndex>>

\* what Downloads returns: blank entries are skipped
Downloads(m) == m.downloads \ {"blank"}

Validates ==
  /\ Names(models) # {}
  /\ \A n \in Names(models) :
       models[n].cmd # <<>> /\ Downloads(models[n]) \subseteq {"repo"}

Validate ==
  /\ stage = "validate"
  /\ stage' = IF Validates THEN "loaded" ELSE "rejected"
  /\ UNCHANGED <<models, defaultTTL, todo, aliasIndex>>

Next ==
  \/ ApplyDefaults
  \/ \E n \in Names(models) : Index(n)
  \/ \E n \in Names(models) : RejectCollision(n)
  \/ IndexDone \/ Validate

Spec == Init /\ [][Next]_vars

-----------------------------------------------------------------------------
(* The questions a loaded configuration answers.                           *)

Known(a)   == a \in DOMAIN aliasIndex
Resolve(a) == aliasIndex[a]

TTL(n) == IF models[n].ttl > 0 THEN models[n].ttl ELSE defaultTTL

-----------------------------------------------------------------------------
(* Properties.                                                             *)

(* No two models claim a name, no model lists a name twice or its own.     *)
Unambiguous(cfg) ==
  /\ \A m, n \in Names(cfg) : m # n => Claims(cfg, m) \cap Claims(cfg, n) = {}
  /\ \A n \in Names(cfg) :
       /\ n \notin AliasSet(cfg[n])
       /\ \A j, k \in DOMAIN cfg[n].aliases :
            cfg[n].aliases[j] = cfg[n].aliases[k] => j = k

(* The inductive invariant of the loop: the models visited so far are      *)
(* unambiguous among themselves, and the index is exactly their claims.    *)
Visited == Names(models) \ todo

IndInv ==
  /\ TypeOK
  /\ \A n \in Visited :
       /\ n \notin AliasSet(models[n])
       /\ \A j, k \in DOMAIN models[n].aliases :
            models[n].aliases[j] = models[n].aliases[k] => j = k
       /\ \A a \in Claims(models, n) : a \in DOMAIN aliasIndex /\ aliasIndex[a] = n
  /\ \A a \in DOMAIN aliasIndex : \E n \in Visited : a \in Claims(models, n)
  /\ stage \in {"validate", "loaded"} => todo = {}
  /\ stage = "loaded" => Validates
  /\ stage = "rejected" => ~(Unambiguous(models) /\ Validates)
  /\ stage \in {"index", "validate", "loaded"} => defaultTTL # 0

(* Whether a file is accepted depends on the file alone: Load visits the   *)
(* models in a random order and stops at the first collision it meets, yet *)
(* it accepts exactly the unambiguous files that validate.                 *)
AcceptanceIsOrderFree ==
  stage \in {"loaded", "rejected"} =>
    (stage = "loaded" <=> Unambiguous(models) /\ Validates)

(* In a loaded configuration a request's model name reaches the one model  *)
(* that has or lists it, and no other name is known.                       *)
ResolveFindsOwner ==
  stage = "loaded" =>
    /\ \A n \in Names(models), a \in DOMAIN aliasIndex :
         Resolve(a) = n <=> a \in Claims(models, n)
    /\ \A n \in Names(models) : \A a \in Claims(models, n) : Known(a)

(* Unless default_ttl is negative no model ends up with an idle time of 0, *)
(* with which resetIdle would stop an instance as soon as it is returned.  *)
IdleTimeIsPositive ==
  (stage = "loaded" /\ defaultTTL >= 0) => \A n \in Names(models) : TTL(n) > 0

(* config.example.yaml, like the README, shows a model that lists its own  *)
(* name as an alias; the documentation offers it as a working file.        *)
ExampleLoads == stage # "rejected"
=============================================================================
