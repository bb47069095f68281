------------------------------ MODULE KeyManager ------------------------------
(***************************************************************************)
(* The key hierarchy (src/mysti/security/keys.py): a master key in the OS  *)
(* keystore, and one manifest object in storage that holds, sealed with    *)
(* the master key, every version of every category key.  Each call reads   *)
(* the manifest; the calls that add a key (first run, create_category,     *)
(* rotate_category_key) write the whole of it back, with the storage await *)
(* in between and no lock.                                                 *)
(*                                                                         *)
(* A version list is a sequence: new versions are numbered active + 1 and  *)
(* made active at once, so the active version is always the last.  Key     *)
(* material is a fresh value.  What callers do with keys is kept as the    *)
(* set of objects they have sealed: each put() of the other components is  *)
(* a get_category_key() followed, after further awaits, by the write.      *)
(***************************************************************************)
EXTENDS Naturals, Sequences, FiniteSets, SequencesExt

CONSTANTS
    Processes,      \* programs sharing the keystore and the store
    Clients,        \* coroutines
    ProcessOf,      \* [Clients -> Processes]
    Names,          \* category names
    Categories,     \* the names the first run creates keys for
    Material,       \* the supply of key material
    KeyFaults,      \* subset of {"error", "crash"}
    Absent

ASSUME ProcessOfAssumption == ProcessOf \in [Clients -> Processes]
ASSUME CategoriesAssumption == Categories \subseteq Names
ASSUME AbsentAssumption ==
    Absent \notin Material \cup [master : Material, rings : [Names -> Seq(Material)]]

\* Key material by version, the last one active; <<>> when not in the manifest.
Rings == [Names -> UNION {[1 .. n -> Material] : n \in 0 .. Cardinality(Material)}]

Manifest == [master : Material, rings : Rings]

Sealed == [category : Names, version : 1 .. Cardinality(Material), key : Material]

VARIABLES
    keystore,   \* the master key in the OS keystore, or Absent
    master,     \* master[p]: KeyManager._master, or Absent
    manifest,   \* the manifest object, or Absent
    started,    \* the processes whose ensure_initialized() has returned
    minted,     \* the key material generated so far
    sealed,     \* the objects sealed by callers
    task        \* task[c]: what coroutine c is doing

managerVars == <<keystore, master, manifest, started, minted, sealed, task>>

Idle == [op |-> "none", pc |-> "idle", name |-> Absent, rings |-> Absent, object |-> Absent]

Doing(op, pc, name) == [Idle EXCEPT !.op = op, !.pc = pc, !.name = name]

KeyTypeOK ==
    /\ keystore \in Material \cup {Absent}
    /\ master \in [Processes -> Material \cup {Absent}]
    /\ manifest \in Manifest \cup {Absent}
    /\ started \subseteq Processes
    /\ minted \subseteq Material
    /\ sealed \subseteq Sealed
    /\ task \in [Clients -> [op : {"none", "init", "create", "rotate", "seal"},
                             pc : {"idle", "mint", "exists", "load", "save", "use"},
                             name : Names \cup {Absent},
                             rings : Rings \cup {Absent},
                             object : Sealed \cup {Absent}]]

KeyInit ==
    /\ keystore = Absent
    /\ master = [p \in Processes |-> Absent]
    /\ manifest = Absent
    /\ started = {}
    /\ minted = {}
    /\ sealed = {}
    /\ task = [c \in Clients |-> Idle]

-----------------------------------------------------------------------------
At(c, op, pc) == task[c].op = op /\ task[c].pc = pc

Become(c, t) == task' = [task EXCEPT ![c] = t]

Saving(c, rings) == Become(c, [task[c] EXCEPT !.pc = "save", !.rings = rings])

\* get_master_key: the cached key, else the one in the keystore.
MasterOf(p) == IF master[p] # Absent THEN master[p] ELSE keystore

CacheMaster(c) == master' = [master EXCEPT ![ProcessOf[c]] = MasterOf(ProcessOf[c])]

-----------------------------------------------------------------------------
(* ensure_initialized, run by every program when it starts. *)

StartInit(c) ==
    /\ task[c].pc = "idle"
    /\ ProcessOf[c] \notin started
    /\ \A d \in Clients : ProcessOf[d] = ProcessOf[c] => task[d] = Idle
    /\ Become(c, Doing("init", IF keystore = Absent THEN "mint" ELSE "exists", Absent))
    /\ UNCHANGED <<keystore, master, manifest, started, minted, sealed>>

\* Mutation: the key just generated stays out of the keystore.
MintMaster_MemoryOnly(c) ==
    /\ At(c, "init", "mint")
    /\ \E m \in Material \ minted :
        /\ master' = [master EXCEPT ![ProcessOf[c]] = m]
        /\ minted' = minted \cup {m}
    /\ Become(c, Doing("init", "exists", Absent))
    /\ UNCHANGED <<keystore, manifest, started, sealed>>

MintMaster(c) ==
    /\ At(c, "init", "mint")
    /\ \E m \in Material \ minted :
        /\ keystore' = m
        /\ minted' = minted \cup {m}
    /\ master' = [master EXCEPT ![ProcessOf[c]] = Absent]
    /\ Become(c, Doing("init", "exists", Absent))
    /\ UNCHANGED <<manifest, started, sealed>>

ManifestExists(c) ==
    /\ At(c, "init", "exists")
    /\ manifest # Absent
    /\ started' = started \cup {ProcessOf[c]}
    /\ Become(c, Idle)
    /\ UNCHANGED <<keystore, master, manifest, minted, sealed>>

NoManifest(c) ==
    /\ At(c, "init", "exists")
    /\ manifest = Absent
    /\ CacheMaster(c)
    /\ \E fresh \in [Categories -> Material \ minted] :
        /\ IsInjective(fresh)
        /\ minted' = minted \cup {fresh[n] : n \in Categories}
        /\ Saving(c, [n \in Names |-> IF n \in Categories THEN <<fresh[n]>> ELSE <<>>])
    /\ UNCHANGED <<keystore, manifest, started, sealed>>

-----------------------------------------------------------------------------
(* The calls of a started process. *)

\* Bound: the calls that add a key stop before the supply of material runs out.
Affordable ==
    LET adding == {d \in Clients : task[d].op \in {"create", "rotate"}}
    IN  Cardinality(minted) + Cardinality(adding) < Cardinality(Material)

Start(c) ==
    /\ task[c].pc = "idle"
    /\ ProcessOf[c] \in started
    /\ \E op \in {"create", "rotate", "seal"}, n \in Names :
        /\ op # "seal" => Affordable
        /\ Become(c, Doing(op, "load", n))
    /\ UNCHANGED <<keystore, master, manifest, started, minted, sealed>>

\* _load_manifest: there is one, and it decrypts under the process's master key.
Loads(c, op) ==
    /\ At(c, op, "load")
    /\ manifest # Absent /\ manifest.master = MasterOf(ProcessOf[c])
    /\ CacheMaster(c)

Ring(c) == manifest.rings[task[c].name]

\* RecordNotFoundError, EncryptionError, or KeyManagementError: no manifest, one
\* sealed with another master key, a name that exists or one that does not.
LoadRefused(c) ==
    /\ task[c].pc = "load"
    /\ \/ manifest = Absent
       \/ manifest # Absent /\ manifest.master # MasterOf(ProcessOf[c])
       \/ /\ manifest # Absent /\ manifest.master = MasterOf(ProcessOf[c])
          /\ (task[c].op = "create") <=> (Ring(c) # <<>>)
    /\ CacheMaster(c)
    /\ Become(c, Idle)
    /\ UNCHANGED <<keystore, manifest, started, minted, sealed>>

LoadForCreate(c) ==
    /\ Loads(c, "create")
    /\ Ring(c) = <<>>
    /\ \E key \in Material \ minted :
        /\ minted' = minted \cup {key}
        /\ Saving(c, [manifest.rings EXCEPT ![task[c].name] = <<key>>])
    /\ UNCHANGED <<keystore, manifest, started, sealed>>

\* Mutation: the new key takes the place of the active one.
LoadForRotate_InPlace(c) ==
    /\ Loads(c, "rotate")
    /\ Ring(c) # <<>>
    /\ \E key \in Material \ minted :
        /\ minted' = minted \cup {key}
        /\ Saving(c, [manifest.rings EXCEPT ![task[c].name][Len(Ring(c))] = key])
    /\ UNCHANGED <<keystore, manifest, started, sealed>>

LoadForRotate(c) ==
    /\ Loads(c, "rotate")
    /\ Ring(c) # <<>>
    /\ \E key \in Material \ minted :
        /\ minted' = minted \cup {key}
        /\ Saving(c, [manifest.rings EXCEPT ![task[c].name] = Append(@, key)])
    /\ UNCHANGED <<keystore, manifest, started, sealed>>

\* get_category_key(name): the active key; the caller seals with it later.
LoadForSeal(c) ==
    /\ Loads(c, "seal")
    /\ Ring(c) # <<>>
    /\ Become(c, [task[c] EXCEPT
            !.pc = "use",
            !.object = [category |-> task[c].name, version |-> Len(Ring(c)),
                        key |-> Last(Ring(c))]])
    /\ UNCHANGED <<keystore, manifest, started, minted, sealed>>

\* The caller's put() of what it sealed.
Seal(c) ==
    /\ At(c, "seal", "use")
    /\ sealed' = sealed \cup {task[c].object}
    /\ Become(c, Idle)
    /\ UNCHANGED <<keystore, master, manifest, started, minted>>

\* _save_manifest, which ends the call; of ensure_initialized(), a start.
SaveManifest(c) ==
    /\ task[c].pc = "save"
    /\ manifest' = [master |-> MasterOf(ProcessOf[c]), rings |-> task[c].rings]
    /\ CacheMaster(c)
    /\ started' = IF task[c].op = "init" THEN started \cup {ProcessOf[c]} ELSE started
    /\ Become(c, Idle)
    /\ UNCHANGED <<keystore, minted, sealed>>

-----------------------------------------------------------------------------
(* Faults. *)

KeyCallFails(c) ==
    /\ "error" \in KeyFaults
    /\ task[c].pc \in {"exists", "load", "save", "use"}
    /\ Become(c, Idle)
    /\ UNCHANGED <<keystore, master, manifest, started, minted, sealed>>

KeyCrash(p) ==
    /\ "crash" \in KeyFaults
    /\ task' = [c \in Clients |-> IF ProcessOf[c] = p THEN Idle ELSE task[c]]
    /\ master' = [master EXCEPT ![p] = Absent]
    /\ started' = started \ {p}
    /\ UNCHANGED <<keystore, manifest, minted, sealed>>

Step(c) ==
    \/ StartInit(c) \/ MintMaster(c) \/ ManifestExists(c) \/ NoManifest(c)
    \/ Start(c) \/ LoadRefused(c) \/ LoadForCreate(c) \/ LoadForRotate(c)
    \/ LoadForSeal(c) \/ Seal(c) \/ SaveManifest(c) \/ KeyCallFails(c)

KeyNext ==
    \/ \E c \in Clients : Step(c)
    \/ \E p \in Processes : KeyCrash(p)

KeySpec == KeyInit /\ [][KeyNext]_managerVars

-----------------------------------------------------------------------------
(* Properties. *)

KeyOf(category, version) ==
    IF manifest # Absent /\ version \in 1 .. Len(manifest.rings[category])
    THEN manifest.rings[category][version] ELSE Absent

\* Every object a caller has sealed opens with the key the manifest holds under
\* the object's category and key version.  (One call at a time.)
SealedObjectsOpen == \A o \in sealed : KeyOf(o.category, o.version) = o.key

\* A program that has started can read the manifest with the master key in the
\* keystore, however its own earlier starts were cut short.  (One process.)
StartedCanRead == started # {} => manifest # Absent /\ manifest.master = keystore

\* What a component opens with get_category_key(name) and no version (the index
\* and every other object under "meta", the conversations, the briefings, the
\* research items and sessions, the summaries) was sealed with the key that is
\* now active.
ActiveKeyOpens == \A o \in sealed : KeyOf(o.category, Len(manifest.rings[o.category])) = o.key
=============================================================================
