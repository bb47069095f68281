------------------------------ MODULE Categories ------------------------------
(***************************************************************************)
(* The custom categories (src/mysti/memory/categories.py) over the key     *)
(* hierarchy of KeyManager: a category has a key ring in the manifest and  *)
(* an entry in one configuration object, which every change reads, edits   *)
(* and writes back whole.  Creating one writes the manifest, then the      *)
(* configuration; deleting one leaves its ring where it is.                *)
(*                                                                         *)
(* A client is either inside a call of the category manager, which calls   *)
(* the key manager in turn, or in one of KeyManager's own calls.  Each     *)
(* storage call is one step with the code up to the next.  An entry of the *)
(* configuration is its name.  The records of a category are in            *)
(* MemoryService: whether some are left is open here.                      *)
(***************************************************************************)
EXTENDS KeyManager

CONSTANTS
    Meta,       \* the reserved name whose key seals the configuration
    Custom      \* the names users create: not defaults, not reserved

ASSUME MetaAssumption == Meta \in Categories
ASSUME CustomAssumption == Custom \subseteq Names \ Categories

VARIABLES
    config,     \* the configuration object, or Absent
    created,    \* the categories audited as created and not since as deleted
    misread,    \* observer: the categories there were when a failed read of the
                \* configuration was taken for none, and that were not written since
    call        \* call[c]: the category manager's locals

own == <<config, created, misread, call>>

NoCall == [op |-> "none", pc |-> "idle", name |-> Absent, existing |-> {}, key |-> Absent]

Config == [key : Material, names : SUBSET Custom]

ASSUME ConfigAssumption == Absent \notin Config

CategoriesTypeOK ==
    /\ KeyTypeOK
    /\ config \in Config \cup {Absent}
    /\ created \subseteq Custom
    /\ misread \subseteq Custom
    /\ call \in [Clients -> [op : {"none", "create", "delete"},
                             pc : {"idle", "get", "unseal", "count", "key", "seal", "put"},
                             name : Custom \cup {Absent},
                             existing : SUBSET Custom,
                             key : Material \cup {Absent}]]

CategoriesInit ==
    /\ KeyInit
    /\ config = Absent
    /\ created = {}
    /\ misread = {}
    /\ call = [c \in Clients |-> NoCall]

-----------------------------------------------------------------------------
In(c, pc) == call[c].pc = pc

Advance(c, t) == call' = [call EXCEPT ![c] = t]

Goto(c, pc) == Advance(c, [call[c] EXCEPT !.pc = pc])

Finish(c) == Advance(c, NoCall)

keyVars == <<keystore, master, manifest, started, minted, sealed, task>>

\* Bound: a creation begins only if there is material left for its key.
StartCall(c) ==
    /\ In(c, "idle") /\ task[c] = Idle
    /\ ProcessOf[c] \in started
    /\ \E op \in {"create", "delete"}, n \in Custom :
        /\ op = "create" => Affordable
        /\ Advance(c, [NoCall EXCEPT !.op = op, !.pc = "get", !.name = n])
    /\ UNCHANGED <<keyVars, config, created, misread>>

\* With the names read so far: a creation refuses a name that is there, a
\* deletion one that is not.
Refused(c, existing) == (call[c].op = "create") <=> (call[c].name \in existing)

\* Mutation: the configuration is written without a key being made.
Decide_NoKey(c, existing) ==
    /\ IF Refused(c, existing)
       THEN Finish(c)
       ELSE Advance(c, [call[c] EXCEPT
                !.pc = IF call[c].op = "create" THEN "seal" ELSE "count",
                !.existing = existing])
    /\ UNCHANGED task

\* What follows _load_config: the key of a new category, the records of an old one.
Decide(c, existing) ==
    IF Refused(c, existing)
    THEN Finish(c) /\ UNCHANGED task
    ELSE IF call[c].op = "create"
    THEN /\ Advance(c, [call[c] EXCEPT !.pc = "key", !.existing = existing])
         /\ Become(c, Doing("create", "load", call[c].name))
    ELSE /\ Advance(c, [call[c] EXCEPT !.pc = "count", !.existing = existing])
         /\ UNCHANGED task

GetConfig(c) ==
    /\ In(c, "get")
    /\ IF config = Absent THEN Decide(c, {}) ELSE Goto(c, "unseal") /\ UNCHANGED task
    /\ UNCHANGED <<keystore, master, manifest, started, minted, sealed, config, created, misread>>

\* `except Exception' around the get(): any failure reads as no configuration.
GetConfigFails(c) ==
    /\ "error" \in KeyFaults
    /\ In(c, "get")
    /\ misread' = misread \cup created
    /\ Decide(c, {})
    /\ UNCHANGED <<keystore, master, manifest, started, minted, sealed, config, created>>

\* get_category_key("meta"), with what the manifest says at that moment.
HasMetaKey(c) == manifest # Absent /\ manifest.master = MasterOf(ProcessOf[c])
                 /\ manifest.rings[Meta] # <<>>

MetaKey == Last(manifest.rings[Meta])

\* EncryptionError, which decrypt() raises, is not among the errors caught.
Unseal(c) ==
    /\ In(c, "unseal")
    /\ CacheMaster(c)
    /\ IF HasMetaKey(c) /\ MetaKey = config.key
       THEN Decide(c, config.names)
       ELSE Finish(c) /\ UNCHANGED task
    /\ UNCHANGED <<keystore, manifest, started, minted, sealed, config, created, misread>>

\* The index says whether the category is empty: it may not be if an object has
\* been sealed for it.
Count(c) ==
    /\ In(c, "count")
    /\ \/ Goto(c, "seal")
       \/ (\E o \in sealed : o.category = call[c].name) /\ Finish(c)
    /\ UNCHANGED <<keyVars, config, created, misread>>

\* KeyManager.create_category, called by create_category.
MakeKey(c) ==
    /\ In(c, "key")
    /\ \/ LoadForCreate(c) /\ UNCHANGED call
       \/ SaveManifest(c) /\ Goto(c, "seal")
       \/ (LoadRefused(c) \/ KeyCallFails(c)) /\ Finish(c)
    /\ UNCHANGED <<config, created, misread>>

SealConfig(c) ==
    /\ In(c, "seal")
    /\ CacheMaster(c)
    /\ IF HasMetaKey(c)
       THEN Advance(c, [call[c] EXCEPT !.pc = "put", !.key = MetaKey])
       ELSE Finish(c)
    /\ UNCHANGED <<keystore, manifest, started, minted, sealed, task, config, created, misread>>

\* Mutation: the configuration is written with the new category alone.
PutConfig_Alone(c) ==
    LET t == call[c]
    IN  /\ In(c, "put")
        /\ config' = [key |-> t.key, names |-> IF t.op = "create" THEN {t.name}
                                               ELSE t.existing \ {t.name}]
        /\ created' = IF t.op = "create" THEN created \cup {t.name} ELSE created \ {t.name}
        /\ misread' = misread \ {t.name}
        /\ Finish(c)
        /\ UNCHANGED keyVars

\* _save_custom, and the audit entry that ends the call.
PutConfig(c) ==
    LET t == call[c]
        Edit(names) == IF t.op = "create" THEN names \cup {t.name} ELSE names \ {t.name}
    IN  /\ In(c, "put")
        /\ config' = [key |-> t.key, names |-> Edit(t.existing)]
        /\ created' = Edit(created)
        /\ misread' = misread \ {t.name}
        /\ Finish(c)
        /\ UNCHANGED keyVars

CategoryCallFails(c) ==
    /\ "error" \in KeyFaults
    /\ call[c].pc \in {"unseal", "count", "seal", "put"}
    /\ Finish(c)
    /\ UNCHANGED <<keyVars, config, created, misread>>

-----------------------------------------------------------------------------
\* A call of the key manager that no category call is making.
KeyCall(c) == In(c, "idle") /\ Step(c) /\ UNCHANGED own

CategoryStep(c) ==
    \/ StartCall(c) \/ GetConfig(c) \/ GetConfigFails(c) \/ Unseal(c) \/ Count(c)
    \/ MakeKey(c) \/ SealConfig(c) \/ PutConfig(c) \/ CategoryCallFails(c)

CrashProcess(p) ==
    /\ KeyCrash(p)
    /\ call' = [c \in Clients |-> IF ProcessOf[c] = p THEN NoCall ELSE call[c]]
    /\ UNCHANGED <<config, created, misread>>

CategoriesNext ==
    \/ \E c \in Clients : KeyCall(c) \/ CategoryStep(c)
    \/ \E p \in Processes : CrashProcess(p)

CategoriesSpec == CategoriesInit /\ [][CategoriesNext]_<<managerVars, own>>

-----------------------------------------------------------------------------
(* Properties, of one call at a time. *)

\* Every category the configuration names has a key in the manifest, so that
\* records can be stored in it: whatever call of create_category is cut short,
\* the configuration is the last thing it writes.
ConfiguredHasKey ==
    config # Absent =>
        \A n \in config.names : manifest # Absent /\ manifest.rings[n] # <<>>

\* A category that was created and not deleted stays configured, unless it was there
\* when a read of the configuration failed: _load_config() takes a failure for an
\* absent object, and the create_category() that made the read writes those categories
\* away.  It costs no category that is created afterwards.
CreatedStaysConfigured ==
    created \subseteq misread \cup (IF config = Absent THEN {} ELSE config.names)
=============================================================================
