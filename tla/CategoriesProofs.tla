---------------------------- MODULE CategoriesProofs ----------------------------
(***************************************************************************)
(* Proofs about Categories and the KeyManager under it, for any names, key *)
(* material, categories and faults, of one program whose calls follow each *)
(* other.  What makes them inductive: between two steps of its call nobody *)
(* else writes, so that what a call has in hand is still what is stored -- *)
(* the manifest it is about to save has every version of the one that is   *)
(* there, and the names it is about to write all have their keys.          *)
(***************************************************************************)
EXTENDS Categories, TLAPS

\* One program, whose calls follow each other.
OneCaller ==
    /\ \A c, d \in Clients : c = d
    /\ \A p, q \in Processes : p = q

-----------------------------------------------------------------------------
(* The key manager *)

KeyRings == [Names -> Seq(Material)]

KeyTask == [op : {"none", "init", "create", "rotate", "seal"},
            pc : {"idle", "mint", "exists", "load", "save", "use"},
            name : Names \cup {Absent},
            rings : KeyRings \cup {Absent},
            object : [category : Names, version : Nat, key : Material] \cup {Absent}]

KeyShape ==
    /\ keystore \in Material \cup {Absent}
    /\ master \in [Processes -> Material \cup {Absent}]
    /\ manifest \in [master : Material, rings : KeyRings] \cup {Absent}
    /\ task \in [Clients -> KeyTask]

\* The manifest has a key for category n.
HasKey(n) == manifest # Absent /\ manifest.rings[n] # <<>>

Opens(o) ==
    /\ manifest # Absent
    /\ o.category \in Names
    /\ o.version \in 1 .. Len(manifest.rings[o.category])
    /\ manifest.rings[o.category][o.version] = o.key

Extends(old, new) ==
    Len(old) <= Len(new) /\ \A k \in 1 .. Len(old) : new[k] = old[k]

\* A program knows no master key but the one in the keystore, which seals the manifest.
OneMaster ==
    /\ \A p \in Processes : master[p] # Absent => master[p] = keystore
    /\ manifest # Absent => keystore # Absent /\ manifest.master = keystore
    /\ started # {} => manifest # Absent

\* What a task has in hand fits what is stored: the first run makes no second master key,
\* and what is about to replace the manifest has every version that is in it.
Suits(t) ==
    /\ t.pc = "mint" => keystore = Absent
    /\ t.pc \in {"exists", "save"} => keystore # Absent
    /\ t.pc = "load" => t.name \in Names
    /\ t.pc = "use" => Opens(t.object)
    /\ t.pc = "save" =>
        /\ t.rings \in KeyRings
        /\ manifest # Absent => \A n \in Names : Extends(manifest.rings[n], t.rings[n])

KeyInv ==
    /\ KeyShape /\ OneMaster
    /\ \A c \in Clients : Suits(task[c])
    /\ \A o \in sealed : Opens(o)

LEMMA IdleTask == Idle \in KeyTask /\ Idle.pc = "idle" /\ Suits(Idle)
  BY DEF Idle, KeyTask, Suits

LEMMA KeyInvInit == KeyInit => KeyInv
<1> SUFFICES ASSUME KeyInit
             PROVE  KeyInv
  OBVIOUS
<1>1. KeyShape
  BY IdleTask DEF KeyInit, KeyShape
<1>2. OneMaster
  BY DEF KeyInit, OneMaster
<1>3. \A c \in Clients : task[c] = Idle
  BY DEF KeyInit
<1>4. Idle.pc = "idle"
  BY IdleTask
<1>5. QED
  BY <1>1, <1>2, <1>3, <1>4 DEF KeyInit, KeyInv, Suits

LEMMA MasterIsKeystore ==
  ASSUME KeyInv, NEW p \in Processes
  PROVE  MasterOf(p) = keystore
  BY DEF KeyInv, OneMaster, MasterOf

\* A step to t, when nothing that is stored changes.
LEMMA BecomeSuits ==
  ASSUME KeyInv, OneCaller, NEW c \in Clients, NEW t \in KeyTask, Become(c, t), Suits(t),
         UNCHANGED <<keystore, manifest, sealed>>,
         UNCHANGED master \/ CacheMaster(c),
         started' = {} \/ UNCHANGED started \/ manifest # Absent
  PROVE  KeyInv'
<1>1. task' \in [Clients -> KeyTask] /\ \A d \in Clients : task'[d] = t
  BY DEF Become, OneCaller, KeyInv, KeyShape
<1>2. /\ master' \in [Processes -> Material \cup {Absent}]
      /\ \A p \in Processes : master'[p] # Absent => master'[p] = keystore
  <2>1. CASE UNCHANGED master
    BY <2>1 DEF KeyInv, KeyShape, OneMaster
  <2>2. CASE CacheMaster(c)
    <3>1. ProcessOf[c] \in Processes /\ MasterOf(ProcessOf[c]) = keystore
      BY ProcessOfAssumption, MasterIsKeystore
    <3>2. master' = [master EXCEPT ![ProcessOf[c]] = keystore]
      BY <2>2, <3>1 DEF CacheMaster
    <3>3. QED
      BY <3>1, <3>2 DEF KeyInv, KeyShape, OneMaster
  <2>3. QED
    BY <2>1, <2>2
<1>3. KeyShape'
  BY <1>1, <1>2 DEF KeyInv, KeyShape
<1>4. OneMaster'
  BY <1>2 DEF KeyInv, OneMaster
<1>5. \A d \in Clients : Suits(task[d])'
  BY <1>1 DEF Suits, Opens
<1>6. \A o \in sealed' : Opens(o)'
  BY DEF KeyInv, Opens
<1>7. QED
  BY <1>3, <1>4, <1>5, <1>6 DEF KeyInv

LEMMA DoingTask ==
  ASSUME NEW op \in {"init", "create", "rotate", "seal"}, NEW pc \in {"mint", "exists", "load"},
         NEW n \in Names \cup {Absent}
  PROVE  /\ Doing(op, pc, n) \in KeyTask
         /\ Doing(op, pc, n).pc = pc /\ Doing(op, pc, n).op = op /\ Doing(op, pc, n).name = n
  BY DEF Doing, Idle, KeyTask

LEMMA StartSteps ==
  ASSUME KeyInv, OneCaller, NEW c \in Clients, StartInit(c) \/ Start(c) \/ ManifestExists(c)
  PROVE  KeyInv'
<1>1. CASE StartInit(c)
  <2> DEFINE t == Doing("init", IF keystore = Absent THEN "mint" ELSE "exists", Absent)
  <2>1. Become(c, t) /\ UNCHANGED <<keystore, master, manifest, started, sealed>>
    BY <1>1 DEF StartInit
  <2>2. t \in KeyTask /\ t.pc = (IF keystore = Absent THEN "mint" ELSE "exists")
    BY DoingTask
  <2>3. Suits(t)
    BY <2>2 DEF Suits
  <2> HIDE DEF t
  <2>4. QED
    BY <2>1, <2>2, <2>3, BecomeSuits
<1>2. CASE Start(c)
  <2>1. PICK op \in {"create", "rotate", "seal"}, n \in Names : Become(c, Doing(op, "load", n))
    BY <1>2 DEF Start
  <2>2. UNCHANGED <<keystore, master, manifest, started, sealed>>
    BY <1>2 DEF Start
  <2>3. Doing(op, "load", n) \in KeyTask /\ Doing(op, "load", n).pc = "load"
        /\ Doing(op, "load", n).name = n
    BY DoingTask
  <2>4. Suits(Doing(op, "load", n))
    BY <2>3 DEF Suits
  <2>5. QED
    BY <2>1, <2>2, <2>3, <2>4, BecomeSuits
<1>3. CASE ManifestExists(c)
  <2>1. /\ Become(c, Idle) /\ UNCHANGED <<keystore, master, manifest, sealed>>
        /\ manifest # Absent
    BY <1>3 DEF ManifestExists
  <2>2. QED
    BY <2>1, IdleTask, BecomeSuits
<1>4. QED
  BY <1>1, <1>2, <1>3

LEMMA MintSuits ==
  ASSUME KeyInv, OneCaller, NEW c \in Clients, MintMaster(c)
  PROVE  KeyInv'
<1> DEFINE t == Doing("init", "exists", Absent)
<1>1. PICK m \in Material \ minted : keystore' = m
  BY DEF MintMaster
<1>2. /\ master' = [master EXCEPT ![ProcessOf[c]] = Absent] /\ Become(c, t)
      /\ UNCHANGED <<manifest, started, sealed>> /\ task[c].pc = "mint"
  BY DEF MintMaster, At
<1>3. keystore' \in Material /\ keystore' # Absent
  BY <1>1, AbsentAssumption
<1>4. t \in KeyTask /\ t.pc = "exists"
  BY DoingTask
<1> HIDE DEF t
<1>5. keystore = Absent /\ manifest = Absent /\ started = {} /\ sealed = {}
  BY <1>2 DEF KeyInv, Suits, OneMaster, Opens
<1>6. task' \in [Clients -> KeyTask] /\ \A d \in Clients : task'[d] = t
  BY <1>2, <1>4 DEF Become, OneCaller, KeyInv, KeyShape
<1>7. master' \in [Processes -> Material \cup {Absent}] /\ \A p \in Processes : master'[p] = Absent
  BY <1>2, ProcessOfAssumption DEF OneCaller, KeyInv, KeyShape
<1>8. KeyShape' /\ OneMaster'
  BY <1>2, <1>3, <1>5, <1>6, <1>7 DEF KeyInv, KeyShape, OneMaster
<1>9. \A d \in Clients : Suits(task[d])'
  BY <1>3, <1>4, <1>6 DEF Suits
<1>10. QED
  BY <1>2, <1>5, <1>8, <1>9 DEF KeyInv

\* What a call that adds a key has in hand when it is about to save.
LEMMA SavingSuits ==
  ASSUME KeyInv, OneCaller, NEW c \in Clients, NEW rings \in KeyRings, Saving(c, rings),
         keystore # Absent,
         manifest # Absent => \A n \in Names : Extends(manifest.rings[n], rings[n]),
         CacheMaster(c), UNCHANGED <<keystore, manifest, started, sealed>>
  PROVE  KeyInv'
<1> DEFINE t == [task[c] EXCEPT !.pc = "save", !.rings = rings]
<1>1. Become(c, t)
  BY DEF Saving
<1>2. t \in KeyTask /\ t.pc = "save" /\ t.rings = rings
  BY DEF KeyInv, KeyShape, KeyTask
<1> HIDE DEF t
<1>3. Suits(t)
  BY <1>2 DEF Suits
<1>4. QED
  BY <1>1, <1>2, <1>3, BecomeSuits

LEMMA NoManifestSuits ==
  ASSUME KeyInv, OneCaller, NEW c \in Clients, NoManifest(c)
  PROVE  KeyInv'
<1>1. PICK fresh \in [Categories -> Material \ minted] :
         Saving(c, [n \in Names |-> IF n \in Categories THEN <<fresh[n]>> ELSE <<>>])
  BY DEF NoManifest
<1>2. [n \in Names |-> IF n \in Categories THEN <<fresh[n]>> ELSE <<>>] \in KeyRings
  BY DEF KeyRings
<1>3. /\ task[c].pc = "exists" /\ manifest = Absent
      /\ CacheMaster(c) /\ UNCHANGED <<keystore, manifest, started, sealed>>
  BY DEF NoManifest, At
<1>4. keystore # Absent
  BY <1>3 DEF KeyInv, Suits
<1>5. QED
  BY <1>1, <1>2, <1>3, <1>4, SavingSuits

\* The manifest with a key more in one ring.
LEMMA OneMore ==
  ASSUME NEW old \in KeyRings, NEW n \in Names, NEW key \in Material
  PROVE  LET new == [old EXCEPT ![n] = Append(@, key)]
         IN  new \in KeyRings /\ new[n] # <<>> /\ \A m \in Names : Extends(old[m], new[m])
<1> DEFINE new == [old EXCEPT ![n] = Append(@, key)]
<1>1. \A m \in Names : old[m] \in Seq(Material)
  BY DEF KeyRings
<1>2. Append(old[n], key) \in Seq(Material) /\ Append(old[n], key) # <<>>
  BY <1>1
<1>3. Extends(old[n], Append(old[n], key))
  BY <1>1 DEF Extends
<1>4. \A m \in Names : Extends(old[m], old[m])
  BY <1>1 DEF Extends
<1>5. new \in KeyRings /\ new[n] = Append(old[n], key) /\ \A m \in Names \ {n} : new[m] = old[m]
  BY <1>2 DEF KeyRings
<1>6. QED
  BY <1>2, <1>3, <1>4, <1>5

LEMMA LoadToSaveSuits ==
  ASSUME KeyInv, OneCaller, NEW c \in Clients, LoadForCreate(c) \/ LoadForRotate(c)
  PROVE  /\ KeyInv'
         /\ task'[c].pc = "save" /\ task'[c].rings[task[c].name] # <<>>
         /\ task'[c].name = task[c].name /\ task'[c].op = task[c].op
<1> DEFINE n == task[c].name
           New(key) == [manifest.rings EXCEPT ![n] = Append(@, key)]
<1>0. n \in Names
  BY DEF LoadForCreate, LoadForRotate, Loads, At, KeyInv, Suits
<1>1. /\ manifest # Absent /\ CacheMaster(c) /\ UNCHANGED <<keystore, manifest, started, sealed>>
  BY DEF LoadForCreate, LoadForRotate, Loads
<1>2. manifest.rings \in KeyRings /\ keystore # Absent
  BY <1>1 DEF KeyInv, KeyShape, OneMaster
<1>3. PICK key \in Material : Saving(c, New(key))
  <2>1. CASE LoadForRotate(c)
    BY <2>1 DEF LoadForRotate
  <2>2. CASE LoadForCreate(c)
    <3>1. PICK key \in Material : Saving(c, [manifest.rings EXCEPT ![n] = <<key>>])
      BY <2>2 DEF LoadForCreate
    <3>2. manifest.rings[n] = <<>>
      BY <2>2 DEF LoadForCreate, Ring
    <3>3. New(key) = [manifest.rings EXCEPT ![n] = <<key>>]
      BY <3>2
    <3>4. QED
      BY <3>1, <3>3
  <2>3. QED
    BY <2>1, <2>2
<1>4. /\ New(key) \in KeyRings /\ New(key)[n] # <<>>
      /\ \A m \in Names : Extends(manifest.rings[m], New(key)[m])
  BY <1>0, <1>2, OneMore
<1> HIDE DEF New
<1>5. KeyInv'
  BY <1>1, <1>2, <1>3, <1>4, SavingSuits
<1>6. task'[c] = [task[c] EXCEPT !.pc = "save", !.rings = New(key)]
  BY <1>3 DEF Saving, Become, KeyInv, KeyShape
<1>7. task[c] \in KeyTask
  BY DEF KeyInv, KeyShape
<1>8. QED
  BY <1>4, <1>5, <1>6, <1>7 DEF KeyTask

LEMMA LoadForSealSuits ==
  ASSUME KeyInv, OneCaller, NEW c \in Clients, LoadForSeal(c)
  PROVE  KeyInv'
<1> DEFINE ring == manifest.rings[task[c].name]
           object == [category |-> task[c].name, version |-> Len(ring), key |-> Last(ring)]
           t == [task[c] EXCEPT !.pc = "use", !.object = object]
<1>1. /\ manifest # Absent /\ ring # <<>> /\ CacheMaster(c) /\ Become(c, t)
      /\ UNCHANGED <<keystore, manifest, started, sealed>>
  BY DEF LoadForSeal, Loads, Ring
<1>0. task[c].name \in Names
  BY DEF LoadForSeal, Loads, At, KeyInv, Suits
<1>2. ring \in Seq(Material)
  BY <1>0, <1>1 DEF KeyInv, KeyShape, KeyRings
<1>3. Len(ring) \in 1 .. Len(ring) /\ Len(ring) \in Nat /\ ring[Len(ring)] \in Material
  BY <1>1, <1>2
<1>4. object \in [category : Names, version : Nat, key : Material] /\ Opens(object)
  BY <1>0, <1>1, <1>3 DEF Opens, Last
<1>5. t \in KeyTask /\ t.pc = "use" /\ t.object = object
  BY <1>0, <1>4 DEF KeyInv, KeyShape, KeyTask
<1> HIDE DEF t, object
<1>6. Suits(t)
  BY <1>4, <1>5 DEF Suits
<1>7. QED
  BY <1>1, <1>5, <1>6, BecomeSuits

LEMMA QuietSuits ==
  ASSUME KeyInv, OneCaller, NEW c \in Clients, LoadRefused(c) \/ KeyCallFails(c)
  PROVE  KeyInv' /\ task'[c] = Idle
<1>1. /\ Become(c, Idle) /\ UNCHANGED <<keystore, manifest, started, sealed>>
      /\ UNCHANGED master \/ CacheMaster(c)
  BY DEF LoadRefused, KeyCallFails
<1>2. KeyInv'
  BY <1>1, IdleTask, BecomeSuits
<1>3. QED
  BY <1>1, <1>2 DEF Become, KeyInv, KeyShape

LEMMA SealSuits ==
  ASSUME KeyInv, OneCaller, NEW c \in Clients, Seal(c)
  PROVE  KeyInv'
<1>1. /\ task[c].pc = "use" /\ sealed' = sealed \cup {task[c].object} /\ Become(c, Idle)
      /\ UNCHANGED <<keystore, master, manifest, started>>
  BY DEF Seal, At
<1>2. Opens(task[c].object)
  BY <1>1 DEF KeyInv, Suits
<1>3. task' \in [Clients -> KeyTask] /\ \A d \in Clients : task'[d] = Idle
  BY <1>1, IdleTask DEF Become, OneCaller, KeyInv, KeyShape
<1>4. KeyShape' /\ OneMaster'
  BY <1>1, <1>3 DEF KeyInv, KeyShape, OneMaster
<1>5. \A d \in Clients : Suits(task[d])'
  BY <1>3, IdleTask DEF Suits
<1>6. \A o \in sealed' : Opens(o)'
  BY <1>1, <1>2 DEF KeyInv, Opens
<1>7. QED
  BY <1>4, <1>5, <1>6 DEF KeyInv

\* A manifest is replaced by one that has all its versions.
LEMMA SaveSuits ==
  ASSUME KeyInv, OneCaller, NEW c \in Clients, SaveManifest(c)
  PROVE  /\ KeyInv'
         /\ manifest'.rings = task[c].rings /\ manifest' # Absent
         /\ \A n \in Names : HasKey(n) => HasKey(n)'
         /\ task'[c] = Idle
<1>1. /\ task[c].pc = "save" /\ CacheMaster(c) /\ Become(c, Idle)
      /\ manifest' = [master |-> MasterOf(ProcessOf[c]), rings |-> task[c].rings]
      /\ UNCHANGED <<keystore, sealed>>
  BY DEF SaveManifest
<1>2. ProcessOf[c] \in Processes /\ MasterOf(ProcessOf[c]) = keystore
  BY ProcessOfAssumption, MasterIsKeystore
<1>3. /\ task[c].rings \in KeyRings /\ keystore # Absent /\ keystore \in Material
      /\ manifest # Absent => \A n \in Names : Extends(manifest.rings[n], task[c].rings[n])
  BY <1>1 DEF KeyInv, Suits, KeyShape
<1>4. /\ manifest' \in [master : Material, rings : KeyRings] /\ manifest' # Absent
      /\ manifest'.master = keystore /\ manifest'.rings = task[c].rings
  BY <1>1, <1>2, <1>3, AbsentAssumption DEF KeyRings
<1>5. /\ master' \in [Processes -> Material \cup {Absent}]
      /\ \A p \in Processes : master'[p] = keystore
  BY <1>1, <1>2, <1>3 DEF CacheMaster, OneCaller, KeyInv, KeyShape
<1>6. task' \in [Clients -> KeyTask] /\ \A d \in Clients : task'[d] = Idle
  BY <1>1, IdleTask DEF Become, OneCaller, KeyInv, KeyShape
<1>7. KeyShape' /\ OneMaster'
  BY <1>1, <1>3, <1>4, <1>5, <1>6 DEF KeyInv, KeyShape, OneMaster
<1>8. \A d \in Clients : Suits(task[d])'
  BY <1>6, IdleTask DEF Suits
<1>9. ASSUME NEW n \in Names, manifest # Absent
      PROVE  /\ Len(manifest.rings[n]) \in Nat /\ Len(manifest'.rings[n]) \in Nat
             /\ Len(manifest.rings[n]) <= Len(manifest'.rings[n])
             /\ \A k \in 1 .. Len(manifest.rings[n]) : manifest'.rings[n][k] = manifest.rings[n][k]
  <2>1. manifest.rings[n] \in Seq(Material) /\ manifest'.rings[n] \in Seq(Material)
    BY <1>3, <1>4, <1>9 DEF KeyInv, KeyShape, KeyRings
  <2>2. Extends(manifest.rings[n], manifest'.rings[n])
    BY <1>3, <1>4, <1>9
  <2>3. Len(manifest.rings[n]) \in Nat /\ Len(manifest'.rings[n]) \in Nat
    BY <2>1
  <2>4. QED
    BY <2>2, <2>3 DEF Extends
<1>10. ASSUME NEW o \in sealed
       PROVE  Opens(o)'
  <2>1. Opens(o)
    BY DEF KeyInv
  <2>2. /\ manifest # Absent /\ o.category \in Names
        /\ o.version \in 1 .. Len(manifest.rings[o.category])
        /\ manifest.rings[o.category][o.version] = o.key
    BY <2>1 DEF Opens
  <2>3. o.version \in 1 .. Len(manifest'.rings[o.category])
    BY <1>9, <2>2
  <2>4. manifest'.rings[o.category][o.version] = o.key
    BY <1>9, <2>2
  <2>5. QED
    BY <1>4, <2>2, <2>3, <2>4 DEF Opens
<1>11. ASSUME NEW n \in Names, HasKey(n)
       PROVE  HasKey(n)'
  <2>1. manifest # Absent /\ manifest.rings[n] # <<>>
    BY <1>11 DEF HasKey
  <2>2. manifest.rings[n] \in Seq(Material) /\ manifest'.rings[n] \in Seq(Material)
    BY <1>3, <1>4, <2>1 DEF KeyInv, KeyShape, KeyRings
  <2>3. Len(manifest.rings[n]) # 0
    BY <2>1, <2>2
  <2>4. Len(manifest'.rings[n]) # 0
    BY <1>9, <2>1, <2>3
  <2>5. manifest'.rings[n] # <<>>
    BY <2>2, <2>4
  <2>6. QED
    BY <1>4, <2>5 DEF HasKey
<1>12. QED
  BY <1>1, <1>4, <1>6, <1>7, <1>8, <1>10, <1>11 DEF KeyInv

LEMMA CrashSuits ==
  ASSUME KeyInv, OneCaller, NEW p \in Processes, KeyCrash(p)
  PROVE  KeyInv' /\ \A c \in Clients : task'[c] = Idle
<1>1. /\ \A c \in Clients : task'[c] = Idle
      /\ task' \in [Clients -> KeyTask]
  BY ProcessOfAssumption, IdleTask DEF KeyCrash, OneCaller
<1>2. master' \in [Processes -> Material \cup {Absent}] /\ \A q \in Processes : master'[q] = Absent
  BY DEF KeyCrash, OneCaller, KeyInv, KeyShape
<1>3. UNCHANGED <<keystore, manifest, sealed>> /\ started' \subseteq started
  BY DEF KeyCrash
<1>4. KeyShape' /\ OneMaster'
  BY <1>1, <1>2, <1>3 DEF KeyInv, KeyShape, OneMaster
<1>5. \A d \in Clients : Suits(task[d])'
  BY <1>1, IdleTask DEF Suits
<1>6. \A o \in sealed' : Opens(o)'
  BY <1>3 DEF KeyInv, Opens
<1>7. QED
  BY <1>1, <1>4, <1>5, <1>6 DEF KeyInv

LEMMA KeyStepSuits ==
  ASSUME KeyInv, OneCaller, NEW c \in Clients, Step(c)
  PROVE  KeyInv' /\ \A n \in Names : HasKey(n) => HasKey(n)'
<1>1. KeyInv'
  BY StartSteps, MintSuits, NoManifestSuits, LoadToSaveSuits, LoadForSealSuits, QuietSuits,
     SealSuits, SaveSuits DEF Step
<1>2. CASE SaveManifest(c)
  BY <1>2, SaveSuits
<1>3. CASE ~SaveManifest(c)
  <2>1. UNCHANGED manifest
    BY <1>3 DEF Step, StartInit, MintMaster, ManifestExists, NoManifest, Start, LoadRefused,
                LoadForCreate, LoadForRotate, LoadForSeal, Seal, KeyCallFails
  <2>2. QED
    BY <1>1, <2>1 DEF HasKey
<1>4. QED
  BY <1>1, <1>2, <1>3

-----------------------------------------------------------------------------
(* The category manager *)

CallState == [op : {"none", "create", "delete"},
              pc : {"idle", "get", "unseal", "count", "key", "seal", "put"},
              name : Custom \cup {Absent},
              existing : SUBSET Custom,
              key : Material \cup {Absent}]

CallShape ==
    /\ config \in Config \cup {Absent}
    /\ created \subseteq Custom
    /\ misread \subseteq Custom
    /\ call \in [Clients -> CallState]

\* The categories in `names' have keys, and but for those there were when a
\* read failed they are all that were created.
Complete(names) ==
    /\ \A n \in names : HasKey(n)
    /\ created \subseteq names \cup misread

\* What a call has in hand fits what is stored: between two of its steps nobody else
\* changes it.
Agrees(t, k) ==
    /\ t.pc # "idle" => t.name \in Custom
    /\ t.pc \in {"count", "key", "seal", "put"} => Complete(t.existing)
    /\ t.pc = "unseal" => config # Absent
    /\ t.pc = "count" => t.op # "create"
    /\ t.pc \in {"seal", "put"} /\ t.op = "create" => HasKey(t.name)
    /\ t.pc = "put" => t.key \in Material
    /\ t.pc = "key" => /\ t.op = "create" /\ k.op = "create" /\ k.name = t.name
                       /\ k.pc \in {"load", "save"}
                       /\ k.pc = "save" => k.rings[k.name] # <<>>
    /\ t.pc \notin {"idle", "key"} => k.pc = "idle"

StoredInv ==
    /\ config # Absent => \A n \in config.names : HasKey(n)
    /\ CreatedStaysConfigured

CallInv ==
    /\ KeyInv /\ CallShape /\ StoredInv
    /\ \A c \in Clients : Agrees(call[c], task[c])

LEMMA NoCallAgrees ==
  /\ NoCall \in CallState /\ NoCall.pc = "idle"
  /\ \A k : Agrees(NoCall, k)
<1>1. NoCall \in CallState /\ NoCall.pc = "idle"
  BY DEF NoCall, CallState
<1>2. QED
  BY <1>1 DEF Agrees

LEMMA CallInvInit == CategoriesInit => CallInv
<1> SUFFICES ASSUME CategoriesInit
             PROVE  CallInv
  OBVIOUS
<1>1. KeyInv
  BY KeyInvInit DEF CategoriesInit
<1>2. CallShape
  BY NoCallAgrees DEF CategoriesInit, CallShape
<1>3. StoredInv
  BY DEF CategoriesInit, StoredInv, CreatedStaysConfigured
<1>4. \A c \in Clients : Agrees(call[c], task[c])
  BY NoCallAgrees DEF CategoriesInit
<1>5. QED
  BY <1>1, <1>2, <1>3, <1>4 DEF CallInv

LEMMA KeyStays ==
  ASSUME KeyInv, OneCaller, NEW c \in Clients,
         UNCHANGED <<keystore, manifest, started, sealed, task>>,
         UNCHANGED master \/ CacheMaster(c)
  PROVE  KeyInv'
<1>1. task[c] \in KeyTask /\ Suits(task[c]) /\ Become(c, task[c])
  BY DEF KeyInv, KeyShape, Become
<1>2. QED
  BY <1>1, BecomeSuits

\* A step of the one call that leaves the configuration alone.
LEMMA TurnAgrees ==
  ASSUME CallInv, OneCaller, NEW c \in Clients, NEW t \in CallState, Advance(c, t),
         KeyInv', \A n \in Names : HasKey(n) => HasKey(n)',
         UNCHANGED <<config, created>>, UNCHANGED misread \/ misread' = misread \cup created,
         Agrees(t, task[c])'
  PROVE  CallInv'
<1>1. call' \in [Clients -> CallState] /\ \A d \in Clients : call'[d] = t /\ d = c
  BY DEF Advance, OneCaller, CallInv, CallShape
<1>2. misread' \subseteq Custom /\ misread \subseteq misread'
  BY DEF CallInv, CallShape
<1>3. CallShape'
  BY <1>1, <1>2 DEF CallInv, CallShape
<1>4. config # Absent => config.names \subseteq Names
  BY CustomAssumption DEF CallInv, CallShape, Config
<1>5. StoredInv'
  <2>1. config' # Absent => \A n \in config'.names : HasKey(n)'
    BY <1>4 DEF CallInv, StoredInv
  <2>2. CreatedStaysConfigured'
    BY <1>2 DEF CallInv, StoredInv, CreatedStaysConfigured
  <2>3. QED
    BY <2>1, <2>2 DEF StoredInv
<1>6. \A d \in Clients : Agrees(call[d], task[d])'
  <2>1. Agrees(call[c], task[c])'
    BY <1>1
  <2>2. QED
    BY <1>1, <2>1
<1>7. QED
  BY <1>3, <1>5, <1>6 DEF CallInv

\* A step of the one call that leaves what is stored, and the key manager, alone.
LEMMA QuietTurn ==
  ASSUME CallInv, OneCaller, NEW c \in Clients, NEW t \in CallState, Advance(c, t),
         UNCHANGED <<keystore, manifest, started, sealed, task, config, created>>,
         UNCHANGED master \/ CacheMaster(c),
         UNCHANGED misread \/ misread' = misread \cup created,
         Agrees(t, task[c])'
  PROVE  CallInv'
<1>1. KeyInv'
  BY KeyStays DEF CallInv
<1>2. \A n \in Names : HasKey(n) => HasKey(n)'
  BY DEF HasKey
<1>3. QED
  BY <1>1, <1>2, TurnAgrees

\* The end of a call, in any of its steps that write nothing.
LEMMA FinishAgrees ==
  ASSUME CallInv, OneCaller, NEW c \in Clients, Finish(c),
         UNCHANGED <<keystore, manifest, started, sealed, task, config, created>>,
         UNCHANGED master \/ CacheMaster(c),
         UNCHANGED misread \/ misread' = misread \cup created
  PROVE  CallInv'
<1>1. NoCall \in CallState /\ Advance(c, NoCall)
  BY NoCallAgrees DEF Finish
<1>2. Agrees(NoCall, task[c])'
  BY NoCallAgrees DEF Agrees
<1>3. QED
  BY <1>1, <1>2, QuietTurn

LEMMA StartCallAgrees ==
  ASSUME CallInv, OneCaller, NEW c \in Clients, StartCall(c)
  PROVE  CallInv'
<1>1. PICK op \in {"create", "delete"}, n \in Custom :
         Advance(c, [NoCall EXCEPT !.op = op, !.pc = "get", !.name = n])
  BY DEF StartCall
<1> DEFINE t == [NoCall EXCEPT !.op = op, !.pc = "get", !.name = n]
<1>2. t \in CallState /\ t.pc = "get" /\ t.name = n
  BY DEF NoCall, CallState
<1>3. UNCHANGED <<keystore, master, manifest, started, sealed, task, config, created, misread>>
      /\ task[c] = Idle
  BY DEF StartCall, keyVars
<1>4. Advance(c, t)
  BY <1>1
<1> HIDE DEF t
<1>5. Agrees(t, task[c])'
  BY <1>2, <1>3, IdleTask DEF Agrees
<1>6. QED
  BY <1>2, <1>3, <1>4, <1>5, QuietTurn

LEMMA DecideAgrees ==
  ASSUME CallInv, OneCaller, NEW c \in Clients, call[c].pc \in {"get", "unseal"},
         NEW existing \in SUBSET Custom, Complete(existing)', Decide(c, existing),
         UNCHANGED <<keystore, manifest, started, sealed, config, created>>,
         UNCHANGED master \/ CacheMaster(c),
         UNCHANGED misread \/ misread' = misread \cup created
  PROVE  CallInv'
<1>1. call[c] \in CallState /\ call[c].name \in Custom /\ task[c].pc = "idle"
  BY DEF CallInv, CallShape, Agrees
<1>2. CASE Refused(c, existing)
  <2>1. Finish(c) /\ UNCHANGED task
    BY <1>2 DEF Decide
  <2>2. QED
    BY <2>1, FinishAgrees
<1>3. CASE ~Refused(c, existing) /\ call[c].op = "create"
  <2> DEFINE k == Doing("create", "load", call[c].name)
  <2>1. PICK t \in CallState : t = [call[c] EXCEPT !.pc = "key", !.existing = existing]
    BY <1>1 DEF CallState
  <2>2. /\ t.pc = "key" /\ t.op = "create" /\ t.existing = existing /\ t.name = call[c].name
        /\ Advance(c, t) /\ Become(c, k)
    BY <1>1, <1>3, <2>1 DEF CallState, Decide
  <2>3. k \in KeyTask /\ k.pc = "load" /\ k.op = "create" /\ k.name = call[c].name
        /\ call[c].name \in Names
    BY <1>1, CustomAssumption, DoingTask
  <2> HIDE DEF k
  <2>4. Suits(k)
    BY <2>3 DEF Suits
  <2>5. KeyInv'
    BY <2>2, <2>3, <2>4, BecomeSuits DEF CallInv
  <2>6. task'[c] = k
    BY <2>2, <2>3 DEF Become, CallInv, KeyInv, KeyShape
  <2>7. Agrees(t, task[c])'
    BY <1>1, <2>2, <2>3, <2>6 DEF Agrees
  <2>8. \A n \in Names : HasKey(n) => HasKey(n)'
    BY DEF HasKey
  <2>9. QED
    BY <2>2, <2>5, <2>7, <2>8, TurnAgrees
<1>4. CASE ~Refused(c, existing) /\ call[c].op # "create"
  <2>1. PICK t \in CallState : t = [call[c] EXCEPT !.pc = "count", !.existing = existing]
    BY <1>1 DEF CallState
  <2>2. /\ t.pc = "count" /\ t.op # "create" /\ t.existing = existing /\ t.name = call[c].name
        /\ Advance(c, t) /\ UNCHANGED task
    BY <1>1, <1>4, <2>1 DEF CallState, Decide
  <2>3. Agrees(t, task[c])'
    BY <1>1, <2>2 DEF Agrees
  <2>4. QED
    BY <2>2, <2>3, QuietTurn
<1>5. QED
  BY <1>2, <1>3, <1>4

LEMMA GetConfigAgrees ==
  ASSUME CallInv, OneCaller, NEW c \in Clients, GetConfig(c) \/ GetConfigFails(c)
  PROVE  CallInv'
<1>1. /\ call[c].pc = "get" /\ call[c] \in CallState /\ call[c].name \in Custom
      /\ task[c].pc = "idle"
      /\ UNCHANGED <<keystore, master, manifest, started, sealed, config, created>>
      /\ UNCHANGED misread \/ misread' = misread \cup created
  BY DEF GetConfig, GetConfigFails, In, CallInv, CallShape, Agrees
<1>2. CASE Decide(c, {})
  <2>1. created' \subseteq misread'
    <3>1. CASE GetConfigFails(c)
      BY <3>1 DEF GetConfigFails
    <3>2. CASE GetConfig(c) /\ config = Absent
      BY <3>2 DEF GetConfig, CallInv, StoredInv, CreatedStaysConfigured
    <3>3. CASE GetConfig(c) /\ config # Absent
      <4>1. UNCHANGED task /\ call'[c].pc = "unseal"
        BY <1>1, <3>3 DEF GetConfig, Goto, Advance, CallInv, CallShape, CallState
      <4>2. call'[c].pc # "unseal"
        <5>1. call'[c] = NoCall \/ call'[c].pc = "key" \/ call'[c].pc = "count"
          BY <1>1, <1>2 DEF Decide, Finish, Advance, CallInv, CallShape, CallState
        <5>2. QED
          BY <5>1, NoCallAgrees
      <4>3. QED
        BY <4>1, <4>2
    <3>4. QED
      BY <3>1, <3>2, <3>3
  <2>2. Complete({})'
    BY <2>1 DEF Complete
  <2>3. QED
    BY <1>1, <1>2, <2>2, DecideAgrees
<1>3. CASE Goto(c, "unseal") /\ UNCHANGED task /\ config # Absent
  <2>1. PICK t \in CallState : t = [call[c] EXCEPT !.pc = "unseal"]
    BY <1>1 DEF CallState
  <2>2. t.pc = "unseal" /\ t.name = call[c].name /\ Advance(c, t)
    BY <1>1, <1>3, <2>1 DEF CallState, Goto
  <2>3. Agrees(t, task[c])'
    BY <1>1, <1>3, <2>2 DEF Agrees
  <2>4. QED
    BY <1>1, <1>3, <2>2, <2>3, QuietTurn
<1>4. QED
  BY <1>2, <1>3 DEF GetConfig, GetConfigFails

LEMMA UnsealAgrees ==
  ASSUME CallInv, OneCaller, NEW c \in Clients, Unseal(c)
  PROVE  CallInv'
<1>1. /\ call[c].pc = "unseal" /\ CacheMaster(c) /\ config # Absent
      /\ UNCHANGED <<keystore, manifest, started, sealed, config, created, misread>>
  BY DEF Unseal, In, CallInv, Agrees
<1>2. CASE config # Absent /\ Decide(c, config.names)
  <2>1. PICK existing \in SUBSET Custom : existing = config.names
    BY <1>2 DEF CallInv, CallShape, Config
  <2>2. Complete(existing)
    BY <1>2, <2>1 DEF CallInv, StoredInv, CreatedStaysConfigured, Complete
  <2>3. Complete(existing)'
    BY <1>1, <2>2 DEF Complete, HasKey
  <2>4. QED
    BY <1>1, <1>2, <2>1, <2>3, DecideAgrees
<1>3. CASE Finish(c) /\ UNCHANGED task
  BY <1>1, <1>3, FinishAgrees
<1>4. QED
  BY <1>1, <1>2, <1>3 DEF Unseal

LEMMA CountAgrees ==
  ASSUME CallInv, OneCaller, NEW c \in Clients, Count(c)
  PROVE  CallInv'
<1>1. /\ call[c].pc = "count" /\ call[c] \in CallState /\ call[c].name \in Custom
      /\ call[c].op # "create" /\ Complete(call[c].existing) /\ task[c].pc = "idle"
      /\ UNCHANGED <<keystore, master, manifest, started, sealed, task, config, created, misread>>
  BY DEF Count, In, keyVars, CallInv, CallShape, Agrees
<1>2. CASE Goto(c, "seal")
  <2>1. PICK t \in CallState : t = [call[c] EXCEPT !.pc = "seal"]
    BY <1>1 DEF CallState
  <2>2. /\ t.pc = "seal" /\ t.op = call[c].op /\ t.name = call[c].name
        /\ t.existing = call[c].existing /\ Advance(c, t)
    BY <1>1, <1>2, <2>1 DEF CallState, Goto
  <2>3. Complete(t.existing)'
    BY <1>1, <2>2 DEF Complete, HasKey
  <2>4. Agrees(t, task[c])'
    BY <1>1, <2>2, <2>3 DEF Agrees
  <2>5. QED
    BY <1>1, <2>2, <2>4, QuietTurn
<1>3. CASE Finish(c)
  BY <1>1, <1>3, FinishAgrees
<1>4. QED
  BY <1>2, <1>3 DEF Count

LEMMA SealConfigAgrees ==
  ASSUME CallInv, OneCaller, NEW c \in Clients, SealConfig(c)
  PROVE  CallInv'
<1>1. /\ call[c].pc = "seal" /\ call[c] \in CallState /\ call[c].name \in Custom
      /\ Complete(call[c].existing) /\ task[c].pc = "idle" /\ CacheMaster(c)
      /\ call[c].op = "create" => HasKey(call[c].name)
      /\ UNCHANGED <<keystore, manifest, started, sealed, task, config, created, misread>>
  BY DEF SealConfig, In, CallInv, CallShape, Agrees
<1>2. CASE HasMetaKey(c)
  <2>1. manifest.rings[Meta] \in Seq(Material) /\ manifest.rings[Meta] # <<>>
    BY <1>2, MetaAssumption, CategoriesAssumption
    DEF HasMetaKey, CallInv, KeyInv, KeyShape, KeyRings
  <2>2. MetaKey \in Material
    BY <2>1 DEF MetaKey, Last
  <2>3. PICK t \in CallState : t = [call[c] EXCEPT !.pc = "put", !.key = MetaKey]
    BY <1>1, <2>2 DEF CallState
  <2>4. /\ t.pc = "put" /\ t.key \in Material /\ t.op = call[c].op /\ t.name = call[c].name
        /\ t.existing = call[c].existing /\ Advance(c, t)
    BY <1>1, <1>2, <2>2, <2>3 DEF CallState, SealConfig
  <2>5. Complete(t.existing)' /\ (t.op = "create" => HasKey(t.name)')
    BY <1>1, <2>4 DEF Complete, HasKey
  <2>6. Agrees(t, task[c])'
    BY <1>1, <2>4, <2>5 DEF Agrees
  <2>7. QED
    BY <1>1, <2>4, <2>6, QuietTurn
<1>3. CASE ~HasMetaKey(c)
  BY <1>1, <1>3, FinishAgrees DEF SealConfig
<1>4. QED
  BY <1>2, <1>3

\* create_category of the key manager, in the category manager's: the save that ends it
\* puts the new name's key in the manifest.
LEMMA MakeKeyAgrees ==
  ASSUME CallInv, OneCaller, NEW c \in Clients, MakeKey(c)
  PROVE  CallInv'
<1>1. /\ call[c].pc = "key" /\ call[c] \in CallState /\ call[c].name \in Custom
      /\ Complete(call[c].existing) /\ call[c].op = "create"
      /\ task[c].op = "create" /\ task[c].name = call[c].name
      /\ task[c].pc = "save" => task[c].rings[task[c].name] # <<>>
      /\ UNCHANGED <<config, created, misread>>
  BY DEF MakeKey, In, CallInv, CallShape, Agrees
<1>2. call[c].existing \subseteq Names /\ call[c].name \in Names
  BY <1>1, CustomAssumption DEF CallState
<1>3. CASE LoadForCreate(c) /\ UNCHANGED call
  <2>1. PICK t \in CallState : t = call[c]
    BY <1>1
  <2>2. Advance(c, t)
    BY <1>3, <2>1 DEF Advance, CallInv, CallShape
  <2>3. /\ KeyInv'
        /\ task'[c].pc = "save" /\ task'[c].rings[task[c].name] # <<>>
        /\ task'[c].name = task[c].name /\ task'[c].op = task[c].op
    BY <1>3, LoadToSaveSuits DEF CallInv
  <2>4. UNCHANGED manifest
    BY <1>3 DEF LoadForCreate
  <2>5. Complete(t.existing)' /\ \A n \in Names : HasKey(n) => HasKey(n)'
    BY <1>1, <2>1, <2>4 DEF Complete, HasKey
  <2>6. Agrees(t, task[c])'
    BY <1>1, <2>1, <2>3, <2>5 DEF Agrees
  <2>7. QED
    BY <1>1, <2>2, <2>3, <2>5, <2>6, TurnAgrees
<1>4. CASE SaveManifest(c) /\ Goto(c, "seal")
  <2>1. PICK t \in CallState : t = [call[c] EXCEPT !.pc = "seal"]
    BY <1>1 DEF CallState
  <2>2. /\ t.pc = "seal" /\ t.op = "create" /\ t.name = call[c].name
        /\ t.existing = call[c].existing /\ Advance(c, t)
    BY <1>1, <1>4, <2>1 DEF CallState, Goto
  <2>3. /\ KeyInv'
        /\ manifest'.rings = task[c].rings /\ manifest' # Absent
        /\ \A n \in Names : HasKey(n) => HasKey(n)'
        /\ task'[c] = Idle
    BY <1>4, SaveSuits DEF CallInv
  <2>4. task[c].pc = "save"
    BY <1>4 DEF SaveManifest
  <2>5. HasKey(t.name)'
    BY <1>1, <2>2, <2>3, <2>4 DEF HasKey
  <2>6. Complete(t.existing)'
    BY <1>1, <1>2, <2>2, <2>3 DEF Complete
  <2>7. Agrees(t, task[c])'
    BY <1>1, <2>2, <2>3, <2>5, <2>6, IdleTask DEF Agrees
  <2>8. QED
    BY <1>1, <2>2, <2>3, <2>7, TurnAgrees
<1>5. CASE (LoadRefused(c) \/ KeyCallFails(c)) /\ Finish(c)
  <2>1. KeyInv' /\ UNCHANGED manifest
    BY <1>5, QuietSuits DEF CallInv, LoadRefused, KeyCallFails
  <2>2. \A n \in Names : HasKey(n) => HasKey(n)'
    BY <2>1 DEF HasKey
  <2>3. NoCall \in CallState /\ Advance(c, NoCall) /\ Agrees(NoCall, task[c])'
    BY <1>5, NoCallAgrees DEF Finish, Agrees
  <2>4. QED
    BY <1>1, <2>1, <2>2, <2>3, TurnAgrees
<1>6. QED
  BY <1>3, <1>4, <1>5 DEF MakeKey

\* The configuration is written last: its names have their keys by then.
LEMMA PutConfigAgrees ==
  ASSUME CallInv, OneCaller, NEW c \in Clients, PutConfig(c)
  PROVE  CallInv'
<1> DEFINE t == call[c]
           Edit(names) == IF t.op = "create" THEN names \cup {t.name} ELSE names \ {t.name}
<1>1. /\ t.pc = "put" /\ t \in CallState /\ t.name \in Custom
      /\ Complete(t.existing) /\ t.key \in Material
      /\ t.op = "create" => HasKey(t.name)
  BY DEF PutConfig, In, CallInv, CallShape, Agrees
<1>2. /\ config' = [key |-> t.key, names |-> Edit(t.existing)]
      /\ created' = Edit(created) /\ Finish(c)
      /\ misread' = misread \ {t.name}
      /\ UNCHANGED <<keystore, master, manifest, started, sealed, task>>
  BY DEF PutConfig, keyVars
<1>3. Edit(t.existing) \in SUBSET Custom /\ Edit(created) \subseteq Custom
  BY <1>1 DEF CallInv, CallShape, CallState
<1>4. config' \in Config /\ config' # Absent /\ config'.names = Edit(t.existing)
  BY <1>1, <1>2, <1>3, ConfigAssumption DEF Config
<1>5. KeyInv'
  BY <1>2, KeyStays DEF CallInv
<1>6. call' \in [Clients -> CallState] /\ \A d \in Clients : call'[d] = NoCall
  BY <1>2, NoCallAgrees DEF Finish, Advance, OneCaller, CallInv, CallShape
<1>7. CallShape'
  BY <1>2, <1>3, <1>4, <1>6 DEF CallInv, CallShape
<1>8. StoredInv'
  <2>1. \A n \in Edit(t.existing) : HasKey(n)
    BY <1>1 DEF Complete
  <2>2. \A n \in config'.names : HasKey(n)'
    BY <1>2, <1>4, <2>1 DEF HasKey
  <2>3. created \subseteq t.existing \cup misread
    BY <1>1 DEF Complete
  <2>4. Edit(created) \subseteq Edit(t.existing) \cup (misread \ {t.name})
    BY <2>3
  <2>5. CreatedStaysConfigured'
    BY <1>2, <1>4, <2>4 DEF CreatedStaysConfigured
  <2>6. QED
    BY <1>4, <2>2, <2>5 DEF StoredInv
<1>9. \A d \in Clients : Agrees(call[d], task[d])'
  BY <1>6, NoCallAgrees DEF Agrees
<1>10. QED
  BY <1>5, <1>7, <1>8, <1>9 DEF CallInv

LEMMA CategoryStepAgrees ==
  ASSUME CallInv, OneCaller, NEW c \in Clients, CategoryStep(c)
  PROVE  CallInv'
<1>1. CASE CategoryCallFails(c)
  BY <1>1, FinishAgrees DEF CategoryCallFails, keyVars
<1>2. CASE ~CategoryCallFails(c)
  BY <1>2, StartCallAgrees, GetConfigAgrees, UnsealAgrees, CountAgrees, MakeKeyAgrees,
     SealConfigAgrees, PutConfigAgrees DEF CategoryStep
<1>3. QED
  BY <1>1, <1>2

\* A call of the key manager that no category call makes.
LEMMA KeyCallAgrees ==
  ASSUME CallInv, OneCaller, NEW c \in Clients, KeyCall(c)
  PROVE  CallInv'
<1>1. call[c].pc = "idle" /\ Step(c) /\ UNCHANGED <<config, created, misread, call>>
  BY DEF KeyCall, In, own
<1>2. KeyInv' /\ \A n \in Names : HasKey(n) => HasKey(n)'
  BY <1>1, KeyStepSuits DEF CallInv
<1>3. PICK t \in CallState : t = call[c]
  BY DEF CallInv, CallShape
<1>4. Advance(c, t) /\ t.pc = "idle"
  BY <1>1, <1>3 DEF Advance, CallInv, CallShape
<1>5. Agrees(t, task[c])'
  BY <1>4 DEF Agrees
<1>6. QED
  BY <1>1, <1>2, <1>4, <1>5, TurnAgrees

LEMMA CrashAgrees ==
  ASSUME CallInv, OneCaller, NEW p \in Processes, CrashProcess(p)
  PROVE  CallInv'
<1>1. KeyInv' /\ UNCHANGED <<manifest, config, created, misread>>
  BY CrashSuits DEF CrashProcess, KeyCrash, CallInv
<1>2. call' \in [Clients -> CallState] /\ \A d \in Clients : call'[d] = NoCall
  BY NoCallAgrees, ProcessOfAssumption DEF CrashProcess, OneCaller
<1>3. CallShape'
  BY <1>1, <1>2 DEF CallInv, CallShape
<1>4. StoredInv'
  BY <1>1 DEF CallInv, StoredInv, CreatedStaysConfigured, HasKey
<1>5. \A d \in Clients : Agrees(call[d], task[d])'
  BY <1>2, NoCallAgrees DEF Agrees
<1>6. QED
  BY <1>1, <1>3, <1>4, <1>5 DEF CallInv

LEMMA CallInvStutters ==
  ASSUME CallInv, UNCHANGED <<managerVars, own>>
  PROVE  CallInv'
<1>1. KeyInv'
  BY DEF managerVars, CallInv, KeyInv, KeyShape, OneMaster, Suits, Opens
<1>2. CallShape' /\ StoredInv'
  BY DEF managerVars, own, CallInv, CallShape, StoredInv, CreatedStaysConfigured, HasKey
<1>3. \A c \in Clients : Agrees(call[c], task[c])'
  BY DEF managerVars, own, CallInv, Agrees, Complete, HasKey
<1>4. QED
  BY <1>1, <1>2, <1>3 DEF CallInv

LEMMA CallInvHolds ==
  ASSUME OneCaller
  PROVE  CategoriesSpec => []CallInv
<1>1. ASSUME CallInv, [CategoriesNext]_<<managerVars, own>>
      PROVE  CallInv'
  BY <1>1, OneCaller, KeyCallAgrees, CategoryStepAgrees, CrashAgrees, CallInvStutters
  DEF CategoriesNext
<1>2. QED
  BY <1>1, CallInvInit, PTL DEF CategoriesSpec

-----------------------------------------------------------------------------
(* The theorems, for one program whose calls follow each other. *)

\* Whatever calls of create_category, rotate_category_key and the rest a program makes,
\* and however they are cut short or fail, every object that was sealed opens with the
\* key the manifest holds under its category and version.
THEOREM SealedAlwaysOpen ==
  ASSUME OneCaller
  PROVE  CategoriesSpec => []SealedObjectsOpen
<1>1. CallInv => SealedObjectsOpen
  BY DEF CallInv, KeyInv, Opens, SealedObjectsOpen, KeyOf
<1>2. QED
  BY <1>1, CallInvHolds, PTL

\* A program that ensure_initialized() has let start can read the manifest, however the
\* first runs before it ended.
THEOREM StartedAlwaysReads ==
  ASSUME OneCaller
  PROVE  CategoriesSpec => []StartedCanRead
<1>1. CallInv => StartedCanRead
  BY DEF CallInv, KeyInv, OneMaster, StartedCanRead
<1>2. QED
  BY <1>1, CallInvHolds, PTL

\* The configuration of the categories never names one whose key was not saved: the
\* order of the writes in create_category makes every partial failure harmless.
THEOREM ConfiguredAlwaysHasKey ==
  ASSUME OneCaller
  PROVE  CategoriesSpec => []ConfiguredHasKey
<1>1. CallInv => ConfiguredHasKey
  BY DEF CallInv, StoredInv, HasKey, ConfiguredHasKey
<1>2. QED
  BY <1>1, CallInvHolds, PTL

\* A category that was created and not deleted leaves the configuration only if it was
\* there when a read of it failed.
THEOREM CreatedAlwaysConfigured ==
  ASSUME OneCaller
  PROVE  CategoriesSpec => []CreatedStaysConfigured
<1>1. CallInv => CreatedStaysConfigured
  BY DEF CallInv, StoredInv
<1>2. QED
  BY <1>1, CallInvHolds, PTL
=============================================================================
