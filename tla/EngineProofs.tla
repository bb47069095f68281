------------------------------ MODULE EngineProofs ------------------------------
(***************************************************************************)
(* Proofs about Engine, the files of the knowledge graph, RagPipeline and  *)
(* Suggestions, for every set of calls, sessions and messages, every       *)
(* graph, every result of a search and every limit.                        *)
(*                                                                         *)
(* The cache: its messages, in order, end the order in which messages were *)
(* last stored or served, neither has a message twice, and no entry is     *)
(* younger than the reply it holds.  The chats: in every session there is  *)
(* room for the replies of the chats in progress, and what a prompt took   *)
(* of the history stays as it was, because histories only grow.  The       *)
(* graph: the relationships in memory have their entities in memory, those *)
(* in the file have them in the file, the entities in the file are in      *)
(* memory, and while the relationships are written the two are the same.   *)
(* The contexts of a graph: the relationships are all that touch one of    *)
(* the entities, each once.  The search for a path keeps in its queue the  *)
(* paths of one length L before those that are longer by one, has seen all *)
(* that is less than L away, and every node it has seen ends a path of the *)
(* queue or has its neighbours seen; a round takes one node, so that MaxId *)
(* rounds are enough.                                                      *)
(* The retrieval and the suggestions end what they do in one step each, so *)
(* that their invariants say what the operators of those steps return; the *)
(* lemmas about sorted lists are in ListProofs.                            *)
(***************************************************************************)
EXTENDS Engine, GraphSearch, RagPipeline, Suggestions, ListProofs

-----------------------------------------------------------------------------
(* Lemmas about numbers and sequences. *)

\* What is left when the element at place i is removed.
LEMMA RemovedAt ==
    ASSUME NEW S, NEW s \in Seq(S), NEW i \in DOMAIN s
    PROVE  /\ RemoveAt(s, i) \in Seq(S) /\ Len(RemoveAt(s, i)) = Len(s) - 1
           /\ \A j \in 1 .. Len(s) - 1 :
                RemoveAt(s, i)[j] = IF j < i THEN s[j] ELSE s[j + 1]
<1>1. /\ SubSeq(s, 1, i - 1) \in Seq(S) /\ SubSeq(s, i + 1, Len(s)) \in Seq(S)
      /\ Len(SubSeq(s, 1, i - 1)) = i - 1 /\ Len(SubSeq(s, i + 1, Len(s))) = Len(s) - i
      /\ \A j \in 1 .. i - 1 : SubSeq(s, 1, i - 1)[j] = s[j]
      /\ \A j \in 1 .. Len(s) - i : SubSeq(s, i + 1, Len(s))[j] = s[i + j]
  OBVIOUS
<1> DEFINE a == SubSeq(s, 1, i - 1)
           b == SubSeq(s, i + 1, Len(s))
<1>2. /\ a \in Seq(S) /\ b \in Seq(S) /\ Len(a) = i - 1 /\ Len(b) = Len(s) - i
      /\ \A j \in 1 .. i - 1 : a[j] = s[j]
      /\ \A j \in 1 .. Len(s) - i : b[j] = s[i + j]
      /\ i \in 1 .. Len(s) /\ Len(s) \in Nat
  BY <1>1
<1>4. RemoveAt(s, i) = a \o b
  BY DEF RemoveAt
<1> HIDE DEF a, b
<1>5. /\ a \o b \in Seq(S) /\ Len(a \o b) = Len(s) - 1
      /\ \A j \in 1 .. Len(s) - 1 :
            (a \o b)[j] = IF j <= i - 1 THEN a[j] ELSE b[j - (i - 1)]
  <2>1. a \o b \in Seq(S) /\ Len(a \o b) = Len(a) + Len(b)
    BY <1>2, ConcatProperties
  <2>2. Len(a) + Len(b) = Len(s) - 1
    BY <1>2
  <2>3. \A j \in 1 .. Len(a) + Len(b) :
            (a \o b)[j] = IF j <= Len(a) THEN a[j] ELSE b[j - Len(a)]
    BY <1>2, ConcatProperties
  <2> QED BY <1>2, <2>1, <2>2, <2>3
<1>3. ASSUME NEW j \in 1 .. Len(s) - 1
      PROVE  (a \o b)[j] = IF j < i THEN s[j] ELSE s[j + 1]
  <2>1. CASE j < i
    BY <1>2, <1>5, <2>1
  <2>2. CASE ~(j < i)
    <3>1. j - (i - 1) \in 1 .. Len(s) - i /\ (a \o b)[j] = b[j - (i - 1)]
      BY <1>2, <1>5, <2>2
    <3>2. b[j - (i - 1)] = s[i + (j - (i - 1))]
      BY <1>2, <3>1
    <3>3. i + (j - (i - 1)) = j + 1
      OBVIOUS
    <3> QED BY <2>2, <3>1, <3>2, <3>3
  <2> QED BY <2>1, <2>2
<1> QED BY <1>3, <1>4, <1>5

\* RemoveFirst of an element that occurs once, or not at all.
LEMMA RemovedFirst ==
    ASSUME NEW S, NEW s \in Seq(S), NEW e, IsInjective(s)
    PROVE  \/ /\ \A i \in DOMAIN s : s[i] # e
              /\ RemoveFirst(s, e) = s
           \/ \E i \in DOMAIN s : s[i] = e /\ RemoveFirst(s, e) = RemoveAt(s, i)
<1>1. CASE \A i \in DOMAIN s : s[i] # e
  BY <1>1 DEF RemoveFirst, SelectInSeq
<1>2. CASE \E i \in DOMAIN s : s[i] = e
  <2>1. PICK i \in DOMAIN s : s[i] = e
    BY <1>2
  <2>2. {j \in 1 .. Len(s) : s[j] = e} = {i} /\ i \in Nat
    BY <2>1 DEF IsInjective
  <2>3. Min({i}) = i
    BY <2>2, LeastIsMin
  <2>4. SelectInSeq(s, LAMBDA v : v = e) = i
    BY <2>2, <2>3 DEF SelectInSeq
  <2>5. RemoveFirst(s, e) = RemoveAt(s, i)
    BY <2>1, <2>4 DEF RemoveFirst
  <2> QED BY <2>1, <2>5
<1> QED BY <1>1, <1>2

\* What removing an element leaves in a sequence without repetition.
LEMMA RemovedFacts ==
    ASSUME NEW S, NEW s \in Seq(S), NEW e, IsInjective(s), NEW r, r = RemoveFirst(s, e)
    PROVE  /\ r \in Seq(S) /\ IsInjective(r) /\ Len(r) <= Len(s)
           /\ \A i \in DOMAIN r : r[i] # e /\ \E j \in DOMAIN s : r[i] = s[j]
           /\ (\E i \in DOMAIN s : s[i] = e) => Len(r) = Len(s) - 1
<1>1. CASE (\A i \in DOMAIN s : s[i] # e) /\ r = s
  BY <1>1
<1>2. ASSUME NEW i \in DOMAIN s, s[i] = e, r = RemoveAt(s, i)
      PROVE  /\ r \in Seq(S) /\ IsInjective(r) /\ Len(r) = Len(s) - 1
             /\ \A j \in DOMAIN r : r[j] # e /\ \E k \in DOMAIN s : r[j] = s[k]
  <2>1. /\ r \in Seq(S) /\ Len(r) = Len(s) - 1 /\ DOMAIN r = 1 .. Len(s) - 1
        /\ \A j \in 1 .. Len(s) - 1 : r[j] = IF j < i THEN s[j] ELSE s[j + 1]
        /\ Len(s) \in Nat /\ i \in 1 .. Len(s) /\ DOMAIN s = 1 .. Len(s)
    <3>1. /\ r \in Seq(S) /\ Len(r) = Len(s) - 1
          /\ \A j \in 1 .. Len(s) - 1 : r[j] = IF j < i THEN s[j] ELSE s[j + 1]
      BY <1>2, RemovedAt
    <3> QED BY <3>1
  <2>2. \A j \in DOMAIN r : r[j] # e /\ \E k \in DOMAIN s : r[j] = s[k]
    <3> SUFFICES ASSUME NEW j \in DOMAIN r
                 PROVE  r[j] # e /\ \E k \in DOMAIN s : r[j] = s[k]
      OBVIOUS
    <3>1. CASE j < i
      BY <1>2, <2>1, <3>1 DEF IsInjective
    <3>2. CASE ~(j < i)
      <4>1. j + 1 \in DOMAIN s /\ j + 1 # i /\ r[j] = s[j + 1]
        BY <2>1, <3>2
      <4> QED BY <1>2, <4>1 DEF IsInjective
    <3> QED BY <3>1, <3>2
  <2>3. ASSUME NEW j \in DOMAIN r, NEW k \in DOMAIN r, r[j] = r[k]
        PROVE  j = k
    <3>1. PICK jj \in DOMAIN s : r[j] = s[jj] /\ jj = IF j < i THEN j ELSE j + 1
      BY <2>1
    <3>2. PICK kk \in DOMAIN s : r[k] = s[kk] /\ kk = IF k < i THEN k ELSE k + 1
      BY <2>1
    <3>3. jj = kk
      BY <2>3, <3>1, <3>2 DEF IsInjective
    <3> QED BY <2>1, <3>1, <3>2, <3>3
  <2> QED BY <2>1, <2>2, <2>3 DEF IsInjective
<1> QED BY <1>1, <1>2, RemovedFirst

LEMMA RemovedEnds ==
    ASSUME NEW S, NEW k \in Seq(S), NEW t \in Seq(S), IsInjective(k), IsInjective(t), Trails(k, t),
           NEW e
    PROVE  Trails(RemoveFirst(k, e), RemoveFirst(t, e))
<1>0. /\ Len(k) \in Nat /\ Len(t) \in Nat /\ Len(k) <= Len(t)
      /\ \A q \in 0 .. Len(k) - 1 : k[Len(k) - q] = t[Len(t) - q]
      /\ DOMAIN k = 1 .. Len(k) /\ DOMAIN t = 1 .. Len(t)
  BY DEF Trails
<1>1. CASE \A i \in DOMAIN t : t[i] # e
  <2>1. \A i \in DOMAIN k : k[i] # e
    <3> SUFFICES ASSUME NEW i \in DOMAIN k
                 PROVE  k[i] # e
      OBVIOUS
    <3>1. Len(k) - i \in 0 .. Len(k) - 1 /\ Len(k) - (Len(k) - i) = i
      BY <1>0
    <3>2. k[i] = t[Len(t) - (Len(k) - i)] /\ Len(t) - (Len(k) - i) \in DOMAIN t
      BY <1>0, <3>1
    <3> QED BY <1>1, <3>2
  <2>2. RemoveFirst(k, e) = k /\ RemoveFirst(t, e) = t
    BY <1>1, <2>1, RemovedFirst
  <2> QED BY <2>2
<1>2. ASSUME NEW j \in DOMAIN t, t[j] = e, RemoveFirst(t, e) = RemoveAt(t, j)
      PROVE  Trails(RemoveFirst(k, e), RemoveFirst(t, e))
  <2> DEFINE u == RemoveAt(t, j)
  <2>1. /\ Len(u) = Len(t) - 1
        /\ \A q \in 1 .. Len(t) - 1 : u[q] = IF q < j THEN t[q] ELSE t[q + 1]
    BY RemovedAt
  <2>2. CASE (\A i \in DOMAIN k : k[i] # e) /\ RemoveFirst(k, e) = k
    <3>1. j <= Len(t) - Len(k)
      <4> SUFFICES ASSUME j > Len(t) - Len(k)
                   PROVE  FALSE
        BY <1>0
      <4>1. PICK q \in 0 .. Len(k) - 1 : Len(t) - q = j
        <5>1. Len(t) - j \in 0 .. Len(k) - 1 /\ Len(t) - (Len(t) - j) = j
          BY <1>0
        <5> QED BY <5>1
      <4>2. k[Len(k) - q] = t[j] /\ Len(k) - q \in DOMAIN k
        BY <1>0, <4>1
      <4> QED BY <1>2, <2>2, <4>2
    <3> HIDE DEF u
    <3>2. ASSUME NEW q \in 0 .. Len(k) - 1
          PROVE  k[Len(k) - q] = u[Len(u) - q]
      <4>1. Len(u) - q \in 1 .. Len(t) - 1 /\ ~(Len(u) - q < j) /\ (Len(u) - q) + 1 = Len(t) - q
        BY <1>0, <2>1, <3>1
      <4> QED BY <1>0, <2>1, <4>1
    <3>3. Len(k) <= Len(u)
      BY <1>0, <2>1, <3>1
    <3>4. Trails(k, u)
      BY <3>2, <3>3 DEF Trails
    <3> QED BY <1>2, <2>2, <3>4 DEF u
  <2>3. ASSUME NEW i \in DOMAIN k, k[i] = e, RemoveFirst(k, e) = RemoveAt(k, i)
        PROVE  Trails(RemoveFirst(k, e), RemoveFirst(t, e))
    <3> DEFINE v == RemoveAt(k, i)
    <3>1. /\ Len(v) = Len(k) - 1
          /\ \A q \in 1 .. Len(k) - 1 : v[q] = IF q < i THEN k[q] ELSE k[q + 1]
      BY RemovedAt
    <3>2. Len(t) - j = Len(k) - i
      <4>1. PICK q \in 0 .. Len(k) - 1 : Len(k) - q = i
        <5>1. Len(k) - i \in 0 .. Len(k) - 1 /\ Len(k) - (Len(k) - i) = i
          BY <1>0
        <5> QED BY <5>1
      <4>2. k[i] = t[Len(t) - q] /\ Len(t) - q \in DOMAIN t
        BY <1>0, <4>1
      <4>3. Len(t) - q = j
        BY <1>2, <2>3, <4>2 DEF IsInjective
      <4> QED BY <1>0, <4>1, <4>3
    <3> HIDE DEF u, v
    <3>3. ASSUME NEW q \in 0 .. Len(v) - 1
          PROVE  v[Len(v) - q] = u[Len(u) - q]
      <4> DEFINE x == Len(v) - q
                 y == Len(u) - q
      <4>0. /\ x \in 1 .. Len(k) - 1 /\ y \in 1 .. Len(t) - 1 /\ (x < i <=> y < j)
            /\ x = Len(k) - (q + 1) /\ y = Len(t) - (q + 1) /\ x + 1 = Len(k) - q /\ y + 1 = Len(t) - q
            /\ q \in 0 .. Len(k) - 1 /\ q + 1 \in 0 .. Len(k) - 1
        BY <1>0, <2>1, <3>1, <3>2
      <4>1. v[x] = (IF x < i THEN k[x] ELSE k[x + 1]) /\ u[y] = (IF y < j THEN t[y] ELSE t[y + 1])
        BY <2>1, <3>1, <4>0
      <4> HIDE DEF x, y
      <4>2. k[x] = t[y]
        BY <1>0, <4>0
      <4>3. k[x + 1] = t[y + 1]
        BY <1>0, <4>0
      <4> QED BY <4>0, <4>1, <4>2, <4>3 DEF x, y
    <3>4. Len(v) <= Len(u)
      BY <1>0, <2>1, <3>1
    <3>5. Trails(v, u)
      BY <3>3, <3>4 DEF Trails
    <3> QED BY <1>2, <2>3, <3>5 DEF u, v
  <2> QED BY <2>2, <2>3, RemovedFirst
<1> QED BY <1>1, <1>2, RemovedFirst

LEMMA AppendEnds ==
    ASSUME NEW S, NEW k \in Seq(S), NEW t \in Seq(S), Trails(k, t), NEW e \in S
    PROVE  Trails(Append(k, e), Append(t, e))
<1>1. /\ Len(k) \in Nat /\ Len(t) \in Nat /\ Len(k) <= Len(t)
      /\ Len(Append(k, e)) = Len(k) + 1 /\ Len(Append(t, e)) = Len(t) + 1
  BY DEF Trails
<1>2. ASSUME NEW q \in 0 .. Len(Append(k, e)) - 1
      PROVE  Append(k, e)[Len(Append(k, e)) - q] = Append(t, e)[Len(Append(t, e)) - q]
  <2>1. CASE q = 0
    BY <1>1, <2>1
  <2>2. CASE q # 0
    <3>1. /\ q - 1 \in 0 .. Len(k) - 1
          /\ Len(k) + 1 - q = Len(k) - (q - 1) /\ Len(t) + 1 - q = Len(t) - (q - 1)
          /\ Len(k) - (q - 1) \in 1 .. Len(k) /\ Len(t) - (q - 1) \in 1 .. Len(t)
      BY <1>1, <2>2
    <3>2. k[Len(k) - (q - 1)] = t[Len(t) - (q - 1)]
      BY <3>1 DEF Trails
    <3> QED BY <1>1, <3>1, <3>2
  <2> QED BY <2>1, <2>2
<1> QED BY <1>1, <1>2 DEF Trails

LEMMA AppendDistinct ==
    ASSUME NEW S, NEW s \in Seq(S), IsInjective(s), NEW e \in S, \A i \in DOMAIN s : s[i] # e
    PROVE  Append(s, e) \in Seq(S) /\ IsInjective(Append(s, e))
BY DEF IsInjective

LEMMA TailEnds ==
    ASSUME NEW S, NEW k \in Seq(S), NEW t \in Seq(S), Trails(k, t), k # <<>>, IsInjective(k)
    PROVE  /\ Tail(k) \in Seq(S) /\ Len(Tail(k)) = Len(k) - 1
           /\ Trails(Tail(k), t) /\ IsInjective(Tail(k))
           /\ \A i \in DOMAIN Tail(k) : \E j \in DOMAIN k : Tail(k)[i] = k[j]
<1>1. /\ Len(k) \in Nat /\ Len(k) > 0 /\ Tail(k) \in Seq(S) /\ Len(Tail(k)) = Len(k) - 1
      /\ \A i \in 1 .. Len(k) - 1 : Tail(k)[i] = k[i + 1]
      /\ Len(t) \in Nat /\ Len(k) <= Len(t)
      /\ DOMAIN k = 1 .. Len(k) /\ DOMAIN Tail(k) = 1 .. Len(k) - 1
  BY DEF Trails
<1>2. IsInjective(Tail(k))
  <2> SUFFICES ASSUME NEW i \in 1 .. Len(k) - 1, NEW j \in 1 .. Len(k) - 1, Tail(k)[i] = Tail(k)[j]
               PROVE  i = j
    BY <1>1 DEF IsInjective
  <2>1. k[i + 1] = k[j + 1] /\ i + 1 \in DOMAIN k /\ j + 1 \in DOMAIN k
    BY <1>1
  <2>2. i + 1 = j + 1
    BY <2>1 DEF IsInjective
  <2> QED BY <1>1, <2>2
<1>3. ASSUME NEW q \in 0 .. Len(Tail(k)) - 1
      PROVE  Tail(k)[Len(Tail(k)) - q] = t[Len(t) - q]
  <2>1. /\ Len(Tail(k)) - q \in 1 .. Len(k) - 1 /\ (Len(Tail(k)) - q) + 1 = Len(k) - q
        /\ q \in 0 .. Len(k) - 1
    BY <1>1
  <2> QED BY <1>1, <2>1 DEF Trails
<1> QED BY <1>1, <1>2, <1>3 DEF Trails

-----------------------------------------------------------------------------
(* The cache of replies. *)

KeysOf(c) == [i \in DOMAIN c |-> c[i].message]

LEMMA KeysOfFacts ==
    ASSUME NEW c \in Seq(Entry)
    PROVE  /\ KeysOf(c) \in Seq(Messages) /\ Len(KeysOf(c)) = Len(c)
           /\ DOMAIN KeysOf(c) = DOMAIN c /\ DOMAIN c = 1 .. Len(c) /\ Len(c) \in Nat
           /\ \A i \in DOMAIN c : KeysOf(c)[i] = c[i].message /\ c[i] \in Entry
<1>1. DOMAIN c = 1 .. Len(c) /\ Len(c) \in Nat /\ \A i \in 1 .. Len(c) : c[i] \in Entry
  OBVIOUS
<1>2. \A i \in 1 .. Len(c) : c[i].message \in Messages
  BY <1>1 DEF Entry
<1> QED BY <1>1, <1>2 DEF KeysOf

\* Entries of the cache and the observer of its use, as they fit together.
Tidy(k, t) ==
    /\ k \in Seq(Entry) /\ t \in Seq(Messages)
    /\ IsInjective(KeysOf(k)) /\ IsInjective(t)
    /\ Trails(KeysOf(k), t)

Dropped(k, m) == RemoveFirstMatch(k, LAMBDA e : e.message = m)

\* Removing a message from both.
LEMMA DroppedEntry ==
    ASSUME NEW k, NEW t, Tidy(k, t), NEW m, NEW r,
           r = Dropped(k, m)
    PROVE  /\ r \in Seq(Entry) /\ KeysOf(r) = RemoveFirst(KeysOf(k), m)
           /\ \A i \in DOMAIN r : \E j \in DOMAIN k : r[i] = k[j]
<1>1. /\ KeysOf(k) \in Seq(Messages) /\ Len(KeysOf(k)) = Len(k)
      /\ DOMAIN KeysOf(k) = DOMAIN k /\ DOMAIN k = 1 .. Len(k) /\ Len(k) \in Nat
      /\ \A i \in DOMAIN k : KeysOf(k)[i] = k[i].message /\ k[i] \in Entry
      /\ k \in Seq(Entry) /\ IsInjective(KeysOf(k))
  BY KeysOfFacts DEF Tidy
<1>2. CASE \A i \in DOMAIN k : k[i].message # m
  <2>1. r = k
    BY <1>1, <1>2 DEF RemoveFirstMatch, Dropped
  <2>2. RemoveFirst(KeysOf(k), m) = KeysOf(k)
    BY <1>1, <1>2 DEF RemoveFirst
  <2> QED BY <1>1, <2>1, <2>2
<1>3. CASE \E i \in DOMAIN k : k[i].message = m
  <2>1. PICK i \in DOMAIN k : k[i].message = m
    BY <1>3
  <2>2. {j \in 1 .. Len(k) : k[j].message = m} = {i} /\ i \in Nat
    BY <1>1, <2>1 DEF IsInjective
  <2>3. Min({i}) = i
    BY <2>2, LeastIsMin
  <2>4. SelectInSeq(k, LAMBDA e : e.message = m) = i
    BY <2>2, <2>3 DEF SelectInSeq
  <2>5. r = RemoveAt(k, i)
    BY <1>1, <2>1, <2>4 DEF RemoveFirstMatch, Dropped
  <2>6. RemoveFirst(KeysOf(k), m) = RemoveAt(KeysOf(k), i)
    <3>1. PICK j \in DOMAIN KeysOf(k) : KeysOf(k)[j] = m
                                        /\ RemoveFirst(KeysOf(k), m) = RemoveAt(KeysOf(k), j)
      BY <1>1, <2>1, RemovedFirst
    <3>2. j = i
      BY <1>1, <2>1, <3>1 DEF IsInjective
    <3> QED BY <3>1, <3>2
  <2> DEFINE q == RemoveAt(KeysOf(k), i)
  <2>7. /\ r \in Seq(Entry) /\ Len(r) = Len(k) - 1
        /\ \A j \in 1 .. Len(k) - 1 : r[j] = IF j < i THEN k[j] ELSE k[j + 1]
    BY <1>1, <2>1, <2>5, RemovedAt
  <2>8. /\ q \in Seq(Messages) /\ Len(q) = Len(k) - 1
        /\ \A j \in 1 .. Len(k) - 1 :
              q[j] = IF j < i THEN KeysOf(k)[j] ELSE KeysOf(k)[j + 1]
    BY <1>1, <2>1, RemovedAt
  <2> HIDE DEF q
  <2>9. /\ KeysOf(r) \in Seq(Messages) /\ Len(KeysOf(r)) = Len(k) - 1
        /\ \A j \in 1 .. Len(k) - 1 : KeysOf(r)[j] = r[j].message
    BY <2>7, KeysOfFacts
  <2>10. ASSUME NEW j \in 1 .. Len(k) - 1
         PROVE  KeysOf(r)[j] = q[j]
    <3>1. j \in DOMAIN k /\ j + 1 \in DOMAIN k
      BY <1>1
    <3>2. CASE j < i
      BY <1>1, <2>7, <2>8, <2>9, <3>1, <3>2
    <3>3. CASE ~(j < i)
      <4>1. r[j] = k[j + 1] /\ q[j] = KeysOf(k)[j + 1]
        BY <2>7, <2>8, <3>3
      <4> QED BY <1>1, <2>9, <3>1, <4>1
    <3> QED BY <3>2, <3>3
  <2>11. KeysOf(r) = q
    <3>1. DOMAIN KeysOf(r) = 1 .. Len(k) - 1 /\ DOMAIN q = 1 .. Len(k) - 1
      BY <2>8, <2>9
    <3> QED BY <2>8, <2>9, <2>10, <3>1
  <2>12. ASSUME NEW j \in DOMAIN r
         PROVE  \E x \in DOMAIN k : r[j] = k[x]
    <3>1. j \in 1 .. Len(k) - 1 /\ j \in DOMAIN k /\ j + 1 \in DOMAIN k
      BY <1>1, <2>7
    <3> QED BY <2>7, <3>1
  <2> QED BY <2>6, <2>7, <2>11, <2>12 DEF q
<1> QED BY <1>2, <1>3

LEMMA DroppedTidy ==
    ASSUME NEW k, NEW t, Tidy(k, t), NEW m, NEW r,
           r = Dropped(k, m)
    PROVE  /\ Tidy(r, RemoveFirst(t, m)) /\ Len(r) <= Len(k)
           /\ (\E i \in DOMAIN k : k[i].message = m) => Len(r) = Len(k) - 1
           /\ \A i \in DOMAIN r : r[i].message # m /\ \E j \in DOMAIN k : r[i] = k[j]
           /\ \A i \in DOMAIN RemoveFirst(t, m) : RemoveFirst(t, m)[i] # m
<1>1. /\ r \in Seq(Entry) /\ KeysOf(r) = RemoveFirst(KeysOf(k), m)
      /\ \A i \in DOMAIN r : \E j \in DOMAIN k : r[i] = k[j]
  BY DroppedEntry
<1>2. /\ k \in Seq(Entry) /\ t \in Seq(Messages) /\ IsInjective(KeysOf(k)) /\ IsInjective(t)
      /\ Trails(KeysOf(k), t)
  BY DEF Tidy
<1>3. /\ KeysOf(k) \in Seq(Messages) /\ Len(KeysOf(k)) = Len(k)
      /\ DOMAIN KeysOf(k) = DOMAIN k /\ \A i \in DOMAIN k : KeysOf(k)[i] = k[i].message
  BY <1>2, KeysOfFacts
<1>4. /\ KeysOf(r) \in Seq(Messages) /\ Len(KeysOf(r)) = Len(r)
      /\ DOMAIN KeysOf(r) = DOMAIN r /\ \A i \in DOMAIN r : KeysOf(r)[i] = r[i].message
  BY <1>1, KeysOfFacts
<1>5. /\ IsInjective(KeysOf(r)) /\ Len(KeysOf(r)) <= Len(KeysOf(k))
      /\ \A i \in DOMAIN KeysOf(r) : KeysOf(r)[i] # m
      /\ (\E i \in DOMAIN KeysOf(k) : KeysOf(k)[i] = m) => Len(KeysOf(r)) = Len(KeysOf(k)) - 1
  <2> DEFINE a == KeysOf(k)
             b == KeysOf(r)
  <2>1. a \in Seq(Messages) /\ IsInjective(a) /\ b = RemoveFirst(a, m)
    BY <1>1, <1>2, <1>3
  <2> HIDE DEF a, b
  <2>2. /\ IsInjective(b) /\ Len(b) <= Len(a) /\ \A i \in DOMAIN b : b[i] # m
        /\ (\E i \in DOMAIN a : a[i] = m) => Len(b) = Len(a) - 1
    BY <2>1, RemovedFacts
  <2> QED BY <2>2 DEF a, b
<1>6. /\ RemoveFirst(t, m) \in Seq(Messages) /\ IsInjective(RemoveFirst(t, m))
      /\ \A i \in DOMAIN RemoveFirst(t, m) : RemoveFirst(t, m)[i] # m
  BY <1>2, RemovedFacts
<1>7. Trails(KeysOf(r), RemoveFirst(t, m))
  BY <1>1, <1>2, <1>3, RemovedEnds
<1>8. Tidy(r, RemoveFirst(t, m))
  BY <1>1, <1>5, <1>6, <1>7 DEF Tidy
<1> QED BY <1>1, <1>3, <1>4, <1>5, <1>6, <1>8

\* Adding an entry whose message is in neither.
LEMMA AddedTidy ==
    ASSUME NEW k, NEW t, Tidy(k, t), NEW e \in Entry,
           \A i \in DOMAIN k : k[i].message # e.message,
           \A i \in DOMAIN t : t[i] # e.message
    PROVE  Tidy(Append(k, e), Append(t, e.message))
<1>1. /\ k \in Seq(Entry) /\ t \in Seq(Messages) /\ IsInjective(KeysOf(k)) /\ IsInjective(t)
      /\ Trails(KeysOf(k), t) /\ e.message \in Messages
  BY DEF Tidy, Entry
<1>2. /\ KeysOf(k) \in Seq(Messages) /\ Len(KeysOf(k)) = Len(k)
      /\ DOMAIN KeysOf(k) = DOMAIN k /\ \A i \in DOMAIN k : KeysOf(k)[i] = k[i].message
      /\ DOMAIN k = 1 .. Len(k) /\ Len(k) \in Nat
  BY <1>1, KeysOfFacts
<1>3. /\ Append(k, e) \in Seq(Entry) /\ Len(Append(k, e)) = Len(k) + 1
      /\ \A i \in 1 .. Len(k) : Append(k, e)[i] = k[i]
      /\ Append(k, e)[Len(k) + 1] = e
  BY <1>1
<1>4. /\ KeysOf(Append(k, e)) \in Seq(Messages) /\ Len(KeysOf(Append(k, e))) = Len(k) + 1
      /\ \A i \in 1 .. Len(k) + 1 : KeysOf(Append(k, e))[i] = Append(k, e)[i].message
  BY <1>3, KeysOfFacts
<1>5. KeysOf(Append(k, e)) = Append(KeysOf(k), e.message)
  <2>1. Append(KeysOf(k), e.message) \in Seq(Messages) /\ Len(Append(KeysOf(k), e.message)) = Len(k) + 1
    BY <1>1, <1>2
  <2>2. ASSUME NEW i \in 1 .. Len(k) + 1
        PROVE  KeysOf(Append(k, e))[i] = Append(KeysOf(k), e.message)[i]
    <3>1. CASE i \in 1 .. Len(k)
      BY <1>2, <1>3, <1>4, <3>1
    <3>2. CASE i = Len(k) + 1
      BY <1>2, <1>3, <1>4, <3>2
    <3> QED BY <1>2, <3>1, <3>2
  <2> QED BY <1>4, <2>1, <2>2
<1>6. IsInjective(Append(KeysOf(k), e.message)) /\ IsInjective(Append(t, e.message))
      /\ Append(t, e.message) \in Seq(Messages)
  BY <1>1, <1>2, AppendDistinct
<1>7. Trails(Append(KeysOf(k), e.message), Append(t, e.message))
  BY <1>1, <1>2, AppendEnds
<1> QED BY <1>3, <1>5, <1>6, <1>7 DEF Tidy

LEMMA TailTidy ==
    ASSUME NEW k, NEW t, Tidy(k, t), k # <<>>
    PROVE  /\ Tidy(Tail(k), t) /\ Len(Tail(k)) = Len(k) - 1
           /\ \A i \in DOMAIN Tail(k) : \E j \in DOMAIN k : Tail(k)[i] = k[j]
<1>1. /\ k \in Seq(Entry) /\ t \in Seq(Messages) /\ IsInjective(KeysOf(k)) /\ IsInjective(t)
      /\ Trails(KeysOf(k), t)
  BY DEF Tidy
<1>2. /\ KeysOf(k) \in Seq(Messages) /\ Len(KeysOf(k)) = Len(k)
      /\ DOMAIN KeysOf(k) = DOMAIN k /\ \A i \in DOMAIN k : KeysOf(k)[i] = k[i].message
      /\ DOMAIN k = 1 .. Len(k) /\ Len(k) \in Nat /\ Len(k) > 0
  BY <1>1, KeysOfFacts
<1>3. /\ Tail(k) \in Seq(Entry) /\ Len(Tail(k)) = Len(k) - 1
      /\ \A i \in 1 .. Len(k) - 1 : Tail(k)[i] = k[i + 1]
  BY <1>1, <1>2
<1>4. KeysOf(k) # <<>>
  BY <1>2
<1>5. /\ Tail(KeysOf(k)) \in Seq(Messages) /\ Len(Tail(KeysOf(k))) = Len(k) - 1
      /\ \A i \in 1 .. Len(k) - 1 : Tail(KeysOf(k))[i] = KeysOf(k)[i + 1]
  BY <1>2, <1>4
<1>6. /\ KeysOf(Tail(k)) \in Seq(Messages) /\ Len(KeysOf(Tail(k))) = Len(k) - 1
      /\ \A i \in 1 .. Len(k) - 1 : KeysOf(Tail(k))[i] = Tail(k)[i].message
  BY <1>3, KeysOfFacts
<1>7. KeysOf(Tail(k)) = Tail(KeysOf(k))
  <2>1. ASSUME NEW i \in 1 .. Len(k) - 1
        PROVE  KeysOf(Tail(k))[i] = Tail(KeysOf(k))[i]
    <3>1. i + 1 \in DOMAIN k
      BY <1>2
    <3> QED BY <1>2, <1>3, <1>5, <1>6, <3>1
  <2> QED BY <1>5, <1>6, <2>1
<1>8. Trails(Tail(KeysOf(k)), t) /\ IsInjective(Tail(KeysOf(k)))
  BY <1>1, <1>2, <1>4, TailEnds
<1>9. ASSUME NEW i \in DOMAIN Tail(k)
      PROVE  \E j \in DOMAIN k : Tail(k)[i] = k[j]
  <2>1. i \in 1 .. Len(k) - 1 /\ i + 1 \in DOMAIN k
    BY <1>2, <1>3
  <2> QED BY <1>3, <2>1
<1> QED BY <1>1, <1>3, <1>7, <1>8, <1>9 DEF Tidy

-----------------------------------------------------------------------------
(* The invariant of the cache. *)

CacheTypeOK ==
    /\ answered \in [Messages -> 0 .. Ttl]
    /\ cache \in Seq(Entry)
    /\ touched \in Seq(Messages)

\* No entry is younger than the reply it holds.
NoYounger(k) == \A i \in DOMAIN k : answered[k[i].message] <= k[i].age

CacheInv ==
    /\ CacheTypeOK
    /\ Len(cache) <= MaxSize
    /\ Tidy(cache, touched)
    /\ NoYounger(cache)

LEMMA EmptyTidy == Tidy(<<>>, <<>>)
BY DEF Tidy, KeysOf, IsInjective, Trails

LEMMA CacheInitially == Init => CacheInv
<1> SUFFICES ASSUME Init PROVE CacheInv
  OBVIOUS
<1>1. Ttl \in Nat /\ MaxSize \in Nat
  BY LimitsAssumption
<1>2. cache = <<>> /\ touched = <<>> /\ Len(cache) = 0 /\ answered = [m \in Messages |-> Ttl]
  BY DEF Init
<1>3. CacheTypeOK
  BY <1>1, <1>2 DEF CacheTypeOK
<1> QED BY <1>1, <1>2, <1>3, EmptyTidy DEF CacheInv, NoYounger

LEMMA HasFacts ==
    ASSUME CacheInv, NEW m
    PROVE  /\ Has(m) <=> \E i \in DOMAIN cache : cache[i].message = m
           /\ Has(m) => /\ EntryOf(m) \in Entry /\ EntryOf(m).message = m
                        /\ \E i \in DOMAIN cache : EntryOf(m) = cache[i]
<1>1. cache \in Seq(Entry) /\ DOMAIN cache = 1 .. Len(cache)
      /\ \A i \in DOMAIN cache : cache[i] \in Entry
  <2>1. cache \in Seq(Entry)
    BY DEF CacheInv, CacheTypeOK
  <2> QED BY <2>1
<1>2. Keys = KeysOf(cache) /\ DOMAIN Keys = DOMAIN cache
      /\ \A i \in DOMAIN cache : Keys[i] = cache[i].message
  BY DEF Keys, KeysOf
<1>3. Has(m) <=> \E i \in DOMAIN cache : cache[i].message = m
  BY <1>2 DEF Has, ToSet
<1>4. ASSUME Has(m)
      PROVE  /\ EntryOf(m) \in Entry /\ EntryOf(m).message = m
             /\ \E i \in DOMAIN cache : EntryOf(m) = cache[i]
  <2>1. PICK i \in DOMAIN cache : cache[i].message = m /\ EntryOf(m) = cache[i]
    BY <1>3, <1>4 DEF EntryOf
  <2> QED BY <1>1, <2>1
<1> QED BY <1>3, <1>4

\* A message is dropped, and its place in the order forgotten.
LEMMA WithoutFacts ==
    ASSUME CacheInv, NEW m
    PROVE  /\ Tidy(Without(m), RemoveFirst(touched, m)) /\ NoYounger(Without(m))
           /\ Len(Without(m)) \in Nat /\ Len(Without(m)) <= Len(cache)
           /\ Has(m) => Len(Without(m)) = Len(cache) - 1
           /\ \A i \in DOMAIN Without(m) :
                Without(m)[i].message # m /\ Without(m)[i] \in Entry
           /\ \A i \in DOMAIN RemoveFirst(touched, m) : RemoveFirst(touched, m)[i] # m
<1>1. Tidy(cache, touched) /\ NoYounger(cache)
  BY DEF CacheInv
<1>2. PICK r : r = Without(m)
  OBVIOUS
<1>3. r = Dropped(cache, m)
  BY <1>2 DEF Without, Dropped
<1>4. /\ Tidy(r, RemoveFirst(touched, m)) /\ Len(r) <= Len(cache)
      /\ (\E i \in DOMAIN cache : cache[i].message = m) => Len(r) = Len(cache) - 1
      /\ \A i \in DOMAIN r : r[i].message # m /\ \E j \in DOMAIN cache : r[i] = cache[j]
      /\ \A i \in DOMAIN RemoveFirst(touched, m) : RemoveFirst(touched, m)[i] # m
  BY <1>1, <1>3, DroppedTidy
<1>5. r \in Seq(Entry)
  BY <1>4 DEF Tidy
<1>6. Len(r) \in Nat /\ \A i \in DOMAIN r : r[i] \in Entry
  BY <1>5
<1>7. NoYounger(r)
  BY <1>1, <1>4 DEF NoYounger
<1> QED BY <1>2, <1>4, <1>6, <1>7, HasFacts

LEMMA ForgetKeepsCacheInv ==
    ASSUME CacheInv, NEW m, cache' = Without(m), Forget(m), UNCHANGED answered
    PROVE  CacheInv'
<1>1. /\ Tidy(Without(m), RemoveFirst(touched, m)) /\ NoYounger(Without(m))
      /\ Len(Without(m)) <= Len(cache) /\ Len(Without(m)) \in Nat
  BY WithoutFacts
<1>2. Len(cache) <= MaxSize /\ MaxSize \in Nat /\ answered \in [Messages -> 0 .. Ttl]
      /\ Len(cache) \in Nat
  BY LimitsAssumption DEF CacheInv, CacheTypeOK
<1>3. Tidy(cache', touched')
  BY <1>1 DEF Forget
<1>4. CacheTypeOK'
  BY <1>2, <1>3 DEF CacheTypeOK, Tidy
<1>5. NoYounger(cache)'
  BY <1>1 DEF NoYounger
<1>6. Len(cache') <= MaxSize
  BY <1>1, <1>2
<1> QED BY <1>3, <1>4, <1>5, <1>6 DEF CacheInv

\* A hit: the entry moves to the end with the age it has.
LEMMA HitKeepsCacheInv ==
    ASSUME CacheInv, NEW m \in Messages, Live(m), cache' = Hit(m), Touch(m), UNCHANGED answered
    PROVE  CacheInv'
<1>1. /\ Tidy(Without(m), RemoveFirst(touched, m)) /\ NoYounger(Without(m))
      /\ Len(Without(m)) = Len(cache) - 1
      /\ \A i \in DOMAIN Without(m) : Without(m)[i].message # m
      /\ \A i \in DOMAIN RemoveFirst(touched, m) : RemoveFirst(touched, m)[i] # m
  BY WithoutFacts DEF Live
<1>2. Len(cache) <= MaxSize /\ MaxSize \in Nat /\ answered \in [Messages -> 0 .. Ttl]
      /\ Len(cache) \in Nat /\ NoYounger(cache)
  BY LimitsAssumption DEF CacheInv, CacheTypeOK
<1>3. /\ EntryOf(m) \in Entry /\ EntryOf(m).message = m
      /\ \E i \in DOMAIN cache : EntryOf(m) = cache[i]
  BY HasFacts DEF Live
<1> DEFINE k == Without(m)
           e == EntryOf(m)
<1>4. /\ k \in Seq(Entry) /\ e \in Entry /\ e.message = m /\ NoYounger(k)
      /\ answered[e.message] <= e.age /\ cache' = Append(k, e) /\ Len(k) = Len(cache) - 1
      /\ touched' = Append(RemoveFirst(touched, m), e.message)
      /\ Tidy(k, RemoveFirst(touched, m)) /\ \A i \in DOMAIN k : k[i].message # e.message
  BY <1>1, <1>2, <1>3 DEF Tidy, Hit, Touch, NoYounger
<1> HIDE DEF k, e
<1>5. Tidy(cache', touched')
  BY <1>1, <1>4, AddedTidy
<1>6. NoYounger(cache)'
  <2>1. Len(cache') = Len(k) + 1 /\ \A i \in 1 .. Len(k) : cache'[i] = k[i]
        /\ cache'[Len(k) + 1] = e /\ Len(k) \in Nat /\ DOMAIN cache' = 1 .. Len(k) + 1
        /\ DOMAIN k = 1 .. Len(k)
    BY <1>4
  <2> SUFFICES ASSUME NEW i \in 1 .. Len(k) + 1
               PROVE  answered[cache'[i].message] <= cache'[i].age
    BY <2>1 DEF NoYounger
  <2>2. CASE i \in 1 .. Len(k)
    BY <1>4, <2>1, <2>2 DEF NoYounger
  <2>3. CASE i = Len(k) + 1
    BY <1>4, <2>1, <2>3
  <2> QED BY <2>1, <2>2, <2>3
<1>7. Len(cache') <= MaxSize
  BY <1>2, <1>4
<1>8. CacheTypeOK'
  BY <1>2, <1>5 DEF CacheTypeOK, Tidy
<1> QED BY <1>5, <1>6, <1>7, <1>8 DEF CacheInv

\* A reply is stored: there is room, or the entry is there, or the least recently
\* used one goes.
LEMMA StoreKeepsCacheInv ==
    ASSUME CacheInv, NEW m \in Messages, CacheReply(m)
    PROVE  CacheInv'
<1>1. /\ cache \in Seq(Entry) /\ Len(cache) <= MaxSize /\ MaxSize \in Nat \ {0}
      /\ Ttl \in Nat /\ answered \in [Messages -> 0 .. Ttl] /\ Len(cache) \in Nat
      /\ NoYounger(cache) /\ Tidy(cache, touched) /\ DOMAIN cache = 1 .. Len(cache)
  <2>1. cache \in Seq(Entry)
    BY DEF CacheInv, CacheTypeOK
  <2>2. Len(cache) \in Nat /\ DOMAIN cache = 1 .. Len(cache)
    BY <2>1
  <2> QED BY <2>1, <2>2, LimitsAssumption DEF CacheInv, CacheTypeOK
<1> DEFINE e == [message |-> m, age |-> 0]
           t == RemoveFirst(touched, m)
<1>2. e \in Entry /\ e.message = m /\ e.age = 0
  BY <1>1 DEF Entry
<1>3. \E k : /\ Tidy(k, t) /\ NoYounger(k) /\ Len(k) \in Nat /\ Len(k) + 1 <= MaxSize
             /\ \A i \in DOMAIN k : k[i].message # m /\ k[i] \in Entry
             /\ cache' = Append(k, e)
  <2>1. CASE Len(cache) >= MaxSize /\ ~Has(m)
    <3>1. cache # <<>> /\ \A i \in DOMAIN cache : cache[i].message # m
      BY <1>1, <2>1, HasFacts
    <3>2. /\ Tidy(Tail(cache), touched) /\ Len(Tail(cache)) = Len(cache) - 1
          /\ \A i \in DOMAIN Tail(cache) : \E j \in DOMAIN cache : Tail(cache)[i] = cache[j]
      BY <1>1, <3>1, TailTidy
    <3>3. PICK k : k = Tail(cache)
      OBVIOUS
    <3>4. /\ Tidy(k, touched) /\ Len(k) = Len(cache) - 1 /\ k \in Seq(Entry)
          /\ \A i \in DOMAIN k : \E j \in DOMAIN cache : k[i] = cache[j]
      BY <3>2, <3>3 DEF Tidy
    <3>5. /\ \A i \in DOMAIN k : k[i].message # m /\ k[i] \in Entry
          /\ NoYounger(k)
      BY <1>1, <3>1, <3>4 DEF NoYounger
    <3>6. KeysOf(k) = RemoveFirst(KeysOf(k), m)
      <4>1. /\ DOMAIN KeysOf(k) = DOMAIN k /\ DOMAIN k = 1 .. Len(k) /\ Len(KeysOf(k)) = Len(k)
            /\ \A i \in DOMAIN k : KeysOf(k)[i] = k[i].message
        BY <3>4, KeysOfFacts
      <4> QED BY <3>5, <4>1 DEF RemoveFirst
    <3>7. Tidy(k, t)
      <4>1. /\ KeysOf(k) \in Seq(Messages) /\ touched \in Seq(Messages)
            /\ IsInjective(KeysOf(k)) /\ IsInjective(touched) /\ Trails(KeysOf(k), touched)
        BY <3>4, KeysOfFacts DEF Tidy
      <4>2. Trails(RemoveFirst(KeysOf(k), m), RemoveFirst(touched, m))
        BY <4>1, RemovedEnds
      <4>3. t \in Seq(Messages) /\ IsInjective(t)
        BY <4>1, RemovedFacts
      <4> QED BY <3>4, <3>6, <4>1, <4>2, <4>3 DEF Tidy
    <3>8. cache' = Append(k, e)
      BY <2>1, <3>3 DEF CacheReply, Stored
    <3> HIDE DEF e, t
    <3>9. Len(k) \in Nat /\ Len(k) + 1 <= MaxSize
      BY <1>1, <3>4
    <3> QED BY <3>5, <3>7, <3>8, <3>9
  <2>2. CASE ~(Len(cache) >= MaxSize /\ ~Has(m))
    <3>1. /\ Tidy(Without(m), t) /\ NoYounger(Without(m))
          /\ Len(Without(m)) \in Nat /\ Len(Without(m)) <= Len(cache)
          /\ Has(m) => Len(Without(m)) = Len(cache) - 1
          /\ \A i \in DOMAIN Without(m) : Without(m)[i].message # m /\ Without(m)[i] \in Entry
      BY WithoutFacts
    <3>2. cache' = Append(Without(m), e)
      BY <2>2 DEF CacheReply, Stored
    <3> HIDE DEF e, t
    <3>3. Len(Without(m)) + 1 <= MaxSize
      <4>1. CASE Has(m)
        BY <1>1, <3>1, <4>1
      <4>2. CASE ~Has(m)
        <5>1. ~(Len(cache) >= MaxSize)
          BY <2>2, <4>2
        <5>2. Len(cache) \in Nat /\ MaxSize \in Nat
          BY <1>1
        <5>3. Len(Without(m)) \in Nat /\ Len(Without(m)) <= Len(cache)
          BY <3>1
        <5> QED BY <5>1, <5>2, <5>3
      <4> QED BY <4>1, <4>2
    <3> QED BY <3>1, <3>2, <3>3
  <2> QED BY <2>1, <2>2
<1>4. PICK k : /\ Tidy(k, t) /\ NoYounger(k) /\ Len(k) \in Nat /\ Len(k) + 1 <= MaxSize
               /\ \A i \in DOMAIN k : k[i].message # m /\ k[i] \in Entry
               /\ cache' = Append(k, e)
  BY <1>3
<1>5. touched' = Append(t, e.message) /\ answered' = [answered EXCEPT ![m] = 0]
      /\ \A i \in DOMAIN t : t[i] # e.message
  BY WithoutFacts DEF CacheReply, Touch
<1> HIDE DEF e, t
<1>6. Tidy(cache', touched')
  BY <1>2, <1>4, <1>5, AddedTidy
<1>7. k \in Seq(Entry)
  BY <1>4 DEF Tidy
<1>8. /\ Len(cache') = Len(k) + 1 /\ DOMAIN cache' = 1 .. Len(k) + 1
      /\ \A i \in 1 .. Len(k) : cache'[i] = k[i]
      /\ cache'[Len(k) + 1] = e /\ DOMAIN k = 1 .. Len(k)
  BY <1>2, <1>4, <1>7
<1>9. NoYounger(cache)'
  <2> SUFFICES ASSUME NEW i \in 1 .. Len(k) + 1
               PROVE  answered'[cache'[i].message] <= cache'[i].age
    BY <1>8 DEF NoYounger
  <2>1. CASE i \in 1 .. Len(k)
    <3>1. k[i].message # m /\ k[i].message \in Messages /\ cache'[i] = k[i]
          /\ answered[k[i].message] <= k[i].age
      BY <1>4, <1>8, <2>1 DEF NoYounger, Entry
    <3> QED BY <1>1, <1>5, <3>1
  <2>2. CASE i = Len(k) + 1
    BY <1>1, <1>2, <1>5, <1>8, <2>2
  <2> QED BY <1>4, <2>1, <2>2
<1>10. answered' \in [Messages -> 0 .. Ttl]
  BY <1>1, <1>5
<1>11. CacheTypeOK'
  BY <1>6, <1>10 DEF CacheTypeOK, Tidy
<1>12. Len(cache') <= MaxSize
  BY <1>4, <1>8
<1> QED BY <1>6, <1>9, <1>11, <1>12 DEF CacheInv

\* Time passes for the replies and for their entries alike.
LEMMA TickKeepsCacheInv ==
    ASSUME CacheInv, Tick
    PROVE  CacheInv'
<1>1. /\ cache \in Seq(Entry) /\ Len(cache) <= MaxSize /\ Ttl \in Nat
      /\ answered \in [Messages -> 0 .. Ttl] /\ NoYounger(cache) /\ Tidy(cache, touched)
  BY LimitsAssumption DEF CacheInv, CacheTypeOK
<1>2. \A n \in 0 .. Ttl : /\ Min({n + 1, Ttl}) \in 0 .. Ttl
                          /\ Min({n + 1, Ttl}) = IF n < Ttl THEN n + 1 ELSE Ttl
  <2> SUFFICES ASSUME NEW n \in 0 .. Ttl
               PROVE  /\ Min({n + 1, Ttl}) \in 0 .. Ttl
                      /\ Min({n + 1, Ttl}) = IF n < Ttl THEN n + 1 ELSE Ttl
    OBVIOUS
  <2>1. {n + 1, Ttl} \subseteq Nat /\ {n + 1, Ttl} # {}
    BY <1>1
  <2>2. Min({n + 1, Ttl}) \in {n + 1, Ttl} /\ \A x \in {n + 1, Ttl} : Min({n + 1, Ttl}) <= x
    BY <2>1, LeastIsMin
  <2> QED BY <1>1, <2>2
<1>3. /\ DOMAIN cache' = DOMAIN cache /\ DOMAIN cache = 1 .. Len(cache) /\ Len(cache) \in Nat
      /\ \A i \in DOMAIN cache : cache'[i] = [cache[i] EXCEPT !.age = Min({@ + 1, Ttl})]
      /\ touched' = touched
  BY <1>1 DEF Tick
<1>4. \A i \in DOMAIN cache : /\ cache'[i] \in Entry /\ cache'[i].message = cache[i].message
                              /\ cache'[i].age = Min({cache[i].age + 1, Ttl})
                              /\ cache[i] \in Entry
  <2> SUFFICES ASSUME NEW i \in DOMAIN cache
               PROVE  /\ cache'[i] \in Entry /\ cache'[i].message = cache[i].message
                      /\ cache'[i].age = Min({cache[i].age + 1, Ttl})
                      /\ cache[i] \in Entry
    OBVIOUS
  <2>1. cache[i] \in [message : Messages, age : 0 .. Ttl]
    <3>1. cache[i] \in Entry
      BY <1>1, <1>3
    <3> QED BY <3>1 DEF Entry
  <2>2. cache[i].age \in 0 .. Ttl
    BY <2>1
  <2>3. Min({cache[i].age + 1, Ttl}) \in 0 .. Ttl
    BY <1>2, <2>2
  <2>4. cache'[i] = [cache[i] EXCEPT !.age = Min({cache[i].age + 1, Ttl})]
    BY <1>3
  <2> QED BY <2>1, <2>3, <2>4 DEF Entry
<1>5. cache' \in Seq(Entry) /\ Len(cache') = Len(cache)
  <2>1. cache' = [i \in 1 .. Len(cache) |-> cache'[i]]
    BY <1>3 DEF Tick
  <2>2. \A i \in 1 .. Len(cache) : cache'[i] \in Entry
    BY <1>3, <1>4
  <2> QED BY <1>3, <2>1, <2>2
<1>6. KeysOf(cache') = KeysOf(cache)
  BY <1>3, <1>4 DEF KeysOf
<1>7. Tidy(cache', touched')
  BY <1>1, <1>3, <1>5, <1>6 DEF Tidy
<1>8. answered' = [m \in Messages |-> Min({answered[m] + 1, Ttl})]
  BY DEF Tick
<1>9. answered' \in [Messages -> 0 .. Ttl]
  BY <1>1, <1>2, <1>8
<1>10. NoYounger(cache)'
  <2> SUFFICES ASSUME NEW i \in DOMAIN cache
               PROVE  answered'[cache'[i].message] <= cache'[i].age
    BY <1>3 DEF NoYounger
  <2>1. /\ cache[i].message \in Messages /\ cache[i].age \in 0 .. Ttl
        /\ answered[cache[i].message] <= cache[i].age
        /\ answered[cache[i].message] \in 0 .. Ttl
    BY <1>1, <1>4 DEF NoYounger, Entry
  <2>2. answered'[cache'[i].message] = Min({answered[cache[i].message] + 1, Ttl})
    BY <1>4, <1>8, <2>1
  <2>3. cache'[i].age = Min({cache[i].age + 1, Ttl})
    BY <1>4
  <2>4. PICK x \in 0 .. Ttl, y \in 0 .. Ttl : x = answered[cache[i].message] /\ y = cache[i].age
    BY <2>1
  <2>5. Min({x + 1, Ttl}) = (IF x < Ttl THEN x + 1 ELSE Ttl)
        /\ Min({y + 1, Ttl}) = IF y < Ttl THEN y + 1 ELSE Ttl
    BY <1>2
  <2>6. x <= y
    BY <2>1, <2>4
  <2>7. Min({x + 1, Ttl}) <= Min({y + 1, Ttl})
    BY <1>1, <2>5, <2>6
  <2> QED BY <2>2, <2>3, <2>4, <2>7
<1>11. CacheTypeOK'
  BY <1>7, <1>9 DEF CacheTypeOK, Tidy
<1> QED BY <1>1, <1>5, <1>7, <1>10, <1>11 DEF CacheInv

LEMMA CacheNext ==
    ASSUME CacheInv, TypeOK, [Next]_vars
    PROVE  CacheInv'
<1>1. ASSUME NEW c \in Calls, AnswerFromCache(c)
      PROVE  CacheInv'
  <2>1. PICK m \in Messages : Live(m) /\ cache' = Hit(m) /\ Touch(m)
    BY <1>1 DEF AnswerFromCache
  <2>2. UNCHANGED answered
    BY <1>1 DEF AnswerFromCache
  <2> QED BY <2>1, <2>2, HitKeepsCacheInv
<1>2. ASSUME NEW c \in Calls, StartChat(c)
      PROVE  CacheInv'
  <2>1. PICK m \in Messages : cache' = Without(m) /\ Forget(m)
    BY <1>2 DEF StartChat
  <2>2. UNCHANGED answered
    BY <1>2 DEF StartChat
  <2> QED BY <2>1, <2>2, ForgetKeepsCacheInv
<1>3. ASSUME NEW c \in Calls, Answer(c) \/ LlmFails(c)
      PROVE  CacheInv'
  <2>1. task[c].pc = "llm" /\ CacheReply(task[c].message)
    BY <1>3 DEF Answer, LlmFails, At
  <2>2. task[c].message \in Messages
    BY <2>1 DEF TypeOK, Idle
  <2> QED BY <2>1, <2>2, StoreKeepsCacheInv
<1>4. ASSUME UNCHANGED <<cache, answered, touched>>
      PROVE  CacheInv'
  BY <1>4 DEF CacheInv, CacheTypeOK, NoYounger
<1>5. ASSUME NEW c \in Calls, Classify(c) \/ SearchMemory(c) \/ AnswerEmpty(c) \/ RetryLlm(c)
      PROVE  CacheInv'
  BY <1>4, <1>5 DEF Classify, SearchMemory, AnswerEmpty, RetryLlm
<1>6. ASSUME NEW c \in Calls, Proceed(c)
      PROVE  CacheInv'
  BY <1>3, <1>5, <1>6 DEF Proceed
<1>7. CASE Invalidate
  <2>1. PICK m \in Messages : cache' = Without(m) /\ Forget(m)
    BY <1>7 DEF Invalidate
  <2>2. UNCHANGED answered
    BY <1>7 DEF Invalidate
  <2> QED BY <2>1, <2>2, ForgetKeepsCacheInv
<1>8. CASE ClearCache
  <2>1. cache' = <<>> /\ touched' = <<>> /\ answered' = answered /\ Len(cache') = 0
    BY <1>8 DEF ClearCache
  <2>2. MaxSize \in Nat /\ answered \in [Messages -> 0 .. Ttl]
    BY LimitsAssumption DEF CacheInv, CacheTypeOK
  <2> QED BY <2>1, <2>2, EmptyTidy DEF CacheInv, CacheTypeOK, NoYounger
<1>9. CASE Tick
  BY <1>9, TickKeepsCacheInv
<1>10. CASE UNCHANGED vars
  BY <1>4, <1>10 DEF vars
<1> QED BY <1>1, <1>2, <1>6, <1>7, <1>8, <1>9, <1>10 DEF Next

LEMMA CacheInvImplies == CacheInv => CachedRepliesSound
<1> SUFFICES ASSUME CacheInv PROVE CachedRepliesSound
  OBVIOUS
<1>1. /\ cache \in Seq(Entry) /\ touched \in Seq(Messages) /\ Len(cache) <= MaxSize
      /\ Trails(KeysOf(cache), touched) /\ NoYounger(cache) /\ Ttl \in Nat
      /\ answered \in [Messages -> 0 .. Ttl]
  BY LimitsAssumption DEF CacheInv, CacheTypeOK, Tidy
<1>2. IsSuffix(Keys, touched)
  <2>1. Keys = KeysOf(cache)
    BY DEF Keys, KeysOf
  <2> QED BY <1>1, <2>1, KeysOfFacts, TrailsIsSuffix
<1>3. ASSUME NEW m \in Messages, Live(m)
      PROVE  answered[m] < Ttl
  <2>1. /\ EntryOf(m) \in Entry /\ EntryOf(m).message = m /\ EntryOf(m).age < Ttl
        /\ \E i \in DOMAIN cache : EntryOf(m) = cache[i]
    BY <1>3, HasFacts DEF Live
  <2>2. answered[m] <= EntryOf(m).age /\ EntryOf(m).age \in 0 .. Ttl
    BY <1>1, <2>1 DEF NoYounger, Entry
  <2> QED BY <1>1, <2>1, <2>2
<1> QED BY <1>1, <1>2, <1>3 DEF CachedRepliesSound

-----------------------------------------------------------------------------
(* The sessions and the chats in progress. *)

LinesOf(h, role) == {i \in DOMAIN h : h[i].role = role}

Line == [role : {"user", "assistant"}, message : Messages]

Waiting ==
    [pc : {"classify", "search"}, session : Sessions, message : Messages, asked : 1 .. MaxMessages]

Prompted ==
    [pc : {"llm"}, session : Sessions, message : Messages, asked : 1 .. MaxMessages,
     first : 1 .. MaxMessages, last : 1 .. MaxMessages, retries : 0 .. MaxRetries]

\* How many lines of a role a history has, after one more line too.
LEMMA LinesCounted ==
    ASSUME NEW h \in Seq(Line), NEW x \in Line, NEW role
    PROVE  /\ IsFiniteSet(LinesOf(h, role)) /\ Cardinality(LinesOf(h, role)) \in Nat
           /\ Cardinality(LinesOf(Append(h, x), role)) =
                IF x.role = role THEN Cardinality(LinesOf(h, role)) + 1
                                 ELSE Cardinality(LinesOf(h, role))
<1>1. /\ DOMAIN h = 1 .. Len(h) /\ Len(h) \in Nat /\ DOMAIN Append(h, x) = 1 .. Len(h) + 1
      /\ \A i \in 1 .. Len(h) : Append(h, x)[i] = h[i]
      /\ Append(h, x)[Len(h) + 1] = x
  OBVIOUS
<1>2. IsFiniteSet(LinesOf(h, role))
  <2>1. IsFiniteSet(1 .. Len(h))
    BY <1>1, CountOfAll
  <2>2. LinesOf(h, role) \subseteq 1 .. Len(h)
    BY <1>1 DEF LinesOf
  <2> QED BY <2>1, <2>2, FS_Subset
<1>3. Cardinality(LinesOf(h, role)) \in Nat
  BY <1>2, FS_CardinalityType
<1>4. CASE x.role = role
  <2>1. LinesOf(Append(h, x), role) = LinesOf(h, role) \cup {Len(h) + 1}
    BY <1>1, <1>4 DEF LinesOf
  <2>2. Len(h) + 1 \notin LinesOf(h, role)
    BY <1>1 DEF LinesOf
  <2>3. Cardinality(LinesOf(h, role) \cup {Len(h) + 1}) = Cardinality(LinesOf(h, role)) + 1
    BY <1>2, <2>2, FS_AddElement
  <2> QED BY <1>2, <1>3, <1>4, <2>1, <2>3
<1>5. CASE x.role # role
  <2>1. LinesOf(Append(h, x), role) = LinesOf(h, role)
    BY <1>1, <1>5 DEF LinesOf
  <2> QED BY <1>2, <1>3, <1>5, <2>1
<1> QED BY <1>4, <1>5

LEMMA PrefixKept ==
    ASSUME NEW h \in Seq(Line), NEW x \in Line
    PROVE  /\ Append(h, x) \in Seq(Line) /\ Len(Append(h, x)) = Len(h) + 1
           /\ \A n \in 0 .. Len(h) : SubSeq(Append(h, x), 1, n) = SubSeq(h, 1, n)
<1>1. /\ Append(h, x) \in Seq(Line) /\ Len(Append(h, x)) = Len(h) + 1 /\ Len(h) \in Nat
      /\ \A i \in 1 .. Len(h) : Append(h, x)[i] = h[i]
  OBVIOUS
<1>2. ASSUME NEW n \in 0 .. Len(h)
      PROVE  SubSeq(Append(h, x), 1, n) = SubSeq(h, 1, n)
  <2>1. \A i \in 1 .. n : i \in 1 .. Len(h)
    BY <1>1
  <2> QED BY <1>1, <2>1
<1> QED BY <1>1, <1>2

\* What to_context_messages takes: the newest message, and none later than one that fits.
LEMMA ContextFromFacts ==
    ASSUME NEW h \in Seq(Line), Len(h) > 0
    PROVE  /\ ContextFrom(h) \in 1 .. Len(h)
           /\ \A i \in 1 .. Len(h) : i = Len(h) \/ Fits(h, i) => ContextFrom(h) <= i
<1> DEFINE S == {Len(h)} \cup {i \in DOMAIN h : Fits(h, i)}
<1>1. DOMAIN h = 1 .. Len(h) /\ Len(h) \in Nat
  OBVIOUS
<1>2. S \subseteq 1 .. Len(h) /\ S # {} /\ S \subseteq Nat
      /\ \A i \in 1 .. Len(h) : i = Len(h) \/ Fits(h, i) => i \in S
  <2>1. S \subseteq 1 .. Len(h)
    BY <1>1
  <2>2. S # {}
    OBVIOUS
  <2>3. \A i \in 1 .. Len(h) : i = Len(h) \/ Fits(h, i) => i \in S
    BY <1>1, Zenon
  <2> HIDE DEF S
  <2>4. S \subseteq Nat
    BY <2>1
  <2> QED BY <2>1, <2>2, <2>3, <2>4
<1>3. ContextFrom(h) = Min(S)
  BY DEF ContextFrom
<1> HIDE DEF S
<1>4. Min(S) \in S /\ \A i \in S : Min(S) <= i
  BY <1>2, LeastIsMin
<1> QED BY <1>2, <1>3, <1>4

-----------------------------------------------------------------------------
(* The invariant of the chats. *)

\* In a session: the open questions, and room for the replies to come.
SessionOK(s) ==
    /\ IsFiniteSet(Chatting(s))
    /\ Len(history[s]) + Cardinality(Chatting(s)) <= MaxMessages
    /\ Cardinality(Said(s, "user")) = Cardinality(Said(s, "assistant")) + Cardinality(Chatting(s))

\* Where a chat asked, and what its prompt has of the session as it was then.
CallOK(c) ==
    /\ task[c] # Idle => task[c].asked <= Len(history[task[c].session])
    /\ At(c, "llm") =>
        /\ task[c].asked <= task[c].last /\ task[c].last <= Len(history[task[c].session])
        /\ \/ task[c].first <= task[c].asked
           \/ /\ task[c].asked < task[c].last
              /\ ~Fits(SubSeq(history[task[c].session], 1, task[c].last), task[c].asked)

ChatInv ==
    /\ TypeOK
    /\ \A s \in Sessions : SessionOK(s)
    /\ \A c \in Calls : CallOK(c)

LEMMA TaskFacts ==
    ASSUME TypeOK, NEW c \in Calls
    PROVE  \/ task[c] = Idle /\ task[c].pc = "idle"
           \/ task[c] # Idle /\ task[c] \in Waiting /\ task[c].pc \in {"classify", "search"}
           \/ task[c] # Idle /\ task[c] \in Prompted /\ task[c].pc = "llm"
<1>1. task[c] = Idle \/ task[c] \in Waiting \/ task[c] \in Prompted
  BY DEF TypeOK, Waiting, Prompted
<1>2. Idle.pc = "idle"
  BY DEF Idle
<1>3. CASE task[c] = Idle
  BY <1>2, <1>3
<1>4. CASE task[c] \in Waiting
  <2>1. task[c].pc \in {"classify", "search"}
    BY <1>4 DEF Waiting
  <2> QED BY <1>2, <1>4, <2>1
<1>5. CASE task[c] \in Prompted
  <2>1. task[c].pc = "llm"
    BY <1>5 DEF Prompted
  <2> QED BY <1>2, <1>5, <2>1
<1> QED BY <1>1, <1>3, <1>4, <1>5

LEMMA BusyFacts ==
    ASSUME TypeOK, NEW c \in Calls, task[c].pc # "idle"
    PROVE  /\ task[c] # Idle /\ task[c].session \in Sessions /\ task[c].message \in Messages
           /\ task[c].asked \in 1 .. MaxMessages
<1>1. CASE task[c] \in Waiting
  BY <1>1, TaskFacts DEF Waiting
<1>2. CASE task[c] \in Prompted
  BY <1>2, TaskFacts DEF Prompted
<1> QED BY <1>1, <1>2, TaskFacts

LEMMA ChatInitially == Init => ChatInv
<1> SUFFICES ASSUME Init PROVE ChatInv
  OBVIOUS
<1>1. /\ history = [s \in Sessions |-> <<>>] /\ cache = <<>> /\ touched = <<>>
      /\ task = [c \in Calls |-> Idle] /\ answered = [m \in Messages |-> Ttl]
      /\ Ttl \in Nat /\ MaxMessages \in Nat
  BY LimitsAssumption DEF Init
<1>2. TypeOK
  BY <1>1 DEF TypeOK
<1>3. ASSUME NEW s \in Sessions
      PROVE  SessionOK(s)
  <2>1. Chatting(s) = {} /\ Said(s, "user") = {} /\ Said(s, "assistant") = {}
        /\ Len(history[s]) = 0
    BY <1>1 DEF Chatting, Said
  <2>2. IsFiniteSet({}) /\ Cardinality({}) = 0
    BY FS_EmptySet
  <2>3. IsFiniteSet(Chatting(s)) /\ Cardinality(Chatting(s)) = 0
        /\ Cardinality(Said(s, "user")) = 0 /\ Cardinality(Said(s, "assistant")) = 0
    BY <2>1, <2>2, Zenon
  <2> QED BY <1>1, <2>1, <2>3 DEF SessionOK
<1>4. ASSUME NEW c \in Calls
      PROVE  CallOK(c)
  BY <1>1 DEF CallOK, At, Idle
<1> QED BY <1>2, <1>3, <1>4 DEF ChatInv

\* The histories only grow.
Grown ==
    \A s \in Sessions :
        /\ Len(history[s]) <= Len(history'[s])
        /\ \A n \in 0 .. Len(history[s]) : SubSeq(history'[s], 1, n) = SubSeq(history[s], 1, n)

LEMMA OthersKept ==
    ASSUME TypeOK, TypeOK', Grown, NEW c \in Calls, CallOK(c), task'[c] = task[c]
    PROVE  CallOK(c)'
<1>1. CASE task[c].pc = "idle"
  <2>1. task[c] = Idle
    BY <1>1, TaskFacts
  <2> QED BY <1>1, <2>1 DEF CallOK, At
<1>2. CASE task[c].pc # "idle"
  <2>1. task[c].session \in Sessions /\ task[c].asked \in Nat
    BY <1>2, BusyFacts
  <2>2. PICK s \in Sessions : s = task[c].session /\ s = task'[c].session
    BY <2>1
  <2>3. /\ Len(history[s]) <= Len(history'[s]) /\ Len(history[s]) \in Nat /\ Len(history'[s]) \in Nat
        /\ \A n \in 0 .. Len(history[s]) : SubSeq(history'[s], 1, n) = SubSeq(history[s], 1, n)
    BY DEF Grown, TypeOK
  <2>4. task[c].asked <= Len(history[s])
    BY <1>2, <2>2, BusyFacts DEF CallOK
  <2>5. task'[c].asked <= Len(history'[s])
    BY <2>1, <2>3, <2>4
  <2>6. ASSUME At(c, "llm")
        PROVE  /\ task'[c].asked <= task'[c].last /\ task'[c].last <= Len(history'[s])
               /\ \/ task'[c].first <= task'[c].asked
                  \/ /\ task'[c].asked < task'[c].last
                     /\ ~Fits(SubSeq(history'[s], 1, task'[c].last), task'[c].asked)
    <3>1. task[c].last \in Nat
      BY <2>6, TaskFacts DEF At, Prompted
    <3>2. /\ task[c].asked <= task[c].last /\ task[c].last <= Len(history[s])
          /\ \/ task[c].first <= task[c].asked
             \/ /\ task[c].asked < task[c].last
                /\ ~Fits(SubSeq(history[s], 1, task[c].last), task[c].asked)
      BY <2>2, <2>6 DEF CallOK
    <3>3. SubSeq(history'[s], 1, task[c].last) = SubSeq(history[s], 1, task[c].last)
      BY <2>3, <3>1, <3>2
    <3>4. task[c].last <= Len(history'[s])
      BY <2>3, <3>1, <3>2
    <3> QED BY <3>2, <3>3, <3>4
  <2>7. At(c, "llm")' <=> At(c, "llm")
    BY DEF At
  <2> QED BY <2>2, <2>5, <2>6, <2>7 DEF CallOK
<1> QED BY <1>1, <1>2

-----------------------------------------------------------------------------
(* The steps of a chat. *)

\* One line more in a session.
LEMMA SayFacts ==
    ASSUME TypeOK, NEW s \in Sessions, NEW role \in {"user", "assistant"}, NEW m \in Messages,
           Say(s, role, m)
    PROVE  /\ history' \in [Sessions -> Seq(Line)] /\ Grown
           /\ \A z \in Sessions : z # s => history'[z] = history[z]
           /\ history[s] \in Seq(Line) /\ Len(history[s]) \in Nat
           /\ [role |-> role, message |-> m] \in Line
           /\ history'[s] = Append(history[s], [role |-> role, message |-> m])
           /\ Len(history'[s]) = Len(history[s]) + 1
<1> DEFINE x == [role |-> role, message |-> m]
<1>1. history \in [Sessions -> Seq(Line)]
  BY DEF TypeOK, Line
<1>2. x \in Line
  BY DEF Line
<1>3. history' = [history EXCEPT ![s] = Append(@, x)]
  BY DEF Say
<1> HIDE DEF x
<1>4. history[s] \in Seq(Line) /\ history'[s] = Append(history[s], x)
      /\ \A z \in Sessions : z # s => history'[z] = history[z]
  BY <1>1, <1>3
<1>5. /\ Append(history[s], x) \in Seq(Line) /\ Len(Append(history[s], x)) = Len(history[s]) + 1
      /\ \A n \in 0 .. Len(history[s]) : SubSeq(Append(history[s], x), 1, n) = SubSeq(history[s], 1, n)
  BY <1>2, <1>4, PrefixKept
<1>6. Len(history[s]) \in Nat
  BY <1>4
<1>7. history' \in [Sessions -> Seq(Line)]
  BY <1>1, <1>3, <1>5
<1>8. Grown
  <2> SUFFICES ASSUME NEW z \in Sessions
               PROVE  /\ Len(history[z]) <= Len(history'[z])
                      /\ \A n \in 0 .. Len(history[z]) :
                            SubSeq(history'[z], 1, n) = SubSeq(history[z], 1, n)
    BY DEF Grown
  <2>1. CASE z = s
    <3>1. Len(history[s]) <= Len(history'[s])
      BY <1>4, <1>5, <1>6
    <3> QED BY <1>4, <1>5, <2>1, <3>1
  <2>2. CASE z # s
    <3>1. history'[z] = history[z] /\ Len(history[z]) \in Nat
      BY <1>1, <1>4, <2>2
    <3> QED BY <3>1
  <2> QED BY <2>1, <2>2
<1> QED BY <1>2, <1>4, <1>5, <1>6, <1>7, <1>8 DEF x

LEMMA TypeKept ==
    ASSUME TypeOK, CacheTypeOK', history' \in [Sessions -> Seq(Line)], NEW c \in Calls,
           NEW r \in {Idle} \cup Waiting \cup Prompted, Become(c, r)
    PROVE  /\ TypeOK' /\ task'[c] = r
           /\ \A d \in Calls : d # c => task'[d] = task[d]
<1>1. task \in [Calls -> {Idle} \cup Waiting \cup Prompted]
  BY DEF TypeOK, Waiting, Prompted
<1>2. task' = [task EXCEPT ![c] = r]
  BY DEF Become
<1>3. task' \in [Calls -> {Idle} \cup Waiting \cup Prompted]
  BY <1>1, <1>2
<1>4. TypeOK'
  BY <1>3 DEF TypeOK, CacheTypeOK, Waiting, Prompted, Line
<1> QED BY <1>1, <1>2, <1>4

LEMMA CallsOK ==
    ASSUME ChatInv, TypeOK', Grown, NEW c \in Calls, CallOK(c)',
           \A d \in Calls : d # c => task'[d] = task[d]
    PROVE  \A d \in Calls : CallOK(d)'
<1> SUFFICES ASSUME NEW d \in Calls PROVE CallOK(d)'
  OBVIOUS
<1>1. CASE d = c
  BY <1>1
<1>2. CASE d # c
  BY <1>2, OthersKept DEF ChatInv
<1> QED BY <1>1, <1>2

\* A question joins its session: one more question, one more chat.
LEMMA StartKeepsChatInv ==
    ASSUME ChatInv, CacheTypeOK', NEW c \in Calls, At(c, "idle"), NEW s \in Sessions,
           NEW m \in Messages, Len(history[s]) + Cardinality(Chatting(s)) + 2 <= MaxMessages,
           Say(s, "user", m),
           Become(c, [pc |-> "classify", session |-> s, message |-> m,
                      asked |-> Len(history[s]) + 1])
    PROVE  ChatInv'
<1> DEFINE r == [pc |-> "classify", session |-> s, message |-> m,
                 asked |-> Len(history[s]) + 1]
           x == [role |-> "user", message |-> m]
<1>1. TypeOK /\ SessionOK(s) /\ MaxMessages \in Nat
  BY LimitsAssumption DEF ChatInv
<1>2. /\ history' \in [Sessions -> Seq(Line)] /\ Grown
      /\ \A z \in Sessions : z # s => history'[z] = history[z]
      /\ history[s] \in Seq(Line) /\ Len(history[s]) \in Nat
      /\ x \in Line /\ history'[s] = Append(history[s], x)
      /\ Len(history'[s]) = Len(history[s]) + 1
  BY <1>1, SayFacts
<1>3. IsFiniteSet(Chatting(s)) /\ Cardinality(Chatting(s)) \in Nat
  BY <1>1, FS_CardinalityType DEF SessionOK
<1>4. Len(history[s]) + 1 \in 1 .. MaxMessages
  BY <1>1, <1>2, <1>3
<1>5. r \in Waiting /\ r.pc = "classify" /\ r.session = s /\ r.asked = Len(history[s]) + 1
  BY <1>4 DEF Waiting
<1>6. r # Idle
  BY <1>5 DEF Idle
<1>7. x.role = "user"
  OBVIOUS
<1>8. Become(c, r)
  OBVIOUS
<1> HIDE DEF r, x
<1>9. /\ TypeOK' /\ task'[c] = r
      /\ \A d \in Calls : d # c => task'[d] = task[d]
  BY <1>1, <1>2, <1>5, <1>8, TypeKept
<1>10. CallOK(c)'
  <2>1. task'[c].asked <= Len(history'[task'[c].session])
    BY <1>2, <1>5, <1>9
  <2>2. ~At(c, "llm")'
    BY <1>5, <1>9 DEF At
  <2> QED BY <2>1, <2>2 DEF CallOK
<1>11. task[c] = Idle
  BY <1>1, TaskFacts DEF At
<1>12. ASSUME NEW z \in Sessions
       PROVE  SessionOK(z)'
  <2>1. CASE z # s
    <3>1. Chatting(z)' = Chatting(z)
      BY <1>5, <1>9, <1>11, <2>1 DEF Chatting
    <3>2. history'[z] = history[z]
      BY <1>2, <2>1
    <3>3. Said(z, "user")' = Said(z, "user") /\ Said(z, "assistant")' = Said(z, "assistant")
      BY <3>2 DEF Said
    <3>4. SessionOK(z)
      BY DEF ChatInv
    <3> QED BY <3>1, <3>2, <3>3, <3>4 DEF SessionOK
  <2>2. CASE z = s
    <3>1. Chatting(s)' = Chatting(s) \cup {c} /\ c \notin Chatting(s)
      BY <1>5, <1>6, <1>9, <1>11 DEF Chatting
    <3>2. IsFiniteSet(Chatting(s)') /\ Cardinality(Chatting(s)') = Cardinality(Chatting(s)) + 1
      BY <1>3, <3>1, FS_AddElement
    <3>3. /\ Said(s, "user") = LinesOf(history[s], "user")
          /\ Said(s, "assistant") = LinesOf(history[s], "assistant")
          /\ Said(s, "user")' = LinesOf(history'[s], "user")
          /\ Said(s, "assistant")' = LinesOf(history'[s], "assistant")
      BY DEF Said, LinesOf
    <3>4. /\ Cardinality(Said(s, "user")') = Cardinality(Said(s, "user")) + 1
          /\ Cardinality(Said(s, "user")) \in Nat
      BY <1>2, <1>7, <3>3, LinesCounted
    <3>5. /\ Cardinality(Said(s, "assistant")') = Cardinality(Said(s, "assistant"))
          /\ Cardinality(Said(s, "assistant")) \in Nat
      BY <1>2, <1>7, <3>3, LinesCounted
    <3>6. Cardinality(Said(s, "user")) = Cardinality(Said(s, "assistant")) + Cardinality(Chatting(s))
      BY <1>1 DEF SessionOK
    <3>7. Len(history'[s]) + Cardinality(Chatting(s)') <= MaxMessages
      BY <1>1, <1>2, <1>3, <3>2
    <3>8. Cardinality(Said(s, "user")') =
            Cardinality(Said(s, "assistant")') + Cardinality(Chatting(s)')
      BY <1>3, <3>2, <3>4, <3>5, <3>6
    <3>9. SessionOK(s)'
      BY <3>2, <3>7, <3>8 DEF SessionOK
    <3> QED BY <2>2, <3>9
  <2> QED BY <2>1, <2>2
<1>13. \A d \in Calls : CallOK(d)'
  BY <1>2, <1>9, <1>10, CallsOK
<1> QED BY <1>9, <1>12, <1>13 DEF ChatInv

\* A reply joins the session: one more reply, one chat less.
LEMMA ReplyKeepsChatInv ==
    ASSUME ChatInv, CacheTypeOK', NEW c \in Calls, At(c, "llm"), Reply(c)
    PROVE  ChatInv'
<1>1. /\ TypeOK /\ task[c] # Idle /\ task[c].session \in Sessions /\ task[c].message \in Messages
      /\ MaxMessages \in Nat
  BY LimitsAssumption, BusyFacts DEF ChatInv, At
<1>2. PICK s \in Sessions, m \in Messages : s = task[c].session /\ m = task[c].message
  BY <1>1
<1>3. Say(s, "assistant", m) /\ Become(c, Idle)
  BY <1>2 DEF Reply
<1> DEFINE x == [role |-> "assistant", message |-> m]
<1>4. /\ history' \in [Sessions -> Seq(Line)] /\ Grown
      /\ \A z \in Sessions : z # s => history'[z] = history[z]
      /\ history[s] \in Seq(Line) /\ Len(history[s]) \in Nat
      /\ x \in Line /\ history'[s] = Append(history[s], x)
      /\ Len(history'[s]) = Len(history[s]) + 1
  BY <1>1, <1>3, SayFacts
<1>5. x.role = "assistant"
  OBVIOUS
<1> HIDE DEF x
<1>6. /\ TypeOK' /\ task'[c] = Idle
      /\ \A d \in Calls : d # c => task'[d] = task[d]
  BY <1>1, <1>3, <1>4, TypeKept
<1>7. CallOK(c)'
  BY <1>6 DEF CallOK, At, Idle
<1>8. ASSUME NEW z \in Sessions
      PROVE  SessionOK(z)'
  <2>1. CASE z # s
    <3>1. Chatting(z)' = Chatting(z)
      BY <1>2, <1>6, <2>1 DEF Chatting
    <3>2. history'[z] = history[z]
      BY <1>4, <2>1
    <3>3. Said(z, "user")' = Said(z, "user") /\ Said(z, "assistant")' = Said(z, "assistant")
      BY <3>2 DEF Said
    <3>4. SessionOK(z)
      BY DEF ChatInv
    <3> QED BY <3>1, <3>2, <3>3, <3>4 DEF SessionOK
  <2>2. CASE z = s
    <3>1. Chatting(s)' = Chatting(s) \ {c} /\ c \in Chatting(s)
      BY <1>1, <1>2, <1>6 DEF Chatting
    <3>2. SessionOK(s)
      BY DEF ChatInv
    <3>3. IsFiniteSet(Chatting(s)) /\ Cardinality(Chatting(s)) \in Nat
      BY <3>2, FS_CardinalityType DEF SessionOK
    <3>4. IsFiniteSet(Chatting(s)') /\ Cardinality(Chatting(s)') = Cardinality(Chatting(s)) - 1
      BY <3>1, <3>3, FS_RemoveElement
    <3>5. /\ Said(s, "user") = LinesOf(history[s], "user")
          /\ Said(s, "assistant") = LinesOf(history[s], "assistant")
          /\ Said(s, "user")' = LinesOf(history'[s], "user")
          /\ Said(s, "assistant")' = LinesOf(history'[s], "assistant")
      BY DEF Said, LinesOf
    <3>6. /\ Cardinality(Said(s, "user")') = Cardinality(Said(s, "user"))
          /\ Cardinality(Said(s, "user")) \in Nat
      BY <1>4, <1>5, <3>5, LinesCounted
    <3>7. /\ Cardinality(Said(s, "assistant")') = Cardinality(Said(s, "assistant")) + 1
          /\ Cardinality(Said(s, "assistant")) \in Nat
      BY <1>4, <1>5, <3>5, LinesCounted
    <3>8. /\ Len(history[s]) + Cardinality(Chatting(s)) <= MaxMessages
          /\ Cardinality(Said(s, "user")) = Cardinality(Said(s, "assistant")) + Cardinality(Chatting(s))
      BY <3>2 DEF SessionOK
    <3>9. Len(history'[s]) + Cardinality(Chatting(s)') <= MaxMessages
      BY <1>1, <1>4, <3>3, <3>4, <3>8
    <3>10. Cardinality(Said(s, "user")') =
             Cardinality(Said(s, "assistant")') + Cardinality(Chatting(s)')
      BY <3>3, <3>4, <3>6, <3>7, <3>8
    <3>11. SessionOK(s)'
      BY <3>4, <3>9, <3>10 DEF SessionOK
    <3> QED BY <2>2, <3>11
  <2> QED BY <2>1, <2>2
<1>9. \A d \in Calls : CallOK(d)'
  BY <1>4, <1>6, <1>7, CallsOK
<1> QED BY <1>6, <1>8, <1>9 DEF ChatInv

LEMMA Unsaid ==
    ASSUME TypeOK, UNCHANGED history
    PROVE  history' \in [Sessions -> Seq(Line)] /\ Grown
<1>1. history' \in [Sessions -> Seq(Line)] /\ history' = history
  BY DEF TypeOK, Line
<1>2. \A s \in Sessions : Len(history[s]) \in Nat
  BY <1>1
<1> QED BY <1>1, <1>2 DEF Grown

\* A chat goes on in its session.
LEMMA MoveKeepsChatInv ==
    ASSUME ChatInv, CacheTypeOK', UNCHANGED history, NEW c \in Calls, task[c].pc # "idle",
           NEW r \in Waiting \cup Prompted, r.session = task[c].session, Become(c, r), CallOK(c)'
    PROVE  ChatInv'
<1>1. TypeOK /\ task[c] # Idle
  BY BusyFacts DEF ChatInv
<1>2. history' \in [Sessions -> Seq(Line)] /\ Grown
  BY <1>1, Unsaid
<1>3. /\ TypeOK' /\ task'[c] = r
      /\ \A d \in Calls : d # c => task'[d] = task[d]
  BY <1>1, <1>2, TypeKept
<1>4. r # Idle
  BY DEF Waiting, Prompted, Idle
<1>5. ASSUME NEW z \in Sessions
      PROVE  SessionOK(z)'
  <2>1. Chatting(z)' = Chatting(z)
    BY <1>1, <1>3, <1>4 DEF Chatting
  <2>2. Said(z, "user")' = Said(z, "user") /\ Said(z, "assistant")' = Said(z, "assistant")
    BY DEF Said
  <2>3. SessionOK(z)
    BY DEF ChatInv
  <2> QED BY <2>1, <2>2, <2>3 DEF SessionOK
<1>6. \A d \in Calls : CallOK(d)'
  BY <1>2, <1>3, CallsOK
<1> QED BY <1>3, <1>5, <1>6 DEF ChatInv

\* The prompt begins no later than its question, if the question still fits.
LEMMA CallLlmKeepsChatInv ==
    ASSUME ChatInv, CacheTypeOK', UNCHANGED history, NEW c \in Calls, task[c].pc # "idle",
           CallLlm(c)
    PROVE  ChatInv'
<1>1. /\ TypeOK /\ task[c] # Idle /\ task[c].session \in Sessions /\ task[c].message \in Messages
      /\ task[c].asked \in 1 .. MaxMessages /\ MaxMessages \in Nat /\ MaxRetries \in Nat
  BY BusyFacts, LimitsAssumption DEF ChatInv
<1>2. PICK s \in Sessions, m \in Messages, a \in 1 .. MaxMessages :
         s = task[c].session /\ m = task[c].message /\ a = task[c].asked
  BY <1>1
<1>3. PICK h : h = history[s]
  OBVIOUS
<1>4. h \in Seq(Line) /\ Len(h) \in Nat
  <2>1. h \in Seq(Line)
    BY <1>1, <1>3 DEF TypeOK, Line
  <2> QED BY <2>1
<1>5. a <= Len(h) /\ Len(h) <= MaxMessages
  <2>1. a <= Len(h)
    BY <1>1, <1>2, <1>3 DEF ChatInv, CallOK
  <2>2. SessionOK(s)
    BY DEF ChatInv
  <2>3. Cardinality(Chatting(s)) \in Nat
    BY <2>2, FS_CardinalityType DEF SessionOK
  <2>4. Len(h) + Cardinality(Chatting(s)) <= MaxMessages
    BY <1>3, <2>2 DEF SessionOK
  <2>5. Len(h) <= MaxMessages
    BY <1>1, <1>4, <2>3, <2>4
  <2> QED BY <2>1, <2>5
<1>6. Len(h) > 0 /\ Len(h) \in 1 .. MaxMessages /\ a \in 1 .. Len(h)
  BY <1>1, <1>4, <1>5
<1>7. /\ ContextFrom(h) \in 1 .. Len(h)
      /\ \A i \in 1 .. Len(h) : i = Len(h) \/ Fits(h, i) => ContextFrom(h) <= i
  BY <1>4, <1>6, ContextFromFacts
<1>8. PICK f \in 1 .. MaxMessages : f = ContextFrom(h)
  <2>1. ContextFrom(h) \in 1 .. MaxMessages
    BY <1>1, <1>4, <1>5, <1>7
  <2> QED BY <2>1
<1> DEFINE r == [pc |-> "llm", session |-> s, message |-> m, asked |-> a,
                 first |-> f, last |-> Len(h), retries |-> 0]
<1>9. Become(c, r)
  BY <1>2, <1>3, <1>8 DEF CallLlm
<1>10. r \in Prompted
  BY <1>1, <1>6 DEF Prompted
<1>11. /\ r.pc = "llm" /\ r.session = s /\ r.asked = a /\ r.first = f /\ r.last = Len(h)
  OBVIOUS
<1> HIDE DEF r
<1>12. task'[c] = r
  BY <1>1, <1>9 DEF Become, TypeOK
<1>13. SubSeq(h, 1, Len(h)) = h
  BY <1>4
<1>14. f <= a \/ (a < Len(h) /\ ~Fits(h, a))
  <2>1. CASE a = Len(h) \/ Fits(h, a)
    BY <1>6, <1>7, <1>8, <2>1
  <2>2. CASE ~(a = Len(h) \/ Fits(h, a))
    <3>1. a # Len(h) /\ ~Fits(h, a)
      BY <2>2
    <3>2. a < Len(h)
      BY <1>4, <1>5, <3>1
    <3> QED BY <3>1, <3>2
  <2> QED BY <2>1, <2>2
<1>15. CallOK(c)'
  <2>1. history'[task'[c].session] = h
    BY <1>3, <1>11, <1>12
  <2>2. task'[c].asked = a /\ task'[c].last = Len(h) /\ task'[c].first = f
    BY <1>11, <1>12
  <2>3. Len(h) <= Len(h)
    BY <1>4
  <2> QED BY <1>5, <1>13, <1>14, <2>1, <2>2, <2>3 DEF CallOK
<1> QED BY <1>2, <1>9, <1>10, <1>11, <1>15, MoveKeepsChatInv

LEMMA ChatStutter ==
    ASSUME ChatInv, CacheTypeOK', UNCHANGED <<history, task>>
    PROVE  ChatInv'
<1>1. TypeOK'
  BY DEF ChatInv, TypeOK, CacheTypeOK
<1>2. ASSUME NEW s \in Sessions
      PROVE  SessionOK(s)'
  <2>1. SessionOK(s)
    BY DEF ChatInv
  <2> QED BY <2>1 DEF SessionOK, Chatting, Said
<1>3. ASSUME NEW c \in Calls
      PROVE  CallOK(c)'
  <2>1. CallOK(c)
    BY DEF ChatInv
  <2> QED BY <2>1 DEF CallOK, At
<1> QED BY <1>1, <1>2, <1>3 DEF ChatInv

LEMMA ClassifyKeepsChatInv ==
    ASSUME ChatInv, CacheTypeOK', NEW c \in Calls, Classify(c)
    PROVE  ChatInv'
<1>1. /\ TypeOK /\ task[c].pc = "classify" /\ task[c].pc # "idle" /\ UNCHANGED history
  BY DEF ChatInv, Classify, At
<1>2. CASE CallLlm(c)
  BY <1>1, <1>2, CallLlmKeepsChatInv
<1>3. CASE Become(c, [task[c] EXCEPT !.pc = "search"])
  <2> DEFINE r == [task[c] EXCEPT !.pc = "search"]
  <2>1. task[c] \in Waiting /\ CallOK(c) /\ task[c] # Idle
    BY <1>1, TaskFacts DEF ChatInv
  <2>2. r \in Waiting /\ r.session = task[c].session /\ r.pc = "search" /\ r.asked = task[c].asked
    BY <2>1 DEF Waiting
  <2>3. Become(c, r)
    BY <1>3
  <2> HIDE DEF r
  <2>4. task'[c] = r
    BY <1>1, <2>3 DEF Become, TypeOK
  <2>5. task[c].asked <= Len(history[task[c].session])
    BY <2>1 DEF CallOK
  <2>6. CallOK(c)'
    BY <1>1, <2>2, <2>4, <2>5 DEF CallOK, At
  <2> QED BY <1>1, <2>2, <2>3, <2>6, MoveKeepsChatInv
<1> QED BY <1>2, <1>3 DEF Classify

LEMMA RetryKeepsChatInv ==
    ASSUME ChatInv, CacheTypeOK', NEW c \in Calls, RetryLlm(c)
    PROVE  ChatInv'
<1>1. /\ TypeOK /\ task[c].pc = "llm" /\ task[c].pc # "idle" /\ UNCHANGED history /\ CallOK(c)
      /\ task[c].retries < MaxRetries /\ MaxRetries \in Nat
  BY LimitsAssumption DEF ChatInv, RetryLlm, At
<1> DEFINE r == [task[c] EXCEPT !.retries = @ + 1]
<1>2. task[c] \in Prompted /\ task[c] # Idle
  BY <1>1, TaskFacts
<1>3. task[c].retries + 1 \in 0 .. MaxRetries
  BY <1>1, <1>2 DEF Prompted
<1>4. /\ r \in Prompted /\ r.pc = task[c].pc /\ r.session = task[c].session
      /\ r.asked = task[c].asked /\ r.first = task[c].first /\ r.last = task[c].last
  BY <1>2, <1>3 DEF Prompted
<1>5. Become(c, r)
  BY DEF RetryLlm
<1> HIDE DEF r
<1>6. task'[c] = r
  BY <1>1, <1>5 DEF Become, TypeOK
<1>7. CallOK(c)'
  BY <1>1, <1>2, <1>4, <1>6 DEF CallOK, At
<1> QED BY <1>1, <1>4, <1>5, <1>7, MoveKeepsChatInv

LEMMA ChatNext ==
    ASSUME ChatInv, CacheTypeOK', [Next]_vars
    PROVE  ChatInv'
<1>1. ASSUME UNCHANGED <<history, task>>
      PROVE  ChatInv'
  BY <1>1, ChatStutter
<1>2. ASSUME NEW c \in Calls, AnswerFromCache(c)
      PROVE  ChatInv'
  BY <1>1, <1>2 DEF AnswerFromCache
<1>3. ASSUME NEW c \in Calls, StartChat(c)
      PROVE  ChatInv'
  <2>1. PICK s \in Sessions, m \in Messages :
           /\ Len(history[s]) + Cardinality(Chatting(s)) + 2 <= MaxMessages
           /\ Say(s, "user", m)
           /\ Become(c, [pc |-> "classify", session |-> s, message |-> m,
                         asked |-> Len(history[s]) + 1])
    BY <1>3 DEF StartChat
  <2>2. At(c, "idle")
    BY <1>3 DEF StartChat
  <2> QED BY <2>1, <2>2, StartKeepsChatInv
<1>4. ASSUME NEW c \in Calls, Proceed(c)
      PROVE  ChatInv'
  <2>1. CASE Classify(c)
    BY <2>1, ClassifyKeepsChatInv
  <2>2. CASE SearchMemory(c)
    <3>1. task[c].pc # "idle" /\ CallLlm(c) /\ UNCHANGED history
      BY <2>2 DEF SearchMemory, At
    <3> QED BY <3>1, CallLlmKeepsChatInv
  <2>3. CASE Answer(c) \/ AnswerEmpty(c) \/ LlmFails(c)
    <3>1. At(c, "llm") /\ Reply(c)
      BY <2>3 DEF Answer, AnswerEmpty, LlmFails
    <3> QED BY <3>1, ReplyKeepsChatInv
  <2>4. CASE RetryLlm(c)
    BY <2>4, RetryKeepsChatInv
  <2> QED BY <1>4, <2>1, <2>2, <2>3, <2>4 DEF Proceed
<1>5. CASE Invalidate \/ ClearCache \/ Tick \/ UNCHANGED vars
  BY <1>1, <1>5 DEF Invalidate, ClearCache, Tick, vars
<1> QED BY <1>2, <1>3, <1>4, <1>5 DEF Next

LEMMA ChatInvImplies == ChatInv => OpenQuestionsInProgress /\ PromptHasQuestion
<1> SUFFICES ASSUME ChatInv PROVE OpenQuestionsInProgress /\ PromptHasQuestion
  OBVIOUS
<1>1. OpenQuestionsInProgress
  BY DEF ChatInv, SessionOK, OpenQuestionsInProgress
<1>2. PromptHasQuestion
  BY DEF ChatInv, CallOK, PromptHasQuestion
<1> QED BY <1>1, <1>2

-----------------------------------------------------------------------------
(* The theorems about the chat pipeline. *)

\* Any number of calls, also in one session, keep the invariant of the chats and of
\* the cache, at every await of ProductionEngine.chat and AgentCore.chat.
THEOREM EngineInvariance == Spec => [](ChatInv /\ CacheInv)
<1>1. Init => ChatInv /\ CacheInv
  BY ChatInitially, CacheInitially
<1>2. ChatInv /\ CacheInv /\ [Next]_vars => ChatInv' /\ CacheInv'
  <2> SUFFICES ASSUME ChatInv, CacheInv, [Next]_vars
               PROVE  ChatInv' /\ CacheInv'
    OBVIOUS
  <2>1. CacheInv'
    BY CacheNext DEF ChatInv
  <2>2. CacheTypeOK'
    BY <2>1 DEF CacheInv
  <2> QED BY <2>1, <2>2, ChatNext
<1> QED BY <1>1, <1>2, PTL DEF Spec

\* The state of the engine has its type: every place a chat keeps in a session it
\* leaves at an await is a place of that session when it comes back.
THEOREM EngineTypeCorrect == Spec => []TypeOK
<1>1. ChatInv => TypeOK
  BY DEF ChatInv
<1> QED BY <1>1, EngineInvariance, PTL

\* Each path through AgentCore.chat, the failing ones too, ends with one reply in the
\* session it asked in: as many questions are open as chats are in progress.
THEOREM QuestionsAreAnsweredOnce == Spec => []OpenQuestionsInProgress
BY ChatInvImplies, EngineInvariance, PTL

\* The prompt that to_context_messages takes from a session has the question of the
\* chat, whatever other chats added to the session while this one awaited.
THEOREM PromptKeepsQuestion == Spec => []PromptHasQuestion
BY ChatInvImplies, EngineInvariance, PTL

\* LLMCache holds at most MaxSize replies, those stored or served last, and serves
\* none that is older than its time to live, however it is used.
THEOREM RepliesServedInTime == Spec => []CachedRepliesSound
BY CacheInvImplies, EngineInvariance, PTL

-----------------------------------------------------------------------------
(* The knowledge graph and its files. *)

Node == [id : 1 .. MaxId, key : {Key[n] : n \in Names}]

Link == [source : 1 .. MaxId, target : 1 .. MaxId]

Pair == [source : Names, target : Names]

\* The relationships have their entities, but for those of a file that was not read.
Closed(ls, ns) ==
    \A i \in DOMAIN ls : /\ ls[i].source \in Ids(ns) \cup unread
                         /\ ls[i].target \in Ids(ns) \cup unread

OneByKey(ns) == \A i, j \in DOMAIN ns : ns[i].key = ns[j].key => i = j

JobFields == {"names", "relations", "ids", "saving", "lenient"}

\* A job, and what the ids it has gathered stand for.
JobOK(j) ==
    /\ DOMAIN j = JobFields
    /\ j.names \in Seq(Names) /\ j.relations \in Seq(Pair)
    /\ DOMAIN j.ids \subseteq Names
    /\ \A n \in DOMAIN j.ids : j.ids[n] \in Ids(nodes)

\* Between two operations.
Ready(j) ==
    /\ JobOK(j) /\ j.saving = "none"
    /\ nextId + Len(j.names) <= MaxId + 1

\* In _save: the entity is in the graph, and once the entities are written their file
\* is the graph's.
InSave(j) ==
    /\ JobOK(j) /\ j.saving \in {"entities", "relationships"}
    /\ nextId + Len(j.names) <= MaxId + 2
    /\ j.names # <<>> => Existing(Key[Head(j.names)]) # {}
    /\ j.saving = "relationships" => nodeFile = nodes

FilesInv ==
    /\ nodes \in Seq(Node) /\ nodeFile \in Seq(Node)
    /\ links \in Seq(Link) /\ linkFile \in Seq(Link)
    /\ nextId \in 1 .. MaxId + 1
    /\ OneByKey(nodes) /\ OneByKey(nodeFile)
    /\ Closed(links, nodes) /\ Closed(linkFile, nodeFile)
    /\ Ids(nodeFile) \subseteq Ids(nodes) \cup unread /\ unread \subseteq 1 .. MaxId

GraphInv ==
    /\ FilesInv
    /\ Ready(job) \/ InSave(job)

LEMMA EmptyIds == Ids(<<>>) = {}
BY DEF Ids

LEMMA NoJobReady ==
    ASSUME nextId \in 1 .. MaxId + 1
    PROVE  Ready(NoJob)
<1>1. MaxId \in Nat
  BY GraphAssumption
<1>2. /\ DOMAIN NoJob = JobFields /\ NoJob.names = <<>> /\ NoJob.relations = <<>>
      /\ NoJob.ids = <<>> /\ NoJob.saving = "none"
  BY DEF NoJob, JobFields
<1>3. DOMAIN <<>> = {} /\ Len(<<>>) = 0
  OBVIOUS
<1> QED BY <1>1, <1>2, <1>3 DEF Ready, JobOK

LEMMA GraphInitially == GraphInit => GraphInv
<1> SUFFICES ASSUME GraphInit PROVE GraphInv
  OBVIOUS
<1>1. /\ nodes = <<>> /\ links = <<>> /\ nodeFile = <<>> /\ linkFile = <<>> /\ nextId = 1
      /\ unread = {} /\ job = NoJob /\ MaxId \in Nat
  BY GraphAssumption DEF GraphInit
<1>2. FilesInv
  BY <1>1, EmptyIds DEF FilesInv, OneByKey, Closed
<1> QED BY <1>1, <1>2, NoJobReady DEF GraphInv

LEMMA FinishedReady ==
    ASSUME nextId \in 1 .. MaxId + 1, NEW j, Ready(j)
    PROVE  Ready(Finished(j))
BY NoJobReady DEF Finished

LEMMA TailShorter ==
    ASSUME NEW S, NEW s \in Seq(S), s # <<>>
    PROVE  Tail(s) \in Seq(S) /\ Len(Tail(s)) = Len(s) - 1 /\ Head(s) \in S /\ Len(s) \in Nat
OBVIOUS

\* An operation is over: the next name, the next relationship, or the end.
LEMMA NextName ==
    ASSUME InSave(job), nextId \in Nat, MaxId \in Nat, job.names # <<>>, NEW ids,
           DOMAIN ids \subseteq Names, \A n \in DOMAIN ids : ids[n] \in Ids(nodes)
    PROVE  Ready([job EXCEPT !.saving = "none", !.names = Tail(@), !.ids = ids])
<1>1. /\ DOMAIN job = JobFields /\ job.names \in Seq(Names) /\ job.relations \in Seq(Pair)
      /\ nextId + Len(job.names) <= MaxId + 2
  BY DEF InSave, JobOK
<1> DEFINE j == [job EXCEPT !.saving = "none", !.names = Tail(@), !.ids = ids]
<1>2. /\ DOMAIN j = JobFields /\ j.names = Tail(job.names) /\ j.relations = job.relations
      /\ j.ids = ids /\ j.saving = "none"
  BY <1>1 DEF JobFields
<1> HIDE DEF j
<1>3. /\ Tail(job.names) \in Seq(Names) /\ Len(Tail(job.names)) = Len(job.names) - 1
      /\ Len(job.names) \in Nat
  BY <1>1, TailShorter
<1>4. nextId + Len(j.names) <= MaxId + 1
  BY <1>1, <1>2, <1>3
<1>5. Ready(j)
  BY <1>1, <1>2, <1>3, <1>4 DEF Ready, JobOK
<1> QED BY <1>5 DEF j

LEMMA NextNameWithoutId ==
    ASSUME InSave(job), nextId \in Nat, MaxId \in Nat, job.names # <<>>
    PROVE  Ready([job EXCEPT !.saving = "none", !.names = Tail(@)])
<1>1. /\ DOMAIN job = JobFields /\ job.names \in Seq(Names) /\ job.relations \in Seq(Pair)
      /\ nextId + Len(job.names) <= MaxId + 2 /\ JobOK(job)
  BY DEF InSave, JobOK
<1> DEFINE j == [job EXCEPT !.saving = "none", !.names = Tail(@)]
<1>2. /\ DOMAIN j = JobFields /\ j.names = Tail(job.names) /\ j.relations = job.relations
      /\ j.ids = job.ids /\ j.saving = "none"
  BY <1>1 DEF JobFields
<1> HIDE DEF j
<1>3. /\ Tail(job.names) \in Seq(Names) /\ Len(Tail(job.names)) = Len(job.names) - 1
      /\ Len(job.names) \in Nat
  BY <1>1, TailShorter
<1>4. nextId + Len(j.names) <= MaxId + 1
  BY <1>1, <1>2, <1>3
<1>5. Ready(j)
  BY <1>1, <1>2, <1>3, <1>4 DEF Ready, JobOK
<1> QED BY <1>5 DEF j

LEMMA NextRelationship ==
    ASSUME InSave(job) \/ Ready(job), nextId \in 1 .. MaxId + 1, MaxId \in Nat,
           job.names = <<>>, job.relations # <<>>
    PROVE  Ready([job EXCEPT !.saving = "none", !.relations = Tail(@)])
<1>1. /\ DOMAIN job = JobFields /\ job.relations \in Seq(Pair) /\ JobOK(job)
  BY DEF InSave, Ready, JobOK
<1> DEFINE j == [job EXCEPT !.saving = "none", !.relations = Tail(@)]
<1>2. /\ DOMAIN j = JobFields /\ j.names = job.names /\ j.relations = Tail(job.relations)
      /\ j.ids = job.ids /\ j.saving = "none"
  BY <1>1 DEF JobFields
<1> HIDE DEF j
<1>3. Tail(job.relations) \in Seq(Pair)
  BY <1>1, TailShorter
<1>4. nextId + Len(j.names) <= MaxId + 1
  <2>1. Len(<<>>) = 0
    OBVIOUS
  <2> QED BY <1>2, <2>1
<1>5. Ready(j)
  BY <1>1, <1>2, <1>3, <1>4 DEF Ready, JobOK
<1> QED BY <1>5 DEF j

\* The id that _save's operation hands on is the id of an entity of the graph.
LEMMA SucceededReady ==
    ASSUME InSave(job), nextId \in 1 .. MaxId + 1, MaxId \in Nat
    PROVE  Ready(Succeeded)
<1>1. CASE job.names # <<>>
  <2> DEFINE name == Head(job.names)
             id == nodes[CHOOSE i \in Existing(Key[name]) : TRUE].id
             ids == [n \in DOMAIN job.ids \cup {name} |-> IF n = name THEN id ELSE job.ids[n]]
  <2>1. /\ name \in Names /\ Existing(Key[name]) # {} /\ DOMAIN job.ids \subseteq Names
        /\ \A n \in DOMAIN job.ids : job.ids[n] \in Ids(nodes)
    BY <1>1, TailShorter DEF InSave, JobOK
  <2>2. id \in Ids(nodes)
    BY <2>1 DEF Existing, Ids
  <2>3. Succeeded = [job EXCEPT !.saving = "none", !.names = Tail(@), !.ids = ids]
    BY <1>1 DEF Succeeded
  <2> HIDE DEF name, id
  <2>4. DOMAIN ids \subseteq Names /\ \A n \in DOMAIN ids : ids[n] \in Ids(nodes)
    BY <2>1, <2>2
  <2> HIDE DEF ids
  <2>5. nextId \in Nat
    OBVIOUS
  <2> QED BY <1>1, <2>3, <2>4, <2>5, NextName
<1>2. CASE job.names = <<>> /\ job.relations # <<>>
  BY <1>2, NextRelationship DEF Succeeded
<1>3. CASE job.names = <<>> /\ job.relations = <<>>
  BY <1>3, NoJobReady DEF Succeeded
<1> QED BY <1>1, <1>2, <1>3

-----------------------------------------------------------------------------
(* The steps of the graph. *)

\* An entity of a name and type that the graph does not have yet.
LEMMA NodeAdded ==
    ASSUME NEW ns \in Seq(Node), OneByKey(ns), NEW x \in Node,
           \A i \in DOMAIN ns : ns[i].key # x.key
    PROVE  /\ Append(ns, x) \in Seq(Node) /\ OneByKey(Append(ns, x))
           /\ Ids(ns) \subseteq Ids(Append(ns, x))
           /\ \E i \in DOMAIN Append(ns, x) : Append(ns, x)[i].key = x.key
<1>1. /\ DOMAIN ns = 1 .. Len(ns) /\ Len(ns) \in Nat /\ DOMAIN Append(ns, x) = 1 .. Len(ns) + 1
      /\ \A i \in 1 .. Len(ns) : Append(ns, x)[i] = ns[i]
      /\ Append(ns, x)[Len(ns) + 1] = x /\ Append(ns, x) \in Seq(Node)
      /\ Len(ns) + 1 \in 1 .. Len(ns) + 1
  OBVIOUS
<1>2. OneByKey(Append(ns, x))
  BY <1>1 DEF OneByKey
<1>3. Ids(ns) \subseteq Ids(Append(ns, x))
  <2> SUFFICES ASSUME NEW i \in DOMAIN ns
               PROVE  \E k \in DOMAIN Append(ns, x) : ns[i].id = Append(ns, x)[k].id
    BY DEF Ids
  <2>1. i \in DOMAIN Append(ns, x) /\ Append(ns, x)[i] = ns[i]
    BY <1>1
  <2> QED BY <2>1
<1> QED BY <1>1, <1>2, <1>3

LEMMA MoreNodes ==
    ASSUME NEW ls, NEW ns, NEW ms, Closed(ls, ns), Ids(ns) \subseteq Ids(ms) \cup unread
    PROVE  Closed(ls, ms)
BY DEF Closed

LEMMA AddEntityKeeps ==
    ASSUME GraphInv, AddEntity
    PROVE  GraphInv'
<1>1. /\ FilesInv /\ job.saving = "none" /\ job.names # <<>> /\ MaxId \in Nat
      /\ UNCHANGED <<links, nodeFile, linkFile, unread>>
      /\ job' = [job EXCEPT !.saving = "entities"]
  BY GraphAssumption DEF GraphInv, AddEntity, Saving
<1>2. Ready(job)
  BY <1>1 DEF GraphInv, InSave
<1> DEFINE name == Head(job.names)
<1>3. /\ DOMAIN job = JobFields /\ job.names \in Seq(Names) /\ job.relations \in Seq(Pair)
      /\ DOMAIN job.ids \subseteq Names /\ \A n \in DOMAIN job.ids : job.ids[n] \in Ids(nodes)
      /\ nextId + Len(job.names) <= MaxId + 1
  BY <1>2 DEF Ready, JobOK
<1>4. name \in Names /\ Len(job.names) \in Nat /\ Len(job.names) > 0
  BY <1>1, <1>3
<1>5. /\ DOMAIN job' = JobFields /\ job'.names = job.names /\ job'.relations = job.relations
      /\ job'.ids = job.ids /\ job'.saving = "entities"
  BY <1>1, <1>3 DEF JobFields
<1>6. /\ nodes' \in Seq(Node) /\ OneByKey(nodes') /\ Ids(nodes) \subseteq Ids(nodes')
      /\ nextId' \in 1 .. MaxId + 1 /\ nextId' + Len(job.names) <= MaxId + 2
      /\ \E i \in DOMAIN nodes' : nodes'[i].key = Key[name]
  <2>1. CASE Existing(Key[name]) # {}
    <3>1. nodes' = nodes /\ nextId' = nextId
      BY <2>1 DEF AddEntity
    <3>2. \E i \in DOMAIN nodes : nodes[i].key = Key[name]
      BY <2>1 DEF Existing
    <3> QED BY <1>1, <1>3, <1>4, <3>1, <3>2 DEF FilesInv
  <2>2. CASE Existing(Key[name]) = {}
    <3> DEFINE x == [id |-> nextId, key |-> Key[name]]
    <3>1. nodes' = Append(nodes, x) /\ nextId' = nextId + 1
      BY <2>2 DEF AddEntity
    <3>2. nextId \in 1 .. MaxId
      BY <1>1, <1>3, <1>4 DEF FilesInv
    <3>3. x \in Node /\ x.key = Key[name]
      BY <1>4, <3>2 DEF Node
    <3> HIDE DEF x, name
    <3>4. \A i \in DOMAIN nodes : nodes[i].key # x.key
      BY <2>2, <3>3 DEF Existing
    <3>5. nodes \in Seq(Node) /\ OneByKey(nodes)
      BY <1>1 DEF FilesInv
    <3>6. /\ nodes' \in Seq(Node) /\ OneByKey(nodes') /\ Ids(nodes) \subseteq Ids(nodes')
          /\ \E i \in DOMAIN nodes' : nodes'[i].key = Key[name]
      BY <3>1, <3>3, <3>4, <3>5, NodeAdded
    <3>7. nextId' \in 1 .. MaxId + 1 /\ nextId' + Len(job.names) <= MaxId + 2
      BY <1>1, <1>3, <1>4, <3>1, <3>2
    <3> QED BY <3>6, <3>7
  <2> QED BY <2>1, <2>2
<1>7. Closed(links', nodes') /\ Ids(nodeFile') \subseteq Ids(nodes') \cup unread'
  <2>1. Closed(links, nodes) /\ Ids(nodeFile) \subseteq Ids(nodes) \cup unread
    BY <1>1 DEF FilesInv
  <2> QED BY <1>1, <1>6, <2>1, MoreNodes
<1>8. FilesInv'
  <2>1. Closed(links, nodes)' /\ Closed(linkFile, nodeFile)'
    BY <1>1, <1>7 DEF FilesInv, Closed
  <2> QED BY <1>1, <1>6, <1>7, <2>1 DEF FilesInv
<1>9. JobOK(job)'
  BY <1>3, <1>5, <1>6 DEF JobOK
<1>10. (Existing(Key[Head(job.names)]) # {})'
  BY <1>5, <1>6 DEF Existing
<1>11. InSave(job)'
  BY <1>5, <1>6, <1>9, <1>10 DEF InSave
<1> QED BY <1>8, <1>11 DEF GraphInv

\* The ends of a relationship are ids this extraction was given.
LEMMA AddRelationshipKeeps ==
    ASSUME GraphInv, AddRelationship
    PROVE  GraphInv'
<1>1. /\ FilesInv /\ job.saving = "none" /\ job.names = <<>> /\ job.relations # <<>>
      /\ MaxId \in Nat /\ UNCHANGED <<nodes, nodeFile, linkFile, nextId, unread>>
  BY GraphAssumption DEF GraphInv, AddRelationship, Saving
<1>2. Ready(job)
  BY <1>1 DEF GraphInv, InSave
<1>3. /\ DOMAIN job = JobFields /\ job.names \in Seq(Names) /\ job.relations \in Seq(Pair)
      /\ DOMAIN job.ids \subseteq Names /\ \A n \in DOMAIN job.ids : job.ids[n] \in Ids(nodes)
      /\ nextId + Len(job.names) <= MaxId + 1 /\ nextId \in 1 .. MaxId + 1
  BY <1>1, <1>2 DEF Ready, JobOK, FilesInv
<1> DEFINE r == Head(job.relations)
<1>4. CASE {r.source, r.target} \subseteq DOMAIN job.ids
  <2> DEFINE x == [source |-> job.ids[r.source], target |-> job.ids[r.target]]
  <2>1. links' = Append(links, x) /\ job' = [job EXCEPT !.saving = "entities"]
    BY <1>4 DEF AddRelationship
  <2>2. x.source \in Ids(nodes) /\ x.target \in Ids(nodes)
    BY <1>3, <1>4
  <2>3. Ids(nodes) \subseteq 1 .. MaxId
    <3>1. \A i \in DOMAIN nodes : nodes[i] \in Node
      BY <1>1 DEF FilesInv
    <3> QED BY <3>1 DEF Ids, Node
  <2>4. x \in Link
    BY <2>2, <2>3 DEF Link
  <2> HIDE DEF x, r
  <2>5. links \in Seq(Link) /\ Closed(links, nodes)
    BY <1>1 DEF FilesInv
  <2>6. /\ DOMAIN links = 1 .. Len(links) /\ links' \in Seq(Link) /\ Len(links) \in Nat
        /\ DOMAIN links' = 1 .. Len(links) + 1 /\ links'[Len(links) + 1] = x
        /\ \A i \in 1 .. Len(links) : links'[i] = links[i]
    BY <2>1, <2>4, <2>5
  <2>7. Closed(links', nodes)
    BY <2>2, <2>5, <2>6 DEF Closed
  <2>8. FilesInv'
    BY <1>1, <2>6, <2>7 DEF FilesInv, Closed
  <2>9. /\ DOMAIN job' = JobFields /\ job'.names = job.names /\ job'.relations = job.relations
        /\ job'.ids = job.ids /\ job'.saving = "entities"
    BY <1>3, <2>1 DEF JobFields
  <2>10. JobOK(job)'
    BY <1>1, <1>3, <2>9 DEF JobOK
  <2>11. nextId' + Len(job'.names) <= MaxId + 2
    <3>1. Len(<<>>) = 0
      OBVIOUS
    <3> QED BY <1>1, <1>3, <2>9, <3>1
  <2>12. InSave(job)'
    BY <1>1, <2>9, <2>10, <2>11 DEF InSave
  <2> QED BY <2>8, <2>12 DEF GraphInv
<1>5. CASE ~({r.source, r.target} \subseteq DOMAIN job.ids)
  <2>1. links' = links /\ job' = [job EXCEPT !.relations = Tail(@)]
    BY <1>5 DEF AddRelationship
  <2>2. FilesInv'
    BY <1>1, <2>1 DEF FilesInv, Closed
  <2>3. /\ DOMAIN job' = JobFields /\ job'.names = job.names /\ job'.relations = Tail(job.relations)
        /\ job'.ids = job.ids /\ job'.saving = "none"
    BY <1>1, <1>3, <2>1 DEF JobFields
  <2>4. Tail(job.relations) \in Seq(Pair)
    BY <1>1, <1>3, TailShorter
  <2>5. JobOK(job)'
    BY <1>1, <1>3, <2>3, <2>4 DEF JobOK
  <2>6. Ready(job)'
    BY <1>1, <1>3, <2>3, <2>5 DEF Ready
  <2> QED BY <2>2, <2>6 DEF GraphInv
<1> QED BY <1>4, <1>5

LEMMA SaveEntitiesKeeps ==
    ASSUME GraphInv, SaveEntities
    PROVE  GraphInv'
<1>1. /\ FilesInv /\ job.saving = "entities" /\ nodeFile' = nodes
      /\ job' = [job EXCEPT !.saving = "relationships"]
      /\ UNCHANGED <<nodes, links, linkFile, nextId, unread>>
  BY DEF GraphInv, SaveEntities, Saving
<1>2. InSave(job)
  BY <1>1 DEF GraphInv, Ready
<1>3. DOMAIN job = JobFields
  BY <1>2 DEF InSave, JobOK
<1>4. /\ DOMAIN job' = JobFields /\ job'.names = job.names /\ job'.relations = job.relations
      /\ job'.ids = job.ids /\ job'.saving = "relationships"
  BY <1>1, <1>3 DEF JobFields
<1>5. Closed(linkFile, nodes)
  BY <1>1, MoreNodes DEF FilesInv
<1>6. FilesInv'
  BY <1>1, <1>5 DEF FilesInv, Closed
<1>7. InSave(job)'
  BY <1>1, <1>2, <1>4 DEF InSave, JobOK, Existing
<1> QED BY <1>6, <1>7 DEF GraphInv

LEMMA SaveRelationshipsKeeps ==
    ASSUME GraphInv, SaveRelationships
    PROVE  GraphInv'
<1>1. /\ FilesInv /\ job.saving = "relationships" /\ linkFile' = links
      /\ job' = Finished(Succeeded) /\ UNCHANGED <<nodes, links, nodeFile, nextId, unread>>
      /\ MaxId \in Nat
  BY GraphAssumption DEF GraphInv, SaveRelationships, Saving
<1>2. InSave(job) /\ nodeFile = nodes
  BY <1>1 DEF GraphInv, Ready, InSave
<1>3. Ready(Finished(Succeeded))
  BY <1>1, <1>2, SucceededReady, FinishedReady DEF FilesInv
<1>4. FilesInv'
  BY <1>1, <1>2 DEF FilesInv, Closed
<1>5. Ready(job)'
  BY <1>1, <1>3 DEF Ready, JobOK
<1> QED BY <1>4, <1>5 DEF GraphInv

LEMMA SaveFailsKeeps ==
    ASSUME GraphInv, SaveFails
    PROVE  GraphInv'
<1>1. /\ FilesInv /\ job.saving # "none" /\ MaxId \in Nat /\ nextId \in 1 .. MaxId + 1
      /\ UNCHANGED <<nodes, links, nodeFile, linkFile, nextId, unread>>
  BY GraphAssumption DEF GraphInv, SaveFails, Saving, FilesInv
<1>2. InSave(job)
  BY <1>1 DEF GraphInv, Ready
<1> DEFINE left == IF ~job.lenient \/ (job.names = <<>> /\ job.relations = <<>>) THEN NoJob
                   ELSE IF job.names # <<>> THEN [job EXCEPT !.saving = "none", !.names = Tail(@)]
                   ELSE [job EXCEPT !.saving = "none", !.relations = Tail(@)]
<1>3. Ready(left)
  <2>1. Ready(NoJob)
    BY <1>1, NoJobReady
  <2>2. job.names # <<>> => Ready([job EXCEPT !.saving = "none", !.names = Tail(@)])
    BY <1>1, <1>2, NextNameWithoutId
  <2>3. job.names = <<>> /\ job.relations # <<>> =>
          Ready([job EXCEPT !.saving = "none", !.relations = Tail(@)])
    BY <1>1, <1>2, NextRelationship
  <2> QED BY <2>1, <2>2, <2>3, Zenon
<1>4. job' = Finished(left)
  BY DEF SaveFails
<1> HIDE DEF left
<1>5. Ready(Finished(left))
  BY <1>1, <1>3, FinishedReady
<1>6. FilesInv'
  BY <1>1 DEF FilesInv, Closed
<1>7. Ready(job)'
  BY <1>1, <1>4, <1>5 DEF Ready, JobOK
<1> QED BY <1>6, <1>7 DEF GraphInv

LEMMA ExtractKeeps ==
    ASSUME GraphInv, Extract
    PROVE  GraphInv'
<1>1. /\ FilesInv /\ UNCHANGED <<nodes, links, nodeFile, linkFile, nextId, unread>>
  BY DEF GraphInv, Extract
<1>2. PICK e \in Extractions, lenient \in BOOLEAN :
        /\ nextId + Len(e.names) <= MaxId + 1
        /\ job' = [names |-> e.names, relations |-> e.relations, ids |-> <<>>,
                   saving |-> "none", lenient |-> lenient]
  BY DEF Extract
<1>3. e.names \in Seq(Names) /\ e.relations \in Seq(Pair)
  BY GraphAssumption DEF Pair
<1>4. /\ DOMAIN job' = JobFields /\ job'.names = e.names /\ job'.relations = e.relations
      /\ job'.ids = <<>> /\ job'.saving = "none"
  BY <1>2 DEF JobFields
<1>5. DOMAIN <<>> = {}
  OBVIOUS
<1>6. JobOK(job)'
  BY <1>3, <1>4, <1>5 DEF JobOK
<1>7. Ready(job)'
  BY <1>1, <1>2, <1>4, <1>6 DEF Ready
<1>8. FilesInv'
  BY <1>1 DEF FilesInv, Closed
<1> QED BY <1>7, <1>8 DEF GraphInv

LEMMA AccessKeeps ==
    ASSUME GraphInv, Access
    PROVE  GraphInv'
<1>1. /\ FilesInv /\ UNCHANGED <<nodes, links, nodeFile, linkFile, nextId, unread>>
      /\ job = NoJob /\ job' = [job EXCEPT !.saving = "entities"] /\ MaxId \in Nat
  BY GraphAssumption DEF GraphInv, Access, Resting
<1>2. Ready(NoJob)
  BY <1>1, NoJobReady DEF FilesInv
<1>3. /\ DOMAIN job' = JobFields /\ job'.names = <<>> /\ job'.relations = <<>>
      /\ job'.ids = <<>> /\ job'.saving = "entities"
  BY <1>1 DEF NoJob, JobFields
<1>4. DOMAIN <<>> = {} /\ Len(<<>>) = 0
  OBVIOUS
<1>5. JobOK(job)'
  BY <1>3, <1>4 DEF JobOK
<1>6. nextId' + Len(job'.names) <= MaxId + 2
  BY <1>1, <1>3, <1>4 DEF FilesInv
<1>7. InSave(job)'
  BY <1>3, <1>5, <1>6 DEF InSave
<1>8. FilesInv'
  BY <1>1 DEF FilesInv, Closed
<1> QED BY <1>7, <1>8 DEF GraphInv

LEMMA RestartKeeps ==
    ASSUME GraphInv, GraphRestart
    PROVE  GraphInv'
<1>1. /\ FilesInv /\ nodes' \in {nodeFile, <<>>} /\ links' \in {linkFile, <<>>} /\ job' = NoJob
      /\ unread' = (unread \cup Ids(nodeFile)) \ Ids(nodes')
      /\ UNCHANGED <<nodeFile, linkFile, nextId>>
  BY DEF GraphInv, GraphRestart
<1>2. FilesInv'
  <2>1. /\ nodes' \in Seq(Node) /\ OneByKey(nodes') /\ Ids(nodes') \subseteq Ids(nodeFile)
        /\ links' \in Seq(Link)
    <3>1. /\ nodeFile \in Seq(Node) /\ linkFile \in Seq(Link) /\ OneByKey(nodeFile)
          /\ OneByKey(<<>>) /\ <<>> \in Seq(Node) /\ <<>> \in Seq(Link)
      BY <1>1 DEF FilesInv, OneByKey
    <3>2. nodes' = nodeFile \/ nodes' = <<>>
      BY <1>1
    <3>3. links' \in Seq(Link)
      BY <1>1, <3>1
    <3> QED BY <3>1, <3>2, <3>3, EmptyIds
  <2>2. Ids(nodeFile) \subseteq 1 .. MaxId
    <3>1. \A i \in DOMAIN nodeFile : nodeFile[i] \in Node
      BY <1>1 DEF FilesInv
    <3> QED BY <3>1 DEF Ids, Node
  <2>3. /\ Ids(nodeFile) \cup unread \subseteq Ids(nodes') \cup unread'
        /\ unread' \subseteq 1 .. MaxId
    BY <1>1, <2>2 DEF FilesInv
  <2>4. \A i \in DOMAIN linkFile : /\ linkFile[i].source \in Ids(nodes') \cup unread'
                                   /\ linkFile[i].target \in Ids(nodes') \cup unread'
    BY <1>1, <2>3 DEF FilesInv, Closed
  <2>5. Closed(links, nodes)'
    <3>1. DOMAIN <<>> = {}
      OBVIOUS
    <3> QED BY <1>1, <2>4, <3>1 DEF Closed
  <2>6. Closed(linkFile, nodeFile)'
    BY <1>1, <2>1, <2>4 DEF Closed
  <2> QED BY <1>1, <2>1, <2>3, <2>5, <2>6 DEF FilesInv
<1>3. Ready(NoJob)'
  <2>1. MaxId \in Nat /\ nextId' \in 1 .. MaxId + 1
    BY <1>2, GraphAssumption DEF FilesInv
  <2>2. DOMAIN <<>> = {} /\ Len(<<>>) = 0
    OBVIOUS
  <2>3. /\ DOMAIN NoJob = JobFields /\ NoJob.names = <<>> /\ NoJob.relations = <<>>
        /\ NoJob.ids = <<>> /\ NoJob.saving = "none"
    BY DEF NoJob, JobFields
  <2>4. JobOK(NoJob)'
    <3>1. NoJob.names \in Seq(Names) /\ NoJob.relations \in Seq(Pair)
      BY <2>3
    <3>2. DOMAIN NoJob.ids = {}
      BY <2>2, <2>3
    <3> QED BY <2>3, <3>1, <3>2 DEF JobOK
  <2>5. nextId' + Len(NoJob.names) <= MaxId + 1
    <3>1. Len(NoJob.names) = 0
      BY <2>2, <2>3
    <3>2. ASSUME NEW n \in 1 .. MaxId + 1, NEW k, k = 0 PROVE n + k <= MaxId + 1
      BY <2>1, <3>2
    <3> QED BY <2>1, <3>1, <3>2
  <2> QED BY <2>3, <2>4, <2>5 DEF Ready
<1>4. Ready(job)'
  BY <1>1, <1>3 DEF Ready, JobOK
<1> QED BY <1>2, <1>4 DEF GraphInv

LEMMA GraphStep ==
    ASSUME GraphInv, [GraphNext]_graphVars
    PROVE  GraphInv'
<1>1. CASE UNCHANGED graphVars
  BY <1>1 DEF graphVars, GraphInv, FilesInv, Closed, Ready, InSave, JobOK, Existing
<1>2. CASE GraphNext
  BY <1>2, ExtractKeeps, AccessKeeps, AddEntityKeeps, AddRelationshipKeeps, SaveEntitiesKeeps,
     SaveRelationshipsKeeps, SaveFailsKeeps, RestartKeeps DEF GraphNext
<1> QED BY <1>1, <1>2

LEMMA GraphInvImplies == GraphInv => GraphTypeOK /\ GraphClosed
<1> SUFFICES ASSUME GraphInv PROVE GraphTypeOK /\ GraphClosed
  OBVIOUS
<1>1. GraphClosed
  BY DEF GraphInv, FilesInv, Closed, OneByKey, GraphClosed
<1>2. /\ JobOK(job) /\ job.saving \in {"none", "entities", "relationships"}
  BY DEF GraphInv, Ready, InSave
<1>3. Ids(nodes) \subseteq 1 .. MaxId
  <2>1. \A i \in DOMAIN nodes : nodes[i] \in Node
    BY DEF GraphInv, FilesInv
  <2> QED BY <2>1 DEF Ids, Node
<1>4. Range(job.ids) \subseteq 1 .. MaxId /\ DOMAIN job.ids \subseteq Names
  BY <1>2, <1>3 DEF JobOK, Range
<1>5. GraphTypeOK
  BY <1>2, <1>4 DEF GraphInv, FilesInv, GraphTypeOK, Node, Link
<1> QED BY <1>1, <1>5

\* Through extractions, accesses, failing writes and restarts, the graph and its two
\* files keep their invariant.
THEOREM GraphInvariance == GraphSpec => []GraphInv
<1> QED BY GraphInitially, GraphStep, PTL DEF GraphSpec

\* The ids and the positions the graph's extraction keeps between two saves are those
\* of its entities.
THEOREM GraphTypeCorrect == GraphSpec => []GraphTypeOK
BY GraphInvariance, GraphInvImplies, PTL

\* KnowledgeGraph writes entities before relationships: whenever the program ends,
\* its files are a graph whose relationships have both ends, but for entities of a file
\* that could not be read at a start, without two entities of one name and type.
THEOREM GraphFilesClosed == GraphSpec => []GraphClosed
BY GraphInvariance, GraphInvImplies, PTL

-----------------------------------------------------------------------------
(* The context and the paths taken from the graph *)

\* What GraphInv says of the entities and the relationships.
GraphKnown ==
    /\ links \in Seq([source : Vertices, target : Vertices])
    /\ Vertices \subseteq 1 .. MaxId
    /\ MaxId \in Nat

TouchedBy(id) == {i \in DOMAIN links : Touches(i, id)}

LEMMA OtherEndFacts ==
    ASSUME GraphKnown, NEW x
    PROVE  /\ \A i \in TouchedBy(x) : OtherEnd(i, x) \in Vertices /\ Linked(x, OtherEnd(i, x))
           /\ \A y : Linked(x, y) => \E i \in TouchedBy(x) : OtherEnd(i, x) = y
<1>1. \A i \in DOMAIN links : links[i].source \in Vertices /\ links[i].target \in Vertices
  <2> DEFINE L == [source : Vertices, target : Vertices]
  <2>1. links \in Seq(L) /\ \A l \in L : l.source \in Vertices /\ l.target \in Vertices
    BY DEF GraphKnown
  <2> HIDE DEF L
  <2>2. \A i \in DOMAIN links : links[i] \in L
    BY <2>1
  <2> QED BY <2>1, <2>2
<1>2. ASSUME NEW i \in TouchedBy(x)
      PROVE  OtherEnd(i, x) \in Vertices /\ Linked(x, OtherEnd(i, x))
  <2>1. i \in DOMAIN links /\ (x = links[i].source \/ x = links[i].target)
    BY DEF TouchedBy, Touches
  <2>2. {links[i].source, links[i].target} = {x, OtherEnd(i, x)}
    BY <2>1 DEF OtherEnd
  <2> QED BY <1>1, <2>1, <2>2 DEF Linked, OtherEnd
<1>3. ASSUME NEW y, Linked(x, y) PROVE \E i \in TouchedBy(x) : OtherEnd(i, x) = y
  <2>1. PICK i \in DOMAIN links : {links[i].source, links[i].target} = {x, y}
    BY <1>3 DEF Linked
  <2>2. Touches(i, x) /\ OtherEnd(i, x) = y
    BY <2>1 DEF Touches, OtherEnd
  <2> QED BY <2>1, <2>2 DEF TouchedBy
<1> QED BY <1>2, <1>3

LEMMA TouchingFacts ==
    ASSUME GraphKnown, NEW x
    PROVE  /\ Touching(x) \in Seq(TouchedBy(x)) /\ Touching(x) \in Seq(DOMAIN links)
           /\ ToSet(Touching(x)) = TouchedBy(x) /\ IsInjective(Touching(x))
<1> DEFINE D == DOMAIN links
           all == [i \in D |-> i]
           R == TouchedBy(x)
           t == Touching(x)
<1>1. D = 1 .. Len(links) /\ Len(links) \in Nat /\ R \subseteq D
  BY DEF GraphKnown, TouchedBy
<1>2. t = Only(all, R)
  BY DEF Touching, TouchedBy
<1> HIDE DEF D, R, t
<1>3. all \in Seq(D) /\ ToSet(all) = D /\ IsInjective(all)
  BY <1>1 DEF ToSet, IsInjective
<1> HIDE DEF all
<1>4. t \in Seq(D) /\ ToSet(t) = R /\ IsInjective(t)
  <2>1. t \in Seq(D)
    BY <1>2, <1>3, OnlyTyped
  <2>2. ToSet(t) = ToSet(all) \cap R
    BY <1>2, <1>3, OnlyElements
  <2>3. IsInjective(t)
    BY <1>2, <1>3, OnlyDistinct
  <2> QED BY <1>1, <1>3, <2>1, <2>2, <2>3
<1>5. t \in Seq(R)
  <2>1. Len(t) \in Nat /\ t = [i \in 1 .. Len(t) |-> t[i]] /\ DOMAIN t = 1 .. Len(t)
    BY <1>4
  <2>2. \A i \in 1 .. Len(t) : t[i] \in R
    BY <1>4, <2>1 DEF ToSet
  <2> QED BY <2>1, <2>2
<1> QED BY <1>4, <1>5 DEF D, R, t

-----------------------------------------------------------------------------
(* Distances *)

AroundStep == [near \in SUBSET Vertices |-> Around(near)]

LEMMA WithinIs ==
    ASSUME NEW a \in Vertices, NEW n \in Nat
    PROVE  Within(a, n) = Times(SUBSET Vertices, {a}, AroundStep, n)
<1> DEFINE A == SUBSET Vertices
           e == {a}
           way == AroundStep
           F(f) == [i \in 0 .. n |-> IF i = 0 THEN e ELSE Around(f[i - 1])]
           P(f) == f = F(f)
<1>1. Within(a, n) = (CHOOSE h : P(h))[n]
  BY DEF Within
<1>2. e \in A /\ IsMap(way, A) /\ \A x \in A : way[x] = Around(x)
  <2>1. \A x \in A : Around(x) \in A
    BY DEF Around
  <2> QED BY <2>1 DEF AroundStep, IsMap
<1> HIDE DEF A, e, way
<1>3. PICK f : Goes(f, A, e, way, n)
  BY <1>2, TimesExists
<1>4. P(f)
  <2>1. f[0] = e /\ f = [i \in 0 .. n |-> f[i]]
    BY <1>3 DEF Goes
  <2>2. ASSUME NEW i \in 0 .. n, i # 0 PROVE f[i] = Around(f[i - 1])
    <3>1. i \in 1 .. n /\ i - 1 \in 0 .. n
      BY <2>2
    <3> QED BY <1>2, <1>3, <3>1 DEF Goes
  <2> QED BY <2>1, <2>2
<1> DEFINE g == CHOOSE h : P(h)
<1>5. P(g)
  <2> HIDE DEF P
  <2> QED BY <1>4, Zenon
<1> HIDE DEF g
<1>6. Tracks(g, A, e, way, n)
  <2>1. g = [i \in 0 .. n |-> IF i = 0 THEN e ELSE Around(g[i - 1])]
    BY <1>5
  <2> HIDE DEF P, F
  <2>2. g[0] = e /\ \A i \in 1 .. n : g[i] = Around(g[i - 1])
    BY <2>1
  <2> QED BY <1>2, <2>2 DEF Tracks
<1>7. g[n] = Times(A, e, way, n)
  BY <1>2, <1>6, TimesIs
<1> QED BY <1>1, <1>7 DEF g, A, e, way

LEMMA WithinFacts ==
    ASSUME NEW a \in Vertices
    PROVE  /\ Within(a, 0) = {a}
           /\ \A n \in Nat : /\ Within(a, n) \subseteq Vertices
                             /\ Within(a, n + 1) = Around(Within(a, n))
<1> DEFINE A == SUBSET Vertices
           e == {a}
           way == AroundStep
           T(n) == Times(A, e, way, n)
<1>1. e \in A /\ IsMap(way, A) /\ \A x \in A : way[x] = Around(x)
  <2>1. \A x \in A : Around(x) \in A
    BY DEF Around
  <2> QED BY <2>1 DEF AroundStep, IsMap
<1>2. \A n \in Nat : Within(a, n) = T(n)
  BY WithinIs
<1> HIDE DEF A, e, way
<1>3. T(0) = e /\ \A n \in Nat : T(n) \in A /\ T(n + 1) = way[T(n)]
  BY <1>1, TimesFacts
<1> HIDE DEF T
<1>4. 0 \in Nat /\ \A n \in Nat : n + 1 \in Nat
  OBVIOUS
<1>5. ASSUME NEW n \in Nat
      PROVE  Within(a, n) \subseteq Vertices /\ Within(a, n + 1) = Around(Within(a, n))
  <2>1. T(n) \in A /\ T(n + 1) = Around(T(n))
    BY <1>1, <1>3
  <2> QED BY <1>2, <1>4, <2>1 DEF A
<1> QED BY <1>2, <1>3, <1>4, <1>5 DEF e

LEMMA WithinGrows ==
    ASSUME NEW a \in Vertices, NEW n \in Nat, NEW m \in Nat, n <= m
    PROVE  Within(a, n) \subseteq Within(a, m)
<1> DEFINE S == {k \in Nat : Within(a, n) \subseteq Within(a, n + k)}
<1>1. 0 \in S
  OBVIOUS
<1>2. ASSUME NEW k \in Nat, k \in S PROVE k + 1 \in S
  <2>1. n + k \in Nat /\ n + (k + 1) = (n + k) + 1
    OBVIOUS
  <2>2. Within(a, (n + k) + 1) = Around(Within(a, n + k))
    BY <2>1, WithinFacts
  <2> QED BY <1>2, <2>1, <2>2 DEF Around
<1>3. Nat \subseteq S
  <2> HIDE DEF S
  <2> QED BY <1>1, <1>2, Induct
<1>4. m - n \in Nat /\ n + (m - n) = m
  OBVIOUS
<1>5. m - n \in S
  BY <1>3, <1>4
<1> QED BY <1>4, <1>5

-----------------------------------------------------------------------------
(* The search for a path *)

Paths == Seq(Vertices) \ {<<>>}

Searches == [queue : Seq(Paths), seen : SUBSET Vertices, found : Seq(Vertices)]

\* A path in the queue: it leads from a along relationships, and no shorter one does.
Shortest(p, a) ==
    /\ p \in Paths /\ p[1] = a
    /\ \A i \in 1 .. Len(p) - 1 : Linked(p[i], p[i + 1])
    /\ Last(p) \in Within(a, Len(p) - 1)
    /\ \A n \in 0 .. Len(p) - 2 : Last(p) \notin Within(a, n)

\* A node that was taken from the queue: it is not the end, its neighbours are seen.
Settled(s, b, y) == y # b /\ \A z : Linked(y, z) => z \in s.seen

Queued(s, y) == \E k \in 1 .. Len(s.queue) : Last(s.queue[k]) = y

ShortestQueued(s, a) ==
    \A k \in 1 .. Len(s.queue) : Shortest(s.queue[k], a) /\ Last(s.queue[k]) \in s.seen

Apart(s) ==
    \A j, k \in 1 .. Len(s.queue) : Last(s.queue[j]) = Last(s.queue[k]) => j = k

\* The queue has paths of length L before those that are longer by one.
Rising(s, L) ==
    /\ \A j, k \in 1 .. Len(s.queue) : j < k => Len(s.queue[j]) <= Len(s.queue[k])
    /\ \A k \in 1 .. Len(s.queue) : L <= Len(s.queue[k]) /\ Len(s.queue[k]) <= L + 1

Accounted(s, b, pending) ==
    \A y \in s.seen : Queued(s, y) \/ y \in pending \/ Settled(s, b, y)

Counted(s, c) == Cardinality(s.seen) = Len(s.queue) + c

\* The search is among the paths of length L, and has taken c of them.
Wave(s, a, b, L, pending, c) ==
    /\ s \in Searches /\ s.found = <<>>
    /\ ShortestQueued(s, a) /\ Apart(s) /\ Rising(s, L)
    /\ Accounted(s, b, pending) /\ Counted(s, c)
    /\ a \in s.seen /\ Within(a, L - 1) \subseteq s.seen

LEMMA SearchFields ==
    ASSUME NEW s \in Searches
    PROVE  /\ s.queue \in Seq(Paths) /\ s.seen \subseteq Vertices /\ s.found \in Seq(Vertices)
           /\ Len(s.queue) \in Nat /\ \A k \in 1 .. Len(s.queue) : s.queue[k] \in Paths
BY DEF Searches

LEMMA PathFields ==
    ASSUME NEW p \in Paths
    PROVE  Len(p) \in Nat /\ Len(p) >= 1 /\ Last(p) \in Vertices /\ p \in Seq(Vertices)
<1> DEFINE n == Len(p)
<1>1. p \in Seq(Vertices) /\ p # <<>>
  BY DEF Paths
<1>2. n \in Nat /\ n # 0
  BY <1>1, EmptySeq
<1> HIDE DEF n
<1>3. n \in 1 .. n /\ n >= 1
  BY <1>2
<1> QED BY <1>1, <1>2, <1>3 DEF n, Last

LEMMA PathLonger ==
    ASSUME NEW p \in Paths, NEW y \in Vertices, NEW q, q = Append(p, y)
    PROVE  /\ q \in Paths /\ Len(q) = Len(p) + 1 /\ Last(q) = y
           /\ \A i \in 1 .. Len(p) : q[i] = p[i]
<1>1. p \in Seq(Vertices) /\ Len(p) \in Nat
  BY PathFields
<1>2. q \in Seq(Vertices) /\ Len(q) = Len(p) + 1 /\ q[Len(p) + 1] = y /\ q # <<>>
      /\ \A i \in 1 .. Len(p) : q[i] = p[i]
  BY <1>1
<1> QED BY <1>2 DEF Paths, Last

LEMMA ReachedFacts ==
    ASSUME NEW s \in Searches, NEW p \in Paths, NEW y \in Vertices, NEW r, r = Reached(s, p, y)
    PROVE  /\ r \in Searches
           /\ y \in s.seen => r = s
           /\ y \notin s.seen => /\ r.queue = Append(s.queue, Append(p, y))
                                 /\ r.seen = s.seen \cup {y} /\ r.found = s.found
<1>1. CASE y \in s.seen
  BY <1>1 DEF Reached
<1>2. CASE y \notin s.seen
  <2> DEFINE q == Append(p, y)
             qq == Append(s.queue, q)
             ss == s.seen \cup {y}
  <2>1. q \in Paths
    BY PathLonger
  <2>2. r = [[s EXCEPT !.seen = ss] EXCEPT !.queue = qq]
    BY <1>2 DEF Reached, Searches
  <2> HIDE DEF q
  <2>3. qq \in Seq(Paths) /\ ss \subseteq Vertices
    BY <2>1, SearchFields
  <2> HIDE DEF qq, ss
  <2>4. r \in Searches /\ r.queue = qq /\ r.seen = ss /\ r.found = s.found
    BY <2>2, <2>3 DEF Searches
  <2> QED BY <1>2, <2>4 DEF qq, ss, q
<1> QED BY <1>1, <1>2

\* A path that is longer by one node that no shorter one leads to.
LEMMA ShortestLonger ==
    ASSUME NEW a \in Vertices, NEW p, Shortest(p, a), NEW y \in Vertices, Linked(Last(p), y),
           y \notin Within(a, Len(p) - 1), NEW q, q = Append(p, y)
    PROVE  Shortest(q, a)
<1> DEFINE n == Len(p)
<1>0. p \in Paths
  BY DEF Shortest
<1>1. q \in Paths /\ Len(q) = n + 1 /\ Last(q) = y /\ \A i \in 1 .. n : q[i] = p[i]
  BY <1>0, PathLonger
<1>2. n \in Nat /\ n >= 1 /\ q[n + 1] = y /\ p[n] = Last(p)
  <2>1. n \in Nat /\ n >= 1
    BY <1>0, PathFields
  <2> QED BY <1>1, <2>1 DEF Last
<1>3. /\ p[1] = a /\ \A i \in 1 .. n - 1 : Linked(p[i], p[i + 1])
      /\ Last(p) \in Within(a, n - 1)
  BY DEF Shortest
<1>a. y \notin Within(a, n - 1)
  OBVIOUS
<1> HIDE DEF n
<1>4. \A i \in 1 .. (n + 1) - 1 : Linked(q[i], q[i + 1])
  <2> TAKE i \in 1 .. (n + 1) - 1
  <2>1. CASE i = n
    BY <1>1, <1>2, <2>1
  <2>2. CASE i # n
    <3>1. i \in 1 .. n - 1 /\ i \in 1 .. n /\ i + 1 \in 1 .. n
      BY <1>2, <2>2
    <3> QED BY <1>1, <1>3, <3>1
  <2> QED BY <2>1, <2>2
<1>5. y \in Within(a, (n + 1) - 1)
  <2>1. n - 1 \in Nat /\ (n - 1) + 1 = n /\ (n + 1) - 1 = n
    BY <1>2
  <2>2. Within(a, (n - 1) + 1) = Around(Within(a, n - 1))
    BY <2>1, WithinFacts
  <2>3. y \in Around(Within(a, n - 1))
    BY <1>3 DEF Around
  <2> QED BY <2>1, <2>2, <2>3
<1>6. \A m \in 0 .. (n + 1) - 2 : y \notin Within(a, m)
  <2> TAKE m \in 0 .. (n + 1) - 2
  <2>1. m \in Nat /\ n - 1 \in Nat /\ m <= n - 1
    BY <1>2
  <2> QED BY <1>a, <2>1, WithinGrows
<1>7. q[1] = a
  BY <1>1, <1>2, <1>3
<1> QED BY <1>1, <1>4, <1>5, <1>6, <1>7 DEF Shortest

\* A new neighbour of the node that was taken joins the queue.
LEMMA ReachedWave ==
    ASSUME GraphKnown, NEW a \in Vertices, NEW b, NEW L \in Nat, NEW c \in Nat,
           NEW X,
           NEW p, Shortest(p, a), Len(p) = L, NEW s, Wave(s, a, b, L, X, c),
           NEW y \in Vertices, Linked(Last(p), y), NEW r, r = Reached(s, p, y)
    PROVE  Wave(r, a, b, L, X, c) /\ y \in r.seen /\ s.seen \subseteq r.seen
<1> DEFINE q == Append(p, y)
           N == Len(s.queue)
<1>1. /\ s \in Searches /\ s.found = <<>> /\ ShortestQueued(s, a) /\ Apart(s) /\ Rising(s, L)
      /\ Accounted(s, b, X) /\ Counted(s, c) /\ a \in s.seen /\ Within(a, L - 1) \subseteq s.seen
      /\ p \in Paths
  BY DEF Wave, Shortest
<1>2. /\ r \in Searches
      /\ y \in s.seen => r = s
      /\ y \notin s.seen => r.queue = Append(s.queue, q) /\ r.seen = s.seen \cup {y} /\ r.found = s.found
  <2>1. s \in Searches /\ p \in Paths
    BY <1>1
  <2> QED BY <2>1, ReachedFacts
<1>3. CASE y \in s.seen
  BY <1>2, <1>3
<1>4. CASE y \notin s.seen
  <2>1. Shortest(q, a) /\ Len(q) = L + 1 /\ Last(q) = y
    <3>1. y \notin Within(a, L - 1)
      BY <1>1, <1>4
    <3>2. Len(q) = Len(p) + 1 /\ Last(q) = y
      BY <1>1, PathLonger
    <3> QED BY <3>1, <3>2, ShortestLonger
  <2>2. q \in Paths /\ s.queue \in Seq(Paths) /\ N \in Nat
    BY <1>1, <2>1, SearchFields DEF Shortest
  <2> HIDE DEF q
  <2>3. /\ Len(r.queue) = N + 1 /\ r.queue[N + 1] = q
        /\ \A k \in 1 .. N : r.queue[k] = s.queue[k]
    <3>1. r.queue = Append(s.queue, q)
      BY <1>2, <1>4
    <3> QED BY <2>2, <3>1
  <2>4. r.seen = s.seen \cup {y} /\ r.found = s.found
    BY <1>2, <1>4
  <2>5. \A k \in 1 .. N + 1 : k \in 1 .. N \/ k = N + 1
    BY <2>2
  <2> HIDE DEF N
  <2>6. ShortestQueued(r, a)
    BY <1>1, <2>1, <2>3, <2>4, <2>5 DEF ShortestQueued, N
  <2>7. Apart(r)
    <3>1. \A k \in 1 .. N : Last(r.queue[k]) # y
      BY <1>1, <1>4, <2>3 DEF ShortestQueued, N
    <3> SUFFICES ASSUME NEW j \in 1 .. N + 1, NEW k \in 1 .. N + 1,
                        Last(r.queue[j]) = Last(r.queue[k])
                 PROVE  j = k
      BY <2>3 DEF Apart
    <3>2. CASE j \in 1 .. N /\ k \in 1 .. N
      BY <1>1, <2>3, <3>2 DEF Apart, N
    <3>3. CASE j = N + 1 \/ k = N + 1
      BY <2>1, <2>3, <2>5, <3>1, <3>3
    <3> QED BY <2>5, <3>2, <3>3
  <2>8. Rising(r, L)
    <3>1. \A k \in 1 .. N : Len(r.queue[k]) \in Nat /\ L <= Len(r.queue[k]) /\ Len(r.queue[k]) <= L + 1
      <4> TAKE k \in 1 .. N
      <4>1. s.queue[k] \in Paths
        BY <1>1, SearchFields DEF N
      <4> QED BY <1>1, <2>3, <4>1, PathFields DEF Rising, N
    <3>2. \A j, k \in 1 .. N : j < k => Len(r.queue[j]) <= Len(r.queue[k])
      BY <1>1, <2>3 DEF Rising, N
    <3>3. \A k \in 1 .. N + 1 : L <= Len(r.queue[k]) /\ Len(r.queue[k]) <= L + 1
      BY <2>1, <2>3, <2>5, <3>1
    <3>4. ASSUME NEW j \in 1 .. N + 1, NEW k \in 1 .. N + 1, j < k
          PROVE  Len(r.queue[j]) <= Len(r.queue[k])
      <4>1. j \in 1 .. N
        BY <2>2, <3>4
      <4>2. CASE k = N + 1
        BY <2>1, <2>3, <3>1, <4>1, <4>2
      <4>3. CASE k \in 1 .. N
        BY <3>2, <3>4, <4>1, <4>3
      <4> QED BY <2>5, <4>2, <4>3
    <3> QED BY <2>3, <3>3, <3>4 DEF Rising
  <2>9. Accounted(r, b, X)
    <3> SUFFICES ASSUME NEW z \in r.seen
                 PROVE  Queued(r, z) \/ z \in X \/ Settled(r, b, z)
      BY DEF Accounted
    <3>1. CASE z = y
      <4>1. N + 1 \in 1 .. N + 1
        BY <2>2
      <4> QED BY <2>1, <2>3, <3>1, <4>1 DEF Queued
    <3>2. CASE z \in s.seen
      <4>1. Queued(s, z) => Queued(r, z)
        <5> SUFFICES ASSUME NEW k \in 1 .. N, Last(s.queue[k]) = z PROVE Queued(r, z)
          BY DEF Queued, N
        <5>1. k \in 1 .. N + 1
          BY <2>2
        <5> QED BY <2>3, <5>1 DEF Queued
      <4>2. Settled(s, b, z) => Settled(r, b, z)
        BY <2>4 DEF Settled
      <4> QED BY <1>1, <3>2, <4>1, <4>2 DEF Accounted
    <3> QED BY <2>4, <3>1, <3>2
  <2>10. Counted(r, c)
    <3>1. s.seen \subseteq 1 .. MaxId /\ MaxId \in Nat
      BY <1>1, SearchFields DEF GraphKnown
    <3>2. IsFiniteSet(s.seen)
      BY <3>1, CountOfSome
    <3>3. Cardinality(s.seen \cup {y}) = Cardinality(s.seen) + 1
      BY <1>4, <3>2, FS_AddElement
    <3>4. Cardinality(s.seen) = N + c
      BY <1>1 DEF Counted, N
    <3>5. Cardinality(r.seen) = (N + c) + 1 /\ Len(r.queue) + c = (N + c) + 1
      BY <2>2, <2>3, <2>4, <3>3, <3>4
    <3> QED BY <3>5 DEF Counted
  <2>11. a \in r.seen /\ Within(a, L - 1) \subseteq r.seen /\ y \in r.seen /\ s.seen \subseteq r.seen
         /\ r.found = <<>>
    BY <1>1, <2>4
  <2>12. Wave(r, a, b, L, X, c)
    BY <1>2, <2>6, <2>7, <2>8, <2>9, <2>10, <2>11 DEF Wave
  <2> QED BY <2>11, <2>12
<1> QED BY <1>3, <1>4

-----------------------------------------------------------------------------
(* The neighbours of a node *)

ReachedStep(p) == [e \in Searches \X DOMAIN links |-> Reached(e[1], p, OtherEnd(e[2], Last(p)))]

LEMMA OtherEndTyped ==
    ASSUME GraphKnown, NEW x, NEW i \in DOMAIN links
    PROVE  OtherEnd(i, x) \in Vertices
<1> DEFINE L == [source : Vertices, target : Vertices]
<1>1. links \in Seq(L) /\ \A l \in L : l.source \in Vertices /\ l.target \in Vertices
  BY DEF GraphKnown
<1> HIDE DEF L
<1>2. links[i] \in L
  BY <1>1
<1> QED BY <1>1, <1>2 DEF OtherEnd

LEMMA ReachedGoes ==
    ASSUME GraphKnown, NEW p \in Paths, NEW e \in Searches, NEW i \in DOMAIN links
    PROVE  Reached(e, p, OtherEnd(i, Last(p))) \in Searches
BY OtherEndTyped, ReachedFacts

\* FoldedFacts, from any start.
LEMMA FoldsFromAny ==
    ASSUME NEW A, NEW B, NEW way, IsStep(way, A, B), NEW u \in A
    PROVE  /\ Folded(A, u, way, <<>>) = u
           /\ \A t \in Seq(B) : Folded(A, u, way, t) \in A
           /\ \A t \in Seq(B), i \in B :
                  Folded(A, u, way, Append(t, i)) = way[<<Folded(A, u, way, t), i>>]
BY FoldedFacts

LEMMA ExploredIs ==
    ASSUME GraphKnown, NEW p \in Paths, NEW first \in Searches
    PROVE  Explored(first, p) = Folded(Searches, first, ReachedStep(p), Touching(Last(p)))
<1> DEFINE t == Touching(Last(p))
           G(e, i) == Reached(e, p, OtherEnd(i, Last(p)))
           F(f) == [n \in 0 .. Len(t) |-> IF n = 0 THEN first ELSE G(f[n - 1], t[n])]
           P(f) == f = F(f)
           A == Searches
           B == DOMAIN links
           N == Len(t)
           way == ReachedStep(p)
<1>1. Explored(first, p) = (CHOOSE h : P(h))[N]
  BY DEF Explored
<1>a. t \in Seq(B)
  BY TouchingFacts
<1> HIDE DEF t
<1>2. N \in Nat /\ first \in A /\ \A n \in 1 .. N : t[n] \in B
  BY <1>a
<1>3. ASSUME NEW e \in A, NEW i \in B PROVE G(e, i) \in A
  BY ReachedGoes
<1>4. ASSUME NEW e \in A, NEW i \in B PROVE way[<<e, i>>] = G(e, i)
  BY DEF ReachedStep
<1>5. IsStep(way, A, B)
  BY <1>3 DEF ReachedStep, IsStep
<1> HIDE DEF A, B, N, G, way
<1>6. PICK f : Run(f, A, first, way, t)
  BY <1>2, <1>5, <1>a, RunExists
<1>7. P(f)
  <2>1. f[0] = first /\ f = [n \in 0 .. N |-> f[n]]
    BY <1>6 DEF Run, N
  <2>2. ASSUME NEW n \in 0 .. N, n # 0 PROVE f[n] = G(f[n - 1], t[n])
    <3>1. n \in 1 .. N /\ f[n - 1] \in A /\ t[n] \in B
      BY <1>2, <1>6, <2>2 DEF Run, N
    <3> QED BY <1>4, <1>6, <3>1 DEF Run, N
  <2>3. F(f) = [n \in 0 .. N |-> IF n = 0 THEN first ELSE G(f[n - 1], t[n])]
    BY DEF N
  <2> QED BY <2>1, <2>2, <2>3
<1> DEFINE g == CHOOSE h : P(h)
<1>8. P(g)
  <2> HIDE DEF P
  <2> QED BY <1>7, Zenon
<1> HIDE DEF g
<1>9. Steps(g, A, first, way, t)
  <2>1. g = [n \in 0 .. N |-> IF n = 0 THEN first ELSE G(g[n - 1], t[n])]
    BY <1>8 DEF N
  <2> HIDE DEF P, F
  <2>2. g[0] = first /\ \A n \in 1 .. N : g[n] = G(g[n - 1], t[n])
    BY <1>2, <2>1
  <2> QED BY <1>2, <1>4, <2>2 DEF Steps, N
<1>10. g[N] = Folded(A, first, way, t)
  BY <1>2, <1>5, <1>9, <1>a, FoldedBy DEF N
<1> QED BY <1>1, <1>10 DEF g, A, way, t

\* After those of the relationships in t the wave is as before, and what they lead to is seen.
Explores(r, a, b, L, X, p, c, t) ==
    /\ Wave(r, a, b, L, X, c)
    /\ \A i \in ToSet(t) : OtherEnd(i, Last(p)) \in r.seen

LEMMA ExploredWave ==
    ASSUME GraphKnown, NEW a \in Vertices, NEW b, NEW L \in Nat, NEW c \in Nat,
           NEW p, Shortest(p, a), Len(p) = L, Last(p) # b, NEW s, Wave(s, a, b, L, {Last(p)}, c),
           NEW r, r = Explored(s, p)
    PROVE  Wave(r, a, b, L, {}, c)
<1> DEFINE x == Last(p)
           A == Searches
           B == DOMAIN links
           T == TouchedBy(x)
           way == ReachedStep(p)
           O(t) == Folded(A, s, way, t)
           X == {x}
           S == {t \in Seq(T) : Explores(O(t), a, b, L, X, p, c, t)}
<1>1. p \in Paths /\ s \in Searches
  BY DEF Shortest, Wave
<1>2. IsStep(way, A, B) /\ \A e \in A, i \in B : way[<<e, i>>] = Reached(e, p, OtherEnd(i, x))
  BY <1>1, ReachedGoes DEF IsStep, ReachedStep
<1>3. /\ T \subseteq B /\ Touching(x) \in Seq(T) /\ ToSet(Touching(x)) = T
      /\ \A i \in T : OtherEnd(i, x) \in Vertices /\ Linked(x, OtherEnd(i, x))
      /\ \A y : Linked(x, y) => \E i \in T : OtherEnd(i, x) = y
  BY TouchingFacts, OtherEndFacts DEF TouchedBy
<1>4. r = O(Touching(x))
  BY <1>1, ExploredIs
<1>b. s \in A
  BY <1>1
<1>c. Wave(s, a, b, L, X, c)
  OBVIOUS
<1> HIDE DEF A, B, T, way, X
<1>5. /\ O(<<>>) = s
      /\ \A t \in Seq(B) : O(t) \in A
      /\ \A t \in Seq(B), i \in B : O(Append(t, i)) = way[<<O(t), i>>]
  <2>1. IsStep(way, A, B)
    BY <1>2
  <2> DEFINE Facts(u) == /\ Folded(A, u, way, <<>>) = u
                         /\ \A t \in Seq(B) : Folded(A, u, way, t) \in A
                         /\ \A t \in Seq(B), i \in B :
                                Folded(A, u, way, Append(t, i)) = way[<<Folded(A, u, way, t), i>>]
  <2>2. ASSUME NEW u \in A PROVE Facts(u)
    BY <2>1, FoldsFromAny
  <2>3. Facts(s)
    <3> HIDE DEF Facts
    <3> QED BY <1>b, <2>2
  <2> QED BY <2>3
<1>6. <<>> \in S
  <2>1. <<>> \in Seq(T) /\ ToSet(<<>>) = {}
    BY ToSetFacts
  <2> HIDE DEF O
  <2> QED BY <1>5, <1>c, <2>1 DEF Explores
<1>7. ASSUME NEW t \in Seq(T), NEW i \in T, t \in S PROVE Append(t, i) \in S
  <2> DEFINE u == Append(t, i)
             y == OtherEnd(i, x)
             o == O(t)
             q == O(u)
  <2>1. u \in Seq(T) /\ ToSet(u) = ToSet(t) \cup {i}
    BY ToSetFacts
  <2>2. t \in Seq(B) /\ i \in B
    BY <1>3, SeqSubset
  <2>3. o \in A /\ q = Reached(o, p, y)
    BY <1>2, <1>5, <2>2
  <2>4. Explores(o, a, b, L, X, p, c, t) /\ y \in Vertices /\ Linked(x, y)
    BY <1>3, <1>7
  <2> HIDE DEF u, y, o, q, O
  <2>5. Wave(q, a, b, L, X, c) /\ y \in q.seen /\ o.seen \subseteq q.seen
    <3>1. Wave(o, a, b, L, X, c)
      BY <2>4 DEF Explores
    <3>2. y \in Vertices /\ Linked(Last(p), y) /\ q = Reached(o, p, y)
      BY <2>3, <2>4
    <3> QED BY <3>1, <3>2, ReachedWave
  <2>6. \A j \in ToSet(u) : OtherEnd(j, x) \in q.seen
    BY <2>1, <2>4, <2>5 DEF Explores, y
  <2>7. Explores(q, a, b, L, X, p, c, u)
    BY <2>5, <2>6 DEF Explores
  <2> QED BY <2>1, <2>7 DEF u, q
<1>8. Explores(r, a, b, L, X, p, c, Touching(x))
  <2> HIDE DEF S
  <2>1. Seq(T) \subseteq S
    BY <1>6, <1>7, SeqInduct
  <2> QED BY <1>3, <1>4, <2>1 DEF S
<1> HIDE DEF O
<1>9. Settled(r, b, x)
  BY <1>3, <1>8 DEF Explores, Settled
<1>10. Accounted(r, b, {})
  BY <1>8, <1>9 DEF Explores, Wave, Accounted, X
<1> QED BY <1>8, <1>10 DEF Explores, Wave

-----------------------------------------------------------------------------
(* The rounds *)

\* The first path is taken from the queue.
LEMMA TakenWave ==
    ASSUME GraphKnown, NEW a \in Vertices, NEW b, NEW L \in Nat, NEW c \in Nat, NEW s,
           Wave(s, a, b, L, {}, c), s.queue # <<>>,
           NEW r, r = [s EXCEPT !.queue = Tail(s.queue)]
    PROVE  Wave(r, a, b, L, {Last(Head(s.queue))}, c + 1)
<1> DEFINE x == Last(Head(s.queue))
           N == Len(s.queue)
<1>1. /\ s \in Searches /\ s.found = <<>> /\ ShortestQueued(s, a) /\ Apart(s) /\ Rising(s, L)
      /\ Accounted(s, b, {}) /\ Counted(s, c) /\ a \in s.seen /\ Within(a, L - 1) \subseteq s.seen
  BY DEF Wave
<1>2. s.queue \in Seq(Paths) /\ N \in Nat /\ N # 0
  BY <1>1, SearchFields, EmptySeq
<1>3. /\ Tail(s.queue) \in Seq(Paths) /\ Len(Tail(s.queue)) = N - 1
      /\ \A k \in 1 .. N - 1 : Tail(s.queue)[k] = s.queue[k + 1]
      /\ Head(s.queue) = s.queue[1]
  BY <1>2
<1>4. /\ r \in Searches /\ r.queue = Tail(s.queue) /\ r.seen = s.seen /\ r.found = s.found
  BY <1>1, <1>3 DEF Searches
<1>5. /\ Len(r.queue) = N - 1 /\ \A k \in 1 .. N - 1 : r.queue[k] = s.queue[k + 1]
      /\ x = Last(s.queue[1])
  BY <1>3, <1>4
<1> HIDE DEF N, x
<1>6. \A k \in 1 .. N - 1 : k + 1 \in 1 .. N
  BY <1>2
<1>7. ShortestQueued(r, a)
  BY <1>1, <1>4, <1>5, <1>6 DEF ShortestQueued, N
<1>8. Apart(r)
  <2> SUFFICES ASSUME NEW j \in 1 .. N - 1, NEW k \in 1 .. N - 1, Last(r.queue[j]) = Last(r.queue[k])
               PROVE  j = k
    BY <1>5 DEF Apart
  <2>1. j + 1 = k + 1
    BY <1>1, <1>5, <1>6 DEF Apart, N
  <2> QED BY <2>1
<1>9. Rising(r, L)
  <2>1. \A k \in 1 .. N - 1 : L <= Len(r.queue[k]) /\ Len(r.queue[k]) <= L + 1
    BY <1>1, <1>5, <1>6 DEF Rising, N
  <2>2. ASSUME NEW j \in 1 .. N - 1, NEW k \in 1 .. N - 1, j < k
        PROVE  Len(r.queue[j]) <= Len(r.queue[k])
    <3>1. j + 1 < k + 1
      BY <2>2
    <3> QED BY <1>1, <1>5, <1>6, <3>1 DEF Rising, N
  <2> QED BY <1>5, <2>1, <2>2 DEF Rising
<1>10. Accounted(r, b, {x})
  <2> SUFFICES ASSUME NEW z \in s.seen
               PROVE  Queued(r, z) \/ z \in {x} \/ Settled(r, b, z)
    BY <1>4 DEF Accounted
  <2>1. CASE Settled(s, b, z)
    BY <1>4, <2>1 DEF Settled
  <2>2. CASE Queued(s, z)
    <3>1. PICK k \in 1 .. N : Last(s.queue[k]) = z
      BY <2>2 DEF Queued, N
    <3>2. CASE k = 1
      BY <1>5, <3>1, <3>2
    <3>3. CASE k # 1
      <4>1. k - 1 \in 1 .. N - 1 /\ (k - 1) + 1 = k
        BY <1>2, <3>3
      <4>2. r.queue[k - 1] = s.queue[k]
        BY <1>5, <4>1
      <4> QED BY <1>5, <3>1, <4>1, <4>2 DEF Queued
    <3> QED BY <3>2, <3>3
  <2> QED BY <1>1, <2>1, <2>2 DEF Accounted
<1>11. Counted(r, c + 1)
  BY <1>1, <1>2, <1>4, <1>5 DEF Counted, N
<1> QED BY <1>1, <1>4, <1>7, <1>8, <1>9, <1>10, <1>11 DEF Wave, x

\* The last path of length L was taken: what is L steps away is seen.
LEMMA NextWave ==
    ASSUME GraphKnown, NEW a \in Vertices, NEW b, NEW L \in Nat, L >= 1, NEW c \in Nat, NEW s,
           Wave(s, a, b, L, {}, c), s.queue # <<>>, Len(Head(s.queue)) = L + 1
    PROVE  Wave(s, a, b, L + 1, {}, c)
<1> DEFINE N == Len(s.queue)
<1>1. /\ s \in Searches /\ s.found = <<>> /\ ShortestQueued(s, a) /\ Apart(s) /\ Rising(s, L)
      /\ Accounted(s, b, {}) /\ Counted(s, c) /\ a \in s.seen /\ Within(a, L - 1) \subseteq s.seen
  BY DEF Wave
<1>2. s.queue \in Seq(Paths) /\ N \in Nat /\ N # 0 /\ \A k \in 1 .. N : s.queue[k] \in Paths
  BY <1>1, SearchFields, EmptySeq
<1>3. Len(s.queue[1]) = L + 1
  BY <1>2
<1> HIDE DEF N
<1>4. \A k \in 1 .. N : Len(s.queue[k]) = L + 1
  <2> TAKE k \in 1 .. N
  <2>1. Len(s.queue[k]) \in Nat /\ Len(s.queue[k]) <= L + 1
    BY <1>1, <1>2, PathFields DEF Rising, N
  <2>2. k = 1 \/ Len(s.queue[1]) <= Len(s.queue[k])
    BY <1>1, <1>2 DEF Rising, N
  <2> QED BY <1>3, <2>1, <2>2
<1>5. Rising(s, L + 1)
  BY <1>4 DEF Rising, N
<1>6. Within(a, (L + 1) - 1) \subseteq s.seen
  <2>1. L - 1 \in Nat /\ (L - 1) + 1 = L /\ (L + 1) - 1 = L
    OBVIOUS
  <2>2. Within(a, (L - 1) + 1) = Around(Within(a, L - 1))
    BY <2>1, WithinFacts
  <2>3. ASSUME NEW y \in Within(a, L - 1) PROVE Settled(s, b, y)
    <3>1. y \in s.seen
      BY <1>1
    <3>2. ~Queued(s, y)
      <4> SUFFICES ASSUME NEW k \in 1 .. N, Last(s.queue[k]) = y PROVE FALSE
        BY DEF Queued, N
      <4>1. Shortest(s.queue[k], a) /\ Len(s.queue[k]) = L + 1
        BY <1>1, <1>4 DEF ShortestQueued, N
      <4>2. L - 1 \in 0 .. (L + 1) - 2
        BY <2>1
      <4> QED BY <4>1, <4>2 DEF Shortest
    <3> QED BY <1>1, <3>1, <3>2 DEF Accounted
  <2>4. Around(Within(a, L - 1)) \subseteq s.seen
    BY <1>1, <2>3 DEF Around, Settled
  <2> QED BY <2>1, <2>2, <2>4
<1> QED BY <1>1, <1>5, <1>6 DEF Wave

Arrived(s, a, b, n) == Shortest(s.found, a) /\ Last(s.found) = b /\ Len(s.found) <= n

Missed(s, a, b) == s.found = <<>> /\ s.queue = <<>> /\ a \in s.seen /\ \A y \in s.seen : Settled(s, b, y)

Searching(s, a, b, n) ==
    /\ s.queue # <<>> /\ Len(Head(s.queue)) <= n + 1
    /\ Wave(s, a, b, Len(Head(s.queue)), {}, n)

\* Where the search is after n rounds.
Progress(s, a, b, n) ==
    /\ s \in Searches
    /\ Arrived(s, a, b, n) \/ Missed(s, a, b) \/ Searching(s, a, b, n)

LEMMA ExploredTyped ==
    ASSUME GraphKnown, NEW p \in Paths, NEW s \in Searches
    PROVE  Explored(s, p) \in Searches
<1> DEFINE A == Searches
           B == DOMAIN links
           way == ReachedStep(p)
           t == Touching(Last(p))
<1>1. Explored(s, p) = Folded(A, s, way, t)
  BY ExploredIs
<1>2. IsStep(way, A, B) /\ t \in Seq(B) /\ s \in A
  BY ReachedGoes, TouchingFacts DEF IsStep, ReachedStep
<1> HIDE DEF A, B, way, t
<1>3. Folded(A, s, way, t) \in A
  BY <1>2, FoldedFacts
<1> QED BY <1>1, <1>3 DEF A

LEMMA RoundTyped ==
    ASSUME GraphKnown, NEW s \in Searches, NEW b
    PROVE  Round(s, b) \in Searches
<1>1. CASE s.found # <<>> \/ s.queue = <<>>
  BY <1>1 DEF Round
<1>2. CASE s.found = <<>> /\ s.queue # <<>>
  <2> DEFINE p == Head(s.queue)
             q == Tail(s.queue)
             taken == [s EXCEPT !.queue = q]
  <2>1. Round(s, b) = IF Last(p) = b THEN [taken EXCEPT !.found = p] ELSE Explored(taken, p)
    BY <1>2 DEF Round
  <2>2. p \in Paths /\ q \in Seq(Paths)
    BY <1>2, SearchFields
  <2> HIDE DEF p, q
  <2>3. taken \in Searches /\ p \in Seq(Vertices)
    BY <2>2, PathFields DEF Searches
  <2> HIDE DEF taken
  <2>4. [taken EXCEPT !.found = p] \in Searches
    BY <2>3 DEF Searches
  <2> QED BY <2>1, <2>2, <2>3, <2>4, ExploredTyped
<1> QED BY <1>1, <1>2

LEMMA RoundProgress ==
    ASSUME GraphKnown, NEW a \in Vertices, NEW b, NEW n \in Nat, NEW s, Progress(s, a, b, n)
    PROVE  Progress(Round(s, b), a, b, n + 1)
<1> DEFINE r == Round(s, b)
<1>1. s \in Searches /\ r \in Searches
  BY RoundTyped DEF Progress
<1>2. CASE Arrived(s, a, b, n)
  <2>1. s.found \in Paths
    BY <1>2 DEF Arrived, Shortest
  <2>2. s.found # <<>> /\ Len(s.found) \in Nat
    BY <2>1, PathFields DEF Paths
  <2>3. r = s /\ Len(s.found) <= n + 1
    BY <1>2, <2>2 DEF Round, Arrived
  <2> QED BY <1>1, <1>2, <2>3 DEF Progress, Arrived
<1>3. CASE Missed(s, a, b)
  <2>1. r = s
    BY <1>3 DEF Round, Missed
  <2> QED BY <1>1, <1>3, <2>1 DEF Progress
<1>4. CASE Searching(s, a, b, n)
  <2> DEFINE p == Head(s.queue)
             L == Len(p)
             taken == [s EXCEPT !.queue = Tail(s.queue)]
  <2>1. s.queue # <<>> /\ L <= n + 1 /\ Wave(s, a, b, L, {}, n) /\ s.found = <<>>
    BY <1>4 DEF Searching, Wave
  <2>2. Shortest(p, a)
    <3>1. Len(s.queue) \in Nat /\ Len(s.queue) # 0 /\ p = s.queue[1]
      BY <1>1, <2>1, SearchFields, EmptySeq
    <3>2. 1 \in 1 .. Len(s.queue)
      BY <3>1
    <3> QED BY <2>1, <3>1, <3>2 DEF Wave, ShortestQueued
  <2>3. L \in Nat /\ L >= 1
    BY <2>2, PathFields DEF Shortest
  <2>4. r = IF Last(p) = b THEN [taken EXCEPT !.found = p] ELSE Explored(taken, p)
    BY <2>1 DEF Round
  <2>5. Wave(taken, a, b, L, {Last(p)}, n + 1)
    BY <2>1, <2>3, TakenWave
  <2> HIDE DEF p, L
  <2>6. taken \in Searches
    BY <2>5 DEF Wave
  <2> HIDE DEF taken
  <2>7. CASE Last(p) = b
    <3>1. r.found = p
      BY <2>4, <2>6, <2>7 DEF Searches
    <3> QED BY <1>1, <2>1, <2>2, <2>7, <3>1 DEF Progress, Arrived, L
  <2>8. CASE Last(p) # b
    <3>1. Wave(r, a, b, L, {}, n + 1)
      <4>1. r = Explored(taken, p) /\ n + 1 \in Nat /\ Len(p) = L
        BY <2>4, <2>8 DEF L
      <4> QED BY <2>2, <2>3, <2>5, <2>8, <4>1, ExploredWave
    <3> HIDE DEF r
    <3>2. CASE r.queue = <<>>
      <4>1. Len(r.queue) = 0
        BY <3>2
      <4>2. \A y \in r.seen : Settled(r, b, y)
        BY <3>1, <4>1 DEF Wave, Accounted, Queued
      <4> QED BY <1>1, <3>1, <3>2, <4>2 DEF Progress, Missed, Wave, r
    <3>3. CASE r.queue # <<>>
      <4> DEFINE M == Len(Head(r.queue))
      <4>1. M \in Nat /\ L <= M /\ M <= L + 1
        <5>1. Len(r.queue) \in Nat /\ Len(r.queue) # 0 /\ Head(r.queue) = r.queue[1]
          BY <1>1, <3>3, SearchFields, EmptySeq
        <5>2. 1 \in 1 .. Len(r.queue)
          BY <5>1
        <5>3. r.queue[1] \in Paths /\ Rising(r, L)
          BY <1>1, <3>1, <5>2, SearchFields DEF Wave
        <5> QED BY <5>1, <5>2, <5>3, PathFields DEF Rising
      <4>2. Wave(r, a, b, M, {}, n + 1)
        <5>1. CASE M = L
          BY <3>1, <5>1
        <5>2. CASE M = L + 1
          BY <2>3, <3>1, <3>3, <5>2, NextWave
        <5> HIDE DEF M
        <5> QED BY <2>3, <4>1, <5>1, <5>2
      <4>3. M <= (n + 1) + 1
        BY <2>1, <2>3, <4>1
      <4> QED BY <1>1, <3>3, <4>2, <4>3 DEF Progress, Searching, r
    <3> QED BY <3>2, <3>3
  <2> QED BY <2>7, <2>8
<1> QED BY <1>2, <1>3, <1>4 DEF Progress

-----------------------------------------------------------------------------
(* find_path *)

Begin(a) == [queue |-> << <<a>> >>, seen |-> {a}, found |-> <<>>]

RoundStep(b) == [s \in Searches |-> Round(s, b)]

LEMMA FirstSearch ==
    ASSUME GraphKnown, NEW a \in Vertices, NEW b
    PROVE  Progress(Begin(a), a, b, 0)
<1> DEFINE s == Begin(a)
           p == <<a>>
<1>1. p \in Paths /\ Len(p) = 1 /\ Last(p) = a /\ p[1] = a
  <2>1. p \in Seq(Vertices) /\ p # <<>> /\ Len(p) = 1 /\ p[1] = a
    OBVIOUS
  <2> QED BY <2>1 DEF Paths, Last
<1> HIDE DEF p
<1>2. /\ s.queue = <<p>> /\ s.seen = {a} /\ s.found = <<>> /\ s \in Searches
  <2>1. <<p>> \in Seq(Paths) /\ {a} \in SUBSET Vertices /\ <<>> \in Seq(Vertices)
    BY <1>1
  <2>2. s = [queue |-> <<p>>, seen |-> {a}, found |-> <<>>]
    BY DEF Begin, p
  <2> QED BY <2>1, <2>2 DEF Searches
<1> HIDE DEF s
<1>3. s.queue # <<>> /\ Len(s.queue) = 1 /\ s.queue[1] = p /\ Head(s.queue) = p
      /\ \A k \in 1 .. Len(s.queue) : k = 1
  BY <1>1, <1>2
<1>4. Within(a, 1 - 1) = {a}
  <2>1. 1 - 1 = 0
    OBVIOUS
  <2> QED BY <2>1, WithinFacts
<1>5. Shortest(p, a)
  <2>1. Last(p) \in Within(a, Len(p) - 1)
    BY <1>1, <1>4
  <2>2. 1 .. Len(p) - 1 = {} /\ 0 .. Len(p) - 2 = {}
    BY <1>1
  <2> QED BY <1>1, <2>1, <2>2 DEF Shortest
<1>6. ShortestQueued(s, a) /\ Apart(s)
  BY <1>1, <1>2, <1>3, <1>5 DEF ShortestQueued, Apart
<1>7. Rising(s, 1)
  <2> DEFINE length(k) == Len(s.queue[k])
  <2>1. \A k \in 1 .. Len(s.queue) : k = 1 /\ length(k) = 1
    BY <1>1, <1>3
  <2> HIDE DEF length
  <2>2. \A k \in 1 .. Len(s.queue) : 1 <= length(k) /\ length(k) <= 1 + 1
    BY <2>1
  <2>3. \A j, k \in 1 .. Len(s.queue) : j < k => length(j) <= length(k)
    BY <2>1
  <2> QED BY <2>2, <2>3 DEF Rising, length
<1>8. Accounted(s, b, {})
  BY <1>1, <1>2, <1>3 DEF Accounted, Queued
<1>9. Counted(s, 0)
  <2>1. Cardinality({a}) = 1
    BY FS_Singleton
  <2> QED BY <1>2, <1>3, <2>1 DEF Counted
<1>10. Wave(s, a, b, 1, {}, 0)
  BY <1>2, <1>4, <1>6, <1>7, <1>8, <1>9 DEF Wave
<1>11. Searching(s, a, b, 0)
  <2> DEFINE M == Len(Head(s.queue))
  <2>1. M = 1
    BY <1>1, <1>3
  <2> HIDE DEF M
  <2>2. M <= 0 + 1 /\ Wave(s, a, b, M, {}, 0)
    BY <1>10, <2>1
  <2> QED BY <1>3, <2>2 DEF Searching, M
<1> QED BY <1>2, <1>11 DEF Progress, s

LEMMA FindPathIs ==
    ASSUME GraphKnown, NEW a \in Vertices, NEW b
    PROVE  FindPath(a, b) = Times(Searches, Begin(a), RoundStep(b), MaxId).found
<1> DEFINE A == Searches
           e == Begin(a)
           way == RoundStep(b)
           F(f) == [n \in 0 .. MaxId |-> IF n = 0 THEN e ELSE Round(f[n - 1], b)]
           P(f) == f = F(f)
<1>1. FindPath(a, b) = (CHOOSE h : P(h))[MaxId].found
  BY DEF FindPath, Begin
<1>2. e \in A /\ IsMap(way, A) /\ (\A x \in A : way[x] = Round(x, b)) /\ MaxId \in Nat
  <2>1. e \in A /\ MaxId \in Nat
    BY FirstSearch DEF Progress, GraphKnown
  <2>2. \A x \in A : Round(x, b) \in A
    BY RoundTyped
  <2> QED BY <2>1, <2>2 DEF RoundStep, IsMap
<1> HIDE DEF A, e, way
<1>3. PICK f : Goes(f, A, e, way, MaxId)
  BY <1>2, TimesExists
<1>4. P(f)
  <2>1. f[0] = e /\ f = [n \in 0 .. MaxId |-> f[n]]
    BY <1>3 DEF Goes
  <2>2. ASSUME NEW n \in 0 .. MaxId, n # 0 PROVE f[n] = Round(f[n - 1], b)
    <3>1. n \in 1 .. MaxId /\ n - 1 \in 0 .. MaxId
      BY <1>2, <2>2
    <3> QED BY <1>2, <1>3, <3>1 DEF Goes
  <2> QED BY <2>1, <2>2
<1> DEFINE g == CHOOSE h : P(h)
<1>5. P(g)
  <2> HIDE DEF P
  <2> QED BY <1>4, Zenon
<1> HIDE DEF g
<1>6. Tracks(g, A, e, way, MaxId)
  <2>1. g = [n \in 0 .. MaxId |-> IF n = 0 THEN e ELSE Round(g[n - 1], b)]
    BY <1>5
  <2> HIDE DEF P, F
  <2>2. g[0] = e /\ \A n \in 1 .. MaxId : g[n] = Round(g[n - 1], b)
    BY <1>2, <2>1
  <2> QED BY <1>2, <2>2 DEF Tracks
<1>7. g[MaxId] = Times(A, e, way, MaxId)
  BY <1>2, <1>6, TimesIs
<1> QED BY <1>1, <1>7 DEF g, A, e, way

\* After n rounds.
LEMMA SearchProgress ==
    ASSUME GraphKnown, NEW a \in Vertices, NEW b, NEW n \in Nat
    PROVE  Progress(Times(Searches, Begin(a), RoundStep(b), n), a, b, n)
<1> DEFINE A == Searches
           e == Begin(a)
           way == RoundStep(b)
           T(m) == Times(A, e, way, m)
           S == {m \in Nat : Progress(T(m), a, b, m)}
<1>1. Progress(e, a, b, 0)
  BY FirstSearch
<1>2. e \in A /\ IsMap(way, A) /\ \A x \in A : way[x] = Round(x, b)
  <2>1. \A x \in A : Round(x, b) \in A
    BY RoundTyped
  <2> QED BY <1>1, <2>1 DEF RoundStep, IsMap, Progress
<1> HIDE DEF A, e, way
<1>3. T(0) = e /\ \A m \in Nat : T(m) \in A /\ T(m + 1) = way[T(m)]
  BY <1>2, TimesFacts
<1> HIDE DEF T
<1>4. 0 \in S
  BY <1>1, <1>3
<1>5. ASSUME NEW m \in Nat, m \in S PROVE m + 1 \in S
  <2>1. T(m + 1) = Round(T(m), b)
    BY <1>2, <1>3
  <2>2. Progress(T(m), a, b, m)
    BY <1>5
  <2>3. Progress(Round(T(m), b), a, b, m + 1)
    BY <2>2, RoundProgress
  <2> QED BY <2>1, <2>3
<1>6. Nat \subseteq S
  <2> HIDE DEF S
  <2> QED BY <1>4, <1>5, Induct
<1> QED BY <1>6 DEF T, A, e, way

\* A search that has run out of nodes has met all that can be reached.
LEMMA MissedAll ==
    ASSUME NEW a \in Vertices, NEW b, NEW s, Missed(s, a, b), NEW n \in Nat
    PROVE  Within(a, n) \subseteq s.seen
<1> DEFINE S == {m \in Nat : Within(a, m) \subseteq s.seen}
<1>1. 0 \in S
  BY WithinFacts DEF Missed
<1>2. ASSUME NEW m \in Nat, m \in S PROVE m + 1 \in S
  <2>1. Within(a, m + 1) = Around(Within(a, m))
    BY WithinFacts
  <2>2. Around(Within(a, m)) \subseteq s.seen
    BY <1>2 DEF Around, Missed, Settled
  <2> QED BY <2>1, <2>2
<1>3. Nat \subseteq S
  <2> HIDE DEF S
  <2> QED BY <1>1, <1>2, Induct
<1> QED BY <1>3

PathSound(path, a, b) ==
    /\ (path # <<>>) = (b \in Within(a, MaxId))
    /\ path # <<>> =>
        /\ path[1] = a /\ Last(path) = b
        /\ \A i \in 1 .. Len(path) - 1 : Linked(path[i], path[i + 1])
        /\ \A n \in 0 .. Len(path) - 2 : b \notin Within(a, n)

LEMMA FindPathSound ==
    ASSUME GraphKnown, NEW a \in Vertices, NEW b
    PROVE  PathSound(FindPath(a, b), a, b)
<1> DEFINE s == Times(Searches, Begin(a), RoundStep(b), MaxId)
           path == s.found
<1>1. FindPath(a, b) = path /\ MaxId \in Nat
  BY FindPathIs DEF GraphKnown
<1>2. Progress(s, a, b, MaxId)
  BY <1>1, SearchProgress
<1> HIDE DEF s
<1>3. ~Searching(s, a, b, MaxId)
  <2> SUFFICES ASSUME Searching(s, a, b, MaxId) PROVE FALSE
    OBVIOUS
  <2>1. s \in Searches /\ s.queue # <<>> /\ Counted(s, MaxId)
    BY DEF Searching, Wave
  <2>2. Len(s.queue) \in Nat /\ Len(s.queue) # 0 /\ s.seen \subseteq 1 .. MaxId
    BY <2>1, SearchFields, EmptySeq DEF GraphKnown
  <2>3. Cardinality(s.seen) \in Nat /\ Cardinality(s.seen) <= MaxId
    BY <1>1, <2>2, CountOfSome
  <2> QED BY <1>1, <2>1, <2>2, <2>3 DEF Counted
<1>4. CASE Arrived(s, a, b, MaxId)
  <2>1. Shortest(path, a) /\ Last(path) = b /\ Len(path) <= MaxId
    BY <1>4 DEF Arrived
  <2>2. path \in Paths /\ path # <<>> /\ Len(path) \in Nat /\ Len(path) >= 1
    BY <2>1, PathFields DEF Shortest, Paths
  <2>3. b \in Within(a, MaxId)
    <3> DEFINE n == Len(path) - 1
    <3>1. n \in Nat /\ n <= MaxId
      BY <1>1, <2>1, <2>2
    <3>2. b \in Within(a, n)
      BY <2>1 DEF Shortest
    <3> HIDE DEF n
    <3> QED BY <1>1, <3>1, <3>2, WithinGrows
  <2>4. PathSound(path, a, b)
    BY <2>1, <2>2, <2>3 DEF PathSound, Shortest
  <2> QED BY <1>1, <2>4
<1>5. CASE Missed(s, a, b)
  <2>1. path = <<>> /\ b \notin s.seen
    BY <1>5 DEF Missed, Settled
  <2>2. b \notin Within(a, MaxId)
    BY <1>1, <1>5, <2>1, MissedAll
  <2>3. PathSound(path, a, b)
    BY <2>1, <2>2 DEF PathSound
  <2> QED BY <1>1, <2>3
<1> QED BY <1>2, <1>3, <1>4, <1>5 DEF Progress

-----------------------------------------------------------------------------
(* The relationships of the entities *)

\* r has those that touch one of the entities of s, each once.
Gathers(r, s) ==
    /\ r \in Seq(DOMAIN links) /\ IsInjective(r)
    /\ \A i : i \in ToSet(r) <=> i \in DOMAIN links /\ \E id \in ToSet(s) : Touches(i, id)

JoinedStep == [e \in Seq(DOMAIN links) \X Vertices |-> Joined(e[1], Touching(e[2]))]

LEMMA JoinedFacts ==
    ASSUME GraphKnown, NEW s \in Seq(DOMAIN links), NEW id, NEW u, u = Joined(s, Touching(id))
    PROVE  /\ u \in Seq(DOMAIN links) /\ ToSet(u) = ToSet(s) \cup TouchedBy(id)
           /\ IsInjective(s) => IsInjective(u)
<1> DEFINE D == DOMAIN links
           t == Touching(id)
           R == D \ ToSet(s)
           o == Only(t, R)
<1>1. t \in Seq(D) /\ ToSet(t) = TouchedBy(id) /\ IsInjective(t)
  BY TouchingFacts
<1>2. u = s \o o /\ s \in Seq(D) /\ TouchedBy(id) \subseteq D
  BY DEF Joined, TouchedBy
<1> HIDE DEF t, D
<1>a. R \cap ToSet(s) = {} /\ R = D \ ToSet(s)
  OBVIOUS
<1> HIDE DEF R
<1>3. o \in Seq(D) /\ ToSet(o) = TouchedBy(id) \cap R /\ IsInjective(o)
  <2>1. o \in Seq(D)
    BY <1>1, OnlyTyped
  <2>2. ToSet(o) = ToSet(t) \cap R
    BY <1>1, OnlyElements
  <2>3. IsInjective(o)
    BY <1>1, OnlyDistinct
  <2> QED BY <1>1, <2>1, <2>2, <2>3
<1> HIDE DEF o
<1>4. /\ u \in Seq(D) /\ ToSet(u) = ToSet(s) \cup ToSet(o)
      /\ (IsInjective(s) /\ IsInjective(o) /\ ToSet(s) \cap ToSet(o) = {}) => IsInjective(u)
  BY <1>2, <1>3, ConcatDistinct
<1>5. ToSet(s) \cup (TouchedBy(id) \cap R) = ToSet(s) \cup TouchedBy(id)
  BY <1>2, <1>a
<1>6. ToSet(s) \cap ToSet(o) = {}
  BY <1>3, <1>a
<1> QED BY <1>3, <1>4, <1>5, <1>6 DEF D

LEMMA GatheredIs ==
    ASSUME GraphKnown, NEW s \in Seq(Vertices)
    PROVE  Gathered(s) = Folded(Seq(DOMAIN links), <<>>, JoinedStep, s)
<1> DEFINE first == <<>>
           G(e, i) == Joined(e, Touching(i))
           F(f) == [n \in 0 .. Len(s) |-> IF n = 0 THEN first ELSE G(f[n - 1], s[n])]
           P(f) == f = F(f)
           A == Seq(DOMAIN links)
           B == Vertices
           N == Len(s)
           way == JoinedStep
<1>1. Gathered(s) = (CHOOSE h : P(h))[N]
  BY DEF Gathered
<1>a. s \in Seq(B)
  OBVIOUS
<1>2. N \in Nat /\ first \in A /\ \A n \in 1 .. N : s[n] \in B
  OBVIOUS
<1>3. ASSUME NEW e \in A, NEW i \in B PROVE G(e, i) \in A
  BY JoinedFacts
<1>4. ASSUME NEW e \in A, NEW i \in B PROVE way[<<e, i>>] = G(e, i)
  BY DEF JoinedStep
<1>5. IsStep(way, A, B)
  BY <1>3 DEF JoinedStep, IsStep
<1> HIDE DEF A, B, N, G, way, first
<1>6. PICK f : Run(f, A, first, way, s)
  BY <1>2, <1>5, <1>a, RunExists
<1>7. P(f)
  <2>1. f[0] = first /\ f = [n \in 0 .. N |-> f[n]]
    BY <1>6 DEF Run, N
  <2>2. ASSUME NEW n \in 0 .. N, n # 0 PROVE f[n] = G(f[n - 1], s[n])
    <3>1. n \in 1 .. N /\ f[n - 1] \in A /\ s[n] \in B
      BY <1>2, <1>6, <2>2 DEF Run, N
    <3> QED BY <1>4, <1>6, <3>1 DEF Run, N
  <2>3. F(f) = [n \in 0 .. N |-> IF n = 0 THEN first ELSE G(f[n - 1], s[n])]
    BY DEF N
  <2> QED BY <2>1, <2>2, <2>3
<1> DEFINE g == CHOOSE h : P(h)
<1>8. P(g)
  <2> HIDE DEF P
  <2> QED BY <1>7, Zenon
<1> HIDE DEF g
<1>9. Steps(g, A, first, way, s)
  <2>1. g = [n \in 0 .. N |-> IF n = 0 THEN first ELSE G(g[n - 1], s[n])]
    BY <1>8 DEF N
  <2> HIDE DEF P, F
  <2>2. g[0] = first /\ \A n \in 1 .. N : g[n] = G(g[n - 1], s[n])
    BY <1>2, <2>1
  <2> QED BY <1>2, <1>4, <2>2 DEF Steps, N
<1>10. g[N] = Folded(A, first, way, s)
  BY <1>2, <1>5, <1>9, <1>a, FoldedBy DEF N
<1> QED BY <1>1, <1>10 DEF g, A, way, first

LEMMA GatheredAll ==
    ASSUME GraphKnown, NEW s \in Seq(Vertices)
    PROVE  Gathers(Gathered(s), s)
<1> DEFINE A == Seq(DOMAIN links)
           B == Vertices
           way == JoinedStep
           e == <<>>
           O(t) == Folded(A, e, way, t)
           S == {t \in Seq(B) : Gathers(O(t), t)}
<1>1. Gathered(s) = O(s)
  BY GatheredIs
<1>2. /\ IsStep(way, A, B) /\ e \in A
      /\ \A r \in A, i \in B : way[<<r, i>>] = Joined(r, Touching(i))
  BY JoinedFacts DEF IsStep, JoinedStep
<1>a. e \in Seq(DOMAIN links) /\ ToSet(e) = {} /\ IsInjective(e)
  BY ToSetFacts DEF IsInjective
<1>b. e \in Seq(B)
  OBVIOUS
<1> HIDE DEF A, way, e
<1>3. /\ O(<<>>) = e
      /\ \A t \in Seq(B) : O(t) \in A
      /\ \A t \in Seq(B), i \in B : O(Append(t, i)) = way[<<O(t), i>>]
  BY <1>2, FoldedFacts
<1> HIDE DEF O
<1>4. <<>> \in S
  <2>1. O(e) = e
    BY <1>3 DEF e
  <2>2. Gathers(O(e), e)
    BY <1>a, <2>1 DEF Gathers
  <2> QED BY <1>b, <2>2 DEF e
<1>5. ASSUME NEW t \in Seq(B), NEW i \in B, t \in S PROVE Append(t, i) \in S
  <2> DEFINE u == Append(t, i)
             o == O(t)
             q == O(u)
  <2>1. u \in Seq(B) /\ ToSet(u) = ToSet(t) \cup {i}
    BY ToSetFacts
  <2>2. o \in Seq(DOMAIN links) /\ q = Joined(o, Touching(i))
    BY <1>2, <1>3 DEF A
  <2>3. Gathers(o, t)
    BY <1>5
  <2> HIDE DEF u, o, q
  <2>4. /\ q \in Seq(DOMAIN links) /\ ToSet(q) = ToSet(o) \cup TouchedBy(i)
        /\ IsInjective(o) => IsInjective(q)
    BY <2>2, JoinedFacts
  <2>5. IsInjective(q)
    BY <2>3, <2>4 DEF Gathers
  <2>6. \A k : k \in ToSet(q) <=> k \in DOMAIN links /\ \E id \in ToSet(u) : Touches(k, id)
    BY <2>1, <2>3, <2>4 DEF Gathers, TouchedBy
  <2>7. Gathers(q, u)
    BY <2>4, <2>5, <2>6 DEF Gathers
  <2> QED BY <2>1, <2>7 DEF u, q
<1>6. Seq(B) \subseteq S
  <2> HIDE DEF S
  <2> QED BY <1>4, <1>5, SeqInduct
<1> QED BY <1>1, <1>6

\* The entities of a search, in some order.
LEMMA ListOf ==
    ASSUME GraphKnown, NEW S, S \subseteq Vertices
    PROVE  SetToSeq(S) \in Seq(Vertices)
<1> DEFINE n == Cardinality(S)
           I == Vertices
<1>1. S \subseteq 1 .. MaxId /\ MaxId \in Nat
  BY DEF GraphKnown
<1>2. IsFiniteSet(S)
  BY <1>1, CountOfSome
<1>3. n \in Nat /\ ExistsBijection(1 .. n, S)
  BY <1>2, FS_CardinalityType
<1>4. \E f \in [1 .. n -> S] : IsInjective(f)
  BY <1>3 DEF ExistsBijection, Bijection, Injection
<1>5. SetToSeq(S) \in [1 .. n -> S]
  BY <1>4 DEF SetToSeq
<1> HIDE DEF n, I
<1>6. SetToSeq(S) \in Seq(S)
  BY <1>3, <1>5
<1>7. S \subseteq I
  BY DEF I
<1>8. SetToSeq(S) \in Seq(I)
  BY <1>6, <1>7, SeqSubset
<1> QED BY <1>8 DEF I

ContextOf(r, entities) ==
    LET touching == {i \in DOMAIN links : \E id \in ToSet(entities) : Touches(i, id)}
    IN  /\ IsInjective(r) /\ ToSet(r) \subseteq touching
        /\ Len(r) = Min({Cardinality(touching), MaxRelationships})

LEMMA CutGathered ==
    ASSUME GraphKnown, NEW s \in Seq(Vertices)
    PROVE  ContextOf(Cut(Gathered(s), MaxRelationships), s)
<1> DEFINE D == DOMAIN links
           g == Gathered(s)
           r == Cut(g, MaxRelationships)
           m == Min({Len(g), MaxRelationships})
           R == {i \in D : \E id \in ToSet(s) : Touches(i, id)}
<1>1. Gathers(g, s) /\ MaxRelationships \in Nat
  BY GatheredAll, ContextAssumption
<1> HIDE DEF g
<1>2. g \in Seq(D) /\ IsInjective(g) /\ ToSet(g) = R
  BY <1>1 DEF Gathers
<1> HIDE DEF D, R
<1>3. r \in Seq(D) /\ m \in Nat /\ m <= Len(g) /\ IsFirst(r, g, m)
  BY <1>1, <1>2, CutFacts
<1> HIDE DEF r
<1>4. Len(r) = m /\ DOMAIN r = 1 .. m /\ DOMAIN g = 1 .. Len(g) /\ Len(g) \in Nat
      /\ \A k \in 1 .. m : r[k] = g[k] /\ k \in 1 .. Len(g)
  <2> HIDE DEF m
  <2>1. Len(r) = m /\ \A k \in 1 .. m : r[k] = g[k]
    BY <1>3 DEF IsFirst
  <2> QED BY <1>2, <1>3, <2>1
<1>5. IsInjective(r)
  <2> HIDE DEF m
  <2> QED BY <1>2, <1>4 DEF IsInjective
<1>6. ToSet(r) \subseteq R
  <2> HIDE DEF m
  <2> QED BY <1>2, <1>4 DEF ToSet
<1>7. Cardinality(R) = Len(g)
  <2> DEFINE n == Len(g)
  <2>1. \A i, j \in 1 .. n : g[i] = g[j] => i = j
    BY <1>2, <1>4 DEF IsInjective
  <2>2. NamedBy(R, g, n)
    BY <1>2, <1>4 DEF NamedBy, ToSet
  <2>3. n \in Nat
    BY <1>4
  <2> HIDE DEF n
  <2>4. Cardinality(R) = n
    BY <2>1, <2>2, <2>3, CountOfNames
  <2> QED BY <2>4 DEF n
<1>8. Len(r) = Min({Cardinality(R), MaxRelationships})
  BY <1>4, <1>7
<1> QED BY <1>5, <1>6, <1>8 DEF ContextOf, R, D, r, g

LEMMA ContextsSound == GraphKnown => ContextSound
<1> SUFFICES ASSUME GraphKnown PROVE ContextSound
  OBVIOUS
<1>0. Ids(nodes) \subseteq Vertices
  BY DEF Vertices
<1>1. ASSUME NEW found \in SUBSET Ids(nodes)
      PROVE  ContextOf(Context(SetToSeq(found)).relationships, Context(SetToSeq(found)).entities)
  <2> DEFINE f == SetToSeq(found)
             s == Cut(f, MaxEntities)
  <2>1. f \in Seq(Vertices) /\ MaxEntities \in Nat
    BY <1>0, ListOf, ContextAssumption
  <2> HIDE DEF f
  <2>2. s \in Seq(Vertices)
    BY <2>1, CutFacts
  <2>3. Context(f).entities = s /\ Context(f).relationships = Cut(Gathered(s), MaxRelationships)
    BY DEF Context
  <2> HIDE DEF s
  <2>4. ContextOf(Context(f).relationships, Context(f).entities)
    BY <2>2, <2>3, CutGathered
  <2> QED BY <2>4 DEF f
<1>2. ASSUME NEW a \in Ids(nodes), NEW b \in Ids(nodes) PROVE PathSound(FindPath(a, b), a, b)
  BY <1>0, FindPathSound
<1> QED BY <1>1, <1>2 DEF ContextSound, ContextOf, PathSound

LEMMA GraphInvKnown == GraphInv => GraphKnown
<1> SUFFICES ASSUME GraphInv PROVE GraphKnown
  OBVIOUS
<1> DEFINE L == [source : Vertices, target : Vertices]
<1>1. links \in Seq(Link) /\ nodes \in Seq(Node)
  BY DEF GraphInv, FilesInv
<1>2. Vertices \subseteq 1 .. MaxId
  <2>1. \A i \in DOMAIN nodes : nodes[i] \in Node
    BY <1>1
  <2>2. \A i \in DOMAIN links : links[i] \in Link
    BY <1>1
  <2> QED BY <2>1, <2>2 DEF Vertices, Ids, Node, Link
<1>3. \A i \in DOMAIN links : links[i].source \in Vertices /\ links[i].target \in Vertices
  BY DEF Vertices
<1>4. \A l \in Link : l.source \in Vertices /\ l.target \in Vertices => l \in L
  BY DEF Link
<1> HIDE DEF L
<1>5. links \in Seq(L)
  <2>1. Len(links) \in Nat /\ links = [i \in 1 .. Len(links) |-> links[i]]
        /\ DOMAIN links = 1 .. Len(links) /\ \A i \in 1 .. Len(links) : links[i] \in Link
    BY <1>1
  <2>2. \A i \in 1 .. Len(links) : links[i] \in L
    BY <1>3, <1>4, <2>1
  <2> QED BY <2>1, <2>2
<1> QED BY <1>2, <1>5, GraphAssumption DEF GraphKnown, L

\* query_for_context lists the relationships of the entities it is given, each once and
\* up to the limit, and find_path finds a path between two entities exactly when there is
\* one, and then a shortest: whatever the graph has come to be.
THEOREM ContextsAlwaysSound == GraphSpec => []ContextSound
<1>1. GraphInv => ContextSound
  BY GraphInvKnown, ContextsSound
<1> QED BY <1>1, GraphInvariance, PTL

-----------------------------------------------------------------------------
(* MemoryRanker.rank *)

KeepStep == [p \in Seq(Hits) \X Hits |-> KeepUnlike(p[1], p[2])]

LEMMA UniqueIsFolded ==
    ASSUME NEW s \in Seq(Hits)
    PROVE  Unique(s) = Folded(Seq(Hits), <<>>, KeepStep, s)
<1> DEFINE G(x, y) == KeepUnlike(x, y)
           F(f) == [n \in 0 .. Len(s) |-> IF n = 0 THEN <<>> ELSE G(f[n - 1], s[n])]
           P(f) == f = F(f)
           A == Seq(Hits)
           e == <<>>
           N == Len(s)
           keep == KeepStep
<1>1. Unique(s) = (CHOOSE h : P(h))[N] BY DEF Unique
<1>2. N \in Nat /\ e \in A /\ s \in Seq(Hits) /\ \A n \in 1 .. N : s[n] \in Hits OBVIOUS
<1>3. ASSUME NEW x \in A, NEW y \in Hits PROVE G(x, y) \in A
  BY DEF KeepUnlike
<1>4. ASSUME NEW x \in A, NEW y \in Hits PROVE keep[<<x, y>>] = G(x, y)
  BY DEF KeepStep
<1>5. IsStep(keep, A, Hits)
  BY <1>3 DEF KeepStep, IsStep
<1> HIDE DEF A, N, G, e, keep
<1>6. PICK f : Run(f, A, e, keep, s)
  BY <1>2, <1>5, RunExists
<1>7. P(f)
  <2>1. f[0] = e /\ f = [n \in 0 .. N |-> f[n]] BY <1>6 DEF Run, N
  <2>2. ASSUME NEW n \in 0 .. N, n # 0 PROVE f[n] = G(f[n - 1], s[n])
    <3>1. n \in 1 .. N /\ f[n - 1] \in A /\ s[n] \in Hits BY <1>2, <1>6, <2>2 DEF Run, N
    <3> QED BY <1>4, <1>6, <3>1 DEF Run, N
  <2>3. F(f) = [n \in 0 .. N |-> IF n = 0 THEN e ELSE G(f[n - 1], s[n])] BY DEF e, N
  <2> QED BY <2>1, <2>2, <2>3
<1> DEFINE g == CHOOSE h : P(h)
<1>8. P(g)
  <2> HIDE DEF P
  <2> QED BY <1>7, Zenon
<1> HIDE DEF g
<1>9. Steps(g, A, e, keep, s)
  <2>1. g = [n \in 0 .. N |-> IF n = 0 THEN e ELSE G(g[n - 1], s[n])]
    BY <1>8 DEF e, N
  <2> HIDE DEF P, F
  <2>2. g[0] = e /\ \A n \in 1 .. N : g[n] = G(g[n - 1], s[n])
    BY <1>2, <2>1
  <2> QED BY <1>2, <1>4, <2>2 DEF Steps, N
<1>10. g[N] = Folded(A, e, keep, s)
  BY <1>2, <1>5, <1>9, FoldedBy DEF N
<1> QED BY <1>1, <1>10 DEF g, e, A, keep

LEMMA UniqueFacts ==
    /\ Unique(<<>>) = <<>>
    /\ \A s \in Seq(Hits) : Unique(s) \in Seq(Hits)
    /\ \A s \in Seq(Hits), x \in Hits : Unique(Append(s, x)) = KeepUnlike(Unique(s), x)
<1> DEFINE keep == KeepStep
           A == Seq(Hits)
           e == <<>>
           O(s) == Folded(A, e, keep, s)
<1>1. IsStep(keep, A, Hits) /\ e \in A
  <2>1. ASSUME NEW x \in Seq(Hits), NEW y \in Hits PROVE KeepUnlike(x, y) \in Seq(Hits)
    BY DEF KeepUnlike
  <2> QED BY <2>1 DEF IsStep, KeepStep
<1>2. \A s \in Seq(Hits) : Unique(s) = O(s)
  BY UniqueIsFolded
<1>3. <<>> \in Seq(Hits) /\ \A s \in Seq(Hits), x \in Hits : Append(s, x) \in Seq(Hits)
  OBVIOUS
<1>4. ASSUME NEW y \in A, NEW x \in Hits PROVE keep[<<y, x>>] = KeepUnlike(y, x)
  BY DEF KeepStep
<1> HIDE DEF keep, A, e
<1>5. /\ O(<<>>) = e
      /\ \A s \in Seq(Hits) : O(s) \in A
      /\ \A s \in Seq(Hits), x \in Hits : O(Append(s, x)) = keep[<<O(s), x>>]
  BY <1>1, FoldedFacts
<1> HIDE DEF O
<1>6. ASSUME NEW s \in Seq(Hits), NEW x \in Hits PROVE Unique(Append(s, x)) = KeepUnlike(Unique(s), x)
  <2>1. Append(s, x) \in Seq(Hits) /\ O(s) \in A /\ O(Append(s, x)) = keep[<<O(s), x>>]
    BY <1>3, <1>5
  <2> QED BY <1>2, <1>4, <2>1
<1>7. Unique(<<>>) = <<>>
  BY <1>2, <1>3, <1>5 DEF e
<1>8. \A s \in Seq(Hits) : Unique(s) \in Seq(Hits)
  BY <1>2, <1>5 DEF A
<1> QED BY <1>6, <1>7, <1>8

LEMMA UniqueOfAppend ==
    ASSUME NEW s \in Seq(Hits), NEW x \in Hits
    PROVE  Unique(Append(s, x)) = KeepUnlike(Unique(s), x)
<1>1. \A r \in Seq(Hits), y \in Hits : Unique(Append(r, y)) = KeepUnlike(Unique(r), y)
  BY UniqueFacts
<1> QED BY <1>1, Zenon

\* No two hits that are kept are similar.
Unlike(u) == \A i, j \in 1 .. Len(u) : i # j => ~Similar(u[i].text, u[j].text)

\* Each hit is kept, or is similar to one before it that is.
Covered(s, u) ==
    \A i \in 1 .. Len(s) : \E j \in 1 .. i :
        s[j] \in ToSet(u) /\ (j = i \/ Similar(s[i].text, s[j].text))

LEMMA UniqueKeeps ==
    \A s \in Seq(Hits) :
        Unlike(Unique(s)) /\ Covered(s, Unique(s)) /\ ToSet(Unique(s)) \subseteq ToSet(s)
<1> DEFINE P(s) == Unlike(Unique(s)) /\ Covered(s, Unique(s)) /\ ToSet(Unique(s)) \subseteq ToSet(s)
           G == {s \in Seq(Hits) : P(s)}
<1>1. <<>> \in G
  <2>1. Unique(<<>>) = <<>> /\ Len(<<>>) = 0 /\ <<>> \in Seq(Hits)
    BY UniqueFacts
  <2> QED BY <2>1 DEF Unlike, Covered
<1>2. ASSUME NEW s \in Seq(Hits), NEW x \in Hits, s \in G PROVE Append(s, x) \in G
  <2> DEFINE t == Append(s, x)
             u == Unique(s)
             n == Len(s)
  <2>1. t \in Seq(Hits) /\ n \in Nat /\ Len(t) = n + 1 /\ t[n + 1] = x /\ \A i \in 1 .. n : t[i] = s[i]
    OBVIOUS
  <2>2. u \in Seq(Hits) /\ Unlike(u) /\ Covered(s, u) /\ ToSet(u) \subseteq ToSet(s)
    BY <1>2, UniqueFacts
  <2>3. Unique(t) = KeepUnlike(u, x)
    BY UniqueOfAppend
  <2>4. ToSet(t) = ToSet(s) \cup {x}
    BY ToSetFacts
  <2> HIDE DEF t, u, n
  <2>5. ASSUME NEW v, ToSet(u) \subseteq ToSet(v),
               \E j \in 1 .. n + 1 : t[j] \in ToSet(v) /\ (j = n + 1 \/ Similar(x.text, t[j].text))
        PROVE  Covered(t, v)
    <3>1. ASSUME NEW i \in 1 .. n
          PROVE  \E j \in 1 .. i : t[j] \in ToSet(v) /\ (j = i \/ Similar(t[i].text, t[j].text))
      <4>1. PICK j \in 1 .. i : s[j] \in ToSet(u) /\ (j = i \/ Similar(s[i].text, s[j].text))
        BY <2>2 DEF Covered, n
      <4>2. t[j] = s[j] /\ t[i] = s[i]
        BY <2>1
      <4> QED BY <2>5, <4>1, <4>2
    <3>2. \A i \in 1 .. n + 1 : i \in 1 .. n \/ i = n + 1
      BY <2>1
    <3> QED BY <2>1, <2>5, <3>1, <3>2 DEF Covered
  <2>6. ASSUME \E k \in ToSet(u) : Similar(x.text, k.text) PROVE P(t)
    <3>1. Unique(t) = u
      BY <2>3, <2>6 DEF KeepUnlike
    <3>2. PICK k \in ToSet(u) : Similar(x.text, k.text)
      BY <2>6
    <3>3. PICK j \in 1 .. n : s[j] = k
      BY <2>2, <3>2 DEF ToSet, n
    <3>4. j \in 1 .. n + 1 /\ t[j] = k
      BY <2>1, <3>3
    <3>5. Covered(t, u)
      BY <2>5, <3>2, <3>4
    <3>6. ToSet(u) \subseteq ToSet(t)
      BY <2>2, <2>4
    <3> QED BY <2>2, <3>1, <3>5, <3>6
  <2>7. ASSUME ~\E k \in ToSet(u) : Similar(x.text, k.text) PROVE P(t)
    <3> DEFINE v == Append(u, x)
    <3>1. Unique(t) = v
      BY <2>3, <2>7 DEF KeepUnlike
    <3>2. ToSet(v) = ToSet(u) \cup {x}
      BY <2>2, ToSetFacts
    <3>3. /\ v \in Seq(Hits) /\ Len(u) \in Nat /\ Len(v) = Len(u) + 1 /\ v[Len(u) + 1] = x
          /\ \A i \in 1 .. Len(u) : v[i] = u[i] /\ u[i] \in Hits /\ u[i] \in ToSet(u)
      BY <2>2 DEF ToSet
    <3> HIDE DEF v
    <3>4. n + 1 \in 1 .. n + 1 /\ t[n + 1] \in ToSet(v)
      BY <2>1, <3>2
    <3>5. Covered(t, v)
      BY <2>5, <3>2, <3>4
    <3>6. \A i \in 1 .. Len(u) : ~Similar(x.text, u[i].text) /\ ~Similar(u[i].text, x.text)
      BY <2>7, <3>3, HitsAssumption
    <3>7. \A i \in 1 .. Len(u) + 1 : i \in 1 .. Len(u) \/ i = Len(u) + 1
      BY <3>3
    <3>8. Unlike(v)
      BY <2>2, <3>3, <3>6, <3>7 DEF Unlike
    <3>9. ToSet(v) \subseteq ToSet(t)
      BY <2>2, <2>4, <3>2
    <3> QED BY <3>1, <3>5, <3>8, <3>9
  <2>8. t \in G
    BY <2>1, <2>6, <2>7
  <2> QED BY <2>8 DEF t
<1> HIDE DEF G
<1>3. Seq(Hits) \subseteq G
  BY <1>1, <1>2, SeqInduct
<1> QED BY <1>3 DEF G

RankedHit == [hit : Hits, score : Int]

LEMMA RankedHitsHaveScores == HasScores(RankedHit)
BY DEF HasScores, RankedHit

LEMMA ScoredFacts ==
    ASSUME NEW s \in Seq(Hits)
    PROVE  /\ Scored(s) \in Seq(RankedHit) /\ Len(Scored(s)) = Len(Unique(s))
           /\ \A i \in 1 .. Len(Unique(s)) : Scored(s)[i].hit = Unique(s)[i]
           /\ {m.hit : m \in ToSet(Scored(s))} = ToSet(Unique(s))
<1> DEFINE kept == Unique(s)
           r == [i \in DOMAIN kept |-> [hit |-> kept[i], score |-> Relevance(kept[i])]]
<1>1. Scored(s) = r
  BY DEF Scored
<1>2. kept \in Seq(Hits)
  BY UniqueFacts
<1> HIDE DEF kept
<1>3. DOMAIN kept = 1 .. Len(kept) /\ Len(kept) \in Nat /\ \A i \in 1 .. Len(kept) : kept[i] \in Hits
  BY <1>2
<1>4. \A h \in Hits : Relevance(h) \in Int
  <2>1. \A h \in Hits : h.match \in Nat /\ h.importance \in Nat /\ h.fresh \in Nat
    BY HitsAssumption
  <2>2. \A a, b, d \in Nat : 6 * a + 2 * (10 * (b - 1)) + 2 * d \in Int
    OBVIOUS
  <2> QED BY <2>1, <2>2 DEF Relevance
<1>5. \A i \in 1 .. Len(kept) : [hit |-> kept[i], score |-> Relevance(kept[i])] \in RankedHit
  BY <1>3, <1>4 DEF RankedHit
<1>6. r \in Seq(RankedHit) /\ Len(r) = Len(kept) /\ DOMAIN r = 1 .. Len(kept)
  BY <1>3, <1>5
<1>7. \A i \in 1 .. Len(kept) : r[i].hit = kept[i]
  BY <1>3
<1> HIDE DEF r
<1>8. {m.hit : m \in ToSet(r)} = ToSet(kept)
  BY <1>3, <1>6, <1>7 DEF ToSet
<1> QED BY <1>1, <1>6, <1>7, <1>8 DEF kept

\* What is ranked: what the first three conjuncts of BestMemoriesInjected say of it.
RankedWell(found, r) ==
    /\ \A i, j \in DOMAIN r : i # j => ~Similar(r[i].hit.text, r[j].hit.text)
    /\ BestOf(r, Scored(found), MinRelevance, RankLimit)
    /\ \A i \in DOMAIN found : \E j \in 1 .. i :
          /\ found[j] \in {m.hit : m \in ToSet(Scored(found))}
          /\ j = i \/ Similar(found[i].text, found[j].text)

\* Any number of the first of the sorted hits are unlike.
LEMMA FirstUnlike ==
    ASSUME NEW s \in Seq(Hits), NEW m \in Nat, m <= Len(Scored(s)), NEW r, IsFirst(r, ByScore(Scored(s)), m),
           r \in Seq(RankedHit)
    PROVE  \A i, j \in DOMAIN r : i # j => ~Similar(r[i].hit.text, r[j].hit.text)
<1> DEFINE c == Scored(s)
           u == ByScore(c)
<1>1. /\ c \in Seq(RankedHit) /\ Len(c) = Len(Unique(s))
      /\ \A i \in 1 .. Len(Unique(s)) : c[i].hit = Unique(s)[i]
  BY ScoredFacts
<1>2. Unlike(Unique(s))
  BY UniqueKeeps
<1>3. InPlaces(u, c)
  BY <1>1, RankedHitsHaveScores, Sorted
<1>4. DOMAIN r = 1 .. m /\ \A k \in 1 .. m : r[k] = u[k] /\ k \in 1 .. Len(c)
  BY DEF IsFirst
<1> HIDE DEF c
<1>5. ASSUME NEW k \in 1 .. Len(c) PROVE \E i \in 1 .. Len(c) : Pos(c, i) = k /\ u[k] = c[i]
  <2>1. PICK i \in 1 .. Len(c) : Pos(c, i) = k
    BY <1>1, RankedHitsHaveScores, PosOnto
  <2> QED BY <1>3, <2>1 DEF InPlaces
<1> HIDE DEF u
<1>6. ASSUME NEW i \in 1 .. m, NEW j \in 1 .. m, i # j
      PROVE  ~Similar(r[i].hit.text, r[j].hit.text)
  <2>1. PICK p \in 1 .. Len(c) : Pos(c, p) = i /\ u[i] = c[p]
    BY <1>4, <1>5
  <2>2. PICK q \in 1 .. Len(c) : Pos(c, q) = j /\ u[j] = c[q]
    BY <1>4, <1>5
  <2>3. p # q
    BY <1>6, <2>1, <2>2
  <2>4. ~Similar(Unique(s)[p].text, Unique(s)[q].text)
    BY <1>1, <1>2, <2>3 DEF Unlike
  <2> QED BY <1>1, <1>4, <2>1, <2>2, <2>4
<1> QED BY <1>4, <1>6

LEMMA RankWell ==
    ASSUME NEW found \in Seq(Hits)
    PROVE  RankedWell(found, Rank(found)) /\ Rank(found) \in Seq(RankedHit)
<1> DEFINE c == Scored(found)
           r == Rank(found)
<1>1. c \in Seq(RankedHit) /\ {m.hit : m \in ToSet(c)} = ToSet(Unique(found))
  BY ScoredFacts
<1>2. r = AtLeast(Cut(ByScore(c), RankLimit), MinRelevance)
  BY DEF Rank
<1> HIDE DEF r
<1>3. /\ BestOf(r, c, MinRelevance, RankLimit) /\ r \in Seq(RankedHit)
      /\ \E m \in Nat : m <= Len(c) /\ IsFirst(r, ByScore(c), m)
  <2> HIDE DEF c
  <2> QED BY <1>1, <1>2, RankedHitsHaveScores, RankAssumption, BestCutTaken
<1>4. \A i, j \in DOMAIN r : i # j => ~Similar(r[i].hit.text, r[j].hit.text)
  <2>1. PICK m \in Nat : m <= Len(c) /\ IsFirst(r, ByScore(c), m)
    BY <1>3
  <2> QED BY <1>3, <2>1, FirstUnlike
<1>5. Covered(found, Unique(found)) /\ DOMAIN found = 1 .. Len(found)
  BY UniqueKeeps
<1>6. \A i \in DOMAIN found : \E j \in 1 .. i :
          /\ found[j] \in {m.hit : m \in ToSet(c)}
          /\ j = i \/ Similar(found[i].text, found[j].text)
  <2> HIDE DEF c
  <2> QED BY <1>1, <1>5 DEF Covered
<1> QED BY <1>3, <1>4, <1>6 DEF RankedWell, r, c

-----------------------------------------------------------------------------
(* MemoryInjector.inject *)

\* As many as fit.
FitsWell(r, n) ==
    /\ n \in 0 .. Len(r)
    /\ n > 0 => InBudget(r, n)
    /\ n < Len(r) => ~InBudget(r, n + 1)

LEMMA FittingWell ==
    ASSUME NEW T, NEW r \in Seq(T)
    PROVE  FitsWell(r, Fitting(r))
<1> DEFINE F == {0} \cup {n \in DOMAIN r : InBudget(r, n)}
<1>1. DOMAIN r = 1 .. Len(r) /\ Len(r) \in Nat
  OBVIOUS
<1>2. F \subseteq 0 .. Len(r) /\ F # {}
  BY <1>1
<1>3. \A n \in 1 .. Len(r) : n \in F <=> InBudget(r, n)
  BY <1>1
<1>4. Fitting(r) = Max(F)
  BY DEF Fitting
<1> HIDE DEF F
<1> DEFINE n == Max(F)
<1>5. n \in F /\ \A x \in F : x <= n
  BY <1>1, <1>2, GreatestOf
<1> HIDE DEF n
<1>6. n \in 0 .. Len(r)
  BY <1>2, <1>5
<1>7. n > 0 => InBudget(r, n)
  BY <1>1, <1>3, <1>5, <1>6
<1>8. n < Len(r) => ~InBudget(r, n + 1)
  <2>1. ASSUME n < Len(r), InBudget(r, n + 1) PROVE FALSE
    <3>1. n + 1 \in 1 .. Len(r)
      BY <1>1, <1>6, <2>1
    <3>2. n + 1 <= n
      BY <1>3, <1>5, <2>1, <3>1
    <3> QED BY <1>6, <3>2
  <2> QED BY <2>1
<1> QED BY <1>4, <1>6, <1>7, <1>8 DEF FitsWell, n

Message == [role : {"system", "user", "assistant"}, text : Seq(Parts \cup {Memories})]

IsConversation(messages) ==
    /\ messages \in Seq(Message)
    /\ \A i \in 1 .. Len(messages) : messages[i].role = "system" => i = 1

\* The caller's messages are passed on, with one system message at most.
PassedOn(messages, p) ==
    /\ IsSuffix(Only(messages, {m \in ToSet(messages) : m.role # "system"}), p)
    /\ Cardinality({i \in DOMAIN p : p[i].role = "system"}) <= 1

LEMMA FirstIsOne ==
    ASSUME NEW S, S \subseteq {1}
    PROVE  Cardinality(S) <= 1
<1>1. S = {} \/ S = {1}
  OBVIOUS
<1>2. CASE S = {}
  BY <1>2, FS_EmptySet
<1>3. CASE S = {1}
  BY <1>3, FS_Singleton
<1> QED BY <1>1, <1>2, <1>3

LEMMA AugmentedWell ==
    ASSUME NEW messages, IsConversation(messages), NEW n \in Nat
    PROVE  PassedOn(messages, Augmented(messages, n))
<1> DEFINE S == {m \in ToSet(messages) : m.role # "system"}
           c == messages
           o == Only(messages, S)
           N == Len(messages)
<1>1. /\ c \in Seq(Message) /\ N \in Nat /\ DOMAIN c = 1 .. N
      /\ \A i \in 1 .. N : c[i] \in Message /\ (c[i] \in S <=> c[i].role # "system")
      /\ \A i \in 2 .. N : c[i].role # "system" /\ c[i] \in S
  <2>1. c \in Seq(Message) /\ N \in Nat /\ DOMAIN c = 1 .. N /\ \A i \in 1 .. N : c[i] \in Message
    BY DEF IsConversation
  <2>2. \A i \in 1 .. N : c[i] \in S <=> c[i].role # "system"
    BY <2>1 DEF ToSet
  <2>3. \A i \in 2 .. N : i \in 1 .. N /\ c[i].role # "system"
    BY <2>1 DEF IsConversation
  <2> QED BY <2>1, <2>2, <2>3
<1> HIDE DEF S, o, N
<1>2. o = c \/ (c # <<>> /\ c[1] \notin S /\ o = Tail(c))
  BY <1>1, OnlyAfterFirst DEF o, N
<1>3. o \in Seq(Message)
  BY <1>1, <1>2
<1> DEFINE a == Augmented(c, n)
           m == IF c # <<>> /\ c[1].role = "system" THEN [c[1] EXCEPT !.text = Append(@, Memories)]
                ELSE [role |-> "system", text |-> <<Memories>>]
           rest == IF c # <<>> /\ c[1].role = "system" THEN Tail(c) ELSE c
<1>4. a = IF n = 0 THEN c ELSE <<m>> \o rest
  BY DEF Augmented
<1>5. m \in Message /\ m.role = "system"
  <2>1. CASE c # <<>> /\ c[1].role = "system"
    <3>1. c[1] \in Message
      BY <1>1, <2>1
    <3>2. c[1].text \in Seq(Parts \cup {Memories})
      BY <3>1 DEF Message
    <3>3. Append(c[1].text, Memories) \in Seq(Parts \cup {Memories})
      BY <3>2
    <3> QED BY <2>1, <3>1, <3>3 DEF Message
  <2>2. CASE ~(c # <<>> /\ c[1].role = "system")
    <3>1. <<Memories>> \in Seq(Parts \cup {Memories})
      OBVIOUS
    <3> QED BY <2>2, <3>1 DEF Message
  <2> QED BY <2>1, <2>2
<1>6. /\ rest \in Seq(Message) /\ \A i \in 1 .. Len(rest) : rest[i].role # "system"
      /\ o = rest
  <2>1. CASE c # <<>> /\ c[1].role = "system"
    <3>1. N >= 1 /\ c[1] \notin S
      BY <1>1, <2>1 DEF N
    <3>2. Tail(c) \in Seq(Message) /\ Len(Tail(c)) = N - 1 /\ \A i \in 1 .. N - 1 : Tail(c)[i] = c[i + 1]
      BY <1>1, <2>1 DEF N
    <3>3. \A i \in 1 .. N - 1 : i + 1 \in 2 .. N
      BY <1>1
    <3>4. o # c
      <4>1. ToSet(o) = ToSet(c) \cap S
        BY <1>1, OnlyElements DEF o
      <4>2. c[1] \in ToSet(c)
        BY <1>1, <3>1 DEF ToSet
      <4> QED BY <3>1, <4>1, <4>2
    <3>5. rest = Tail(c) /\ o = Tail(c)
      BY <1>2, <2>1, <3>4
    <3> QED BY <1>1, <3>2, <3>3, <3>5
  <2>2. CASE ~(c # <<>> /\ c[1].role = "system")
    <3>1. rest = c
      BY <2>2
    <3>2. \A i \in 1 .. N : c[i].role # "system"
      <4>1. \A i \in 1 .. N : c # <<>> /\ (i = 1 \/ i \in 2 .. N)
        BY <1>1 DEF N
      <4> QED BY <1>1, <2>2, <4>1
    <3>3. o = c
      <4>1. c # <<>> => 1 \in 1 .. N
        BY <1>1 DEF N
      <4> QED BY <1>1, <1>2, <3>2, <4>1
    <3> QED BY <1>1, <3>1, <3>2, <3>3 DEF N
  <2> QED BY <2>1, <2>2
<1> HIDE DEF a, m, rest
<1>7. CASE n = 0
  <2>1. a = c
    BY <1>4, <1>7
  <2>2. Trails(o, c)
    <3>1. CASE o = c
      BY <1>1, <3>1 DEF Trails
    <3>2. CASE c # <<>> /\ o = Tail(c)
      <4>1. Len(o) = Len(c) - 1 /\ Len(c) \in Nat /\ Len(c) >= 1 /\ \A i \in 1 .. Len(c) - 1 : o[i] = c[i + 1]
        BY <1>1, <3>2
      <4>2. ASSUME NEW k \in 0 .. Len(o) - 1 PROVE o[Len(o) - k] = c[Len(c) - k]
        <5>1. Len(o) - k \in 1 .. Len(c) - 1 /\ (Len(o) - k) + 1 = Len(c) - k
          BY <4>1
        <5> QED BY <4>1, <5>1
      <4> QED BY <4>1, <4>2 DEF Trails
    <3> QED BY <1>2, <3>1, <3>2
  <2>3. IsSuffix(o, a)
    BY <1>1, <1>3, <2>1, <2>2, TrailsIsSuffix
  <2>4. {i \in DOMAIN a : a[i].role = "system"} \subseteq {1}
    BY <1>1, <2>1
  <2> QED BY <2>3, <2>4, FirstIsOne DEF PassedOn, o, S, a
<1>8. CASE n # 0
  <2>1. a = <<m>> \o rest
    BY <1>4, <1>8
  <2>2. /\ a \in Seq(Message) /\ Len(a) = Len(rest) + 1 /\ a[1] = m /\ Len(rest) \in Nat
        /\ \A i \in 2 .. Len(rest) + 1 : a[i] = rest[i - 1]
    BY <1>5, <1>6, <2>1
  <2>3. ASSUME NEW k \in 0 .. Len(rest) - 1 PROVE rest[Len(rest) - k] = a[Len(a) - k]
    <3>1. Len(a) - k \in 2 .. Len(rest) + 1 /\ (Len(a) - k) - 1 = Len(rest) - k
      BY <2>2
    <3> QED BY <2>2, <3>1
  <2>4. Trails(rest, a)
    BY <2>2, <2>3 DEF Trails
  <2>5. IsSuffix(o, a)
    BY <1>6, <2>2, <2>4, TrailsIsSuffix
  <2>6. {i \in DOMAIN a : a[i].role = "system"} \subseteq {1}
    <3>1. DOMAIN a = 1 .. Len(rest) + 1 /\ \A i \in 1 .. Len(rest) + 1 : i = 1 \/ (i \in 2 .. Len(rest) + 1 /\ i - 1 \in 1 .. Len(rest))
      BY <2>2
    <3> QED BY <1>6, <2>2, <3>1
  <2> QED BY <2>5, <2>6, FirstIsOne DEF PassedOn, o, S, a
<1> QED BY <1>7, <1>8

-----------------------------------------------------------------------------
(* RAGPipeline.run *)

RagInv ==
    /\ IsConversation(given)
    /\ stage = "search" => hits = <<>> /\ ranked = <<>> /\ injected = 0
    /\ stage # "search" => RankedWell(hits, ranked) /\ FitsWell(ranked, injected) /\ PassedOn(given, prompt)

LEMMA CallersConverse == \A messages \in Conversations : IsConversation(messages)
<1> TAKE messages \in Conversations
<1> DEFINE M == [role : {"system", "user", "assistant"}, text : Seq(Parts)]
<1>0. M \subseteq Message
  <2>1. \A t \in Seq(Parts) : t \in Seq(Parts \cup {Memories})
    BY SeqSubset
  <2> QED BY <2>1 DEF Message
<1>1. /\ messages \in Seq(Message)
      /\ \A i \in DOMAIN messages : messages[i].role = "system" => i = 1
  <2>1. messages \in Seq(M)
    BY ConversationsAssumption
  <2>2. \A i \in DOMAIN messages : messages[i].role = "system" => i = 1
    BY ConversationsAssumption
  <2> HIDE DEF M
  <2>3. messages \in Seq(Message)
    BY <1>0, <2>1, SeqSubset
  <2> QED BY <2>2, <2>3
<1> QED BY <1>1 DEF IsConversation

LEMMA RagInvInit == RagInit => RagInv
BY CallersConverse DEF RagInit, RagInv

LEMMA NothingFound == RankedWell(<<>>, <<>>) /\ FitsWell(<<>>, 0)
<1> DEFINE e == <<>>
<1>1. e \in Seq(Hits) /\ Len(e) = 0 /\ DOMAIN e = {}
  OBVIOUS
<1>2. Unique(e) = e
  BY UniqueFacts
<1>3. Scored(e) = e
  BY <1>1, <1>2 DEF Scored
<1>4. Reaching(e, MinRelevance) = {}
  BY <1>1 DEF Reaching
<1>5. Cardinality({}) = 0 /\ Min({RankLimit, 0}) = 0
  <2>1. {RankLimit, 0} \subseteq Nat
    BY RankAssumption
  <2>2. Min({RankLimit, 0}) \in {RankLimit, 0} /\ Min({RankLimit, 0}) <= 0
    BY <2>1, LeastIsMin
  <2> QED BY <2>1, <2>2, FS_EmptySet
<1>6. BestOf(e, e, MinRelevance, RankLimit)
  BY <1>1, <1>4, <1>5 DEF BestOf
<1> HIDE DEF e
<1> QED BY <1>1, <1>3, <1>6 DEF RankedWell, FitsWell, e

LEMMA RagInvStep == RagInv /\ [RagNext]_ragVars => RagInv'
<1> SUFFICES ASSUME RagInv, [RagNext]_ragVars PROVE RagInv'
  OBVIOUS
<1> USE DEF RagInv
<1>1. CASE Retrieve
  <2>1. PICK n \in 0 .. MaxHits : \E found \in [1 .. n -> Hits] : hits' = found /\ ranked' = Rank(found)
    BY <1>1 DEF Retrieve
  <2>2. PICK found \in [1 .. n -> Hits] : hits' = found /\ ranked' = Rank(found)
    BY <2>1
  <2>3. found \in Seq(Hits)
    OBVIOUS
  <2>4. RankedWell(hits', ranked') /\ ranked' \in Seq(RankedHit)
    BY <2>2, <2>3, RankWell
  <2>5. injected' = Fitting(ranked') /\ prompt' = Augmented(given, injected') /\ given' = given /\ stage' = "generate"
    BY <1>1 DEF Retrieve
  <2>6. FitsWell(ranked', injected')
    BY <2>4, <2>5, FittingWell
  <2>7. injected' \in Nat
    BY <2>6 DEF FitsWell
  <2>8. PassedOn(given', prompt')
    BY <2>5, <2>7, AugmentedWell
  <2> QED BY <2>4, <2>5, <2>6, <2>8
<1>2. CASE RetrieveFails
  <2>1. /\ hits' = <<>> /\ ranked' = <<>> /\ injected' = 0 /\ prompt' = given /\ given' = given
        /\ stage' = "generate"
    BY <1>2 DEF RetrieveFails
  <2>2. Augmented(given, 0) = given
    BY DEF Augmented
  <2>3. PassedOn(given, given)
    BY <2>2, AugmentedWell
  <2> QED BY <2>1, <2>3, NothingFound
<1>3. CASE Generate
  BY <1>3 DEF Generate
<1>4. CASE NextQuery
  BY <1>4, CallersConverse DEF NextQuery
<1>5. CASE UNCHANGED ragVars
  BY <1>5 DEF ragVars
<1> QED BY <1>1, <1>2, <1>3, <1>4, <1>5 DEF RagNext

\* RAGPipeline.run.
THEOREM PromptsHaveBestMemories == RagSpec => []BestMemoriesInjected
<1>1. RagInv => BestMemoriesInjected
  BY DEF RagInv, RankedWell, FitsWell, PassedOn, BestMemoriesInjected
<1> QED BY <1>1, RagInvInit, RagInvStep, PTL DEF RagSpec

-----------------------------------------------------------------------------
(* ModelRouter and ProactiveEngine *)

ActionNames == {"remember", "research", "project", "help"}

Suggestion == [source : Sources \cup ActionNames, score : Int]

LEMMA SuggestionsHaveScores == HasScores(Suggestion)
BY DEF HasScores, Suggestion

LEMMA ActionsTyped == Actions \in Seq(Suggestion)
<1> DEFINE order == <<"remember", "research", "project", "help">>
           chosen == Only(order, asked)
           A == [i \in DOMAIN chosen |-> [source |-> chosen[i], score |-> ActionScore[chosen[i]]]]
<1>1. order \in Seq(ActionNames)
  BY DEF ActionNames
<1> HIDE DEF order
<1>2. chosen \in Seq(ActionNames)
  BY <1>1, OnlyTyped
<1> HIDE DEF chosen
<1>3. \A a \in ActionNames : ActionScore[a] \in Int
  BY DEF ActionScore, ActionNames
<1>4. A \in Seq(Suggestion)
  <2>1. DOMAIN chosen = 1 .. Len(chosen) /\ Len(chosen) \in Nat /\ \A i \in 1 .. Len(chosen) : chosen[i] \in ActionNames
    BY <1>2
  <2>2. \A i \in 1 .. Len(chosen) : [source |-> chosen[i], score |-> ActionScore[chosen[i]]] \in Suggestion
    BY <1>3, <2>1 DEF Suggestion
  <2> QED BY <2>1, <2>2
<1>5. Actions = A
  BY DEF Actions, chosen, order
<1> QED BY <1>4, <1>5

Ranked(complexity, domain) ==
    [i \in DOMAIN Models |-> [model |-> Models[i], score |-> RouteScore(Models[i], complexity, domain)]]

LEMMA ModelFacts ==
    /\ DOMAIN Models = 1 .. 4
    /\ Models[1] = [model |-> "gpt-4o-mini", quality |-> 85, input |-> 150, output |-> 600,
                    latency |-> 300, capable |-> {"general", "fast"}]
    /\ Models[2] = [model |-> "gpt-4o", quality |-> 95, input |-> 5000, output |-> 15000,
                    latency |-> 800, capable |-> {"general", "code", "complex", "advanced"}]
    /\ Models[3] = [model |-> "claude-3-haiku", quality |-> 80, input |-> 250, output |-> 1250,
                    latency |-> 250, capable |-> {"general", "fast"}]
    /\ Models[4] = [model |-> "claude-3.5-sonnet", quality |-> 92, input |-> 3000, output |-> 15000,
                    latency |-> 600, capable |-> {"general", "code", "complex"}]
BY DEF Models

LEMMA RoutedTo ==
    ASSUME NEW complexity, NEW domain, NEW i \in 1 .. 4,
           \A j \in 1 .. 4 : RouteScore(Models[j], complexity, domain) \in Int,
           \A j \in 1 .. 4 : j # i =>
              RouteScore(Models[j], complexity, domain) < RouteScore(Models[i], complexity, domain)
    PROVE  Routed(complexity, domain) = Models[i]
<1> DEFINE s == Ranked(complexity, domain)
           T == [model : {Models[j] : j \in 1 .. 4}, score : Int]
<1>1. DOMAIN Models = 1 .. 4
  BY ModelFacts
<1>2. s = [j \in 1 .. 4 |-> [model |-> Models[j], score |-> RouteScore(Models[j], complexity, domain)]]
  BY <1>1 DEF Ranked
<1>3. \A j \in 1 .. 4 : [model |-> Models[j], score |-> RouteScore(Models[j], complexity, domain)] \in T
  OBVIOUS
<1>4. HasScores(T)
  BY DEF HasScores
<1> HIDE DEF T, s
<1>5. s \in Seq(T) /\ Len(s) = 4
  BY <1>2, <1>3
<1>6. \A j \in 1 .. 4 : s[j].score = RouteScore(Models[j], complexity, domain) /\ s[j].model = Models[j]
  BY <1>2
<1>7. \A j \in 1 .. 4 : ~Better(s, j, i)
  BY <1>6 DEF Better
<1>8. ByScore(s)[1] = s[i]
  BY <1>4, <1>5, <1>7, BestFirst
<1> QED BY <1>6, <1>8 DEF Routed, Ranked, s

LEMMA RoutesComplex ==
    ASSUME NEW domain \in {"general", "code"}
    PROVE  Routed("complex", domain) = Models[2]
<1> DEFINE R(j) == RouteScore(Models[j], "complex", domain)
           d == IF domain = "code" THEN 200 ELSE 0
           e == IF domain = "code" THEN 0 - 50 ELSE 0
<1>1. /\ "complex" \notin Models[1].capable /\ "advanced" \notin Models[1].capable /\ "code" \notin Models[1].capable
      /\ "complex" \in Models[2].capable /\ "code" \in Models[2].capable
      /\ "complex" \notin Models[3].capable /\ "advanced" \notin Models[3].capable /\ "code" \notin Models[3].capable
      /\ "complex" \in Models[4].capable /\ "code" \in Models[4].capable
  BY ModelFacts
<1>2. /\ ComplexityScore(Models[1], "complex") = 0 - 100 /\ ComplexityScore(Models[2], "complex") = 300
      /\ ComplexityScore(Models[3], "complex") = 0 - 100 /\ ComplexityScore(Models[4], "complex") = 300
  BY <1>1 DEF ComplexityScore
<1>3. /\ DomainScore(Models[1], domain) = e /\ DomainScore(Models[2], domain) = d
      /\ DomainScore(Models[3], domain) = e /\ DomainScore(Models[4], domain) = d
  BY <1>1 DEF DomainScore
<1>4. R(1) = 390 + e /\ R(2) = 630 + d /\ R(3) = 270 + e /\ R(4) = 618 + d
  BY <1>2, <1>3, ModelFacts DEF RouteScore
<1>5. \A j \in 1 .. 4 : R(j) \in Int /\ (j # 2 => R(j) < R(2))
  BY <1>4
<1> QED BY <1>5, RoutedTo

LEMMA RoutesSimple ==
    ASSUME NEW domain \in {"general", "code"}
    PROVE  Routed("simple", domain) = Models[1]
<1> DEFINE R(j) == RouteScore(Models[j], "simple", domain)
           d == IF domain = "code" THEN 200 ELSE 0
           e == IF domain = "code" THEN 0 - 50 ELSE 0
<1>1. /\ "fast" \in Models[1].capable /\ "code" \notin Models[1].capable
      /\ "fast" \notin Models[2].capable /\ "code" \in Models[2].capable
      /\ "fast" \in Models[3].capable /\ "code" \notin Models[3].capable
      /\ "fast" \notin Models[4].capable /\ "code" \in Models[4].capable
  BY ModelFacts
<1>2. /\ ComplexityScore(Models[1], "simple") = 200 /\ ComplexityScore(Models[2], "simple") = 100
      /\ ComplexityScore(Models[3], "simple") = 200 /\ ComplexityScore(Models[4], "simple") = 100
  BY <1>1 DEF ComplexityScore
<1>3. /\ DomainScore(Models[1], domain) = e /\ DomainScore(Models[2], domain) = d
      /\ DomainScore(Models[3], domain) = e /\ DomainScore(Models[4], domain) = d
  BY <1>1 DEF DomainScore
<1>4. R(1) = 690 + e /\ R(2) = 430 + d /\ R(3) = 570 + e /\ R(4) = 418 + d
  BY <1>2, <1>3, ModelFacts DEF RouteScore
<1>5. \A j \in 1 .. 4 : R(j) \in Int /\ (j # 1 => R(j) < R(1))
  BY <1>4
<1> QED BY <1>5, RoutedTo

LEMMA RoutesMedium == Routed("medium", "code") = Models[2]
<1> DEFINE R(j) == RouteScore(Models[j], "medium", "code")
<1>1. /\ "code" \notin Models[1].capable /\ "code" \in Models[2].capable
      /\ "code" \notin Models[3].capable /\ "code" \in Models[4].capable
  BY ModelFacts
<1>2. \A j \in 1 .. 4 : ComplexityScore(Models[j], "medium") = 0
  BY DEF ComplexityScore
<1>3. /\ DomainScore(Models[1], "code") = 0 - 50 /\ DomainScore(Models[2], "code") = 200
      /\ DomainScore(Models[3], "code") = 0 - 50 /\ DomainScore(Models[4], "code") = 200
  BY <1>1 DEF DomainScore
<1>4. R(1) = 440 /\ R(2) = 530 /\ R(3) = 320 /\ R(4) = 518
  BY <1>2, <1>3, ModelFacts DEF RouteScore
<1>5. \A j \in 1 .. 4 : R(j) \in Int /\ (j # 2 => R(j) < R(2))
  BY <1>4
<1> QED BY <1>5, RoutedTo

\* The models are fit for what they are chosen for.
Fit ==
    \A domain \in {"general", "code"} :
        /\ Routed("complex", domain).capable \cap {"complex", "advanced"} # {}
        /\ "fast" \in Routed("simple", domain).capable
        /\ "code" \in Routed("medium", "code").capable \cap Routed("complex", "code").capable

LEMMA RoutesFit == Fit
<1>1. /\ "complex" \in Models[2].capable /\ "code" \in Models[2].capable /\ "fast" \in Models[1].capable
  BY ModelFacts
<1>2. \A domain \in {"general", "code"} : Routed("complex", domain) = Models[2] /\ Routed("simple", domain) = Models[1]
  BY RoutesComplex, RoutesSimple
<1>3. "code" \in {"general", "code"}
  OBVIOUS
<1> QED BY <1>1, <1>2, <1>3, RoutesMedium DEF Fit

-----------------------------------------------------------------------------
All == fromMemory \o fromGraph \o Actions

Chosen == BestOf(suggestions, All, LeastRelevance, SuggestionLimit)

SuggestionsInv ==
    /\ fromMemory \in Seq(Suggestion) /\ fromGraph \in Seq(Suggestion)
    /\ step = "done" => Chosen

LEMMA SuggestionsInvInit == SuggestionsInit => SuggestionsInv
BY DEF SuggestionsInit, SuggestionsInv

LEMMA OfferedBest ==
    ASSUME NEW all \in Seq(Suggestion)
    PROVE  BestOf(Offered(all), all, LeastRelevance, SuggestionLimit)
  BY OfferAssumption, SuggestionsHaveScores, BestTaken DEF Offered

LEMMA SuggestionsInvStep == SuggestionsInv /\ [SuggestionsNext]_suggestionVars => SuggestionsInv'
<1> SUFFICES ASSUME SuggestionsInv, [SuggestionsNext]_suggestionVars PROVE SuggestionsInv'
  OBVIOUS
<1> USE DEF SuggestionsInv
<1>1. CASE AskMemory
  <2>1. PICK found \in MemoryHits :
            fromMemory' = Only(Cut(found, 3), {hit \in ToSet(found) : hit.score > 60})
    BY <1>1 DEF AskMemory
  <2>2. found \in Seq(Suggestion)
    <3> DEFINE A == [source : Sources, score : Int]
    <3>1. A \subseteq Suggestion
      BY DEF Suggestion
    <3>2. found \in Seq(A)
      BY FoundAssumption
    <3> HIDE DEF A
    <3> QED BY <3>1, <3>2, SeqSubset
  <2>3. fromMemory' \in Seq(Suggestion)
    BY <2>1, <2>2, SelectedTyped
  <2> QED BY <1>1, <2>3 DEF AskMemory
<1>2. CASE AskMemoryFails
  BY <1>2 DEF AskMemoryFails
<1>3. CASE AskGraph
  <2>1. PICK found \in Entities \cup {<<>>} :
            fromGraph' = [i \in DOMAIN Cut(found, 2) |-> [source |-> Cut(found, 2)[i], score |-> 70]]
    BY <1>3 DEF AskGraph
  <2>2. found \in Seq(Sources)
    <3>1. <<>> \in Seq(Sources)
      OBVIOUS
    <3>2. Entities \subseteq Seq(Sources)
      BY FoundAssumption
    <3> QED BY <2>1, <3>1, <3>2
  <2>3. Cut(found, 2) \in Seq(Sources)
    BY <2>2, CutFacts
  <2>4. fromGraph' \in Seq(Suggestion)
    <3> DEFINE named == Cut(found, 2)
    <3>1. DOMAIN named = 1 .. Len(named) /\ Len(named) \in Nat /\ \A i \in 1 .. Len(named) : named[i] \in Sources
      BY <2>3
    <3> HIDE DEF named
    <3>2. \A i \in 1 .. Len(named) : [source |-> named[i], score |-> 70] \in Suggestion
      BY <3>1 DEF Suggestion
    <3>3. fromGraph' = [i \in DOMAIN named |-> [source |-> named[i], score |-> 70]]
      BY <2>1, Zenon DEF named
    <3> QED BY <3>1, <3>2, <3>3
  <2>5. suggestions' = Offered(fromMemory \o fromGraph' \o Actions) /\ fromMemory' = fromMemory /\ asked' = asked
    BY <1>3 DEF AskGraph
  <2>6. Actions' = Actions
    BY <2>5 DEF Actions
  <2>7. fromMemory \o fromGraph' \o Actions \in Seq(Suggestion)
    BY <2>4, ActionsTyped
  <2>8. Chosen'
    BY <2>5, <2>6, <2>7, OfferedBest DEF Chosen, All
  <2> QED BY <2>4, <2>5, <2>8
<1>4. CASE NextMessage
  BY <1>4 DEF NextMessage
<1>5. CASE UNCHANGED <<step, asked, fromMemory, fromGraph, suggestions>>
  BY <1>5 DEF Chosen, All, Actions
<1>6. CASE Route
  BY <1>5, <1>6 DEF Route
<1>7. CASE ResetCosts
  BY <1>5, <1>7 DEF ResetCosts
<1>8. CASE UNCHANGED suggestionVars
  BY <1>5, <1>8 DEF suggestionVars
<1> QED BY <1>1, <1>2, <1>3, <1>4, <1>6, <1>7, <1>8 DEF SuggestionsNext

\* get_suggestions and route, for any results of the searches, any message and any limits:
\* the suggestions offered are the most relevant ones, and the model is fit for the task.
THEOREM SuggestionsAndRoutesBest == SuggestionsSpec => []SelectionsBest
<1>1. SuggestionsInv => SelectionsBest
  BY RoutesFit DEF SuggestionsInv, Chosen, All, Fit, SelectionsBest
<1> QED BY <1>1, SuggestionsInvInit, SuggestionsInvStep, PTL DEF SuggestionsSpec
=============================================================================
