------------------------- MODULE TorznabServer_proofs -------------------------
(***************************************************************************)
(* What holds of the scope of indexes and of the requests about them, for  *)
(* every set of definitions that is there to load, any number of handlers  *)
(* and requests, and however often the program stops and starts again.     *)
(* Then what holds of the query a request is read into and of what it is   *)
(* searched for, for every request and definition.                         *)
(***************************************************************************)
EXTENDS TorznabServer, TorznabRequest, TLAPS, WellFoundedInduction, FiniteSetTheorems

(* Every set of naturals has a least element.                              *)
LEMMA Least ==
    ASSUME NEW T \in SUBSET Nat, T # {}
    PROVE  \E x \in T : \A y \in T : x <= y
  <1> DEFINE R == OpToRel(<, Nat)
  <1>1. IsWellFoundedOn(R, Nat)
    BY NatLessThanWellFounded
  <1>2. \A x, y \in Nat : <<y, x>> \in R <=> y < x
    BY DEF OpToRel
  <1> HIDE DEF R
  <1>3. PICK x \in T : \A y \in T : <<y, x>> \notin R
    BY <1>1, WFMin
  <1>4. \A y \in T : ~(y < x)
    BY <1>2, <1>3
  <1>5. \A y \in T : x <= y
    BY <1>4
  <1> QED
    BY <1>5

(* The names of a set, each once and in order.                             *)
Sorted(list) == \A i, j \in DOMAIN list : i < j => Before(list[i], list[j])

Lists(set) == {list \in [1 .. Cardinality(set) -> set] : Sorted(list)}

(* Every set of names can be listed in order.                              *)
LEMMA CanBeListed ==
    ASSUME NEW set, Names \in Seq(Range(Names)), set \subseteq Range(Names)
    PROVE  IsFiniteSet(set) /\ Lists(set) # {}
  <1> DEFINE n == Len(Names)
             First(m) == {name \in set : \E i \in 1 .. m : Names[i] = name}
             Listed(m) == IsFiniteSet(First(m)) /\ Lists(First(m)) # {}
             Bad == {m \in 0 .. n : ~Listed(m)}
  <1>1. n \in Nat /\ DOMAIN Names = 1 .. n /\ Range(Names) = {Names[i] : i \in 1 .. n}
    BY DEF Range
  <1>2. First(n) = set
    BY <1>1
  <1>3. Listed(0)
    <2>1. First(0) = {}
      OBVIOUS
    <2>2. IsFiniteSet({}) /\ Cardinality({}) = 0
      BY FS_EmptySet
    <2>3. <<>> \in [1 .. 0 -> {}] /\ Sorted(<<>>)
      BY DEF Sorted
    <2>4. <<>> \in Lists({})
      BY <2>2, <2>3 DEF Lists
    <2> QED
      BY <2>1, <2>2, <2>4
  <1>4. ASSUME NEW m \in 1 .. n, Listed(m - 1)
        PROVE  Listed(m)
    <2> DEFINE S == First(m - 1)
               name == Names[m]
    <2>1. CASE name \notin set \/ name \in S
      <3>1. First(m) = S
        BY <1>1, <2>1
      <3> QED
        BY <1>4, <3>1
    <2>2. CASE name \in set /\ name \notin S
      <3>0. \A i \in 1 .. m : i = m \/ i \in 1 .. m - 1
        OBVIOUS
      <3>1. First(m) = S \cup {name}
        <4>1. First(m) \subseteq S \cup {name}
          BY <3>0
        <4>2. S \cup {name} \subseteq First(m)
          BY <1>1, <2>2
        <4> QED
          BY <4>1, <4>2
      <3>2. \A s \in S : Before(s, name)
        <4> SUFFICES ASSUME NEW i \in 1 .. m - 1 PROVE Before(Names[i], name)
          OBVIOUS
        <4>1. i \in DOMAIN Names /\ m \in DOMAIN Names /\ i < m
          BY <1>1
        <4> QED
          BY <4>1 DEF Before
      <3> HIDE DEF S, First, name
      <3>3. PICK list \in Lists(S) : TRUE
        BY <1>4 DEF S
      <3> DEFINE c == Cardinality(S)
                 longer == [i \in 1 .. c + 1 |-> IF i = c + 1 THEN name ELSE list[i]]
      <3>4. /\ IsFiniteSet(S \cup {name}) /\ Cardinality(S \cup {name}) = c + 1
            /\ c \in Nat
        BY <1>4, <2>2, FS_AddElement, FS_CardinalityType DEF S
      <3>5. list \in [1 .. c -> S] /\ Sorted(list)
        BY <3>3 DEF Lists
      <3> HIDE DEF c
      <3>6. longer \in [1 .. c + 1 -> S \cup {name}]
        BY <3>4, <3>5
      <3>7. Sorted(longer)
        <4> SUFFICES ASSUME NEW i \in 1 .. c + 1, NEW j \in 1 .. c + 1, i < j
                     PROVE  Before(longer[i], longer[j])
          BY DEF Sorted
        <4>1. i \in 1 .. c /\ longer[i] = list[i] /\ list[i] \in S
          BY <3>4, <3>5
        <4>2. CASE j = c + 1
          BY <3>2, <4>1, <4>2
        <4>3. CASE j # c + 1
          <5>1. j \in 1 .. c /\ longer[j] = list[j]
            BY <3>4, <4>3
          <5> QED
            BY <3>5, <4>1, <5>1 DEF Sorted
        <4> QED
          BY <4>2, <4>3
      <3>8. longer \in Lists(S \cup {name})
        BY <3>4, <3>6, <3>7 DEF Lists
      <3> QED
        BY <3>1, <3>4, <3>8
    <2> QED
      BY <2>1, <2>2
  <1> HIDE DEF Listed
  <1>5. Bad = {}
    <2> SUFFICES ASSUME Bad # {} PROVE FALSE
      OBVIOUS
    <2>1. PICK m \in Bad : \A y \in Bad : m <= y
      <3>1. Bad \in SUBSET Nat
        BY <1>1
      <3> HIDE DEF Bad
      <3> QED
        BY <3>1, Least
    <2>2. m \in 1 .. n /\ m - 1 \in 0 .. n /\ ~(m <= m - 1)
      BY <1>1, <1>3, <2>1
    <2>3. Listed(m - 1)
      BY <2>1, <2>2
    <2> QED
      BY <1>4, <2>1, <2>2, <2>3
  <1>6. n \in 0 .. n
    BY <1>1
  <1>7. Listed(n)
    BY <1>5, <1>6
  <1> QED
    BY <1>2, <1>7 DEF Listed

(* What is listed is a sequence of names.                                  *)
LEMMA ListedNames ==
    ASSUME NEW set, Names \in Seq(Range(Names)), set \subseteq Range(Names)
    PROVE  InOrder(set) \in Seq(set) /\ InOrder(set) \in Lists(set)
  <1>1. IsFiniteSet(set) /\ Lists(set) # {} /\ Cardinality(set) \in Nat
    BY CanBeListed, FS_CardinalityType
  <1>2. InOrder(set) \in Lists(set)
    <2>1. InOrder(set) = CHOOSE list \in [1 .. Cardinality(set) -> set] : Sorted(list)
      BY DEF InOrder, Sorted
    <2> QED
      BY <1>1, <2>1 DEF Lists
  <1>3. InOrder(set) \in [1 .. Cardinality(set) -> set]
    BY <1>2 DEF Lists
  <1> QED
    BY <1>1, <1>2, <1>3

-------------------------------------------------------------------------------
(* The scope. *)

IsSeq(s) == s \in Seq(Range(s))

NamesOf(runners) == [i \in DOMAIN runners |-> runners[i].name]

(* The names a text stands for.                                            *)
Wanted(key) == IF isAggregate(key) THEN Selected(key) ELSE key

(* A text that is no aggregate is one name.                                *)
KeyOK(key) == isAggregate(key) \/ key = <<key[1]>>

ListsWanted(runners, key) == IsSeq(runners) /\ NamesOf(runners) = Wanted(key)

(* What an aggregate has gathered, and what it has yet to look up.         *)
Gathers(f) ==
    /\ isAggregate(f.key)
    /\ IsSeq(f.runners) /\ f.todo \in Seq(Range(Names))
    /\ NamesOf(f.runners) \o f.todo = Selected(f.key)

FrameOK(f) ==
    /\ f = [key |-> f.key, at |-> f.at, todo |-> f.todo, runners |-> f.runners]
    /\ KeyOK(f.key)
    /\ f.at \in {"check", "create", "all", "store", "read"}
    /\ f.at = "check"  => f.runners = <<>>
    /\ f.at = "create" => ~isAggregate(f.key)
    /\ f.at = "all"    => Gathers(f)
    /\ f.at = "store"  => ListsWanted(f.runners, f.key)
    /\ f.at = "read"   => f.key \in DOMAIN indexes

(* A lookup is at most two calls deep, and then the inner one is for the   *)
(* name that the aggregate is at.                                          *)
StackOK(s) ==
    \/ s = <<>>
    \/ s = <<s[1]>> /\ FrameOK(s[1])
    \/ /\ s = <<s[1], s[2]>> /\ FrameOK(s[1]) /\ FrameOK(s[2])
       /\ s[1].at = "all" /\ s[1].todo # <<>> /\ s[2].key = <<s[1].todo[1]>>

MapOK == \A key \in DOMAIN indexes : KeyOK(key) /\ ListsWanted(indexes[key], key)

ScopeInv ==
    /\ DOMAIN lookup = Process /\ DOMAIN found = Process
    /\ MapOK
    /\ \A p \in Process : StackOK(lookup[p])

(* What a request that looks an index up is given.                         *)
IsRequest(r) == r = [op |-> r.op, at |-> r.at, id |-> r.id, answer |-> r.answer]

RequestOK(h) ==
    /\ IsRequest(request[h])
    /\ request[h].op \in {"none", "caps", "search", "status", "download", "health"}
    /\ request[h].at \in {"resolve", "lookup"} => KeyOK(request[h].id) /\ request[h].op # "health"
    /\ request[h].at = "health" => request[h].op = "health"
    /\ request[h].at # "idle" => request[h].answer = "none"
    /\ request[h].at = "lookup" =>
          IF lookup[h] = <<>>
          THEN found[h].ok => ListsWanted(found[h].runners, request[h].id)
          ELSE lookup[h][1].key = request[h].id

(* Why a request panicked.                                                 *)
Reason(h) ==
    \E key \in IF request[h].op = "health" THEN DOMAIN indexes ELSE {request[h].id} :
        isAggregate(key) /\ Selected(key) = <<>>

RequestInv ==
    /\ DOMAIN request = Handlers
    /\ \A h \in Handlers : RequestOK(h) /\ (request[h].answer = "panic" => Reason(h))

(* A health check has a check that read the variable when it had its last  *)
(* value, or such a check is to come.                                      *)
HealthOK(c) ==
    /\ c = [todo |-> c.todo, runners |-> c.runners, pos |-> c.pos, pending |-> c.pending,
            checked |-> c.checked]
    /\ c.todo \subseteq DOMAIN indexes
    /\ IsSeq(c.runners) /\ c.pos \in 0 .. Len(c.runners) /\ c.pending \in Nat
    /\ c.pos > 0 /\ c.pending = 0 => c.pos \in c.checked

HealthInv == DOMAIN health = Handlers /\ \A h \in Handlers : HealthOK(health[h])

-------------------------------------------------------------------------------
(* Facts about the texts and the lists. *)

(* A sequence is a sequence of its elements.                               *)
LEMMA SeqOfElements == ASSUME NEW S, NEW s \in Seq(S) PROVE IsSeq(s)
  <1>1. s \in [1 .. Len(s) -> S] /\ Len(s) \in Nat /\ Range(s) = {s[i] : i \in 1 .. Len(s)}
    BY DEF Range
  <1>2. s \in [1 .. Len(s) -> Range(s)]
    BY <1>1
  <1> DEFINE R == Range(s)
             n == Len(s)
  <1>3. s \in [1 .. n -> R] /\ n \in Nat
    BY <1>1, <1>2
  <1> HIDE DEF R, n
  <1>4. s \in Seq(R)
    BY <1>3
  <1> QED
    BY <1>4 DEF IsSeq, R

(* Two sequences, one after the other.                                     *)
LEMMA Concatenated ==
    ASSUME NEW S, NEW s \in Seq(S), NEW t \in Seq(S)
    PROVE  /\ s \o t \in Seq(S) /\ Len(s \o t) = Len(s) + Len(t)
           /\ \A i \in 1 .. Len(s) : (s \o t)[i] = s[i]
           /\ \A i \in 1 .. Len(t) : (s \o t)[Len(s) + i] = t[i]
  OBVIOUS

(* No text at all names an aggregate, and what is written out is a text.   *)
LEMMA KeysOK ==
    /\ \A key : IsText(key) => KeyOK(key)
    /\ \A name : KeyOK(<<name>>)
    /\ \A key : KeyOK(key) /\ ~isAggregate(key) => key = <<key[1]>> /\ key # <<>>
    /\ \A name \in Range(Names) : ~isAggregate(<<name>>)
  <1>1. ASSUME NEW key, IsText(key) PROVE KeyOK(key)
    <2>1. CASE Len(key) > 1
      BY <2>1 DEF KeyOK, isAggregate
    <2>2. CASE Len(key) = 1
      <3>1. key = [i \in 1 .. 1 |-> key[i]]
        BY <1>1, <2>2 DEF IsText
      <3>2. [i \in 1 .. 1 |-> key[i]] = <<key[1]>>
        OBVIOUS
      <3>3. key = <<key[1]>>
        BY ONLY <3>1, <3>2
      <3> QED
        BY <3>3 DEF KeyOK
    <2> QED
      BY <1>1, <2>1, <2>2 DEF IsText
  <1>2. \A name : <<name>> = <<<<name>>[1]>> /\ Len(<<name>>) = 1
    OBVIOUS
  <1>3. \A name \in Range(Names) : ~isAggregate(<<name>>)
    <2>1. \A name \in Range(Names) : <<name>> \notin Globals
      BY ScopeAssumption DEF ScopeAssumption
    <2>2. \A name : ~(Len(<<name>>) > 1)
      BY <1>2
    <2> QED
      BY <2>1, <2>2 DEF isAggregate
  <1>4. ASSUME NEW key, KeyOK(key), ~isAggregate(key)
        PROVE  key = <<key[1]>> /\ key # <<>>
    <2>1. key = <<key[1]>>
      BY <1>4 DEF KeyOK
    <2>2. <<key[1]>> # <<>>
      OBVIOUS
    <2> QED
      BY <2>1, <2>2
  <1> QED
    BY <1>1, <1>2, <1>3, <1>4 DEF KeyOK

(* What an aggregate selects is loaded, whether it has settings or not.    *)
LEMMA SelectedNames ==
    \A key : Selected(key) \in Seq(Range(Names)) /\ KeysToLoad(key) = Selected(key)
  <1> SUFFICES ASSUME NEW key
               PROVE  Selected(key) \in Seq(Range(Names)) /\ KeysToLoad(key) = Selected(key)
    OBVIOUS
  <1>1. {name \in Range(Names) : Matches(key, name) /\ GetSite(name) # "nil"}
          = {name \in Range(Names) : Matches(key, name)}
    BY DEF GetSite
  <1>2. KeysToLoad(key) = Selected(key)
    BY <1>1 DEF KeysToLoad, Selected
  <1> DEFINE set == (FileNames \cup AssetNames) \cap {name \in Range(Names) : Matches(key, name)}
  <1>3. set \subseteq Range(Names) /\ Selected(key) = InOrder(set)
    BY DEF Selected, ListAvailableIndexes
  <1> HIDE DEF set
  <1>4. InOrder(set) \in Seq(set)
    BY <1>3, ListedNames, DefinitionsAssumption DEF DefinitionsAssumption
  <1> QED
    BY <1>2, <1>3, <1>4

(* The directories of definitions do not change while the program runs.    *)
LEMMA SelectedStays ==
    ASSUME directories' = directories
    PROVE  \A key : Selected(key)' = Selected(key) /\ Wanted(key)' = Wanted(key)
  <1>1. \A key : Selected(key)' = Selected(key)
    BY DEF Selected, ListAvailableIndexes, FileNames, AssetNames, walkDirectories
  <1> QED
    BY <1>1 DEF Wanted

(* The names of what an aggregate gathers.                                 *)
LEMMA GathersOn ==
    ASSUME NEW runners, NEW more, NEW todo \in Seq(Range(Names)),
           IsSeq(runners), IsSeq(more), todo # <<>>, NamesOf(more) = <<todo[1]>>
    PROVE  /\ IsSeq(runners \o more) /\ Tail(todo) \in Seq(Range(Names))
           /\ NamesOf(runners \o more) \o Tail(todo) = NamesOf(runners) \o todo
  <1> DEFINE a == Len(runners)
             t == Len(todo)
             all == runners \o more
             S == Range(runners) \cup Range(more)
             rest == Tail(todo)
  <1>1. /\ runners \in Seq(S) /\ more \in Seq(S) /\ a \in Nat /\ t \in Nat /\ t >= 1
        /\ DOMAIN runners = 1 .. a
    BY DEF IsSeq
  <1>2. Len(more) = 1 /\ more[1].name = todo[1]
    <2>1. DOMAIN NamesOf(more) = DOMAIN more /\ DOMAIN <<todo[1]>> = 1 .. 1
      BY DEF NamesOf
    <2>2. DOMAIN more = 1 .. Len(more) /\ Len(more) \in Nat
      BY <1>1
    <2>3. Len(more) = 1
      BY <2>1, <2>2
    <2>4. NamesOf(more)[1] = more[1].name
      BY <2>2, <2>3 DEF NamesOf
    <2> QED
      BY <2>3, <2>4
  <1>3. /\ all \in Seq(S) /\ Len(all) = a + 1 /\ DOMAIN all = 1 .. a + 1
        /\ \A i \in 1 .. a : all[i] = runners[i]
        /\ all[a + 1] = more[1]
    <2>1. /\ all \in Seq(S) /\ Len(all) = a + 1
          /\ \A i \in 1 .. a : all[i] = runners[i]
          /\ \A i \in 1 .. 1 : all[a + i] = more[i]
      BY <1>1, <1>2, Concatenated
    <2>2. DOMAIN all = 1 .. Len(all)
      BY <2>1
    <2>3. 1 \in 1 .. 1
      OBVIOUS
    <2> QED
      BY <2>1, <2>2, <2>3
  <1>4. rest \in Seq(Range(Names)) /\ Len(rest) = t - 1
        /\ \A i \in 1 .. t - 1 : rest[i] = todo[i + 1]
    BY <1>1
  <1>5. IsSeq(all)
    BY <1>3, SeqOfElements
  <1> HIDE DEF S, all, rest
  <1> DEFINE left == NamesOf(all)
             right == NamesOf(runners)
             N == {all[i].name : i \in 1 .. a + 1} \cup Range(Names)
  <1>6. /\ left = [i \in 1 .. a + 1 |-> all[i].name]
        /\ right = [i \in 1 .. a |-> runners[i].name]
    BY <1>1, <1>3 DEF NamesOf
  <1>7. /\ left \in Seq(N) /\ Len(left) = a + 1 /\ right \in Seq(N) /\ Len(right) = a
        /\ todo \in Seq(N) /\ rest \in Seq(N)
        /\ \A i \in 1 .. a : left[i] = right[i]
        /\ left[a + 1] = todo[1]
    <2>1. left \in [1 .. a + 1 -> N] /\ right \in [1 .. a -> N]
      BY <1>1, <1>3, <1>6
    <2>2. \A i \in 1 .. a : left[i] = right[i]
      BY <1>1, <1>3, <1>6
    <2>3. left[a + 1] = todo[1]
      BY <1>1, <1>2, <1>3, <1>6
    <2>4. todo \in Seq(N) /\ rest \in Seq(N)
      BY <1>4
    <2>5. a \in Nat /\ a + 1 \in Nat
      BY <1>1
    <2> HIDE DEF left, right, N, a
    <2>6. left \in Seq(N) /\ Len(left) = a + 1 /\ right \in Seq(N) /\ Len(right) = a
      BY <2>1, <2>5
    <2> QED
      BY <2>2, <2>3, <2>4, <2>6
  <1> HIDE DEF left, right, N, a, t
  <1>8. /\ left \o rest \in Seq(N) /\ right \o todo \in Seq(N)
        /\ Len(left \o rest) = a + t /\ Len(right \o todo) = a + t
        /\ \A i \in 1 .. a + 1 : (left \o rest)[i] = left[i]
        /\ \A i \in 1 .. t - 1 : (left \o rest)[a + 1 + i] = rest[i]
        /\ \A i \in 1 .. a : (right \o todo)[i] = right[i]
        /\ \A i \in 1 .. t : (right \o todo)[a + i] = todo[i]
    <2>1. Len(rest) = t - 1 /\ Len(todo) = t
      BY <1>4 DEF t
    <2>2. (a + 1) + (t - 1) = a + t
      BY <1>1
    <2>3. /\ left \o rest \in Seq(N) /\ Len(left \o rest) = Len(left) + Len(rest)
          /\ \A i \in 1 .. Len(left) : (left \o rest)[i] = left[i]
          /\ \A i \in 1 .. Len(rest) : (left \o rest)[Len(left) + i] = rest[i]
      <3>1. left \in Seq(N) /\ rest \in Seq(N)
        BY <1>7
      <3> QED
        BY ONLY <3>1
    <2>4. /\ right \o todo \in Seq(N) /\ Len(right \o todo) = Len(right) + Len(todo)
          /\ \A i \in 1 .. Len(right) : (right \o todo)[i] = right[i]
          /\ \A i \in 1 .. Len(todo) : (right \o todo)[Len(right) + i] = todo[i]
      <3>1. right \in Seq(N) /\ todo \in Seq(N)
        BY <1>7
      <3> QED
        BY ONLY <3>1
    <2>5. Len(left) = a + 1 /\ Len(right) = a
      BY <1>7
    <2> QED
      BY <2>1, <2>2, <2>3, <2>4, <2>5
  <1>9. ASSUME NEW i \in 1 .. a + t PROVE (left \o rest)[i] = (right \o todo)[i]
    <2>1. CASE i <= a
      <3>1. i \in 1 .. a /\ i \in 1 .. a + 1
        BY <1>1, <2>1
      <3> QED
        BY <1>7, <1>8, <3>1
    <2>2. CASE i = a + 1
      <3>1. i \in 1 .. a + 1 /\ 1 \in 1 .. t /\ i = a + 1
        BY <1>1, <2>2
      <3>2. (right \o todo)[a + 1] = todo[1]
        BY <1>8, <3>1
      <3> QED
        BY <1>7, <1>8, <3>1, <3>2
    <2>3. CASE i > a + 1
      <3> DEFINE j == i - (a + 1)
      <3>1. j \in 1 .. t - 1 /\ i = a + 1 + j /\ i = a + (j + 1) /\ j + 1 \in 1 .. t
        BY <1>1, <2>3
      <3> HIDE DEF j
      <3>2. (left \o rest)[i] = rest[j]
        BY <1>8, <3>1
      <3>3. (right \o todo)[i] = todo[j + 1]
        BY <1>8, <3>1
      <3> QED
        BY <1>4, <3>1, <3>2, <3>3
    <2>4. i <= a \/ i = a + 1 \/ i > a + 1
      BY <1>1
    <2> QED
      BY <2>1, <2>2, <2>3, <2>4
  <1>10. left \o rest = right \o todo
    <2> DEFINE u == left \o rest
               v == right \o todo
    <2>1. u \in Seq(N) /\ v \in Seq(N) /\ Len(u) = a + t /\ Len(v) = a + t
      BY <1>8
    <2>2. \A i \in 1 .. a + t : u[i] = v[i]
      BY <1>9
    <2> HIDE DEF u, v
    <2>3. u = v
      BY <2>1, <2>2
    <2> QED
      BY <2>3 DEF u, v
  <1> QED
    BY <1>4, <1>5, <1>10 DEF all, rest, left, right

-------------------------------------------------------------------------------
(* One step of a lookup. *)

(* Stacks of one call and of two.                                          *)
LEMMA Stacks ==
    /\ \A a : Last(<<a>>) = a /\ Front(<<a>>) = <<>> /\ Append(<<>>, a) = <<a>>
    /\ \A a, b : /\ Last(<<a, b>>) = b /\ Front(<<a, b>>) = <<a>>
                 /\ Append(<<a>>, b) = <<a, b>>
  <1>1. \A a : Last(<<a>>) = a /\ Front(<<a>>) = <<>>
    BY DEF Last, Front
  <1>2. ASSUME NEW a, NEW b PROVE Last(<<a, b>>) = b /\ Front(<<a, b>>) = <<a>>
    <2>1. <<a, b>> \in Seq({a, b}) /\ Len(<<a, b>>) = 2 /\ <<a, b>>[1] = a /\ <<a, b>>[2] = b
      OBVIOUS
    <2> DEFINE u == <<a, b>>
               v == SubSeq(u, 1, 1)
    <2> HIDE DEF u
    <2>2. v \in Seq({a, b}) /\ Len(v) = 1 /\ v[1] = a
      BY <2>1 DEF u
    <2>3. Last(u) = b /\ Front(u) = v
      BY <2>1 DEF Last, Front, u
    <2> HIDE DEF v
    <2>4. v = <<a>>
      BY <2>2
    <2> QED
      BY <2>3, <2>4 DEF u
  <1>3. ASSUME NEW a, NEW b PROVE Append(<<>>, a) = <<a>> /\ Append(<<a>>, b) = <<a, b>>
    <2> DEFINE u == <<a>>
    <2>0. u \in Seq({a, b}) /\ b \in {a, b} /\ Len(u) = 1 /\ u[1] = a
      OBVIOUS
    <2> HIDE DEF u
    <2>1. PICK S : u \in Seq(S) /\ b \in S
      BY <2>0
    <2>2. PICK v : v = Append(u, b)
      OBVIOUS
    <2>3. /\ Append(u, b) \in Seq(S) /\ Len(Append(u, b)) = Len(u) + 1
          /\ \A i \in 1 .. Len(u) : Append(u, b)[i] = u[i]
          /\ Append(u, b)[Len(u) + 1] = b
      BY ONLY <2>1
    <2>4. v \in Seq(S) /\ Len(v) = Len(u) + 1 /\ v[Len(u) + 1] = b
      BY <2>2, <2>3
    <2>5. \A i \in 1 .. Len(u) : v[i] = u[i]
      BY <2>2, <2>3
    <2>6. v = <<a, b>>
      <3>1. 1 \in 1 .. Len(u) /\ Len(u) + 1 = 2
        BY <2>0
      <3>2. v[1] = a /\ v[2] = b /\ Len(v) = 2
        BY <2>0, <2>4, <2>5, <3>1
      <3>3. v = <<v[1], v[2]>>
        <4>1. v \in Seq(S) /\ Len(v) = 2
          BY <2>4, <3>2
        <4> QED
          BY ONLY <4>1
      <3> QED
        BY <3>2, <3>3
    <2>7. Append(<<>>, a) = <<a>>
      OBVIOUS
    <2> QED
      BY <2>2, <2>6, <2>7 DEF u
  <1> QED
    BY <1>1, <1>2, <1>3

(* The first of some elements is one of them.                              *)
LEMMA FirstElement ==
    ASSUME NEW S, NEW s \in Seq(S), s # <<>> PROVE s[1] \in S
  <1>1. Len(s) \in Nat /\ Len(s) # 0
    OBVIOUS
  <1>2. 1 \in 1 .. Len(s)
    BY <1>1
  <1> QED
    BY <1>2

(* The innermost call, and what is under it.                               *)
LEMMA TopFacts ==
    ASSUME NEW s, StackOK(s), s # <<>>
    PROVE  /\ FrameOK(Last(s)) /\ FrameOK(s[1])
           /\ \/ /\ s = <<s[1]>> /\ Last(s) = s[1] /\ Front(s) = <<>>
                 /\ \A g : Append(Front(s), g) = <<g>>
              \/ /\ Last(s) = s[2] /\ Front(s) = <<s[1]>>
                 /\ \A g : Append(Front(s), g) = <<s[1], g>>
                 /\ s[1].at = "all" /\ s[1].todo # <<>> /\ s[2].key = <<s[1].todo[1]>>
  <1>4. CASE s = <<s[1]>> /\ FrameOK(s[1])
    <2> DEFINE a == s[1]
    <2>1. Last(s) = a /\ Front(s) = <<>> /\ \A g : Append(Front(s), g) = <<g>>
      BY <1>4, Stacks
    <2> QED
      BY <1>4, <2>1
  <1>5. CASE /\ s = <<s[1], s[2]>> /\ FrameOK(s[1]) /\ FrameOK(s[2])
             /\ s[1].at = "all" /\ s[1].todo # <<>> /\ s[2].key = <<s[1].todo[1]>>
    <2>1. Last(s) = s[2] /\ Front(s) = <<s[1]>>
      BY <1>5, Stacks
    <2>2. \A g : Append(Front(s), g) = <<s[1], g>>
      BY <2>1, Stacks
    <2> QED
      BY <1>5, <2>1, <2>2
  <1> QED
    BY <1>4, <1>5 DEF StackOK

(* What is so of a call stays so while the map grows.                      *)
LEMMA StackStays ==
    ASSUME directories' = directories, DOMAIN indexes \subseteq DOMAIN indexes'
    PROVE  /\ \A f : FrameOK(f) => FrameOK(f)'
           /\ \A s : StackOK(s) => StackOK(s)'
           /\ \A runners, key : ListsWanted(runners, key)' = ListsWanted(runners, key)
  <1>1. \A key : Selected(key)' = Selected(key) /\ Wanted(key)' = Wanted(key)
    BY SelectedStays
  <1>2. \A runners, key : ListsWanted(runners, key)' = ListsWanted(runners, key)
    BY <1>1 DEF ListsWanted
  <1>3. \A f : Gathers(f) => Gathers(f)'
    BY <1>1 DEF Gathers
  <1>4. \A f : FrameOK(f) => FrameOK(f)'
    BY <1>2, <1>3 DEF FrameOK
  <1>5. \A s : StackOK(s) => StackOK(s)'
    BY <1>4 DEF StackOK
  <1> QED
    BY <1>2, <1>4, <1>5

(* The innermost call goes on with the same text.                          *)
LEMMA ContinueOK ==
    ASSUME NEW s, StackOK(s), s # <<>>, NEW g, FrameOK(g)', g.key = Last(s).key,
           directories' = directories, DOMAIN indexes \subseteq DOMAIN indexes'
    PROVE  /\ StackOK(Append(Front(s), g))' /\ Append(Front(s), g) # <<>>
           /\ Append(Front(s), g)[1].key = s[1].key
  <1>1. CASE /\ Last(s) = s[1] /\ \A h : Append(Front(s), h) = <<h>>
    <2>1. Append(Front(s), g) = <<g>> /\ <<g>>[1] = g /\ <<g>> # <<>>
      BY <1>1
    <2>2. StackOK(<<g>>)'
      BY DEF StackOK
    <2> QED
      BY <1>1, <2>1, <2>2
  <1>2. CASE /\ Last(s) = s[2] /\ \A h : Append(Front(s), h) = <<s[1], h>>
             /\ s[1].at = "all" /\ s[1].todo # <<>> /\ s[2].key = <<s[1].todo[1]>>
    <2> DEFINE a == s[1]
    <2>1. FrameOK(a)'
      BY TopFacts, StackStays
    <2>2. /\ Append(Front(s), g) = <<a, g>> /\ a.at = "all" /\ a.todo # <<>>
          /\ g.key = <<a.todo[1]>>
      BY <1>2
    <2> HIDE DEF a
    <2>3. <<a, g>>[1] = a /\ <<a, g>>[2] = g /\ <<a, g>> # <<>>
      OBVIOUS
    <2>4. StackOK(<<a, g>>)'
      BY <2>1, <2>2, <2>3 DEF StackOK
    <2> QED
      BY <2>2, <2>3, <2>4 DEF a
  <1> QED
    BY <1>1, <1>2, TopFacts

(* What a step of a goroutine's lookup leaves: a lookup of the same text,  *)
(* or, at its end, what that text selects.                                 *)
LookupPost(p) ==
    /\ DOMAIN lookup' = Process /\ DOMAIN found' = Process
    /\ \A q \in Process \ {p} : lookup'[q] = lookup[q] /\ found'[q] = found[q]
    /\ lookup[p] # <<>>
    /\ StackOK(lookup[p])'
    /\ IF lookup'[p] = <<>>
       THEN found'[p].ok => ListsWanted(found'[p].runners, lookup[p][1].key)
       ELSE lookup'[p][1].key = lookup[p][1].key

(* A call that goes on, in a map that at most grows.                       *)
LEMMA ContinuePost ==
    ASSUME ScopeInv, NEW p \in Process, lookup[p] # <<>>, NEW g,
           FrameOK(g)', g.key = Top(p).key, Continue(p, g), found' = found,
           directories' = directories, DOMAIN indexes \subseteq DOMAIN indexes'
    PROVE  LookupPost(p)
  <1>1. PICK s : s = lookup[p]
    OBVIOUS
  <1>2. PICK t : t = Append(Front(s), g)
    OBVIOUS
  <1>3. StackOK(s) /\ s # <<>> /\ g.key = Last(s).key
    BY <1>1 DEF ScopeInv, Top
  <1>4. StackOK(t)' /\ t # <<>> /\ t[1].key = s[1].key
    BY <1>2, <1>3, ContinueOK
  <1>5. lookup' = [lookup EXCEPT ![p] = t]
    BY <1>1, <1>2 DEF Continue
  <1>6. /\ lookup'[p] = t /\ DOMAIN lookup' = Process
        /\ \A q \in Process \ {p} : lookup'[q] = lookup[q]
    BY <1>5 DEF ScopeInv
  <1>7. StackOK(lookup[p])'
    BY <1>4, <1>6
  <1> QED
    BY <1>1, <1>3, <1>4, <1>6, <1>7 DEF LookupPost, ScopeInv

(* A lookup that fails is over, with everything that called it.            *)
LEMMA FailsPost ==
    ASSUME ScopeInv, NEW p \in Process, lookup[p] # <<>>, Returns(p, NotFound)
    PROVE  LookupPost(p)
  <1>1. /\ lookup' = [lookup EXCEPT ![p] = <<>>]
        /\ found' = [found EXCEPT ![p] = NotFound]
    BY DEF Returns, NotFound
  <1>2. /\ lookup'[p] = <<>> /\ DOMAIN lookup' = Process
        /\ \A q \in Process \ {p} : lookup'[q] = lookup[q]
        /\ found'[p] = NotFound /\ DOMAIN found' = Process
        /\ \A q \in Process \ {p} : found'[q] = found[q]
    BY <1>1 DEF ScopeInv
  <1>3. StackOK(lookup[p])'
    BY <1>2 DEF StackOK
  <1> QED
    BY <1>2, <1>3 DEF LookupPost, NotFound

(* A lookup that is over hands its runners to the aggregate it is for, or  *)
(* they are what was asked for.                                            *)
LEMMA ReturnsPost ==
    ASSUME ScopeInv, NEW p \in Process, lookup[p] # <<>>, Top(p).key \in DOMAIN indexes,
           Returns(p, Found(indexes[Top(p).key])),
           directories' = directories, indexes' = indexes
    PROVE  LookupPost(p)
  <1>1. PICK s : s = lookup[p]
    OBVIOUS
  <1>2. StackOK(s) /\ s # <<>> /\ Last(s).key \in DOMAIN indexes
    BY <1>1 DEF ScopeInv, Top
  <1> DEFINE key == Last(s).key
             more == indexes[key]
  <1>3. KeyOK(key) /\ ListsWanted(more, key)
    BY <1>2 DEF ScopeInv, MapOK
  <1>4. Found(more).ok /\ Found(more).runners = more
    BY DEF Found
  <1>5. CASE Last(s) = s[1] /\ Front(s) = <<>>
    <2>1. lookup' = [lookup EXCEPT ![p] = <<>>] /\ found' = [found EXCEPT ![p] = Found(more)]
      BY <1>1, <1>5 DEF Returns, Top
    <2>2. /\ lookup'[p] = <<>> /\ DOMAIN lookup' = Process
          /\ \A q \in Process \ {p} : lookup'[q] = lookup[q]
          /\ found'[p] = Found(more) /\ DOMAIN found' = Process
          /\ \A q \in Process \ {p} : found'[q] = found[q]
      BY <2>1 DEF ScopeInv
    <2>3. StackOK(lookup[p])'
      BY <2>2 DEF StackOK
    <2>4. ListsWanted(found'[p].runners, s[1].key)
      BY <1>3, <1>4, <1>5, <2>2
    <2> QED
      BY <1>1, <2>2, <2>3, <2>4 DEF LookupPost
  <1>6. CASE /\ Last(s) = s[2] /\ Front(s) = <<s[1]>>
             /\ s[1].at = "all" /\ s[1].todo # <<>> /\ s[2].key = <<s[1].todo[1]>>
    <2>0. PICK f, todo : f = s[1] /\ todo = f.todo
      OBVIOUS
    <2>1. FrameOK(f) /\ f.at = "all" /\ todo # <<>> /\ key = <<todo[1]>>
      BY <1>2, <1>6, <2>0, TopFacts
    <2>2. /\ f = [key |-> f.key, at |-> f.at, todo |-> f.todo, runners |-> f.runners]
          /\ KeyOK(f.key) /\ Gathers(f)
      BY <2>1 DEF FrameOK
    <2>3. todo \in Seq(Range(Names)) /\ IsSeq(f.runners)
      BY <2>0, <2>2 DEF Gathers
    <2>4. todo[1] \in Range(Names)
      BY <2>1, <2>3, FirstElement
    <2>5. IsSeq(more) /\ NamesOf(more) = <<todo[1]>>
      BY <1>3, <2>1, <2>4, KeysOK DEF ListsWanted, Wanted
    <2>6. PICK r, t : r = f.runners \o more /\ t = Tail(todo)
      OBVIOUS
    <2>7. /\ IsSeq(r) /\ t \in Seq(Range(Names))
          /\ NamesOf(r) \o t = NamesOf(f.runners) \o todo
      BY <2>1, <2>3, <2>5, <2>6, GathersOn
    <2>8. PICK g : g = [f EXCEPT !.todo = t, !.runners = r]
      OBVIOUS
    <2>9. g = [key |-> f.key, at |-> f.at, todo |-> t, runners |-> r]
      BY ONLY <2>2, <2>8
    <2>10. g.key = f.key /\ g.at = "all" /\ g.todo = t /\ g.runners = r
           /\ g = [key |-> g.key, at |-> g.at, todo |-> g.todo, runners |-> g.runners]
      BY <2>1, <2>9
    <2>11. FrameOK(g)
      BY <2>0, <2>2, <2>7, <2>10 DEF FrameOK, Gathers
    <2>12. lookup' = [lookup EXCEPT ![p] = <<g>>] /\ found' = found
      <3>1. Front(lookup[p]) = <<f>> /\ <<f>> # <<>>
        BY <1>1, <1>6, <2>0
      <3>2. Found(indexes[Top(p).key]) = Found(more)
        BY <1>1 DEF Top
      <3>3. g = [f EXCEPT !.todo = Tail(@), !.runners = @ \o more]
        BY <2>0, <2>6, <2>8
      <3>4. /\ lookup' = [lookup EXCEPT ![p] =
                  Append(Front(<<f>>), [Last(<<f>>) EXCEPT !.todo = Tail(@),
                                                           !.runners = @ \o more])]
            /\ found' = found
        BY <1>4, <3>1, <3>2 DEF Returns
      <3> QED
        BY <3>3, <3>4, Stacks
    <2>13. /\ lookup'[p] = <<g>> /\ DOMAIN lookup' = Process
           /\ \A q \in Process \ {p} : lookup'[q] = lookup[q]
      BY <2>12 DEF ScopeInv
    <2>14. <<g>>[1] = g /\ <<g>> # <<>>
      OBVIOUS
    <2>15. StackOK(<<g>>)'
      BY <2>11, <2>14, StackStays DEF StackOK
    <2>16. StackOK(lookup[p])'
      BY <2>13, <2>15
    <2> QED
      BY <1>1, <1>2, <2>0, <2>10, <2>12, <2>13, <2>14, <2>16 DEF LookupPost, ScopeInv
  <1> QED
    BY <1>2, <1>5, <1>6, TopFacts

(* A step of a goroutine's lookup, and what the map holds after it.        *)
LEMMA LookupStepPost ==
    ASSUME ScopeInv, NEW p \in Process, LookupStep(p)
    PROVE  LookupPost(p) /\ MapOK' /\ DOMAIN indexes \subseteq DOMAIN indexes'
  <1>0. directories' = directories
    BY DEF LookupStep
  <1>1. PICK f : f = Top(p)
    OBVIOUS
  <1>2. lookup[p] # <<>> /\ FrameOK(f)
    <2>1. lookup[p] # <<>>
      BY DEF LookupStep, CheckScope, CreateRunner, LookupAll, StoreInScope, ReadScope,
             LookingAt, Looking
    <2>2. PICK s : s = lookup[p]
      OBVIOUS
    <2> QED
      BY <1>1, <2>1, <2>2, TopFacts DEF ScopeInv, Top
  <1>3. /\ f = [key |-> f.key, at |-> f.at, todo |-> f.todo, runners |-> f.runners]
        /\ KeyOK(f.key)
    BY <1>2 DEF FrameOK
  <1>4. ASSUME indexes' = indexes
        PROVE  MapOK' /\ DOMAIN indexes \subseteq DOMAIN indexes'
    BY <1>0, <1>4, StackStays DEF ScopeInv, MapOK
  <1>5. ASSUME NEW g, indexes' = indexes, FrameOK(g), g.key = f.key, Continue(p, g),
               found' = found
        PROVE  LookupPost(p) /\ MapOK' /\ DOMAIN indexes \subseteq DOMAIN indexes'
    BY <1>0, <1>1, <1>2, <1>4, <1>5, StackStays, ContinuePost
  <1>6. CASE CheckScope(p)
    <2>1. indexes' = indexes /\ found' = found /\ f.at = "check" /\ f.runners = <<>>
      BY <1>1, <1>2, <1>6 DEF CheckScope, LookingAt, FrameOK
    <2>2. CASE f.key \in DOMAIN indexes
      <3>1. PICK g : g = [f EXCEPT !.at = "read"]
        OBVIOUS
      <3>2. g.key = f.key /\ FrameOK(g)
        BY <1>3, <2>2, <3>1 DEF FrameOK
      <3>3. Continue(p, g)
        BY <1>1, <1>6, <2>2, <3>1 DEF CheckScope
      <3> QED
        BY <1>5, <2>1, <3>2, <3>3
    <2>3. CASE f.key \notin DOMAIN indexes /\ isAggregate(f.key)
      <3>1. PICK todo : todo = KeysToLoad(f.key)
        OBVIOUS
      <3>2. todo = Selected(f.key) /\ todo \in Seq(Range(Names))
        BY <3>1, SelectedNames
      <3>3. PICK g : g = [f EXCEPT !.at = "all", !.todo = todo]
        OBVIOUS
      <3>4. g = [key |-> f.key, at |-> "all", todo |-> todo, runners |-> <<>>]
        BY <1>3, <2>1, <3>3
      <3>5. NamesOf(<<>>) \o todo = todo
        <4>1. NamesOf(<<>>) = <<>>
          BY DEF NamesOf
        <4>2. <<>> \o todo = todo
          BY <3>2
        <4> QED
          BY <4>1, <4>2
      <3>6. IsSeq(<<>>)
        BY DEF IsSeq
      <3>7. FrameOK(g) /\ g.key = f.key
        BY <1>3, <2>3, <3>2, <3>4, <3>5, <3>6 DEF FrameOK, Gathers
      <3>8. Continue(p, g)
        BY <1>1, <1>6, <2>3, <3>1, <3>3 DEF CheckScope
      <3> QED
        BY <1>5, <2>1, <3>7, <3>8
    <2>4. CASE f.key \notin DOMAIN indexes /\ ~isAggregate(f.key)
      <3>1. PICK g : g = [f EXCEPT !.at = "create"]
        OBVIOUS
      <3>2. g.key = f.key /\ FrameOK(g)
        BY <1>3, <2>4, <3>1 DEF FrameOK
      <3>3. Continue(p, g)
        BY <1>1, <1>6, <2>4, <3>1 DEF CheckScope
      <3> QED
        BY <1>5, <2>1, <3>2, <3>3
    <2> QED
      BY <2>2, <2>3, <2>4
  <1>7. CASE CreateRunner(p)
    <2>1. indexes' = indexes /\ f.at = "create" /\ ~isAggregate(f.key)
      BY <1>1, <1>2, <1>7 DEF CreateRunner, LookingAt, FrameOK
    <2>2. CASE Load(f.key[1]) = <<>>
      <3>1. Returns(p, NotFound)
        BY <1>1, <1>7, <2>2 DEF CreateRunner
      <3> QED
        BY <1>2, <1>4, <2>1, <3>1, FailsPost
    <2>3. CASE Load(f.key[1]) # <<>>
      <3>1. PICK r : r = [name |-> f.key[1], n |-> Len(made[f.key[1]]) + 1]
        OBVIOUS
      <3>2. PICK g : g = [f EXCEPT !.at = "store", !.runners = <<r>>]
        OBVIOUS
      <3>3. g = [key |-> f.key, at |-> "store", todo |-> f.todo, runners |-> <<r>>]
        BY <1>3, <3>2
      <3>4. IsSeq(<<r>>) /\ NamesOf(<<r>>) = <<r.name>>
        <4>1. <<r>> \in Seq({r})
          OBVIOUS
        <4>2. NamesOf(<<r>>) = <<r.name>>
          BY DEF NamesOf
        <4> QED
          BY <4>1, <4>2, SeqOfElements
      <3>5. f.key = <<r.name>>
        BY <1>3, <2>1, <3>1, KeysOK
      <3>6. ListsWanted(<<r>>, f.key)
        BY <2>1, <3>4, <3>5 DEF ListsWanted, Wanted
      <3>7. FrameOK(g) /\ g.key = f.key
        BY <1>3, <3>3, <3>6 DEF FrameOK
      <3>8. Continue(p, g) /\ found' = found
        BY <1>1, <1>7, <2>3, <3>1, <3>2 DEF CreateRunner
      <3> QED
        BY <1>5, <2>1, <3>7, <3>8
    <2> QED
      BY <2>2, <2>3
  <1>8. CASE LookupAll(p)
    <2>1. indexes' = indexes /\ found' = found /\ f.at = "all" /\ Gathers(f)
      BY <1>1, <1>2, <1>8 DEF LookupAll, LookingAt, FrameOK
    <2>2. CASE f.todo = <<>>
      <3>1. PICK g : g = [f EXCEPT !.at = "store"]
        OBVIOUS
      <3>2. g = [key |-> f.key, at |-> "store", todo |-> f.todo, runners |-> f.runners]
        BY <1>3, <3>1
      <3>3. NamesOf(f.runners) \o <<>> = NamesOf(f.runners)
        <4>1. f.runners \in Seq(Range(f.runners))
          BY <2>1 DEF Gathers, IsSeq
        <4>2. PICK names, N : /\ names = NamesOf(f.runners)
                              /\ N = {f.runners[i].name : i \in DOMAIN f.runners}
          OBVIOUS
        <4>3. names \in [1 .. Len(f.runners) -> N] /\ Len(f.runners) \in Nat
          BY <4>1, <4>2 DEF NamesOf
        <4>4. names \in Seq(N)
          BY ONLY <4>3
        <4>5. names \o <<>> = names
          BY ONLY <4>4
        <4> QED
          BY <4>2, <4>5
      <3>4. ListsWanted(f.runners, f.key)
        BY <2>1, <2>2, <3>3 DEF Gathers, ListsWanted, Wanted
      <3>5. FrameOK(g) /\ g.key = f.key
        BY <1>3, <3>2, <3>4 DEF FrameOK
      <3>6. Continue(p, g)
        BY <1>1, <1>8, <2>2, <3>1 DEF LookupAll
      <3> QED
        BY <1>5, <2>1, <3>5, <3>6
    <2>3. CASE f.todo # <<>>
      <3>1. PICK s, g : s = lookup[p] /\ g = LookupFrame(<<f.todo[1]>>)
        OBVIOUS
      <3>2. StackOK(s) /\ s # <<>> /\ f = Last(s)
        BY <1>1, <1>2, <3>1 DEF ScopeInv, Top
      <3>3. lookup' = [lookup EXCEPT ![p] = Append(s, g)]
        BY <1>1, <1>8, <2>3, <3>1 DEF LookupAll
      <3>4. FrameOK(g) /\ g.key = <<f.todo[1]>>
        BY <3>1, KeysOK DEF LookupFrame, FrameOK
      <3>5. s = <<f>>
        <4>1. CASE Last(s) = s[2] /\ s[1].at = "all" /\ s[1].todo # <<>>
                   /\ s[2].key = <<s[1].todo[1]>>
          <5>1. s[1].todo \in Seq(Range(Names))
            BY <3>2, <4>1, TopFacts DEF FrameOK, Gathers
          <5>2. s[1].todo[1] \in Range(Names)
            BY <4>1, <5>1, FirstElement
          <5>3. ~isAggregate(f.key)
            BY <3>2, <4>1, <5>2, KeysOK
          <5> QED
            BY <2>1, <5>3 DEF Gathers
        <4>2. CASE s = <<s[1]>> /\ Last(s) = s[1]
          BY <3>2, <4>2
        <4> QED
          BY <3>2, <4>1, <4>2, TopFacts
      <3>6. lookup' = [lookup EXCEPT ![p] = <<f, g>>]
        BY <3>3, <3>5, Stacks
      <3>7. /\ lookup'[p] = <<f, g>> /\ DOMAIN lookup' = Process
            /\ \A q \in Process \ {p} : lookup'[q] = lookup[q]
        BY <3>6 DEF ScopeInv
      <3>8. <<f, g>>[1] = f /\ <<f, g>>[2] = g /\ <<f, g>> # <<>>
        OBVIOUS
      <3>9. FrameOK(f)' /\ FrameOK(g)'
        BY <1>0, <1>2, <2>1, <3>4, StackStays
      <3>10. StackOK(<<f, g>>)'
        BY <2>1, <2>3, <3>4, <3>8, <3>9 DEF StackOK
      <3>11. StackOK(lookup[p])'
        BY <3>7, <3>10
      <3>12. lookup[p][1] = f
        <4>1. <<f>>[1] = f
          OBVIOUS
        <4> QED
          BY <3>1, <3>5, <4>1
      <3>13. LookupPost(p)
        BY <1>2, <2>1, <3>7, <3>8, <3>11, <3>12 DEF LookupPost, ScopeInv
      <3> QED
        BY <1>4, <2>1, <3>13
    <2> QED
      BY <2>2, <2>3
  <1>9. CASE StoreInScope(p)
    <2>1. PICK key, runners : key = f.key /\ runners = f.runners
      OBVIOUS
    <2>2. f.at = "store" /\ ListsWanted(runners, key) /\ KeyOK(key) /\ found' = found
      BY <1>1, <1>2, <1>9, <2>1 DEF StoreInScope, LookingAt, FrameOK
    <2>3. indexes' = [k \in DOMAIN indexes \cup {key} |->
                        IF k = key THEN runners ELSE indexes[k]]
      BY <1>1, <1>9, <2>1 DEF StoreInScope
    <2>4. /\ DOMAIN indexes' = DOMAIN indexes \cup {key}
          /\ indexes'[key] = runners
          /\ \A k \in DOMAIN indexes \ {key} : indexes'[k] = indexes[k]
      BY <2>3
    <2>5. MapOK' /\ DOMAIN indexes \subseteq DOMAIN indexes'
      <3>1. \A k \in DOMAIN indexes' : KeyOK(k) /\ ListsWanted(indexes'[k], k)
        BY <2>2, <2>4 DEF ScopeInv, MapOK
      <3> QED
        BY <1>0, <2>4, <3>1, StackStays DEF MapOK
    <2>6. PICK g : g = [f EXCEPT !.at = "read"]
      OBVIOUS
    <2>7. g = [key |-> f.key, at |-> "read", todo |-> f.todo, runners |-> f.runners]
      BY <1>3, <2>6
    <2>8. FrameOK(g)' /\ g.key = f.key
      BY <1>3, <2>1, <2>4, <2>7 DEF FrameOK
    <2>9. Continue(p, g)
      BY <1>1, <1>9, <2>6 DEF StoreInScope
    <2> QED
      BY <1>0, <1>1, <1>2, <2>2, <2>5, <2>8, <2>9, ContinuePost
  <1>10. CASE ReadScope(p)
    <2>1. /\ f.key \in DOMAIN indexes /\ indexes' = indexes
          /\ Returns(p, Found(indexes[f.key]))
      BY <1>1, <1>2, <1>10 DEF ReadScope, LookingAt, FrameOK
    <2> QED
      BY <1>0, <1>1, <1>2, <1>4, <2>1, ReturnsPost
  <1> QED
    BY <1>6, <1>7, <1>8, <1>9, <1>10 DEF LookupStep

-------------------------------------------------------------------------------
(* The steps of requests. *)

(* Whoever serves a request or starts the program looks indexes up.        *)
LEMMA Servers ==
    /\ \A h \in Handlers : h \in Process /\ h # Main
    /\ Main \in Process
    /\ \A key \in Startups \cup Ids : KeyOK(key)
  BY ServerAssumption, KeysOK DEF ServerAssumption

(* A lookup begins with the text it is for.                                *)
LEMMA Started ==
    ASSUME DOMAIN lookup = Process, NEW p \in Process, NEW key, KeyOK(key), StartLookup(p, key)
    PROVE  /\ DOMAIN lookup' = Process /\ lookup'[p] # <<>> /\ lookup'[p][1].key = key
           /\ \A q \in Process \ {p} : lookup'[q] = lookup[q]
           /\ StackOK(lookup[p])'
  <1>1. PICK f : f = LookupFrame(key)
    OBVIOUS
  <1>2. f.key = key /\ FrameOK(f)'
    BY <1>1 DEF LookupFrame, FrameOK
  <1>3. /\ lookup'[p] = <<f>> /\ DOMAIN lookup' = Process
        /\ \A q \in Process \ {p} : lookup'[q] = lookup[q]
    BY <1>1 DEF StartLookup
  <1>4. <<f>>[1] = f /\ <<f>> # <<>>
    OBVIOUS
  <1>5. StackOK(<<f>>)'
    BY <1>2, <1>4 DEF StackOK
  <1>6. StackOK(lookup[p])'
    BY <1>3, <1>5
  <1> QED
    BY <1>2, <1>3, <1>4, <1>6

(* An id is resolved to itself or to a text that has been looked up.       *)
LEMMA Resolved ==
    ASSUME MapOK, NEW id, KeyOK(id), NEW key \in ResolveIndexID(id)
    PROVE  KeyOK(key)
  <1>1. key = id \/ key \in DOMAIN indexes \/ key = <<"">>
    BY DEF ResolveIndexID
  <1> QED
    BY <1>1, KeysOK DEF MapOK

(* The request of one handler, when it is answered.                        *)
LEMMA Answered ==
    ASSUME DOMAIN request = Handlers, NEW h \in Handlers, IsRequest(request[h]), NEW what,
           Answer(h, what)
    PROVE  /\ DOMAIN request' = Handlers
           /\ \A g \in Handlers \ {h} : request'[g] = request[g]
           /\ request'[h] = [op |-> request[h].op, at |-> "idle", id |-> request[h].id,
                             answer |-> what]
  <1>1. PICK r : r = request[h]
    OBVIOUS
  <1>2. PICK r2 : r2 = [r EXCEPT !.at = "idle", !.answer = what]
    OBVIOUS
  <1>3. r2 = [op |-> r.op, at |-> "idle", id |-> r.id, answer |-> what]
    BY <1>1, <1>2 DEF IsRequest
  <1>4. request' = [request EXCEPT ![h] = r2]
    BY <1>1, <1>2 DEF Answer
  <1> QED
    BY <1>1, <1>3, <1>4

(* The fields of a request.                                                *)
LEMMA Fields ==
    ASSUME NEW op, NEW place, NEW id, NEW answer, NEW r,
           r = [op |-> op, at |-> place, id |-> id, answer |-> answer]
    PROVE  IsRequest(r) /\ r.op = op /\ r.at = place /\ r.id = id /\ r.answer = answer
  BY DEF IsRequest

(* A request that is new replaces the handler's last one.                  *)
LEMMA AskedFor ==
    ASSUME DOMAIN request = Handlers, NEW h \in Handlers, NEW op, NEW place, NEW id,
           Asked(h, op, place, id)
    PROVE  /\ DOMAIN request' = Handlers
           /\ \A g \in Handlers \ {h} : request'[g] = request[g]
           /\ request'[h] = [op |-> op, at |-> place, id |-> id, answer |-> "none"]
  BY DEF Asked

(* What holds of a request whose lookup stands still.                      *)
LEMMA RequestStays ==
    ASSUME NEW h \in Handlers, request'[h] = request[h], RequestOK(h),
           request[h].answer = "panic" => Reason(h),
           directories' = directories, DOMAIN indexes \subseteq DOMAIN indexes',
           request[h].at = "lookup" => lookup'[h] = lookup[h] /\ found'[h] = found[h]
    PROVE  RequestOK(h)' /\ (request[h].answer = "panic" => Reason(h))'
  <1>1. \A runners, key : ListsWanted(runners, key)' = ListsWanted(runners, key)
    BY StackStays
  <1>2. \A key : Selected(key)' = Selected(key)
    BY SelectedStays
  <1>3. RequestOK(h)'
    BY <1>1 DEF RequestOK, IsRequest
  <1>4. (request[h].answer = "panic" => Reason(h))'
    BY <1>2 DEF Reason
  <1> QED
    BY <1>3, <1>4

(* The map and the lookups change in these ways only.                      *)
ScopeMove ==
    \/ UNCHANGED <<indexes, lookup, found, directories>>
    \/ /\ UNCHANGED <<indexes, found, directories>>
       /\ \E p \in Process : \E key : KeyOK(key) /\ StartLookup(p, key)
    \/ \E p \in Process : LookupStep(p)
    \/ Restart

(* Whatever the program does to the map or to a lookup is one of these: a  *)
(* lookup begins with a text or a name, it takes a step, or all of it      *)
(* begins again.                                                           *)
LEMMA ScopeMoves ==
    ASSUME ScopeInv, RequestInv, [Next]_vars PROVE ScopeMove
  <1> USE DEF scopeVars
  <1>1. CASE Startup
    <2>1. PICK key \in Startups : StartLookup(Main, key)
      BY <1>1 DEF Startup
    <2> QED
      BY <1>1, <2>1, Servers DEF Startup, ScopeMove
  <1>2. CASE Listen
    BY <1>2 DEF Listen, ScopeMove
  <1>3. CASE \E p \in Process : LookupSteps(p)
    BY <1>3 DEF LookupSteps, ScopeMove
  <1>4. ASSUME NEW h \in Handlers, AskTorznab(h) \/ AskHealth(h) PROVE ScopeMove
    BY <1>4 DEF AskTorznab, AskHealth, ScopeMove
  <1>5. ASSUME NEW h \in Handlers, AskStatus(h) PROVE ScopeMove
    <2>1. KeyOK(<<"all">>) /\ StartLookup(h, <<"all">>)
      BY <1>5, KeysOK DEF AskStatus
    <2> QED
      BY <1>5, <2>1, Servers DEF AskStatus, ScopeMove
  <1>6. ASSUME NEW h \in Handlers, NEW token, AskDownload(h, token) PROVE ScopeMove
    <2>1. KeyOK(<<token>>) /\ StartLookup(h, <<token>>)
      BY <1>6, KeysOK DEF AskDownload
    <2> QED
      BY <1>6, <2>1, Servers DEF AskDownload, ScopeMove
  <1>7. ASSUME NEW h \in Handlers, Resolve(h) PROVE ScopeMove
    <2>1. PICK key \in ResolveIndexID(request[h].id) : StartLookup(h, key)
      BY <1>7 DEF Resolve
    <2>2. KeyOK(request[h].id)
      BY <1>7 DEF Resolve, InRequest, RequestInv, RequestOK
    <2>3. KeyOK(key)
      BY <2>1, <2>2, Resolved DEF ScopeInv
    <2> QED
      BY <1>7, <2>1, <2>3, Servers DEF Resolve, ScopeMove
  <1>8. ASSUME NEW h \in Handlers,
               LookedUp(h) \/ Search(h) \/ OpenDownload(h) \/ AnswerDownload(h) \/ EnterGroup(h)
                 \/ SpawnCheck(h) \/ RunCheck(h) \/ LeaveGroup(h)
        PROVE  ScopeMove
    BY <1>8 DEF LookedUp, Search, OpenDownload, AnswerDownload, EnterGroup, SpawnCheck, RunCheck,
                LeaveGroup, ScopeMove
  <1>9. CASE (\E p \in Parsers : Parse(p)) \/ Proxying \/ ErrorsExpire \/ Stops
    BY <1>9 DEF Parse, Proxying, ErrorsExpire, Stops, ScopeMove
  <1>10. CASE Restart
    BY <1>10 DEF ScopeMove
  <1>11. CASE UNCHANGED vars
    BY <1>11 DEF vars, ScopeMove
  <1> QED
    BY <1>1, <1>2, <1>3, <1>4, <1>5, <1>6, <1>7, <1>8, <1>9, <1>10, <1>11 DEF Next, RequestStep

(* The map holds what its texts select, and every lookup is on its way to  *)
(* it.                                                                     *)
LEMMA ScopeInvStep ==
    ASSUME ScopeInv, RequestInv, [Next]_vars PROVE ScopeInv'
  <1>1. CASE UNCHANGED <<indexes, lookup, found, directories>>
    <2>1. DOMAIN indexes \subseteq DOMAIN indexes'
      BY <1>1
    <2>2. MapOK'
      BY <1>1, <2>1, StackStays DEF ScopeInv, MapOK
    <2>3. \A p \in Process : StackOK(lookup[p])'
      BY <1>1, <2>1, StackStays DEF ScopeInv
    <2> QED
      BY <1>1, <2>2, <2>3 DEF ScopeInv
  <1>2. ASSUME UNCHANGED <<indexes, found, directories>>, NEW p \in Process, NEW key,
               KeyOK(key), StartLookup(p, key)
        PROVE  ScopeInv'
    <2>1. DOMAIN indexes \subseteq DOMAIN indexes'
      BY <1>2
    <2>2. MapOK'
      BY <1>2, <2>1, StackStays DEF ScopeInv, MapOK
    <2>3. /\ DOMAIN lookup' = Process /\ StackOK(lookup[p])'
          /\ \A q \in Process \ {p} : lookup'[q] = lookup[q]
      BY <1>2, Started DEF ScopeInv
    <2>4. \A q \in Process \ {p} : StackOK(lookup[q])'
      BY <1>2, <2>1, <2>3, StackStays DEF ScopeInv
    <2> QED
      BY <1>2, <2>2, <2>3, <2>4 DEF ScopeInv
  <1>3. ASSUME NEW p \in Process, LookupStep(p) PROVE ScopeInv'
    <2>1. /\ LookupPost(p) /\ MapOK' /\ DOMAIN indexes \subseteq DOMAIN indexes'
          /\ directories' = directories
      BY <1>3, LookupStepPost DEF LookupStep
    <2>2. \A q \in Process \ {p} : StackOK(lookup[q])'
      BY <2>1, StackStays DEF ScopeInv, LookupPost
    <2> QED
      BY <2>1, <2>2 DEF ScopeInv, LookupPost
  <1>4. CASE Restart
    BY <1>4 DEF Restart, ScopeInv, MapOK, StackOK
  <1> QED
    BY <1>1, <1>2, <1>3, <1>4, ScopeMoves DEF ScopeMove

(* A step of one handler's request leaves the others alone.                *)
LEMMA OthersStay ==
    ASSUME RequestInv, directories' = directories, DOMAIN indexes \subseteq DOMAIN indexes',
           NEW h \in Handlers, DOMAIN request' = Handlers,
           \A g \in Handlers \ {h} :
               request'[g] = request[g] /\ lookup'[g] = lookup[g] /\ found'[g] = found[g],
           RequestOK(h)', (request[h].answer = "panic" => Reason(h))'
    PROVE  RequestInv'
  <1>1. ASSUME NEW g \in Handlers \ {h}
        PROVE  RequestOK(g)' /\ (request[g].answer = "panic" => Reason(g))'
    BY RequestStays DEF RequestInv
  <1> QED
    BY <1>1 DEF RequestInv

(* A request is answered with a panic only for a reason.                   *)
LEMMA AnsweredOK ==
    ASSUME RequestInv, NEW h \in Handlers, NEW what, Answer(h, what),
           UNCHANGED <<indexes, lookup, found, directories>>, what = "panic" => Reason(h)
    PROVE  RequestInv'
  <1>1. DOMAIN request = Handlers /\ IsRequest(request[h])
    BY DEF RequestInv, RequestOK
  <1>2. /\ DOMAIN request' = Handlers
        /\ \A g \in Handlers \ {h} : request'[g] = request[g]
        /\ request'[h] = [op |-> request[h].op, at |-> "idle", id |-> request[h].id,
                          answer |-> what]
    BY <1>1, Answered
  <1>3. RequestOK(h)'
    <2>1. /\ IsRequest(request'[h]) /\ request'[h].op = request[h].op
          /\ request'[h].at = "idle"
      BY <1>2, Fields
    <2> QED
      BY <2>1 DEF RequestOK, RequestInv
  <1>4. (request[h].answer = "panic" => Reason(h))'
    <2>1. \A key : Selected(key)' = Selected(key)
      BY SelectedStays
    <2> QED
      BY <1>2, <2>1 DEF Reason
  <1> QED
    BY <1>2, <1>3, <1>4, OthersStay

(* A request that begins, or is resolved, and is looked up at once.        *)
LEMMA LooksUp ==
    ASSUME ScopeInv, RequestInv, NEW h \in Handlers, NEW key, KeyOK(key), NEW op,
           op \in {"none", "caps", "search", "status", "download"}, StartLookup(h, key),
           UNCHANGED <<indexes, found, directories>>,
           DOMAIN request' = Handlers,
           \A g \in Handlers \ {h} : request'[g] = request[g],
           request'[h] = [op |-> op, at |-> "lookup", id |-> key, answer |-> "none"]
    PROVE  RequestInv'
  <1>1. /\ lookup'[h] # <<>> /\ lookup'[h][1].key = key
        /\ \A q \in Process \ {h} : lookup'[q] = lookup[q]
    BY Servers, Started DEF ScopeInv
  <1>2. RequestOK(h)' /\ (request[h].answer = "panic" => Reason(h))'
    <2>1. /\ IsRequest(request'[h]) /\ request'[h].op = op /\ request'[h].at = "lookup"
          /\ request'[h].id = key /\ request'[h].answer = "none"
      BY Fields
    <2>2. RequestOK(h)'
      BY <1>1, <2>1 DEF RequestOK, IsRequest
    <2> QED
      BY <2>1, <2>2
  <1> QED
    BY <1>1, <1>2, Servers, OthersStay

(* The steps that make no request and answer none.                         *)
LEMMA NoRequestMoves ==
    ASSUME RequestInv, UNCHANGED <<indexes, lookup, found, directories, request>>
    PROVE  RequestInv'
  <1>1. ASSUME NEW g \in Handlers
        PROVE  RequestOK(g)' /\ (request[g].answer = "panic" => Reason(g))'
    BY RequestStays DEF RequestInv
  <1> QED
    BY <1>1 DEF RequestInv

(* Who asks about an index.                                                *)
LEMMA AskingOK ==
    ASSUME ScopeInv, RequestInv, NEW h \in Handlers,
           \/ AskTorznab(h) \/ AskStatus(h) \/ AskHealth(h)
           \/ \E token \in tokens : AskDownload(h, token)
    PROVE  RequestInv'
  <1> USE DEF scopeVars
  <1>1. DOMAIN request = Handlers
    BY DEF RequestInv
  <1>2. CASE AskTorznab(h)
    <2>1. PICK op \in {"caps", "search"}, id \in Ids : Asked(h, op, "resolve", id)
      BY <1>2 DEF AskTorznab
    <2>2. /\ DOMAIN request' = Handlers
          /\ \A g \in Handlers \ {h} : request'[g] = request[g]
          /\ request'[h] = [op |-> op, at |-> "resolve", id |-> id, answer |-> "none"]
      BY <1>1, <2>1, AskedFor
    <2>3. RequestOK(h)' /\ (request[h].answer = "panic" => Reason(h))'
      BY <2>1, <2>2, Servers DEF RequestOK, IsRequest, KeyOK
    <2> QED
      BY <1>2, <2>2, <2>3, OthersStay DEF AskTorznab
  <1>3. CASE AskHealth(h)
    <2>0. PICK id : Asked(h, "health", "health", id)
      BY <1>3 DEF AskHealth
    <2>1. /\ DOMAIN request' = Handlers
          /\ \A g \in Handlers \ {h} : request'[g] = request[g]
          /\ request'[h] = [op |-> "health", at |-> "health", id |-> id, answer |-> "none"]
      BY <1>1, <2>0, AskedFor
    <2>2. /\ IsRequest(request'[h]) /\ request'[h].op = "health"
          /\ request'[h].at = "health" /\ request'[h].answer = "none"
      BY <2>1, Fields
    <2>3. RequestOK(h)' /\ (request[h].answer = "panic" => Reason(h))'
      BY <2>2 DEF RequestOK, IsRequest
    <2> QED
      BY <1>3, <2>1, <2>3, OthersStay DEF AskHealth
  <1>4. CASE AskStatus(h)
    <2>1. /\ DOMAIN request' = Handlers
          /\ \A g \in Handlers \ {h} : request'[g] = request[g]
          /\ request'[h] = [op |-> "status", at |-> "lookup", id |-> <<"all">>, answer |-> "none"]
      BY <1>1, <1>4, AskedFor DEF AskStatus
    <2> QED
      BY <1>4, <2>1, KeysOK, LooksUp DEF AskStatus
  <1>5. ASSUME NEW token, AskDownload(h, token) PROVE RequestInv'
    <2>1. /\ DOMAIN request' = Handlers
          /\ \A g \in Handlers \ {h} : request'[g] = request[g]
          /\ request'[h] = [op |-> "download", at |-> "lookup", id |-> <<token>>,
                            answer |-> "none"]
      BY <1>1, <1>5, AskedFor DEF AskDownload
    <2> QED
      BY <1>5, <2>1, KeysOK, LooksUp DEF AskDownload
  <1> QED
    BY <1>2, <1>3, <1>4, <1>5

(* What a lookup returned is what was asked for: there is nothing to take  *)
(* the first of only if nothing was selected.                              *)
LEMMA LookedUpOK ==
    ASSUME RequestInv, NEW h \in Handlers, LookedUp(h)
    PROVE  RequestInv'
  <1> USE DEF scopeVars
  <1>1. UNCHANGED <<indexes, lookup, found, directories>>
    BY DEF LookedUp
  <1>2. /\ RequestOK(h) /\ DOMAIN request = Handlers /\ request[h].at = "lookup"
        /\ lookup[h] = <<>>
    BY DEF RequestInv, LookedUp, InRequest, Looking
  <1>3. ASSUME NEW what, what # "panic", Answer(h, what) PROVE RequestInv'
    BY <1>1, <1>3, AnsweredOK
  <1>4. CASE Answer(h, "panic") /\ found[h].ok /\ found[h].runners = <<>>
    <2> DEFINE key == request[h].id
    <2>1. KeyOK(key) /\ ListsWanted(<<>>, key) /\ request[h].op # "health"
      BY <1>2, <1>4 DEF RequestOK
    <2>2. isAggregate(key) /\ Selected(key) = <<>>
      <3>1. Wanted(key) = <<>>
        BY <2>1 DEF ListsWanted, NamesOf
      <3> QED
        BY <2>1, <3>1, KeysOK DEF Wanted
    <2>3. Reason(h)
      BY <2>1, <2>2 DEF Reason
    <2> QED
      BY <1>1, <1>4, <2>3, AnsweredOK
  <1>5. CASE /\ request' = [request EXCEPT ![h].at = request[h].op]
             /\ request[h].op \notin {"status", "caps"}
    <2>1. PICK r : r = request[h]
      OBVIOUS
    <2>2. PICK r2 : r2 = [r EXCEPT !.at = r.op]
      OBVIOUS
    <2>3. r2 = [op |-> r.op, at |-> r.op, id |-> r.id, answer |-> r.answer]
      BY <1>2, <2>1, <2>2 DEF RequestOK, IsRequest
    <2>4. request' = [request EXCEPT ![h] = r2]
      BY <1>5, <2>1, <2>2
    <2>5. /\ DOMAIN request' = Handlers
          /\ \A g \in Handlers \ {h} : request'[g] = request[g]
          /\ request'[h] = r2
      BY <1>2, <2>4
    <2>6. /\ IsRequest(r2) /\ r2.op = r.op /\ r2.at = r.op /\ r2.answer = "none"
          /\ r.op \in {"none", "search", "download"}
      BY <1>2, <1>5, <2>1, <2>3, Fields DEF RequestOK
    <2>7. RequestOK(h)' /\ (request[h].answer = "panic" => Reason(h))'
      BY <2>5, <2>6 DEF RequestOK, IsRequest
    <2> QED
      BY <1>1, <2>5, <2>7, OthersStay
  <1> QED
    BY <1>3, <1>4, <1>5 DEF LookedUp

(* A health check panics only at a group that is empty, which a text that  *)
(* has been looked up selects.                                             *)
LEMMA EnterGroupOK ==
    ASSUME ScopeInv, RequestInv, HealthInv, NEW h \in Handlers, EnterGroup(h)
    PROVE  RequestInv'
  <1> USE DEF scopeVars
  <1>1. UNCHANGED <<indexes, lookup, found, directories>>
    BY DEF EnterGroup
  <1>2. ASSUME NEW what, what # "panic", Answer(h, what) PROVE RequestInv'
    BY <1>1, <1>2, AnsweredOK
  <1>3. ASSUME NEW key \in health[h].todo, indexes[key] = <<>>, Answer(h, "panic")
        PROVE  RequestInv'
    <2>1. key \in DOMAIN indexes /\ request[h].op = "health"
      BY <1>3 DEF HealthInv, HealthOK, RequestInv, RequestOK, EnterGroup, InRequest
    <2>2. KeyOK(key) /\ ListsWanted(<<>>, key)
      BY <1>3, <2>1 DEF ScopeInv, MapOK
    <2>3. Wanted(key) = <<>>
      BY <2>2 DEF ListsWanted, NamesOf
    <2>4. isAggregate(key) /\ Selected(key) = <<>>
      BY <2>2, <2>3, KeysOK DEF Wanted
    <2>5. Reason(h)
      BY <2>1, <2>4 DEF Reason
    <2> QED
      BY <1>1, <1>3, <2>5, AnsweredOK
  <1>4. CASE request' = request
    BY <1>1, <1>4, NoRequestMoves
  <1> QED
    BY <1>2, <1>3, <1>4 DEF EnterGroup

(* Every request is given what the text it was resolved to selects.        *)
LEMMA RequestInvStep ==
    ASSUME ScopeInv, RequestInv, HealthInv, [Next]_vars PROVE RequestInv'
  <1> USE DEF scopeVars
  <1>0. DOMAIN request = Handlers /\ \A h \in Handlers : RequestOK(h)
    BY DEF RequestInv
  <1>1. CASE Startup
    <2>1. PICK key \in Startups : StartLookup(Main, key)
      BY <1>1 DEF Startup
    <2>2. \A h \in Handlers : lookup'[h] = lookup[h]
      BY <2>1, Servers, Started DEF ScopeInv
    <2>3. ASSUME NEW h \in Handlers
          PROVE  RequestOK(h)' /\ (request[h].answer = "panic" => Reason(h))'
      BY <1>1, <2>2, RequestStays DEF RequestInv, Startup
    <2> QED
      BY <1>1, <2>3 DEF RequestInv, Startup
  <1>2. ASSUME NEW p \in Process, LookupSteps(p) PROVE RequestInv'
    <2>1. /\ request' = request /\ directories' = directories
          /\ LookupPost(p) /\ DOMAIN indexes \subseteq DOMAIN indexes'
      BY <1>2, LookupStepPost DEF LookupSteps, LookupStep
    <2>2. ASSUME NEW h \in Handlers, h # p \/ request[h].at # "lookup"
          PROVE  RequestOK(h)' /\ (request[h].answer = "panic" => Reason(h))'
      BY <2>1, <2>2, Servers, RequestStays DEF RequestInv, LookupPost
    <2>3. ASSUME p \in Handlers, request[p].at = "lookup"
          PROVE  RequestOK(p)' /\ (request[p].answer = "panic" => Reason(p))'
      <3>1. RequestOK(p) /\ request[p].answer = "none"
        BY <1>0, <2>3 DEF RequestOK
      <3>2. lookup[p][1].key = request[p].id
        BY <2>1, <2>3, <3>1 DEF RequestOK, LookupPost
      <3>3. IF lookup'[p] = <<>>
            THEN found'[p].ok => ListsWanted(found'[p].runners, request[p].id)
            ELSE lookup'[p][1].key = request[p].id
        BY <2>1, <3>2 DEF LookupPost
      <3>4. (lookup[p] = <<>> /\ found[p].ok => ListsWanted(found[p].runners, request[p].id))'
        <4>1. \A runners, key : ListsWanted(runners, key) => ListsWanted(runners, key)'
          BY <2>1, StackStays
        <4> QED
          BY <2>1, <3>3, <4>1
      <3> QED
        BY <2>1, <3>1, <3>3, <3>4 DEF RequestOK, IsRequest
    <2> QED
      BY <2>1, <2>2, <2>3 DEF RequestInv
  <1>3. ASSUME NEW h \in Handlers, Resolve(h) PROVE RequestInv'
    <2>1. PICK key \in ResolveIndexID(request[h].id) :
             /\ StartLookup(h, key)
             /\ request' = [request EXCEPT ![h].at = "lookup", ![h].id = key]
      BY <1>3 DEF Resolve
    <2>2. RequestOK(h) /\ request[h].at = "resolve"
      BY <1>0, <1>3 DEF Resolve, InRequest
    <2>3. /\ KeyOK(request[h].id) /\ request[h].op # "health" /\ request[h].answer = "none"
          /\ request[h].op \in {"none", "caps", "search", "status", "download"}
      BY <2>2 DEF RequestOK
    <2>4. KeyOK(key)
      BY <2>1, <2>3, Resolved DEF ScopeInv
    <2>5. PICK r : r = request[h]
      OBVIOUS
    <2>6. PICK r2 : r2 = [r EXCEPT !.at = "lookup", !.id = key]
      OBVIOUS
    <2>7. r2 = [op |-> r.op, at |-> "lookup", id |-> key, answer |-> "none"]
      BY <2>2, <2>3, <2>5, <2>6 DEF RequestOK, IsRequest
    <2>8. request' = [request EXCEPT ![h] = r2]
      BY <2>1, <2>5, <2>6
    <2>9. /\ DOMAIN request' = Handlers
          /\ \A g \in Handlers \ {h} : request'[g] = request[g]
          /\ request'[h] = r2
      BY <1>0, <2>8
    <2> QED
      BY <1>3, <2>1, <2>3, <2>4, <2>5, <2>7, <2>9, LooksUp DEF Resolve
  <1>4. ASSUME NEW h \in Handlers, Search(h) \/ OpenDownload(h) \/ AnswerDownload(h)
        PROVE  RequestInv'
    <2>1. /\ UNCHANGED <<indexes, lookup, found, directories>>
          /\ \/ request' = request
             \/ \E what : what # "panic" /\ Answer(h, what)
      BY <1>4 DEF Search, OpenDownload, AnswerDownload
    <2> QED
      BY <2>1, NoRequestMoves, AnsweredOK
  <1>5. ASSUME NEW h \in Handlers, SpawnCheck(h) \/ RunCheck(h) \/ LeaveGroup(h)
        PROVE  RequestInv'
    BY <1>5, NoRequestMoves DEF SpawnCheck, RunCheck, LeaveGroup
  <1>6. CASE Listen \/ (\E p \in Parsers : Parse(p)) \/ Proxying \/ ErrorsExpire \/ Stops
    BY <1>6, NoRequestMoves DEF Listen, Parse, Proxying, ErrorsExpire, Stops
  <1>7. CASE Restart
    <2>1. request' = [h \in Handlers |-> NoRequest]
      BY <1>7 DEF Restart
    <2>2. PICK id : NoRequest = [op |-> "none", at |-> "idle", id |-> id, answer |-> "none"]
      BY DEF NoRequest
    <2>3. \A h \in Handlers : /\ IsRequest(request'[h]) /\ request'[h].op = "none"
                              /\ request'[h].at = "idle" /\ request'[h].answer = "none"
      BY <2>1, <2>2, Fields
    <2> QED
      BY <2>1, <2>3 DEF RequestInv, RequestOK
  <1>8. CASE UNCHANGED vars
    BY <1>8, NoRequestMoves DEF vars
  <1> QED
    BY <1>1, <1>2, <1>3, <1>4, <1>5, <1>6, <1>7, <1>8, AskingOK, LookedUpOK, EnterGroupOK
       DEF Next, RequestStep

-------------------------------------------------------------------------------
(* The steps of health checks. *)

(* What holds of a check stays so while the map grows.                     *)
LEMMA HealthStays ==
    ASSUME HealthInv, health' = health, DOMAIN indexes \subseteq DOMAIN indexes'
    PROVE  HealthInv'
  BY DEF HealthInv, HealthOK

(* A step of one handler's check leaves the others alone.                  *)
LEMMA HealthMoves ==
    ASSUME HealthInv, indexes' = indexes, NEW h \in Handlers, NEW c, HealthOK(c),
           health' = [health EXCEPT ![h] = c]
    PROVE  HealthInv'
  BY DEF HealthInv, HealthOK

(* The fields of a health check.                                           *)
LEMMA HealthFields ==
    ASSUME NEW todo, NEW runners, NEW pos, NEW pending, NEW checked, NEW c,
           c = [todo |-> todo, runners |-> runners, pos |-> pos, pending |-> pending,
                checked |-> checked],
           todo \subseteq DOMAIN indexes, IsSeq(runners), pos \in 0 .. Len(runners),
           pending \in Nat, pos > 0 /\ pending = 0 => pos \in checked
    PROVE  HealthOK(c)
  BY DEF HealthOK

(* A check that is at no group.                                            *)
LEMMA AtNoGroup ==
    ASSUME NEW todo, todo \subseteq DOMAIN indexes, NEW c,
           c = [todo |-> todo, runners |-> <<>>, pos |-> 0, pending |-> 0, checked |-> {}]
    PROVE  HealthOK(c)
  <1>1. IsSeq(<<>>) /\ Len(<<>>) = 0 /\ 0 \in 0 .. 0
    BY DEF IsSeq
  <1> QED
    BY <1>1 DEF HealthOK

(* Every health check is over texts of the map, and has read the variable, *)
(* or will.                                                                *)
LEMMA HealthInvStep ==
    ASSUME ScopeInv, HealthInv, [Next]_vars PROVE HealthInv'
  <1> USE DEF scopeVars
  <1>1. ASSUME NEW p \in Process, LookupSteps(p) PROVE HealthInv'
    BY <1>1, LookupStepPost, HealthStays DEF LookupSteps
  <1>2. ASSUME NEW h \in Handlers, AskHealth(h) PROVE HealthInv'
    <2>1. PICK todo : todo = DOMAIN indexes
      OBVIOUS
    <2>2. PICK c : c = [NoHealth EXCEPT !.todo = todo]
      OBVIOUS
    <2>3. c = [todo |-> todo, runners |-> <<>>, pos |-> 0, pending |-> 0, checked |-> {}]
      BY <2>2 DEF NoHealth
    <2>4. HealthOK(c)
      BY <2>1, <2>3, AtNoGroup
    <2> QED
      BY <1>2, <2>1, <2>2, <2>4, HealthMoves DEF AskHealth
  <1>3. ASSUME NEW h \in Handlers, EnterGroup(h) PROVE HealthInv'
    <2>1. indexes' = indexes
      BY <1>3 DEF EnterGroup
    <2>2. ASSUME NEW key \in health[h].todo,
                 health' = [health EXCEPT ![h] = [NoHealth EXCEPT
                               !.todo = health[h].todo \ {key}, !.runners = indexes[key]]]
          PROVE  HealthInv'
      <3>1. PICK todo, runners : todo = health[h].todo \ {key} /\ runners = indexes[key]
        OBVIOUS
      <3>2. PICK c : c = [NoHealth EXCEPT !.todo = todo, !.runners = runners]
        OBVIOUS
      <3>3. c = [todo |-> todo, runners |-> runners, pos |-> 0, pending |-> 0, checked |-> {}]
        BY <3>2 DEF NoHealth
      <3>4. todo \subseteq DOMAIN indexes /\ IsSeq(runners)
        BY <3>1 DEF HealthInv, HealthOK, ScopeInv, MapOK, ListsWanted
      <3>5. HealthOK(c)
        BY <3>3, <3>4, HealthFields DEF IsSeq
      <3> QED
        BY <2>1, <2>2, <3>1, <3>2, <3>5, HealthMoves
    <2>3. CASE health' = health
      BY <2>1, <2>3, HealthStays
    <2> QED
      BY <1>3, <2>2, <2>3 DEF EnterGroup
  <1>4. ASSUME NEW h \in Handlers, SpawnCheck(h) \/ RunCheck(h) \/ LeaveGroup(h)
        PROVE  HealthInv'
    <2>1. PICK c : c = health[h]
      OBVIOUS
    <2>2. /\ c = [todo |-> c.todo, runners |-> c.runners, pos |-> c.pos, pending |-> c.pending,
                  checked |-> c.checked]
          /\ c.todo \subseteq DOMAIN indexes /\ IsSeq(c.runners) /\ Len(c.runners) \in Nat
          /\ c.pos \in 0 .. Len(c.runners) /\ c.pending \in Nat
          /\ c.pos > 0 /\ c.pending = 0 => c.pos \in c.checked
      BY <2>1 DEF HealthInv, HealthOK, IsSeq
    <2>3. indexes' = indexes
      BY <1>4 DEF SpawnCheck, RunCheck, LeaveGroup
    <2>4. CASE SpawnCheck(h)
      <3>1. PICK d : d = [c EXCEPT !.pos = c.pos + 1, !.pending = c.pending + 1]
        OBVIOUS
      <3>2. d = [todo |-> c.todo, runners |-> c.runners, pos |-> c.pos + 1,
                 pending |-> c.pending + 1, checked |-> c.checked]
        BY <2>2, <3>1
      <3>3. c.pos < Len(c.runners)
        BY <2>1, <2>4 DEF SpawnCheck
      <3>4. HealthOK(d)
        BY <2>2, <3>2, <3>3, HealthFields
      <3>5. health' = [health EXCEPT ![h] = d]
        BY <2>1, <2>4, <3>1 DEF SpawnCheck
      <3> QED
        BY <2>3, <3>4, <3>5, HealthMoves
    <2>5. CASE RunCheck(h)
      <3>1. PICK d : d = [c EXCEPT !.pending = c.pending - 1, !.checked = c.checked \cup {c.pos}]
        OBVIOUS
      <3>2. d = [todo |-> c.todo, runners |-> c.runners, pos |-> c.pos,
                 pending |-> c.pending - 1, checked |-> c.checked \cup {c.pos}]
        BY <2>2, <3>1
      <3>3. c.pending > 0
        BY <2>1, <2>5 DEF RunCheck
      <3>4. HealthOK(d)
        BY <2>2, <3>2, <3>3, HealthFields
      <3>5. health' = [health EXCEPT ![h] = d]
        BY <2>1, <2>5, <3>1 DEF RunCheck, LoopVariable
      <3> QED
        BY <2>3, <3>4, <3>5, HealthMoves
    <2>6. CASE LeaveGroup(h)
      <3>1. PICK d : d = [NoHealth EXCEPT !.todo = c.todo]
        OBVIOUS
      <3>2. d = [todo |-> c.todo, runners |-> <<>>, pos |-> 0, pending |-> 0, checked |-> {}]
        BY <3>1 DEF NoHealth
      <3>3. HealthOK(d)
        BY <2>2, <3>2, AtNoGroup
      <3> QED
        BY <2>1, <2>3, <2>6, <3>1, <3>3, HealthMoves DEF LeaveGroup
    <2> QED
      BY <1>4, <2>4, <2>5, <2>6
  <1>5. CASE Restart
    <2>1. HealthOK(NoHealth)'
      BY DEF HealthOK, NoHealth, IsSeq
    <2> QED
      BY <1>5, <2>1 DEF Restart, HealthInv
  <1>6. CASE UNCHANGED <<health, indexes>>
    BY <1>6, HealthStays
  <1>7. ASSUME NEW h \in Handlers,
               Resolve(h) \/ LookedUp(h) \/ Search(h) \/ OpenDownload(h) \/ AnswerDownload(h)
        PROVE  UNCHANGED <<health, indexes>>
    BY <1>7 DEF Resolve, LookedUp, Search, OpenDownload, AnswerDownload
  <1>8. ASSUME NEW h \in Handlers,
               AskTorznab(h) \/ AskStatus(h) \/ \E token \in tokens : AskDownload(h, token)
        PROVE  UNCHANGED <<health, indexes>>
    BY <1>8 DEF AskTorznab, AskStatus, AskDownload
  <1>9. ASSUME \/ Startup \/ Listen \/ (\E p \in Parsers : Parse(p)) \/ Proxying
               \/ ErrorsExpire \/ Stops \/ UNCHANGED vars
        PROVE  UNCHANGED <<health, indexes>>
    BY <1>9 DEF Startup, Listen, Parse, Proxying, ErrorsExpire, Stops, vars
  <1> QED
    BY <1>1, <1>2, <1>3, <1>4, <1>5, <1>6, <1>7, <1>8, <1>9 DEF Next, RequestStep

-------------------------------------------------------------------------------
(* The three together are kept from the start on. *)

ServerInv == ScopeInv /\ RequestInv /\ HealthInv

(* It holds when the program starts for the first time.                    *)
LEMMA ServerInvInit == Init => ServerInv
  <1> SUFFICES ASSUME Init PROVE ServerInv
    OBVIOUS
  <1>1. ScopeInv
    BY DEF Init, ScopeInit, ScopeInv, MapOK, StackOK
  <1>2. RequestInv
    <2>1. request = [h \in Handlers |-> NoRequest]
      BY DEF Init
    <2>2. PICK id : NoRequest = [op |-> "none", at |-> "idle", id |-> id, answer |-> "none"]
      BY DEF NoRequest
    <2>3. /\ IsRequest(NoRequest) /\ NoRequest.op = "none"
          /\ NoRequest.at = "idle" /\ NoRequest.answer = "none"
      BY <2>2, Fields
    <2>4. \A h \in Handlers : request[h] = NoRequest
      BY <2>1
    <2> QED
      BY <2>1, <2>3, <2>4 DEF RequestInv, RequestOK
  <1>3. HealthInv
    <2>1. HealthOK(NoHealth)
      BY DEF HealthOK, NoHealth, IsSeq
    <2> QED
      BY <2>1 DEF Init, HealthInv
  <1> QED
    BY <1>1, <1>2, <1>3 DEF ServerInv

(* And it holds for ever, over crashes and restarts too.                   *)
LEMMA ServerKeepsInv == Spec => []ServerInv
  <1>1. Init => ServerInv
    BY ServerInvInit
  <1>2. ServerInv /\ [Next]_vars => ServerInv'
    BY ScopeInvStep, RequestInvStep, HealthInvStep DEF ServerInv
  <1> QED
    BY <1>1, <1>2, PTL DEF Spec

(* What is loaded under a text is all that it selects, whoever else loads  *)
(* some of it meanwhile and whichever definitions cannot be loaded: the    *)
(* inner lookup of an aggregate is for the name it is at, and hands it the *)
(* one runner of that name (IndexCollection.Lookup and LookupAll).         *)
THEOREM AllSelectedLoaded == Spec => []CollectionsComplete
  <1>1. ServerInv => CollectionsComplete
    BY DEF ServerInv, ScopeInv, MapOK, ListsWanted, NamesOf, Wanted, CollectionsComplete
  <1> QED
    BY <1>1, ServerKeepsInv, PTL

(* A handler panics at an aggregate that selects nothing, and at nothing   *)
(* else: not at a name that is unknown, and not at an aggregate that       *)
(* another request is just loading (torznab.go:56 and :118,                *)
(* healthCheck.go:15).                                                     *)
THEOREM PanicExplained == Spec => []PanicsOnNothingSelected
  <1>1. ServerInv => PanicsOnNothingSelected
    BY DEF ServerInv, RequestInv, Reason, PanicsOnNothingSelected
  <1> QED
    BY <1>1, ServerKeepsInv, PTL

(* The check that read the loop's variable last read its last value: the   *)
(* last index of a group is among those that were checked, however the     *)
(* checks and the loop take turns (IndexCollection.HealthCheck).           *)
THEOREM LastIsChecked == Spec => []LastIndexChecked
  <1>1. ServerInv => LastIndexChecked
    <2> SUFFICES ASSUME HealthInv, NEW h \in Handlers, GroupChecked(h)
                 PROVE  Len(health[h].runners) \in health[h].checked
      BY DEF ServerInv, LastIndexChecked
    <2>1. PICK runners, pos : runners = health[h].runners /\ pos = health[h].pos
      OBVIOUS
    <2>2. /\ runners \in Seq(Range(runners)) /\ runners # <<>>
          /\ pos = Len(runners) /\ (pos > 0 => pos \in health[h].checked)
      BY <2>1 DEF HealthInv, HealthOK, GroupChecked, IsSeq
    <2>3. Len(runners) \in Nat /\ Len(runners) # 0
      BY <2>2
    <2> QED
      BY <2>1, <2>2, <2>3
  <1> QED
    BY <1>1, ServerKeepsInv, PTL

-------------------------------------------------------------------------------
(* What a request asks for: nothing of the server is used.                 *)

(* The parameters that are given once, and those whose values are joined.  *)
OnceNames == {"t", "year", "ep", "season", "apikey", "tvdbid", "rid", "tvmazeid", "imdbid"}
JoinedNames == {"q", "series", "movie"}

(* The tables of parameters have these names.                              *)
LEMMA NameSets == DOMAIN OnceFields = OnceNames /\ DOMAIN JoinedFields = JoinedNames
  BY DEF OnceFields, JoinedFields, OnceNames, JoinedNames

(* What is made of the query by each kind of parameter.                    *)
TakenOnce(q, k, vals) ==
    IF Len(vals) > 1 THEN Reject(q)
    ELSE Accept([q EXCEPT ![OnceFields[k]] = vals[1]])

TakenJoined(q, k, vals) ==
    Accept([q EXCEPT ![JoinedFields[k]] = Joined(vals, " ")])

TakenPages(q, vals) ==
    Accept([q EXCEPT !.pages = IF IsNumber(vals[1]) THEN Uint(Atoi(vals[1])) ELSE 0])

TakenCount(q, k, vals) ==
    IF Len(vals) > 1 \/ ~IsNumber(vals[1]) THEN Reject(q)
    ELSE Accept([q EXCEPT ![k] = Uint(Atoi(vals[1]))])

TakenExtended(q, vals) ==
    IF Len(vals) > 1 \/ vals[1] \notin TrueTexts \cup FalseTexts THEN Reject(q)
    ELSE Accept([q EXCEPT !.extended = vals[1] \in TrueTexts])

TakenCategories(q, vals) ==
    IF \E i \in DOMAIN AllCats(vals) : ~IsNumber(AllCats(vals)[i])
    THEN Reject(NewQuery)
    ELSE Accept([q EXCEPT !.categories =
                     [i \in DOMAIN AllCats(vals) |-> Atoi(AllCats(vals)[i])]])

(* The parameters the handler knows.                                       *)
Named == OnceNames \cup JoinedNames \cup {"p", "limit", "offset", "extended", "cat"}

(* The cases of the parser do not overlap: the name of a parameter decides *)
(* what is made of it (NewQueryFromUrl).                                   *)
LEMMA ParseCases ==
    ASSUME NEW q, NEW k, NEW vals
    PROVE  /\ k \in OnceNames => ParseParam(q, k, vals) = TakenOnce(q, k, vals)
           /\ k \in JoinedNames => ParseParam(q, k, vals) = TakenJoined(q, k, vals)
           /\ k = "p" => ParseParam(q, k, vals) = TakenPages(q, vals)
           /\ k \in {"limit", "offset"} => ParseParam(q, k, vals) = TakenCount(q, k, vals)
           /\ k = "extended" => ParseParam(q, k, vals) = TakenExtended(q, vals)
           /\ k = "cat" => ParseParam(q, k, vals) = TakenCategories(q, vals)
           /\ k \notin Named => ParseParam(q, k, vals) = Accept(q)
  <1>1. ParseParam(q, k, vals) =
          CASE k \in OnceNames -> TakenOnce(q, k, vals)
            [] k \in JoinedNames -> TakenJoined(q, k, vals)
            [] k = "p" -> TakenPages(q, vals)
            [] k \in {"limit", "offset"} -> TakenCount(q, k, vals)
            [] k = "extended" -> TakenExtended(q, vals)
            [] k = "cat" -> TakenCategories(q, vals)
            [] OTHER -> Accept(q)
    BY NameSets DEF ParseParam, TakenOnce, TakenJoined, TakenPages, TakenCount, TakenExtended,
                    TakenCategories
  <1> QED
    BY <1>1 DEF OnceNames, JoinedNames, Named

(* A query has its fields and no other.                                    *)
FieldNames == DOMAIN NewQuery

IsQuery(q) == q = [f \in FieldNames |-> q[f]]

(* The field a parameter sets, if any.                                     *)
Written(k) ==
    IF k \in OnceNames THEN {OnceFields[k]}
    ELSE IF k \in JoinedNames THEN {JoinedFields[k]}
    ELSE IF k = "p" THEN {"pages"}
    ELSE IF k \in {"limit", "offset", "extended"} THEN {k}
    ELSE IF k = "cat" THEN {"categories"}
    ELSE {}

(* No two parameters set the same field.                                   *)
LEMMA WrittenOnce ==
    /\ \A k : Written(k) \subseteq FieldNames
    /\ \A k, j : Written(k) \cap Written(j) # {} => k = j
  BY DEF Written, FieldNames, OnceNames, JoinedNames, NewQuery, OnceFields,
         JoinedFields

(* Whatever was read before, the parameter sets its field to the value and *)
(* leaves the others.                                                      *)
Says(k, vals, value) ==
    \A q : IsQuery(q) =>
        LET parsed == ParseParam(q, k, vals)
        IN  /\ IsQuery(parsed.query)
            /\ \A f \in FieldNames : parsed.query[f] = IF f \in Written(k) THEN value ELSE q[f]
            /\ parsed.how = "ok"

(* A parameter does that, or is rejected, and which of the two does not    *)
(* depend on what was read before.                                         *)
LEMMA ParamSays ==
    ASSUME NEW k, NEW vals
    PROVE  \/ \E value : Says(k, vals, value)
           \/ \A q : ParseParam(q, k, vals).how # "ok"
  <1>0. \A q : /\ Accept(q).query = q /\ Accept(q).how = "ok"
               /\ Reject(q).how = "error"
    BY DEF Accept, Reject, Outcome
  <1>1. ASSUME NEW f \in FieldNames, NEW value, NEW q, IsQuery(q)
        PROVE  LET result == [q EXCEPT ![f] = value]
               IN  /\ IsQuery(result)
                   /\ \A g \in FieldNames : result[g] = IF g \in {f} THEN value ELSE q[g]
    BY <1>1 DEF IsQuery
  <1>2. ASSUME NEW f \in FieldNames, NEW value, Written(k) = {f},
               \A q : ParseParam(q, k, vals) = Accept([q EXCEPT ![f] = value])
        PROVE  \E v : Says(k, vals, v)
    <2>1. Says(k, vals, value)
      <3> SUFFICES ASSUME NEW q, IsQuery(q)
                   PROVE  LET parsed == ParseParam(q, k, vals)
                          IN  /\ IsQuery(parsed.query)
                              /\ \A g \in FieldNames :
                                    parsed.query[g] = IF g \in Written(k) THEN value ELSE q[g]
                              /\ parsed.how = "ok"
        BY Zenon DEF Says
      <3> DEFINE result == [q EXCEPT ![f] = value]
      <3>1. IsQuery(result) /\ \A g \in FieldNames : result[g] = IF g \in {f} THEN value ELSE q[g]
        BY <1>1, <1>2
      <3>2. ParseParam(q, k, vals) = Accept(result)
        BY <1>2
      <3> HIDE DEF result
      <3> QED
        BY <1>0, <1>2, <3>1, <3>2
    <2> QED
      BY <2>1
  <1>3. CASE k \in OnceNames
    <2>1. OnceFields[k] \in FieldNames /\ Written(k) = {OnceFields[k]}
      BY <1>3, WrittenOnce DEF Written
    <2> DEFINE wrong == Len(vals) > 1
    <2>2. \A q : ParseParam(q, k, vals) =
                   IF wrong THEN Reject(q)
                   ELSE Accept([q EXCEPT ![OnceFields[k]] = vals[1]])
      <3>1. \A q : ParseParam(q, k, vals) = TakenOnce(q, k, vals)
        BY <1>3, ParseCases
      <3> QED
        BY <3>1 DEF TakenOnce
    <2> HIDE DEF wrong
    <2>3. CASE wrong
      BY <1>0, <2>2, <2>3
    <2>4. CASE ~wrong
      <3>1. \A q : ParseParam(q, k, vals) =
                      Accept([q EXCEPT ![OnceFields[k]] = vals[1]])
        BY <2>2, <2>4
      <3> QED
        BY <1>2, <2>1, <3>1
    <2> QED
      BY <2>3, <2>4
  <1>4. CASE k \in JoinedNames
    <2>1. JoinedFields[k] \in FieldNames /\ Written(k) = {JoinedFields[k]}
      BY <1>4, WrittenOnce DEF Written, OnceNames, JoinedNames
    <2>2. \A q : ParseParam(q, k, vals) =
                   Accept([q EXCEPT ![JoinedFields[k]] = Joined(vals, " ")])
      BY <1>4, ParseCases DEF TakenJoined
    <2> QED
      BY <1>2, <2>1, <2>2
  <1>5. CASE k = "p"
    <2> DEFINE pages == IF IsNumber(vals[1]) THEN Uint(Atoi(vals[1])) ELSE 0
    <2>1. "pages" \in FieldNames /\ Written(k) = {"pages"}
      BY <1>5, WrittenOnce DEF Written, OnceNames, JoinedNames
    <2>2. \A q : ParseParam(q, k, vals) = Accept([q EXCEPT !["pages"] = pages])
      BY <1>5, ParseCases DEF TakenPages
    <2> HIDE DEF pages
    <2> QED
      BY <1>2, <2>1, <2>2
  <1>6. CASE k \in {"limit", "offset"}
    <2>1. k \in FieldNames /\ Written(k) = {k}
      BY <1>6, WrittenOnce DEF Written, OnceNames, JoinedNames
    <2> DEFINE wrong == Len(vals) > 1 \/ ~IsNumber(vals[1])
               count == Uint(Atoi(vals[1]))
    <2>2. \A q : ParseParam(q, k, vals) =
                   IF wrong THEN Reject(q) ELSE Accept([q EXCEPT ![k] = count])
      <3>1. \A q : ParseParam(q, k, vals) = TakenCount(q, k, vals)
        BY <1>6, ParseCases
      <3> QED
        BY <3>1 DEF TakenCount
    <2> HIDE DEF count, wrong
    <2>3. CASE wrong
      BY <1>0, <2>2, <2>3
    <2>4. CASE ~wrong
      <3>1. \A q : ParseParam(q, k, vals) = Accept([q EXCEPT ![k] = count])
        BY <2>2, <2>4
      <3> QED
        BY <1>2, <2>1, <3>1
    <2> QED
      BY <2>3, <2>4
  <1>7. CASE k = "extended"
    <2> DEFINE extended == vals[1] \in TrueTexts
               wrong == Len(vals) > 1 \/ vals[1] \notin TrueTexts \cup FalseTexts
    <2>1. "extended" \in FieldNames /\ Written(k) = {"extended"}
      BY <1>7, WrittenOnce DEF Written, OnceNames, JoinedNames
    <2>2. \A q : ParseParam(q, k, vals) =
                   IF wrong THEN Reject(q)
                   ELSE Accept([q EXCEPT !["extended"] = extended])
      BY <1>7, ParseCases DEF TakenExtended
    <2> HIDE DEF extended, wrong
    <2>3. CASE wrong
      BY <1>0, <2>2, <2>3
    <2>4. CASE ~wrong
      <3>1. \A q : ParseParam(q, k, vals) = Accept([q EXCEPT !["extended"] = extended])
        BY <2>2, <2>4
      <3> QED
        BY <1>2, <2>1, <3>1
    <2> QED
      BY <2>3, <2>4
  <1>8. CASE k = "cat"
    <2> DEFINE wrong == \E i \in DOMAIN AllCats(vals) :
                           ~IsNumber(AllCats(vals)[i])
               categories == [i \in DOMAIN AllCats(vals) |->
                                Atoi(AllCats(vals)[i])]
    <2>1. "categories" \in FieldNames /\ Written(k) = {"categories"}
      BY <1>8, WrittenOnce DEF Written, OnceNames, JoinedNames
    <2>2. \A q : ParseParam(q, k, vals) =
                   IF wrong THEN Reject(NewQuery)
                   ELSE Accept([q EXCEPT !["categories"] = categories])
      BY <1>8, ParseCases DEF TakenCategories
    <2> HIDE DEF categories, wrong
    <2>3. CASE wrong
      BY <1>0, <2>2, <2>3
    <2>4. CASE ~wrong
      <3>1. \A q : ParseParam(q, k, vals) =
                      Accept([q EXCEPT !["categories"] = categories])
        BY <2>2, <2>4
      <3> QED
        BY <1>2, <2>1, <3>1
    <2> QED
      BY <2>3, <2>4
  <1>9. CASE k \notin Named
    <2>1. Written(k) = {}
      BY <1>9 DEF Written, Named
    <2>2. \A q : ParseParam(q, k, vals) = Accept(q)
      BY <1>9, ParseCases
    <2>3. Says(k, vals, 0)
      BY <1>0, <2>1, <2>2 DEF Says
    <2> QED
      BY <2>3
  <1> QED
    BY <1>3, <1>4, <1>5, <1>6, <1>7, <1>8, <1>9 DEF Named

-------------------------------------------------------------------------------
(* The query a parameter makes by itself.                                  *)
Alone(k) == ParseParam(getDefaultQuery, k, asking.params[k]).query

(* What a query is after some of the parameters, in whatever order: each   *)
(* field is as the parameter that sets it says, or as it was at first.     *)
Reading(q, ks) ==
    /\ IsQuery(q)
    /\ \A k \in ks : \E value : Says(k, asking.params[k], value)
    /\ \A k \in ks : \A f \in Written(k) : q[f] = Alone(k)[f]
    /\ \A f \in FieldNames : (\A k \in ks : f \notin Written(k)) => q[f] = getDefaultQuery[f]

(* A query starts with all its fields.                                     *)
LEMMA DefaultQuery == IsQuery(getDefaultQuery) /\ IsQuery(NewQuery)
  BY DEF IsQuery, FieldNames, getDefaultQuery, NewQuery

(* The query holds what the parameters read so far say; once all are read, *)
(* that is what is asked for, whatever the databases add to the query.     *)
ReadInv ==
    asking.kind = "url" =>
      /\ at = "parse" => unread \subseteq DOMAIN asking.params
                         /\ Reading(query, DOMAIN asking.params \ unread)
      /\ at \in {"enrich", "match", "fill", "sent"} => Reading(asked, DOMAIN asking.params)

(* One more parameter that is accepted: it sets its own field, and none of *)
(* those set before.                                                       *)
LEMMA ReadOne ==
    ASSUME NEW k \in DOMAIN asking.params, NEW ks, k \notin ks, Reading(query, ks),
           ParseParam(query, k, asking.params[k]).how = "ok"
    PROVE  Reading(ParseParam(query, k, asking.params[k]).query, ks \cup {k})
  <1> DEFINE vals == asking.params[k]
             result == ParseParam(query, k, vals).query
  <1> HIDE DEF vals
  <1>1. PICK value : Says(k, vals, value)
    BY ParamSays DEF vals
  <1>2. IsQuery(query)
    BY DEF Reading
  <1>3. /\ IsQuery(result)
        /\ \A f \in FieldNames : result[f] = IF f \in Written(k) THEN value ELSE query[f]
    BY <1>1, <1>2 DEF Says
  <1>4. \A f \in FieldNames :
           Alone(k)[f] = IF f \in Written(k) THEN value ELSE getDefaultQuery[f]
    BY <1>1, DefaultQuery DEF Says, Alone, vals
  <1> HIDE DEF result
  <1>5. \A j \in ks \cup {k} : \E v : Says(j, asking.params[j], v)
    BY <1>1 DEF Reading, vals
  <1>6. \A j \in ks \cup {k} : \A f \in Written(j) : result[f] = Alone(j)[f]
    <2> SUFFICES ASSUME NEW j \in ks \cup {k}, NEW f \in Written(j) PROVE result[f] = Alone(j)[f]
      OBVIOUS
    <2>1. f \in FieldNames
      BY WrittenOnce
    <2>2. CASE j = k
      BY <1>3, <1>4, <2>1, <2>2
    <2>3. CASE j # k
      <3>1. f \notin Written(k) /\ j \in ks
        BY <2>3, WrittenOnce
      <3> QED
        BY <1>3, <2>1, <3>1 DEF Reading
    <2> QED
      BY <2>2, <2>3
  <1>7. \A f \in FieldNames :
           (\A j \in ks \cup {k} : f \notin Written(j)) => result[f] = getDefaultQuery[f]
    BY <1>3 DEF Reading
  <1> QED
    BY <1>3, <1>5, <1>6, <1>7 DEF Reading, result, vals

(* Every step of a request keeps that.                                     *)
LEMMA ReadInvStep == ReadInv /\ [QueryNext]_(queryVars) => ReadInv'
  <1>0. [QueryNext]_(queryVars) => asking' = asking
    BY DEF QueryNext, queryVars, Route, ReadParam, AllRead, ReadText,
           Enrich, MatchCategories, FillInput, Send
  <1> SUFFICES ASSUME ReadInv, [QueryNext]_(queryVars), asking.kind = "url" PROVE ReadInv'
    BY <1>0 DEF ReadInv
  <1> DEFINE params == DOMAIN asking.params
             Parsing(q, ks) == ks \subseteq params /\ Reading(q, params \ ks)
  <1>1. asking' = asking
    BY <1>0
  <1>2. Reading(query, params \ unread)' <=> Reading(query', params \ unread')
    BY <1>1 DEF Reading, Alone
  <1>3. Reading(asked, params)' <=> Reading(asked', params)
    BY <1>1 DEF Reading, Alone
  <1>4. SUFFICES /\ at' = "parse" => Parsing(query', unread')
                 /\ at' \in {"enrich", "match", "fill", "sent"} => Reading(asked', params)
    BY <1>1, <1>2, <1>3 DEF ReadInv
  <1>5. /\ at = "parse" => Parsing(query, unread)
        /\ at \in {"enrich", "match", "fill", "sent"} => Reading(asked, params)
    BY DEF ReadInv
  <1> HIDE DEF params
  <1>6. CASE Route
    <2>1. CASE at' = "parse"
      <3>1. query' = getDefaultQuery /\ unread' = params
        BY <1>6, <2>1 DEF Route, Go, params
      <3>2. Reading(getDefaultQuery, {})
        BY DefaultQuery DEF Reading
      <3>3. params \ unread' = {}
        BY <3>1
      <3> QED
        BY <2>1, <3>1, <3>2, <3>3
    <2>2. at' \in {"redirected", "panic", "capabilities", "error", "parse"}
      BY <1>6 DEF Route, Go
    <2> QED
      BY <2>1, <2>2
  <1>7. CASE \E k \in unread : ReadParam(k)
    <2>1. PICK k \in unread : ReadParam(k)
      BY <1>7
    <2> DEFINE parsed == ParseParam(query, k, asking.params[k])
    <2>2. /\ at = "parse" /\ query' = parsed.query /\ unread' = unread \ {k}
          /\ at' = IF parsed.how = "ok" THEN "parse" ELSE "error"
      BY <2>1 DEF ReadParam, Go
    <2>3. unread \subseteq params /\ Reading(query, params \ unread)
      BY <1>5, <2>2
    <2>4. CASE parsed.how = "ok"
      <3>1. Reading(parsed.query, (params \ unread) \cup {k})
        BY <2>3, <2>4, ReadOne DEF params
      <3>2. params \ unread' = (params \ unread) \cup {k} /\ unread' \subseteq params
        BY <2>2, <2>3
      <3> QED
        BY <2>2, <2>4, <3>1, <3>2
    <2> QED
      BY <2>2, <2>4
  <1>8. CASE AllRead
    <2>1. at = "parse" /\ unread = {} /\ asked' = query /\ at' = "enrich"
      BY <1>8 DEF AllRead, Go
    <2>2. Reading(query, params)
      BY <1>5, <2>1
    <2> QED
      BY <2>1, <2>2
  <1>9. CASE ReadText
    BY <1>9 DEF ReadText
  <1>10. CASE \/ MatchCategories \/ Send \/ \E k \in unread : FillInput(k)
              \/ \E answer \in {"name", "none", "error"} : Enrich(answer)
    <2>1. /\ at \in {"enrich", "match", "fill"} /\ asked' = asked
          /\ at' \in {"error", "match", "fill", "sent"}
      BY <1>10 DEF MatchCategories, Send, FillInput, Enrich, Go
    <2> QED
      BY <1>5, <2>1
  <1>11. CASE UNCHANGED queryVars
    BY <1>5, <1>11 DEF queryVars
  <1> QED
    BY <1>6, <1>7, <1>8, <1>9, <1>10, <1>11 DEF QueryNext

(* Whatever order the map of parameters is walked in, the query says what  *)
(* each of them says by itself and nothing else, for every request         *)
(* (NewQueryFromUrl).                                                      *)
THEOREM ReadInAnyOrder == QuerySpec => []ReadsAsAsked
  <1>1. QueryInit => ReadInv
    BY DEF QueryInit, ReadInv
  <1>2. ReadInv => ReadsAsAsked
    <2> SUFFICES ASSUME ReadInv, asking.kind = "url", at \in {"match", "fill", "sent"}
                 PROVE  ReadsAsAsked
      BY DEF ReadsAsAsked
    <2> DEFINE params == DOMAIN asking.params
    <2>1. Reading(asked, params)
      BY DEF ReadInv
    <2>2. DOMAIN asked = FieldNames
      BY <2>1 DEF Reading, IsQuery
    <2>3. \A k \in params, f \in FieldNames :
             f \notin Written(k) => Alone(k)[f] = getDefaultQuery[f]
      BY <2>1, DefaultQuery DEF Reading, Says, Alone
    <2>4. \A f \in FieldNames, k \in params :
             Alone(k)[f] # getDefaultQuery[f] => asked[f] = Alone(k)[f]
      BY <2>1, <2>3 DEF Reading
    <2>5. \A f \in FieldNames : \/ asked[f] = getDefaultQuery[f]
                                 \/ \E k \in params : asked[f] = Alone(k)[f]
      BY <2>1 DEF Reading
    <2> DEFINE alone == [k \in params |-> Alone(k)]
    <2>6. DOMAIN alone = params /\ \A k \in params : alone[k] = Alone(k)
      OBVIOUS
    <2> HIDE DEF params
    <2>7. \A f \in DOMAIN asked :
            /\ \A k \in DOMAIN alone :
                  alone[k][f] # getDefaultQuery[f] => asked[f] = alone[k][f]
            /\ \/ asked[f] = getDefaultQuery[f]
               \/ \E k \in DOMAIN alone : asked[f] = alone[k][f]
      BY <2>2, <2>4, <2>5, <2>6
    <2> QED
      BY <2>7 DEF ReadsAsAsked, Alone, params
  <1> QED
    BY <1>1, <1>2, ReadInvStep, PTL DEF QuerySpec

-------------------------------------------------------------------------------

(* What a category asked for resolves to has to do with it.                *)
LEMMA ResolveFacts ==
    ASSUME NEW map, NEW cat
    PROVE  /\ {l \in DOMAIN map : map[l] = cat} \subseteq ResolveCategory(map, cat)
           /\ \A l \in ResolveCategory(map, cat) :
                \/ map[l] = cat
                \/ /\ \A other \in DOMAIN map : map[other] # cat
                   /\ ParentCategory(map[l]) = cat \/ map[l] = ParentCategory(cat)
  <1> DEFINE exact == {l \in DOMAIN map : map[l] = cat}
             below == {l \in DOMAIN map : ParentCategory(map[l]) = cat}
             above == {l \in DOMAIN map : map[l] = ParentCategory(cat)}
  <1>1. ResolveCategory(map, cat) = CASE exact # {} -> exact
                              [] exact = {} /\ below # {} -> below
                              [] OTHER -> above
    BY DEF ResolveCategory
  <1> QED
    BY <1>1

(* The index's categories are those of the query, from the moment they are *)
(* chosen.                                                                 *)
Matched ==
    at \in {"fill", "sent"} =>
        localCats = GetLocalCategoriesMatchingQuery(definition.map,
                                                          ToSet(query.categories))

(* They are chosen once; the query is read no more after that.             *)
LEMMA MatchedStep == Matched /\ [QueryNext]_(queryVars) => Matched'
  BY Zenon DEF Matched, QueryNext, queryVars, Go, Route, ReadParam,
               AllRead, ReadText, Enrich, MatchCategories,
               FillInput, Send

(* For every definition and request, an index is searched in all its       *)
(* categories that are mapped to one asked for, and in no others than      *)
(* those mapped to the same, or related to one that nothing is mapped to   *)
(* (GetLocalCategoriesMatchingQuery).                                      *)
THEOREM CategoriesAsAsked == QuerySpec => []CategoriesFollowTheRequest
  <1>1. QueryInit => Matched
    BY DEF QueryInit, Matched
  <1>2. Matched => CategoriesFollowTheRequest
    <2> SUFFICES ASSUME Matched, at \in {"fill", "sent"} PROVE CategoriesFollowTheRequest
      BY DEF CategoriesFollowTheRequest
    <2> DEFINE map == definition.map
               asks == ToSet(query.categories)
               cats == asks \cap AllCategories
    <2>1. localCats = UNION {ResolveCategory(map, cat) : cat \in cats}
      BY DEF Matched, GetLocalCategoriesMatchingQuery, ResolveAll, Subset
    <2> HIDE DEF cats
    <2>2. {l \in DOMAIN map : map[l] \in cats} \subseteq localCats
      BY <2>1, ResolveFacts
    <2>3. \A l \in localCats : \E cat \in cats : l \in ResolveCategory(map, cat)
      BY <2>1
    <2>4. \A l \in localCats : \E cat \in cats :
                \/ map[l] = cat
                \/ /\ \A other \in DOMAIN map : map[other] # cat
                   /\ ParentCategory(map[l]) = cat \/ map[l] = ParentCategory(cat)
      BY <2>3, ResolveFacts
    <2> QED
      BY <2>2, <2>4 DEF CategoriesFollowTheRequest, cats
  <1> QED
    BY <1>1, <1>2, MatchedStep, PTL DEF QuerySpec

(* All numbers of a thousand have the first one for their parent.          *)
LEMMA ParentOfHead ==
    ASSUME NEW n \in {2, 5}, NEW cat \in 1000 * n .. 1000 * n + 999
    PROVE  ParentCategory(cat) = 1000 * n
  BY DEF ParentCategory

(* An index with a category of a thousand has some to search in when the   *)
(* first one, of all of them, is asked for.                                *)
LEMMA HeadResolves ==
    ASSUME NEW map, NEW n \in {2, 5},
           \E cat \in CategoriesOf(map) : cat \in 1000 * n .. 1000 * n + 999
    PROVE  GetLocalCategoriesMatchingQuery(map, {1000 * n}) # {}
  <1> DEFINE head == 1000 * n
  <1>1. PICK l \in DOMAIN map : map[l] \in head .. head + 999
    BY DEF CategoriesOf
  <1>2. ParentCategory(map[l]) = head
    BY <1>1, ParentOfHead
  <1>3. head \in AllCategories
    BY DEF AllCategories
  <1> HIDE DEF head
  <1>4. ResolveCategory(map, head) # {}
    BY <1>2 DEF ResolveCategory
  <1>5. GetLocalCategoriesMatchingQuery(map, {head}) =
           UNION {ResolveCategory(map, cat) : cat \in {head}}
    BY <1>3 DEF GetLocalCategoriesMatchingQuery, ResolveAll, Subset
  <1> QED
    BY <1>4, <1>5 DEF head

(* A mode of search is offered only for such a category; the identifiers   *)
(* that are added to the modes add none.                                   *)
LEMMA ModesOffered ==
    ASSUME NEW map
    PROVE  /\ HasSearchMode(Capabilities(map), "tv-search") =>
                 HasTVShows(CategoriesOf(map))
           /\ HasSearchMode(Capabilities(map), "movie-search") =>
                 HasMovies(CategoriesOf(map))
  <1> DEFINE caps == ToTorznab(map)
  <1>1. \A mode :
           HasSearchMode(Capabilities(map), mode) => HasSearchMode(caps, mode)
    <2> SUFFICES ASSUME NEW mode, HasSearchMode(Capabilities(map), mode)
                 PROVE  HasSearchMode(caps, mode)
      OBVIOUS
    <2>1. Capabilities(map).modes =
             {[m EXCEPT !.params = @ \cup IdentifiersOf(m.mode)] : m \in caps.modes}
      BY DEF Capabilities, ToTorznab
    <2>2. PICK m \in caps.modes :
             [m EXCEPT !.params = @ \cup IdentifiersOf(m.mode)].mode = mode
      BY <2>1 DEF HasSearchMode
    <2>3. "mode" \in DOMAIN m
      BY DEF ToTorznab
    <2> QED
      BY <2>2, <2>3 DEF HasSearchMode
  <1>2. HasSearchMode(caps, "tv-search") => HasTVShows(CategoriesOf(map))
    BY DEF ToTorznab, HasSearchMode
  <1>3. HasSearchMode(caps, "movie-search") => HasMovies(CategoriesOf(map))
    BY DEF ToTorznab, HasSearchMode
  <1> QED
    BY <1>1, <1>2, <1>3

(* An index that offers a search for shows or films has categories to      *)
(* search in when all of them are asked for, whatever its categories are   *)
(* mapped to (ToTorznab against GetLocalCategoriesMatchingQuery).          *)
THEOREM OfferedIsSearched == QuerySpec => []OfferedModesAreSearched
  <1>1. OfferedModesAreSearched
    BY HeadResolves, ModesOffered
       DEF OfferedModesAreSearched, HasTVShows, HasMovies
  <1> QED
    BY <1>1, PTL DEF QuerySpec
===============================================================================
