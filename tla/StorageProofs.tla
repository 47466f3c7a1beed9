----------------------------- MODULE StorageProofs -----------------------------
(***************************************************************************)
(* Proofs about Storage, for any number of networks, keys and mishaps.     *)
(* What the proofs say of the disk, they say of it and of the writes still *)
(* to be made: of each name, the set of them is enough, as they come in    *)
(* one order.                                                              *)
(***************************************************************************)
EXTENDS Storage, SequenceTheorems, TLAPS

-----------------------------------------------------------------------------
(***************************************************************************)
(* Lists of writes.                                                        *)
(***************************************************************************)
\* What list s does to the name.
Todo(s, n) == {s[i].do : i \in {j \in 1 .. Len(s) : s[j].name = n}}

\* What a list may still do to a name after d.
After(d) ==
    CASE d = "forget" -> {"remove config", "write config", "remember"}
      [] d = "remove config" -> {"write config", "remember"}
      [] d = "write config" -> {"remember", "replace", "confirm"}
      [] d = "remember" -> {"write config", "confirm"}
      [] d = "take out" -> {"unmark", "remove file", "put"}
      [] d = "unmark" -> {"remove file", "write file", "put"}
      [] d = "mark" -> {"remove file"}
      [] d = "remove file" -> {"put"}
      [] OTHER -> {}

\* May a list do d to n, and later e to m?
Before(d, n, e, m) ==
    /\ n = m => e \in After(d)
    /\ e # "forget" /\ d # "confirm"
    /\ e = "remove config" => d = "forget"
    /\ d \in {"put", "mark", "write file"} => e # "write config"

Orderly(s) ==
    \A j \in 1 .. Len(s) : \A i \in 1 .. j - 1 : Before(s[i].do, s[i].name, s[j].do, s[j].name)

\* What is written is of configuration c.
Tells(w, c) ==
    /\ w.do \in {"remember", "replace"} => w.val = c
    /\ w.do = "write config" => c # None /\ w.val = c.owner
    /\ w.name = "network" /\ w.do \in {"put", "write file"} => c # None /\ w.val = c.secret
    /\ w.name = "originator" /\ w.do \in {"put", "write file"} => c # None /\ w.val = c.master

Says(s, c) == \A i \in 1 .. Len(s) : Tells(s[i], c)

Kind(n) == IF n = "node-key" THEN 1 .. MaxKeys ELSE Net

Item ==
    [do : {"write config"}, name : {None}, val : Net]
    \union [do : {"remember", "replace"}, name : {None}, val : Config]
    \union [do : {"forget", "remove config", "confirm"}, name : {None}, val : {None}]
    \union [do : {"mark", "unmark", "remove file", "take out"}, name : Name, val : {None}]
    \union UNION {[do : {"put", "write file"}, name : {n}, val : Kind(n)] : n \in Name}

LEMMA TodoHas ==
    ASSUME NEW s, NEW n, NEW d
    PROVE  d \in Todo(s, n) <=> \E i \in 1 .. Len(s) : s[i].name = n /\ s[i].do = d
BY DEF Todo

\* The first write is made.
LEMMA TailList ==
    ASSUME NEW S, NEW s \in Seq(S), s # <<>>, Orderly(s)
    PROVE  /\ Tail(s) \in Seq(S) /\ Orderly(Tail(s)) /\ Head(s) \in S
           /\ Head(s).do \in Todo(s, Head(s).name)
           /\ \A n : Todo(Tail(s), n) = IF n = Head(s).name THEN Todo(s, n) \ {Head(s).do} ELSE Todo(s, n)
           /\ \A n : \A d \in Todo(Tail(s), n) : Before(Head(s).do, Head(s).name, d, n)
           /\ \A c : Says(s, c) => Says(Tail(s), c)
<1>1. /\ Tail(s) \in Seq(S) /\ Len(s) \in Nat /\ Len(s) > 0 /\ Len(Tail(s)) = Len(s) - 1
      /\ \A i \in 1 .. Len(s) - 1 : Tail(s)[i] = s[i + 1]
      /\ Head(s) = s[1] /\ s[1] \in S
  OBVIOUS
<1>2. Orderly(Tail(s))
  <2> SUFFICES ASSUME NEW j \in 1 .. Len(s) - 1, NEW i \in 1 .. j - 1
               PROVE  Before(Tail(s)[i].do, Tail(s)[i].name, Tail(s)[j].do, Tail(s)[j].name)
    BY <1>1 DEF Orderly
  <2>1. j + 1 \in 1 .. Len(s) /\ i + 1 \in 1 .. (j + 1) - 1 /\ i \in 1 .. Len(s) - 1
    BY <1>1
  <2> QED BY <1>1, <2>1 DEF Orderly
<1>3. Head(s).do \in Todo(s, Head(s).name)
  BY <1>1, TodoHas
<1>4. \A j \in 2 .. Len(s) : Before(Head(s).do, Head(s).name, s[j].do, s[j].name)
  BY <1>1 DEF Orderly
<1>5. ASSUME NEW n, NEW d
      PROVE  d \in Todo(Tail(s), n) <=> \E j \in 2 .. Len(s) : s[j].name = n /\ s[j].do = d
  <2>1. ASSUME d \in Todo(Tail(s), n)
        PROVE  \E j \in 2 .. Len(s) : s[j].name = n /\ s[j].do = d
    <3>1. PICK i \in 1 .. Len(Tail(s)) : Tail(s)[i].name = n /\ Tail(s)[i].do = d
      BY <2>1 DEF Todo
    <3>2. i + 1 \in 2 .. Len(s) /\ Tail(s)[i] = s[i + 1]
      BY <1>1
    <3> QED BY <3>1, <3>2
  <2>2. ASSUME NEW j \in 2 .. Len(s), s[j].name = n, s[j].do = d
        PROVE  d \in Todo(Tail(s), n)
    <3>1. j - 1 \in 1 .. Len(Tail(s)) /\ Tail(s)[j - 1] = s[j]
      BY <1>1
    <3> QED BY <2>2, <3>1 DEF Todo
  <2> QED BY <2>1, <2>2
<1>6. \A n : \A d \in Todo(Tail(s), n) : Before(Head(s).do, Head(s).name, d, n)
  BY <1>4, <1>5
<1>7. ASSUME NEW n
      PROVE  Todo(Tail(s), n) = IF n = Head(s).name THEN Todo(s, n) \ {Head(s).do} ELSE Todo(s, n)
  <2>1. ASSUME NEW d
        PROVE  d \in Todo(s, n) <=> (n = Head(s).name /\ d = Head(s).do) \/ d \in Todo(Tail(s), n)
    <3>1. d \in Todo(s, n) <=> \E i \in 1 .. Len(s) : s[i].name = n /\ s[i].do = d
      BY TodoHas
    <3>2. \A i \in 1 .. Len(s) : i = 1 \/ i \in 2 .. Len(s)
      BY <1>1
    <3>3. \A i \in 2 .. Len(s) : i \in 1 .. Len(s)
      OBVIOUS
    <3> QED BY <1>1, <1>5, <3>1, <3>2, <3>3
  <2>2. n = Head(s).name => Head(s).do \notin Todo(Tail(s), n)
    <3>1. \A d : d \notin After(d)
      BY DEF After
    <3>2. \A d : ~Before(d, n, d, n)
      BY <3>1 DEF Before
    <3> QED BY <1>6, <3>2
  <2> QED BY <2>1, <2>2
<1>8. \A c : Says(s, c) => Says(Tail(s), c)
  <2> SUFFICES ASSUME NEW c, Says(s, c) PROVE Says(Tail(s), c)
    OBVIOUS
  <2>1. \A i \in 1 .. Len(Tail(s)) : \E k \in 1 .. Len(s) : Tail(s)[i] = s[k]
    <3> SUFFICES ASSUME NEW i \in 1 .. Len(Tail(s)) PROVE \E k \in 1 .. Len(s) : Tail(s)[i] = s[k]
      OBVIOUS
    <3>1. i + 1 \in 1 .. Len(s) /\ Tail(s)[i] = s[i + 1]
      BY <1>1
    <3> QED BY <3>1
  <2> QED BY <2>1 DEF Says
<1> QED BY <1>1, <1>2, <1>3, <1>6, <1>7, <1>8

LEMMA JoinedLists ==
    ASSUME NEW S, NEW s \in Seq(S), NEW t \in Seq(S)
    PROVE  /\ s \o t \in Seq(S)
           /\ \A n : Todo(s \o t, n) = Todo(s, n) \union Todo(t, n)
           /\ Orderly(s) /\ Orderly(t)
              /\ (\A n, m : \A d \in Todo(s, n), e \in Todo(t, m) : Before(d, n, e, m))
                 => Orderly(s \o t)
           /\ \A c : Says(s, c) /\ Says(t, c) => Says(s \o t, c)
<1>1. /\ s \o t \in Seq(S) /\ Len(s) \in Nat /\ Len(t) \in Nat /\ Len(s \o t) = Len(s) + Len(t)
      /\ \A i \in 1 .. Len(s) : (s \o t)[i] = s[i]
      /\ \A i \in 1 .. Len(t) : (s \o t)[Len(s) + i] = t[i]
  OBVIOUS
<1>2. \A i \in 1 .. Len(s \o t) :
          \/ i \in 1 .. Len(s) /\ (s \o t)[i] = s[i]
          \/ \E k \in 1 .. Len(t) : i = Len(s) + k /\ (s \o t)[i] = t[k]
  <2> SUFFICES ASSUME NEW i \in 1 .. Len(s \o t), i \notin 1 .. Len(s)
               PROVE  \E k \in 1 .. Len(t) : i = Len(s) + k /\ (s \o t)[i] = t[k]
    BY <1>1
  <2>1. i - Len(s) \in 1 .. Len(t) /\ i = Len(s) + (i - Len(s))
    BY <1>1
  <2> QED BY <1>1, <2>1
<1>3. ASSUME NEW n
      PROVE  Todo(s \o t, n) = Todo(s, n) \union Todo(t, n)
  <2>1. ASSUME NEW d \in Todo(s \o t, n) PROVE d \in Todo(s, n) \union Todo(t, n)
    <3>1. PICK i \in 1 .. Len(s \o t) : (s \o t)[i].name = n /\ (s \o t)[i].do = d
      BY <2>1 DEF Todo
    <3> QED BY <1>2, <3>1 DEF Todo
  <2>2. ASSUME NEW d \in Todo(s, n) PROVE d \in Todo(s \o t, n)
    <3>1. PICK i \in 1 .. Len(s) : s[i].name = n /\ s[i].do = d
      BY <2>2, TodoHas
    <3>2. i \in 1 .. Len(s \o t)
      BY <1>1
    <3> QED BY <1>1, <3>1, <3>2, TodoHas
  <2>3. ASSUME NEW d \in Todo(t, n) PROVE d \in Todo(s \o t, n)
    <3>1. PICK i \in 1 .. Len(t) : t[i].name = n /\ t[i].do = d
      BY <2>3, TodoHas
    <3>2. Len(s) + i \in 1 .. Len(s \o t)
      BY <1>1
    <3> QED BY <1>1, <3>1, <3>2, TodoHas
  <2> QED BY <2>1, <2>2, <2>3
<1>4. ASSUME Orderly(s), Orderly(t),
             \A n, m : \A d \in Todo(s, n), e \in Todo(t, m) : Before(d, n, e, m)
      PROVE  Orderly(s \o t)
  <2> DEFINE u == s \o t
  <2> SUFFICES ASSUME NEW j \in 1 .. Len(u), NEW i \in 1 .. j - 1
               PROVE  Before(u[i].do, u[i].name, u[j].do, u[j].name)
    BY DEF Orderly
  <2>1. i \in 1 .. Len(u)
    BY <1>1
  <2>2. CASE j \in 1 .. Len(s)
    BY <1>1, <1>4, <2>2 DEF Orderly
  <2>3. CASE i \in 1 .. Len(s) /\ j \notin 1 .. Len(s)
    <3>1. PICK k \in 1 .. Len(t) : u[j] = t[k]
      BY <1>2, <2>3
    <3>2. u[i].do \in Todo(s, u[i].name) /\ u[j].do \in Todo(t, u[j].name)
      BY <1>1, <2>3, <3>1, TodoHas
    <3> QED BY <1>4, <3>2
  <2>4. CASE i \notin 1 .. Len(s) /\ j \notin 1 .. Len(s)
    <3>1. PICK k \in 1 .. Len(t) : j = Len(s) + k /\ u[j] = t[k]
      BY <1>2, <2>4
    <3>2. PICK l \in 1 .. Len(t) : i = Len(s) + l /\ u[i] = t[l]
      BY <1>2, <2>1, <2>4
    <3>3. l \in 1 .. k - 1
      BY <1>1, <3>1, <3>2
    <3> QED BY <1>4, <3>1, <3>2, <3>3 DEF Orderly
  <2> QED BY <2>2, <2>3, <2>4
<1>5. \A c : Says(s, c) /\ Says(t, c) => Says(s \o t, c)
  <2> SUFFICES ASSUME NEW c, Says(s, c), Says(t, c), NEW i \in 1 .. Len(s \o t)
               PROVE  Tells((s \o t)[i], c)
    BY DEF Says
  <2> QED BY <1>2 DEF Says
<1> QED BY <1>1, <1>3, <1>4, <1>5

\* The same of lists that nothing has to be put in order in.
LEMMA JoinedTodo ==
    ASSUME NEW S, NEW s \in Seq(S), NEW t \in Seq(S), NEW n
    PROVE  Todo(s \o t, n) = Todo(s, n) \union Todo(t, n)
BY JoinedLists

LEMMA JoinedOrder ==
    ASSUME NEW S, NEW s \in Seq(S), NEW t \in Seq(S), Orderly(s), Orderly(t),
           \A n, m : \A d \in Todo(s, n), e \in Todo(t, m) : Before(d, n, e, m)
    PROVE  Orderly(s \o t) /\ s \o t \in Seq(S)
BY JoinedLists

-----------------------------------------------------------------------------
(***************************************************************************)
(* The lists of the operations.                                            *)
(***************************************************************************)
Deletion == {"take out", "unmark", "remove file"}

LEMMA EmptyList ==
    /\ <<>> \in Seq(Item) /\ Orderly(<<>>) /\ \A n : Todo(<<>>, n) = {}
    /\ \A c : Says(<<>>, c)
BY DEF Orderly, Todo, Says

LEMMA SingleList ==
    ASSUME NEW w \in Item
    PROVE  /\ <<w>> \in Seq(Item) /\ Orderly(<<w>>)
           /\ \A n : Todo(<<w>>, n) = IF n = w.name THEN {w.do} ELSE {}
<1>1. <<w>> \in Seq(Item) /\ Len(<<w>>) = 1 /\ <<w>>[1] = w
  OBVIOUS
<1>2. \A n : Todo(<<w>>, n) = IF n = w.name THEN {w.do} ELSE {}
  BY <1>1 DEF Todo
<1> QED BY <1>1, <1>2 DEF Orderly

LEMMA ItemTypes ==
    /\ \A v \in Net : Do("write config", None, v) \in Item
    /\ \A d \in {"remember", "replace"}, c \in Config : Do(d, None, c) \in Item
    /\ \A d \in {"forget", "remove config", "confirm"} : Do(d, None, None) \in Item
    /\ \A d \in {"mark", "unmark", "remove file", "take out"}, n \in Name : Do(d, n, None) \in Item
    /\ \A d \in {"put", "write file"}, n \in Name : \A v \in Kind(n) : Do(d, n, v) \in Item
BY DEF Do, Item

\* What a write is, from what it does.
LEMMA ItemFacts ==
    ASSUME NEW w \in Item
    PROVE  /\ w = Do(w.do, w.name, w.val)
           /\ w.do = "write config" => w.name = None /\ w.val \in Net
           /\ w.do \in {"remember", "replace"} => w.name = None /\ w.val \in Config
           /\ w.do \in {"forget", "remove config", "confirm"} => w.name = None
           /\ w.do \in {"mark", "unmark", "remove file", "take out"} => w.name \in Name
           /\ w.do \in {"put", "write file"} => w.name \in Name /\ w.val \in Kind(w.name)
           /\ w.do \in {"write config", "remember", "replace", "forget", "remove config", "confirm",
                        "mark", "unmark", "remove file", "take out", "put", "write file"}
<1>2. CASE w \in [do : {"write config"}, name : {None}, val : Net]
  BY <1>2 DEF Do
<1>3. CASE w \in [do : {"remember", "replace"}, name : {None}, val : Config]
  BY <1>3 DEF Do
<1>4. CASE w \in [do : {"forget", "remove config", "confirm"}, name : {None}, val : {None}]
  BY <1>4 DEF Do
<1>5. CASE w \in [do : {"mark", "unmark", "remove file", "take out"}, name : Name, val : {None}]
  BY <1>5 DEF Do
<1>6. CASE \E n \in Name : w \in [do : {"put", "write file"}, name : {n}, val : Kind(n)]
  BY <1>6 DEF Do
<1> QED BY <1>2, <1>3, <1>4, <1>5, <1>6 DEF Item

LEMMA Afters ==
    /\ After("forget") = {"remove config", "write config", "remember"}
    /\ After("remove config") = {"write config", "remember"}
    /\ After("write config") = {"remember", "replace", "confirm"}
    /\ After("remember") = {"write config", "confirm"}
    /\ After("take out") = {"unmark", "remove file", "put"}
    /\ After("unmark") = {"remove file", "write file", "put"}
    /\ After("mark") = {"remove file"} /\ After("remove file") = {"put"}
    /\ \A d \in {"write file", "put", "replace", "confirm"} : After(d) = {}
BY DEF After

LEMMA DeleteList ==
    ASSUME NEW n \in Name
    PROVE  /\ Delete(n) \in Seq(Item) /\ Orderly(Delete(n)) /\ \A c : Says(Delete(n), c)
           /\ \A m : Todo(Delete(n), m) = IF m = n THEN Deletion ELSE {}
<1> DEFINE a == Do("take out", n, None)
           b == Do("unmark", n, None)
           d == Do("remove file", n, None)
<1>1. Delete(n) = <<a, b, d>> /\ <<a, b, d>> \in Seq(Item)
  <2>1. a \in Item /\ b \in Item /\ d \in Item
    BY ItemTypes
  <2>2. \A x, y, z \in Item : <<x, y, z>> \in Seq(Item)
    OBVIOUS
  <2>3. Delete(n) = <<a, b, d>>
    BY DEF Delete
  <2> HIDE DEF a, b, d
  <2> QED BY <2>1, <2>2, <2>3
<1>2. /\ a.do = "take out" /\ b.do = "unmark" /\ d.do = "remove file"
      /\ a.name = n /\ b.name = n /\ d.name = n
  BY DEF Do
<1> HIDE DEF a, b, d
<1>3. \A i \in 1 .. Len(<<a, b, d>>) : i = 1 \/ i = 2 \/ i = 3
  OBVIOUS
<1>4. /\ 1 \in 1 .. Len(<<a, b, d>>) /\ 2 \in 1 .. Len(<<a, b, d>>) /\ 3 \in 1 .. Len(<<a, b, d>>)
      /\ <<a, b, d>>[1] = a /\ <<a, b, d>>[2] = b /\ <<a, b, d>>[3] = d
  OBVIOUS
<1>5. Orderly(Delete(n))
  <2>1. /\ Before("take out", n, "unmark", n) /\ Before("take out", n, "remove file", n)
        /\ Before("unmark", n, "remove file", n)
    BY Afters DEF Before
  <2>2. \A j \in 1 .. Len(<<a, b, d>>) : \A i \in 1 .. j - 1 :
            (i = 1 /\ j = 2) \/ (i = 1 /\ j = 3) \/ (i = 2 /\ j = 3)
    OBVIOUS
  <2> QED BY <1>1, <1>2, <1>4, <2>1, <2>2 DEF Orderly
<1>6. \A c : Says(Delete(n), c)
  BY <1>1, <1>2, <1>3, <1>4 DEF Says, Tells
<1>7. \A m : Todo(Delete(n), m) = IF m = n THEN Deletion ELSE {}
  <2> SUFFICES ASSUME NEW m PROVE Todo(<<a, b, d>>, m) = IF m = n THEN Deletion ELSE {}
    BY <1>1
  <2>1. ASSUME NEW e \in Todo(<<a, b, d>>, m) PROVE m = n /\ e \in Deletion
    <3>1. PICK i \in 1 .. Len(<<a, b, d>>) : <<a, b, d>>[i].name = m /\ e = <<a, b, d>>[i].do
      BY <2>1 DEF Todo
    <3> QED BY <1>2, <1>3, <1>4, <3>1 DEF Deletion
  <2>2. m = n => Deletion \subseteq Todo(<<a, b, d>>, m)
    BY <1>2, <1>4 DEF Todo, Deletion
  <2> QED BY <2>1, <2>2
<1> QED BY <1>1, <1>5, <1>6, <1>7

LEMMA KeepLists ==
    ASSUME NEW n \in Name, NEW v \in Kind(n)
    PROVE  /\ KeepInKeystore(n) \in Seq(Item) /\ Orderly(KeepInKeystore(n))
           /\ \A m : Todo(KeepInKeystore(n), m) = IF m = n THEN {"mark", "remove file"} ELSE {}
           /\ \A c : Says(KeepInKeystore(n), c)
           /\ KeepInFile(n, v) \in Seq(Item) /\ Orderly(KeepInFile(n, v))
           /\ \A m : Todo(KeepInFile(n, v), m) = IF m = n THEN {"unmark", "write file"} ELSE {}
           /\ \A i \in 1 .. Len(KeepInFile(n, v)) :
                  KeepInFile(n, v)[i].do \in {"put", "write file"} => KeepInFile(n, v)[i].val = v
           /\ \A c : Tells(Do("put", n, v), c) => Says(KeepInFile(n, v), c)
<1>1. ASSUME NEW a \in Item, NEW b \in Item, a.name = n, b.name = n, b.do \in After(a.do),
             a.do \in {"mark", "unmark"}, b.do \in {"remove file", "write file"}
      PROVE  /\ <<a, b>> \in Seq(Item) /\ Orderly(<<a, b>>)
             /\ \A m : Todo(<<a, b>>, m) = IF m = n THEN {a.do, b.do} ELSE {}
             /\ \A c : Tells(b, c) => Says(<<a, b>>, c)
  <2>1. /\ <<a, b>> \in Seq(Item) /\ \A i \in 1 .. Len(<<a, b>>) : i = 1 \/ i = 2
        /\ 1 \in 1 .. Len(<<a, b>>) /\ 2 \in 1 .. Len(<<a, b>>) /\ 1 \in 1 .. Len(<<b>>)
        /\ <<a, b>>[1] = a /\ <<a, b>>[2] = b /\ <<b>>[1] = b
        /\ \A j \in 1 .. Len(<<a, b>>) : \A i \in 1 .. j - 1 : i = 1 /\ j = 2
    OBVIOUS
  <2>2. Before(a.do, a.name, b.do, b.name)
    BY <1>1 DEF Before
  <2>3. Orderly(<<a, b>>)
    BY <2>1, <2>2 DEF Orderly
  <2>4. \A m : Todo(<<a, b>>, m) = IF m = n THEN {a.do, b.do} ELSE {}
    BY <1>1, <2>1 DEF Todo
  <2>5. \A c : Tells(a, c)
    BY <1>1 DEF Tells
  <2>6. \A c : Tells(b, c) => Says(<<a, b>>, c)
    BY <2>1, <2>5 DEF Says
  <2> QED BY <2>1, <2>3, <2>4, <2>6
<1> DEFINE mark == Do("mark", n, None)
           unmark == Do("unmark", n, None)
           remove == Do("remove file", n, None)
           write == Do("write file", n, v)
<1>2. /\ mark \in Item /\ unmark \in Item /\ remove \in Item /\ write \in Item
      /\ mark.name = n /\ unmark.name = n /\ remove.name = n /\ write.name = n
      /\ mark.do = "mark" /\ unmark.do = "unmark" /\ remove.do = "remove file"
      /\ write.do = "write file" /\ write.val = v
  <2>1. mark \in Item /\ unmark \in Item /\ remove \in Item /\ write \in Item
    BY ItemTypes
  <2> QED BY <2>1 DEF Do
<1>3. KeepInKeystore(n) = <<mark, remove>> /\ KeepInFile(n, v) = <<unmark, write>>
  BY DEF KeepInKeystore, KeepInFile
<1>4. \A c : Tells(remove, c) /\ (Tells(Do("put", n, v), c) => Tells(write, c))
  BY DEF Tells, Do
<1> HIDE DEF mark, unmark, remove, write
<1>5. /\ <<mark, remove>> \in Seq(Item) /\ Orderly(<<mark, remove>>)
      /\ \A m : Todo(<<mark, remove>>, m) = IF m = n THEN {"mark", "remove file"} ELSE {}
      /\ \A c : Says(<<mark, remove>>, c)
  <2>1. remove.do \in After(mark.do)
    BY <1>2, Afters
  <2>2. mark.do \in {"mark", "unmark"} /\ remove.do \in {"remove file", "write file"}
    BY <1>2
  <2> QED BY <1>1, <1>2, <1>4, <2>1, <2>2
<1>6. /\ <<unmark, write>> \in Seq(Item) /\ Orderly(<<unmark, write>>)
      /\ \A m : Todo(<<unmark, write>>, m) = IF m = n THEN {"unmark", "write file"} ELSE {}
      /\ \A c : Tells(Do("put", n, v), c) => Says(<<unmark, write>>, c)
  <2>1. write.do \in After(unmark.do)
    BY <1>2, Afters
  <2>2. unmark.do \in {"mark", "unmark"} /\ write.do \in {"remove file", "write file"}
    BY <1>2
  <2> QED BY <1>1, <1>2, <1>4, <2>1, <2>2
<1>7. \A i \in 1 .. Len(<<unmark, write>>) :
          <<unmark, write>>[i].do \in {"put", "write file"} => <<unmark, write>>[i].val = v
  <2>1. /\ \A i \in 1 .. Len(<<unmark, write>>) : i = 1 \/ i = 2
        /\ <<unmark, write>>[1] = unmark /\ <<unmark, write>>[2] = write
    OBVIOUS
  <2> QED BY <1>2, <2>1
<1> QED BY <1>3, <1>5, <1>6, <1>7

LEMMA NamesDiffer == None # "node-key" /\ None # "network" /\ None # "originator"
BY ValueAssumption DEF Name

\* What saving c does to the originator's master key.
Mastering(c) == IF c.master = None THEN Deletion ELSE {"put"}

LEMMA SaveList ==
    ASSUME NEW c \in Config
    PROVE  /\ SaveConfig(c) \in Seq(Item) /\ Orderly(SaveConfig(c))
           /\ \A n : Todo(SaveConfig(c), n) = IF n = None THEN {"write config"}
                                              ELSE IF n = "network" THEN {"put"}
                                              ELSE IF n = "originator" THEN Mastering(c) ELSE {}
           /\ c # None => Says(SaveConfig(c), c)
<1> DEFINE first == Do("write config", None, c.owner)
           second == Do("put", "network", c.secret)
           last == IF c.master = None THEN Delete("originator") ELSE Store("originator", c.master)
<1>1. c.owner \in Net /\ c.secret \in Net /\ c.master \in Net \union {None}
  BY DEF Config
<1>2. /\ first \in Item /\ first.do = "write config" /\ first.name = None
      /\ second \in Item /\ second.do = "put" /\ second.name = "network"
  <2>1. first \in Item /\ second \in Item
    BY <1>1, ItemTypes DEF Name, Kind
  <2> QED BY <2>1 DEF Do
<1>3. c # None => Tells(first, c) /\ Tells(second, c)
  BY NamesDiffer DEF Do, Tells
<1>4. /\ last \in Seq(Item) /\ Orderly(last)
      /\ \A n : Todo(last, n) = IF n = "originator" THEN Mastering(c) ELSE {}
      /\ c # None => Says(last, c)
  <2>1. CASE c.master = None
    BY <2>1, DeleteList DEF Name, Mastering
  <2>2. CASE c.master # None
    <3> DEFINE w == Do("put", "originator", c.master)
    <3>1. w \in Item
      BY <1>1, <2>2, ItemTypes DEF Name, Kind
    <3>2. w.do = "put" /\ w.name = "originator" /\ (c # None => Tells(w, c))
      BY DEF Do, Tells
    <3>3. last = <<w>>
      BY <2>2 DEF Store
    <3> HIDE DEF w, last
    <3>4. \A i \in 1 .. Len(<<w>>) : <<w>>[i] = w
      OBVIOUS
    <3> QED BY <2>2, <3>1, <3>2, <3>3, <3>4, SingleList DEF Mastering, Says
  <2> QED BY <2>1, <2>2
<1>5. SaveConfig(c) = (<<first>> \o <<second>>) \o last
  BY DEF SaveConfig, Store
<1> HIDE DEF first, second, last
<1>6. /\ <<first>> \in Seq(Item) /\ Orderly(<<first>>)
      /\ \A n : Todo(<<first>>, n) = IF n = None THEN {"write config"} ELSE {}
      /\ <<second>> \in Seq(Item) /\ Orderly(<<second>>)
      /\ \A n : Todo(<<second>>, n) = IF n = "network" THEN {"put"} ELSE {}
  BY <1>2, SingleList
<1>7. c # None => Says(<<first>>, c) /\ Says(<<second>>, c)
  <2>1. \A w : \A i \in 1 .. Len(<<w>>) : <<w>>[i] = w
    OBVIOUS
  <2> QED BY <1>3, <2>1 DEF Says
<1> DEFINE both == <<first>> \o <<second>>
<1>8. /\ both \in Seq(Item) /\ Orderly(both) /\ (c # None => Says(both, c))
      /\ \A n : Todo(both, n) = IF n = None THEN {"write config"}
                                ELSE IF n = "network" THEN {"put"} ELSE {}
  <2>1. Before("write config", None, "put", "network")
    BY NamesDiffer DEF Before
  <2>2. \A n, m : \A d \in Todo(<<first>>, n), e \in Todo(<<second>>, m) : Before(d, n, e, m)
    BY <1>6, <2>1
  <2> DEFINE one == <<first>>
             two == <<second>>
  <2>3. both = one \o two
    OBVIOUS
  <2> HIDE DEF one, two, both
  <2>4. /\ one \in Seq(Item) /\ Orderly(one) /\ two \in Seq(Item) /\ Orderly(two)
        /\ \A n : Todo(one, n) = IF n = None THEN {"write config"} ELSE {}
        /\ \A n : Todo(two, n) = IF n = "network" THEN {"put"} ELSE {}
        /\ \A n, m : \A d \in Todo(one, n), e \in Todo(two, m) : Before(d, n, e, m)
        /\ c # None => Says(one, c) /\ Says(two, c)
    BY <1>6, <1>7, <2>2 DEF one, two
  <2>5. both \in Seq(Item) /\ Orderly(both)
    BY <2>3, <2>4, JoinedOrder
  <2>6. \A n : Todo(both, n) = Todo(one, n) \union Todo(two, n)
    <3> SUFFICES ASSUME NEW n PROVE Todo(both, n) = Todo(one, n) \union Todo(two, n)
      OBVIOUS
    <3>1. one \in Seq(Item) /\ two \in Seq(Item)
      BY <2>4
    <3> QED BY <2>3, <3>1, JoinedTodo
  <2>7. c # None => Says(both, c)
    BY <2>3, <2>4, JoinedLists
  <2> QED BY <2>4, <2>5, <2>6, <2>7, NamesDiffer
<1> HIDE DEF both
<1>9. /\ \A d \in Mastering(c) : Before("write config", None, d, "originator")
      /\ \A d \in Mastering(c) : Before("put", "network", d, "originator")
  BY NamesDiffer DEF Before, Mastering, Deletion
<1>10. \A n, m : \A d \in Todo(both, n), e \in Todo(last, m) : Before(d, n, e, m)
  BY <1>4, <1>8, <1>9
<1>11. /\ both \o last \in Seq(Item) /\ Orderly(both \o last)
       /\ \A n : Todo(both \o last, n) = Todo(both, n) \union Todo(last, n)
       /\ \A k : Says(both, k) /\ Says(last, k) => Says(both \o last, k)
  <2>1. \A n : Todo(both \o last, n) = Todo(both, n) \union Todo(last, n)
    <3> SUFFICES ASSUME NEW n PROVE Todo(both \o last, n) = Todo(both, n) \union Todo(last, n)
      OBVIOUS
    <3>1. both \in Seq(Item) /\ last \in Seq(Item)
      BY <1>4, <1>8
    <3> QED BY <3>1, JoinedTodo
  <2>2. both \o last \in Seq(Item) /\ Orderly(both \o last)
    BY <1>4, <1>8, <1>10, JoinedOrder
  <2>3. \A k : Says(both, k) /\ Says(last, k) => Says(both \o last, k)
    BY <1>4, <1>8, JoinedLists
  <2> QED BY <2>1, <2>2, <2>3
<1>12. SaveConfig(c) = both \o last
  BY <1>5 DEF both
<1>13. c # None => Says(SaveConfig(c), c)
  BY <1>4, <1>8, <1>11, <1>12
<1> QED BY <1>4, <1>8, <1>11, <1>12, <1>13, NamesDiffer

LEMMA TeardownList ==
    /\ Teardown \in Seq(Item) /\ Orderly(Teardown) /\ \A c : Says(Teardown, c)
    /\ \A n : Todo(Teardown, n) = IF n = None THEN {"forget", "remove config"}
                                  ELSE IF n \in {"network", "originator"} THEN Deletion ELSE {}
<1> DEFINE first == Do("forget", None, None)
           second == Do("remove config", None, None)
<1>1. /\ first \in Item /\ first.do = "forget" /\ first.name = None
      /\ second \in Item /\ second.do = "remove config" /\ second.name = None
      /\ \A c : Tells(first, c) /\ Tells(second, c)
  <2>1. first \in Item /\ second \in Item
    BY ItemTypes
  <2> QED BY <2>1, NamesDiffer DEF Do, Tells
<1>2. Teardown = (<<first, second>> \o Delete("network")) \o Delete("originator")
  BY DEF Teardown
<1> HIDE DEF first, second
<1> DEFINE both == <<first, second>>
<1>3. /\ both \in Seq(Item) /\ Orderly(both) /\ \A c : Says(both, c)
      /\ \A n : Todo(both, n) = IF n = None THEN {"forget", "remove config"} ELSE {}
  <2>1. /\ both \in Seq(Item) /\ \A i \in 1 .. Len(both) : i = 1 \/ i = 2
        /\ 1 \in 1 .. Len(both) /\ 2 \in 1 .. Len(both) /\ both[1] = first /\ both[2] = second
        /\ \A j \in 1 .. Len(both) : \A i \in 1 .. j - 1 : i = 1 /\ j = 2
    <3>1. /\ \A i \in 1 .. Len(both) : i = 1 \/ i = 2
          /\ 1 \in 1 .. Len(both) /\ 2 \in 1 .. Len(both) /\ both[1] = first /\ both[2] = second
          /\ \A j \in 1 .. Len(both) : \A i \in 1 .. j - 1 : i = 1 /\ j = 2
      OBVIOUS
    <3>2. \A x, y \in Item : <<x, y>> \in Seq(Item)
      OBVIOUS
    <3> QED BY <1>1, <3>1, <3>2
  <2> HIDE DEF both
  <2>2. Before("forget", None, "remove config", None)
    BY Afters DEF Before
  <2>3. Orderly(both)
    BY <1>1, <2>1, <2>2 DEF Orderly
  <2>4. \A n : Todo(both, n) = IF n = None THEN {"forget", "remove config"} ELSE {}
    BY <1>1, <2>1 DEF Todo
  <2>5. \A c : Says(both, c)
    BY <1>1, <2>1 DEF Says
  <2> QED BY <2>1, <2>3, <2>4, <2>5
<1> DEFINE most == both \o Delete("network")
<1> HIDE DEF both
<1>4. /\ most \in Seq(Item) /\ Orderly(most) /\ \A c : Says(most, c)
      /\ \A n : Todo(most, n) = IF n = None THEN {"forget", "remove config"}
                                ELSE IF n = "network" THEN Deletion ELSE {}
  <2>1. \A d \in {"forget", "remove config"}, e \in Deletion : Before(d, None, e, "network")
    BY NamesDiffer DEF Before, Deletion
  <2>2. /\ Delete("network") \in Seq(Item) /\ Orderly(Delete("network"))
        /\ \A c : Says(Delete("network"), c)
        /\ \A m : Todo(Delete("network"), m) = IF m = "network" THEN Deletion ELSE {}
    BY DeleteList DEF Name
  <2>3. \A n, m : \A d \in Todo(both, n), e \in Todo(Delete("network"), m) : Before(d, n, e, m)
    BY <1>3, <2>1, <2>2
  <2>4. /\ most \in Seq(Item) /\ Orderly(most) /\ \A c : Says(most, c)
        /\ \A n : Todo(most, n) = Todo(both, n) \union Todo(Delete("network"), n)
    BY <1>3, <2>2, <2>3, JoinedLists
  <2> HIDE DEF most
  <2> QED BY <1>3, <2>2, <2>4, NamesDiffer
<1>5. Teardown = most \o Delete("originator")
  BY <1>2 DEF both
<1> HIDE DEF most
<1>6. \A d \in {"forget", "remove config"}, e \in Deletion : Before(d, None, e, "originator")
  BY NamesDiffer DEF Before, Deletion
<1>7. \A d, e \in Deletion : Before(d, "network", e, "originator")
  BY DEF Before, Deletion
<1>8. /\ Delete("originator") \in Seq(Item) /\ Orderly(Delete("originator"))
      /\ \A c : Says(Delete("originator"), c)
      /\ \A m : Todo(Delete("originator"), m) = IF m = "originator" THEN Deletion ELSE {}
  BY DeleteList DEF Name
<1>9. \A n, m : \A d \in Todo(most, n), e \in Todo(Delete("originator"), m) : Before(d, n, e, m)
  BY <1>4, <1>6, <1>7, <1>8
<1>10. /\ Teardown \in Seq(Item) /\ Orderly(Teardown) /\ \A c : Says(Teardown, c)
       /\ \A n : Todo(Teardown, n) = Todo(most, n) \union Todo(Delete("originator"), n)
  BY <1>4, <1>5, <1>8, <1>9, JoinedLists
<1> QED BY <1>4, <1>8, <1>10, NamesDiffer

\* A list of c, and what it does apart from the names, to the network secret and to the master key.
Listed(s, c, plain, net, master) ==
    /\ s \in Seq(Item) /\ Orderly(s) /\ Says(s, c)
    /\ \A n : Todo(s, n) = IF n = None THEN plain
                           ELSE IF n = "network" THEN net ELSE IF n = "originator" THEN master ELSE {}

LEMMA ListedJoined ==
    ASSUME NEW s, NEW t, NEW c, NEW p, NEW n, NEW m, NEW q, NEW k, NEW l,
           Listed(s, c, p, n, m), Listed(t, c, q, k, l),
           \A d \in p : /\ \A e \in q : Before(d, None, e, None)
                        /\ \A e \in k : Before(d, None, e, "network")
                        /\ \A e \in l : Before(d, None, e, "originator"),
           \A d \in n : /\ \A e \in q : Before(d, "network", e, None)
                        /\ \A e \in k : Before(d, "network", e, "network")
                        /\ \A e \in l : Before(d, "network", e, "originator"),
           \A d \in m : /\ \A e \in q : Before(d, "originator", e, None)
                        /\ \A e \in k : Before(d, "originator", e, "network")
                        /\ \A e \in l : Before(d, "originator", e, "originator")
    PROVE  Listed(s \o t, c, p \union q, n \union k, m \union l)
<1>1. \A a : Todo(s, a) = IF a = None THEN p ELSE IF a = "network" THEN n
                          ELSE IF a = "originator" THEN m ELSE {}
  BY DEF Listed
<1>2. \A a : Todo(t, a) = IF a = None THEN q ELSE IF a = "network" THEN k
                          ELSE IF a = "originator" THEN l ELSE {}
  BY DEF Listed
<1>3. /\ s \in Seq(Item) /\ Orderly(s) /\ Says(s, c)
      /\ t \in Seq(Item) /\ Orderly(t) /\ Says(t, c)
  BY DEF Listed
<1>4. \A a, b : \A d \in Todo(s, a), e \in Todo(t, b) : Before(d, a, e, b)
  <2> SUFFICES ASSUME NEW a, NEW b, NEW d \in Todo(s, a), NEW e \in Todo(t, b)
               PROVE  Before(d, a, e, b)
    OBVIOUS
  <2>1. (a = None /\ d \in p) \/ (a = "network" /\ d \in n) \/ (a = "originator" /\ d \in m)
    BY <1>1
  <2>2. (b = None /\ e \in q) \/ (b = "network" /\ e \in k) \/ (b = "originator" /\ e \in l)
    BY <1>2
  <2> QED BY <2>1, <2>2
<1>5. s \o t \in Seq(Item) /\ Orderly(s \o t)
  BY <1>3, <1>4, JoinedOrder
<1>6. Says(s \o t, c)
  BY <1>3, JoinedLists
<1>7. ASSUME NEW a
      PROVE  Todo(s \o t, a) = IF a = None THEN p \union q ELSE IF a = "network" THEN n \union k
                               ELSE IF a = "originator" THEN m \union l ELSE {}
  <2>1. Todo(s \o t, a) = Todo(s, a) \union Todo(t, a)
    BY <1>3, JoinedTodo
  <2> QED BY <1>1, <1>2, <2>1
<1> QED BY <1>5, <1>6, <1>7 DEF Listed

LEMMA PlainListed ==
    ASSUME NEW c, NEW d, NEW v, Do(d, None, v) \in Item, Tells(Do(d, None, v), c)
    PROVE  Listed(<<Do(d, None, v)>>, c, {d}, {}, {})
<1> DEFINE w == Do(d, None, v)
<1>1. w \in Item /\ w.name = None /\ w.do = d /\ Tells(w, c)
  BY DEF Do
<1> HIDE DEF w
<1>2. /\ <<w>> \in Seq(Item) /\ Orderly(<<w>>)
      /\ \A n : Todo(<<w>>, n) = IF n = None THEN {d} ELSE {}
  BY <1>1, SingleList
<1>3. Says(<<w>>, c)
  <2>1. \A i \in 1 .. Len(<<w>>) : <<w>>[i] = w
    OBVIOUS
  <2> QED BY <1>1, <2>1 DEF Says
<1>4. Listed(<<w>>, c, {d}, {}, {})
  BY <1>2, <1>3, NamesDiffer DEF Listed
<1> QED BY <1>4 DEF w

LEMMA NetworkLists ==
    ASSUME NEW c \in Config
    PROVE  /\ Listed(SaveConfig(c) \o Remember(c), c, {"write config", "remember"}, {"put"}, Mastering(c))
           /\ Listed(SaveConfig(c) \o <<Do("replace", None, c)>>, c, {"write config", "replace"}, {"put"},
                     Mastering(c))
           /\ Listed(Remember(c) \o SaveConfig(c) \o <<Do("confirm", None, None)>>, c,
                     {"write config", "remember", "confirm"}, {"put"}, Mastering(c))
           /\ c.master # None =>
                 Listed(Teardown \o SaveConfig(c) \o Remember(c), c,
                        {"forget", "remove config", "write config", "remember"}, Deletion \union {"put"},
                        Deletion \union {"put"})
           /\ Listed(Remember(c), c, {"remember"}, {}, {})
<1>1. c # None
  BY ValueAssumption, BoundAssumption DEF Config, Net
<1>2. Listed(SaveConfig(c), c, {"write config"}, {"put"}, Mastering(c))
  BY <1>1, SaveList DEF Listed
<1>3. Listed(Teardown, c, {"forget", "remove config"}, Deletion, Deletion)
  BY TeardownList, NamesDiffer DEF Listed
<1>4. /\ Listed(<<Do("remember", None, c)>>, c, {"remember"}, {}, {})
      /\ Listed(<<Do("replace", None, c)>>, c, {"replace"}, {}, {})
      /\ Listed(<<Do("confirm", None, None)>>, c, {"confirm"}, {}, {})
  <2>1. /\ Do("remember", None, c) \in Item /\ Do("replace", None, c) \in Item
        /\ Do("confirm", None, None) \in Item
    BY ItemTypes
  <2>2. /\ Tells(Do("remember", None, c), c) /\ Tells(Do("replace", None, c), c)
        /\ Tells(Do("confirm", None, None), c)
    BY NamesDiffer DEF Tells, Do
  <2> QED BY <2>1, <2>2, PlainListed
<1>5. Mastering(c) \subseteq {"take out", "unmark", "remove file", "put"}
  BY DEF Mastering, Deletion
<1>6. \A d \in {"take out", "unmark", "remove file", "put"}, e \in {"remember", "replace", "confirm"},
         n \in {"network", "originator"} :
           /\ Before(d, n, e, None) /\ Before("remember", None, d, n)
  BY NamesDiffer DEF Before
<1>7. \A e \in {"remember", "replace", "confirm"} : Before("write config", None, e, None)
  BY Afters DEF Before
<1>8. Listed(SaveConfig(c) \o Remember(c), c, {"write config", "remember"}, {"put"}, Mastering(c))
  <2>1. Listed(SaveConfig(c) \o <<Do("remember", None, c)>>, c, {"write config"} \union {"remember"},
               {"put"} \union {}, Mastering(c) \union {})
    BY <1>2, <1>4, <1>5, <1>6, <1>7, ListedJoined
  <2>2. /\ {"write config"} \union {"remember"} = {"write config", "remember"}
        /\ {"put"} \union {} = {"put"} /\ Mastering(c) \union {} = Mastering(c)
    OBVIOUS
  <2> QED BY <2>1, <2>2 DEF Remember
<1>9. Listed(SaveConfig(c) \o <<Do("replace", None, c)>>, c, {"write config", "replace"}, {"put"}, Mastering(c))
  <2>1. Listed(SaveConfig(c) \o <<Do("replace", None, c)>>, c, {"write config"} \union {"replace"},
               {"put"} \union {}, Mastering(c) \union {})
    BY <1>2, <1>4, <1>5, <1>6, <1>7, ListedJoined
  <2>2. /\ {"write config"} \union {"replace"} = {"write config", "replace"}
        /\ {"put"} \union {} = {"put"} /\ Mastering(c) \union {} = Mastering(c)
    OBVIOUS
  <2> QED BY <2>1, <2>2
<1>10. Listed(Remember(c) \o SaveConfig(c) \o <<Do("confirm", None, None)>>, c,
              {"write config", "remember", "confirm"}, {"put"}, Mastering(c))
  <2>1. /\ Before("remember", None, "write config", None) /\ Before("remember", None, "confirm", None)
    BY Afters DEF Before
  <2>2. Listed(<<Do("remember", None, c)>> \o SaveConfig(c), c, {"remember"} \union {"write config"},
               {} \union {"put"}, {} \union Mastering(c))
    BY <1>2, <1>4, <1>5, <1>6, <2>1, ListedJoined
  <2>3. Listed(<<Do("remember", None, c)>> \o SaveConfig(c), c, {"remember", "write config"}, {"put"},
               Mastering(c))
    <3>1. /\ {} \union {"put"} = {"put"} /\ {} \union Mastering(c) = Mastering(c)
          /\ {"remember"} \union {"write config"} = {"remember", "write config"}
      OBVIOUS
    <3> QED BY <2>2, <3>1
  <2>4. Listed((<<Do("remember", None, c)>> \o SaveConfig(c)) \o <<Do("confirm", None, None)>>, c,
               {"remember", "write config"} \union {"confirm"}, {"put"} \union {}, Mastering(c) \union {})
    BY <1>4, <1>5, <1>6, <1>7, <2>1, <2>3, ListedJoined
  <2>5. /\ {"remember", "write config"} \union {"confirm"} = {"write config", "remember", "confirm"}
        /\ {"put"} \union {} = {"put"} /\ Mastering(c) \union {} = Mastering(c)
    OBVIOUS
  <2> QED BY <2>4, <2>5 DEF Remember
<1>11. ASSUME c.master # None
       PROVE  Listed(Teardown \o SaveConfig(c) \o Remember(c), c,
                     {"forget", "remove config", "write config", "remember"}, Deletion \union {"put"},
                     Deletion \union {"put"})
  <2>1. Mastering(c) = {"put"}
    BY <1>11 DEF Mastering
  <2>2. /\ \A e \in {"write config", "remember"} : /\ Before("forget", None, e, None)
                                                   /\ Before("remove config", None, e, None)
        /\ \A d \in Deletion, n \in {"network", "originator"} :
              /\ Before(d, n, "write config", None) /\ Before(d, n, "remember", None)
              /\ \A m \in {"network", "originator"} : Before(d, n, "put", m)
        /\ \A n \in {"network", "originator"}, d \in {"forget", "remove config"} : Before(d, None, "put", n)
    BY Afters, NamesDiffer DEF Before, Deletion
  <2>3. Listed(Teardown \o SaveConfig(c), c, {"forget", "remove config"} \union {"write config"},
               Deletion \union {"put"}, Deletion \union {"put"})
    <3>1. Listed(SaveConfig(c), c, {"write config"}, {"put"}, {"put"})
      BY <1>2, <2>1
    <3> DEFINE own == {"forget", "remove config"}
               saved == {"write config"}
               put == {"put"}
    <3>2. /\ \A d \in own : /\ \A e \in saved : Before(d, None, e, None)
                            /\ \A e \in put : Before(d, None, e, "network") /\ Before(d, None, e, "originator")
          /\ \A d \in Deletion, n \in {"network", "originator"} :
                /\ \A e \in saved : Before(d, n, e, None)
                /\ \A e \in put : Before(d, n, e, "network") /\ Before(d, n, e, "originator")
      BY <2>2
    <3>3. Listed(Teardown, c, own, Deletion, Deletion) /\ Listed(SaveConfig(c), c, saved, put, put)
      BY <1>3, <3>1
    <3> HIDE DEF own, saved, put
    <3>4. Listed(Teardown \o SaveConfig(c), c, own \union saved, Deletion \union put, Deletion \union put)
      BY <3>2, <3>3, ListedJoined
    <3> QED BY <3>4 DEF own, saved, put
  <2> DEFINE plain == {"forget", "remove config", "write config"}
             secret == Deletion \union {"put"}
  <2>4. Listed(Teardown \o SaveConfig(c), c, plain, secret, secret)
    <3>1. {"forget", "remove config"} \union {"write config"} = plain
      OBVIOUS
    <3> QED BY <2>3, <3>1
  <2>5. /\ \A d \in plain : Before(d, None, "remember", None)
        /\ \A d \in secret : Before(d, "network", "remember", None) /\ Before(d, "originator", "remember", None)
    BY <1>6, <1>7, <2>2
  <2> HIDE DEF plain, secret
  <2>6. Listed((Teardown \o SaveConfig(c)) \o <<Do("remember", None, c)>>, c, plain \union {"remember"},
               secret \union {}, secret \union {})
    BY <1>4, <2>4, <2>5, ListedJoined
  <2>7. plain \union {"remember"} = {"forget", "remove config", "write config", "remember"}
        /\ secret \union {} = Deletion \union {"put"}
    BY DEF plain, secret
  <2> QED BY <2>6, <2>7 DEF Remember
<1>12. Listed(Remember(c), c, {"remember"}, {}, {})
  BY <1>4 DEF Remember
<1> QED BY <1>8, <1>9, <1>10, <1>11, <1>12

-----------------------------------------------------------------------------
(***************************************************************************)
(* The writes still to be made.                                            *)
(***************************************************************************)
JobInv ==
    /\ job \in Seq(Item) /\ Orderly(job)
    /\ \A n : "unmark" \in Todo(job, n) => "write file" \in Todo(job, n) \/ "remove file" \in Todo(job, n)
    /\ running \in {"down", "booting", "up"}
    /\ running = "down" => Idle
    /\ running = "booting" => \A n : n # "node-key" => Todo(job, n) = {}
    /\ running # "booting" => Todo(job, "node-key") = {}

\* The next write, and what is left then.
LEMMA Next1 ==
    ASSUME JobInv, job # <<>>
    PROVE  /\ Head(job) \in Item /\ Target = Head(job).name /\ Value = Head(job).val
           /\ \A what : Now(what) <=> Head(job).do = what
           /\ Head(job).do \in Todo(job, Target)
           /\ running = "booting" <=> Target = "node-key"
           /\ Tail(job) \in Seq(Item) /\ Orderly(Tail(job))
           /\ \A n : Todo(Tail(job), n) = IF n = Target THEN Todo(job, n) \ {Head(job).do} ELSE Todo(job, n)
           /\ \A n : \A d \in Todo(Tail(job), n) : Before(Head(job).do, Target, d, n)
           /\ \A c : Says(job, c) => Says(Tail(job), c) /\ Tells(Head(job), c)
<1>1. /\ job \in Seq(Item) /\ Orderly(job) /\ Target = Head(job).name /\ Value = Head(job).val
      /\ \A what : Now(what) <=> Head(job).do = what
  BY DEF JobInv, Target, Value, Now
<1>2. /\ Tail(job) \in Seq(Item) /\ Orderly(Tail(job)) /\ Head(job) \in Item
      /\ Head(job).do \in Todo(job, Target)
      /\ \A n : Todo(Tail(job), n) = IF n = Target THEN Todo(job, n) \ {Head(job).do} ELSE Todo(job, n)
      /\ \A n : \A d \in Todo(Tail(job), n) : Before(Head(job).do, Target, d, n)
      /\ \A c : Says(job, c) => Says(Tail(job), c)
  BY <1>1, TailList
<1>3. running = "booting" <=> Target = "node-key"
  BY <1>2 DEF JobInv
<1>4. \A c : Says(job, c) => Tells(Head(job), c)
  <2>1. Head(job) = job[1] /\ 1 \in 1 .. Len(job)
    BY <1>1
  <2> QED BY <2>1 DEF Says
<1> QED BY <1>1, <1>2, <1>3, <1>4

\* After a step that makes the next write, or leaves it.
LEMMA AdvanceStep ==
    ASSUME JobInv, job # <<>>, Advance, running' = running
    PROVE  JobInv'
<1>1. /\ job' = Tail(job) /\ Tail(job) \in Seq(Item) /\ Orderly(Tail(job))
      /\ \A n : Todo(Tail(job), n) = IF n = Target THEN Todo(job, n) \ {Head(job).do} ELSE Todo(job, n)
      /\ \A n : \A d \in Todo(Tail(job), n) : Before(Head(job).do, Target, d, n)
  BY Next1 DEF Advance
<1>2. ASSUME NEW n, "unmark" \in Todo(job', n)
      PROVE  "write file" \in Todo(job', n) \/ "remove file" \in Todo(job', n)
  <2>1. "unmark" \in Todo(job, n)
    BY <1>1, <1>2
  <2>2. "write file" \in Todo(job, n) \/ "remove file" \in Todo(job, n)
    BY <2>1 DEF JobInv
  <2>3. n = Target => Head(job).do \notin {"write file", "remove file"}
    <3>1. n = Target => "unmark" \in After(Head(job).do)
      BY <1>1, <1>2 DEF Before
    <3> QED BY <3>1, Afters
  <2> QED BY <1>1, <2>2, <2>3
<1>3. running = "down" => FALSE
  BY DEF JobInv, Idle
<1> QED BY <1>1, <1>2, <1>3 DEF JobInv

\* What unmarks a name also removes its file.
Clears(does) == "unmark" \in does => "remove file" \in does

\* A list that ends, or gives way to another.
LEMMA ListStep ==
    ASSUME JobInv, running' \in {"down", "up"}, NEW c, NEW p, NEW n, NEW m, Listed(job', c, p, n, m),
           running' = "down" => job' = <<>>,
           Clears(p), Clears(n), Clears(m)
    PROVE  JobInv'
<1>1. /\ job' \in Seq(Item) /\ Orderly(job')
      /\ \A a : Todo(job', a) = IF a = None THEN p ELSE IF a = "network" THEN n
                                ELSE IF a = "originator" THEN m ELSE {}
  BY DEF Listed
<1>2. Todo(job', "node-key") = {}
  BY <1>1, NamesDiffer
<1>3. \A a : "unmark" \in Todo(job', a) => "write file" \in Todo(job', a) \/ "remove file" \in Todo(job', a)
  BY <1>1 DEF Clears
<1> QED BY <1>1, <1>2, <1>3 DEF JobInv, Idle

LEMMA EndStep ==
    ASSUME JobInv, running' \in {"down", "booting", "up"}, job' = <<>>
    PROVE  JobInv'
<1>1. <<>> \in Seq(Item) /\ Orderly(<<>>) /\ \A n : Todo(<<>>, n) = {}
  BY EmptyList
<1> QED BY <1>1 DEF JobInv, Idle

LEMMA PutStep ==
    ASSUME JobInv, Put
    PROVE  /\ JobInv' /\ Target \in Name /\ Value \in Kind(Target) /\ Head(job).do = "put"
           /\ \A n : Todo(job', n) = IF n # Target THEN Todo(job, n)
                                     ELSE IF unlocked THEN {"mark", "remove file"}
                                     ELSE {"unmark", "write file"}
           /\ \A c : Says(job, c) => Says(job', c)
<1>1. /\ job # <<>> /\ Head(job).do = "put" /\ running' = running
      /\ job' = (IF unlocked THEN KeepInKeystore(Target) ELSE KeepInFile(Target, Value)) \o Tail(job)
  BY DEF Put, Now
<1>2. /\ Head(job) \in Item /\ Target = Head(job).name /\ Value = Head(job).val
      /\ Tail(job) \in Seq(Item) /\ Orderly(Tail(job))
      /\ \A n : Todo(Tail(job), n) = IF n = Target THEN Todo(job, n) \ {"put"} ELSE Todo(job, n)
      /\ \A n : \A d \in Todo(Tail(job), n) : Before("put", Target, d, n)
      /\ \A c : Says(job, c) => Says(Tail(job), c) /\ Tells(Head(job), c)
      /\ "put" \in Todo(job, Target)
      /\ running = "booting" <=> Target = "node-key"
  BY <1>1, Next1
<1>3. Target \in Name /\ Value \in Kind(Target) /\ Head(job) = Do("put", Target, Value)
  BY <1>1, <1>2, ItemFacts
<1> DEFINE keep == IF unlocked THEN KeepInKeystore(Target) ELSE KeepInFile(Target, Value)
           doing == IF unlocked THEN {"mark", "remove file"} ELSE {"unmark", "write file"}
<1>4. /\ keep \in Seq(Item) /\ Orderly(keep)
      /\ \A m : Todo(keep, m) = IF m = Target THEN doing ELSE {}
      /\ \A c : Tells(Head(job), c) => Says(keep, c)
  <2>1. CASE unlocked
    BY <1>3, <2>1, KeepLists
  <2>2. CASE ~unlocked
    <3>1. keep = KeepInFile(Target, Value) /\ doing = {"unmark", "write file"}
      BY <2>2
    <3>2. /\ KeepInFile(Target, Value) \in Seq(Item) /\ Orderly(KeepInFile(Target, Value))
          /\ \A m : Todo(KeepInFile(Target, Value), m) = IF m = Target THEN {"unmark", "write file"} ELSE {}
      BY <1>3, KeepLists
    <3>3. \A c : Tells(Do("put", Target, Value), c) => Says(KeepInFile(Target, Value), c)
      BY <1>3, KeepLists
    <3> HIDE DEF keep, doing
    <3> QED BY <1>3, <3>1, <3>2, <3>3
  <2> QED BY <2>1, <2>2
<1>5. job' = keep \o Tail(job)
  BY <1>1
<1> HIDE DEF keep
<1>6. Todo(Tail(job), Target) = {}
  BY <1>2, Afters DEF Before
<1>7. \A n, m : \A d \in Todo(keep, n), e \in Todo(Tail(job), m) : Before(d, n, e, m)
  <2> SUFFICES ASSUME NEW n, NEW m, NEW d \in Todo(keep, n), NEW e \in Todo(Tail(job), m)
               PROVE  Before(d, n, e, m)
    OBVIOUS
  <2>1. n = Target /\ d \in {"mark", "remove file", "unmark", "write file"} /\ m # Target
    BY <1>4, <1>6
  <2>2. e # "forget" /\ e # "remove config" /\ e # "write config"
    BY <1>2 DEF Before
  <2> QED BY <2>1, <2>2 DEF Before
<1>8. job' \in Seq(Item) /\ Orderly(job')
  BY <1>2, <1>4, <1>5, <1>7, JoinedOrder
<1>9. \A n : Todo(job', n) = IF n # Target THEN Todo(job, n) ELSE doing
  <2> SUFFICES ASSUME NEW n PROVE Todo(job', n) = IF n # Target THEN Todo(job, n) ELSE doing
    OBVIOUS
  <2>1. Todo(job', n) = Todo(keep, n) \union Todo(Tail(job), n)
    <3> DEFINE rest == Tail(job)
    <3>1. keep \in Seq(Item) /\ rest \in Seq(Item) /\ job' = keep \o rest
      BY <1>2, <1>4, <1>5
    <3> HIDE DEF rest
    <3>2. Todo(keep \o rest, n) = Todo(keep, n) \union Todo(rest, n)
      BY <3>1, JoinedTodo
    <3> QED BY <3>1, <3>2 DEF rest
  <2> QED BY <1>2, <1>4, <1>6, <2>1
<1>10. \A c : Says(job, c) => Says(job', c)
  BY <1>2, <1>4, <1>5, JoinedLists
<1>11. JobInv'
  <2>1. \A n : "unmark" \in Todo(job', n) => "write file" \in Todo(job', n) \/ "remove file" \in Todo(job', n)
    BY <1>9 DEF JobInv
  <2>2. running # "down"
    BY <1>1 DEF JobInv, Idle
  <2> QED BY <1>1, <1>2, <1>8, <1>9, <2>1, <2>2 DEF JobInv
<1> QED BY <1>1, <1>3, <1>2, <1>9, <1>10, <1>11

-----------------------------------------------------------------------------
(***************************************************************************)
(* Types.                                                                  *)
(***************************************************************************)
DiskTypeOK ==
    /\ config \in Net \union {None, Torn}
    /\ keystore \in [Name -> Nat \union {None}] /\ \A n \in Name : keystore[n] \in Kind(n) \union {None}
    /\ marker \subseteq Name
    /\ file \in [Name -> Nat \union {None, Torn}]
    /\ \A n \in Name : file[n] \in Kind(n) \union {None, Torn}
ProcTypeOK ==
    /\ unlocked \in BOOLEAN /\ left \in BOOLEAN /\ unmarked \in BOOLEAN
    /\ identity \in 1 .. MaxKeys \union {None} /\ memory \in Config \union {None}
    /\ keys \in 0 .. MaxKeys /\ mishaps \in 0 .. MaxMishaps
    /\ running # "up" => memory = None
OwnerTypeOK ==
    /\ owner \in Seq(Nat) /\ Len(owner) <= MaxNets /\ \A n \in 1 .. Len(owner) : owner[n] \in 1 .. n

Types == JobInv /\ DiskTypeOK /\ ProcTypeOK /\ OwnerTypeOK

LEMMA Bounds ==
    /\ MaxNets \in Nat /\ MaxKeys \in Nat /\ MaxMishaps \in Nat
    /\ None \notin Nat /\ Torn \notin Nat /\ Refused \notin Nat /\ None \notin Net
    /\ None # Torn /\ None # Refused /\ Torn # Refused /\ None \notin Name
    /\ Net \subseteq Nat /\ \A n : Kind(n) \subseteq Nat
<1>1. /\ MaxNets \in Nat /\ MaxKeys \in Nat /\ MaxMishaps \in Nat
      /\ None \notin Nat /\ Torn \notin Nat /\ Refused \notin Nat
      /\ None # Torn /\ None # Refused /\ Torn # Refused /\ None \notin Name
  BY ValueAssumption, BoundAssumption
<1>2. Net \subseteq Nat /\ \A n : Kind(n) \subseteq Nat
  BY <1>1 DEF Net, Kind
<1> QED BY <1>1, <1>2

LEMMA ConfigFacts ==
    /\ \A c \in Config : /\ c.owner \in Net /\ c.secret \in Net /\ c.master \in Net \union {None}
                         /\ c = StoredConfig(c.owner, c.secret, c.master) /\ c # None
    /\ \A o, s \in Net, m \in Net \union {None} :
          /\ StoredConfig(o, s, m) \in Config
          /\ StoredConfig(o, s, m).owner = o /\ StoredConfig(o, s, m).secret = s
          /\ StoredConfig(o, s, m).master = m
<1>1. None \notin Config
  BY ValueAssumption, Bounds DEF Config
<1>2. \A c \in Config : /\ c.owner \in Net /\ c.secret \in Net /\ c.master \in Net \union {None}
                        /\ c = StoredConfig(c.owner, c.secret, c.master) /\ c # None
  BY <1>1 DEF Config, StoredConfig
<1>3. \A o, s \in Net, m \in Net \union {None} :
          /\ StoredConfig(o, s, m) \in Config
          /\ StoredConfig(o, s, m).owner = o /\ StoredConfig(o, s, m).secret = s
          /\ StoredConfig(o, s, m).master = m
  BY DEF Config, StoredConfig
<1> QED BY <1>2, <1>3

LEMMA LoadTypes ==
    ASSUME DiskTypeOK
    PROVE  /\ \A n \in Name : Load(n) \in Kind(n) \union {None, Refused}
           /\ Loaded \in Config \union {None, Refused}
<1>1. \A n \in Name : Load(n) \in Kind(n) \union {None, Refused}
  BY DEF Load, DiskTypeOK
<1>2. /\ Load("network") \in Net \union {None, Refused} /\ Load("originator") \in Net \union {None, Refused}
  BY <1>1 DEF Name, Kind
<1>3. Loaded \in Config \union {None, Refused}
  <2>1. CASE config \in {None, Torn} \/ Load("network") \in {None, Refused} \/ Load("originator") = Refused
    BY <2>1 DEF Loaded
  <2>2. CASE ~(config \in {None, Torn} \/ Load("network") \in {None, Refused} \/ Load("originator") = Refused)
    <3>1. StoredConfig(config, Load("network"), Load("originator")) \in Config
      BY <1>2, <2>2, ConfigFacts DEF DiskTypeOK
    <3>2. Loaded = StoredConfig(config, Load("network"), Load("originator"))
      BY <2>2 DEF Loaded
    <3> QED BY <3>1, <3>2
  <2> QED BY <2>1, <2>2
<1> QED BY <1>1, <1>3

-----------------------------------------------------------------------------
(***************************************************************************)
(* The requests: which configuration each is about, and what it has to do. *)
(***************************************************************************)
Quiet == UNCHANGED <<disk, unlocked, running, identity, memory, keys, history>>

LEMMA CreateFacts ==
    ASSUME Types, CreateNetwork
    PROVE  LET n == Len(owner) + 1
               c == StoredConfig(n, n, n)
           IN  /\ n \in Net /\ owner' = Append(owner, n) /\ c \in Config
               /\ Listed(job', c, {"write config", "remember"}, {"put"}, {"put"})
<1> DEFINE n == Len(owner) + 1
           c == StoredConfig(n, n, n)
<1>1. n \in Net
  BY Bounds DEF Types, OwnerTypeOK, CreateNetwork, Net
<1>2. c \in Config /\ c.master # None
  BY <1>1, Bounds, ConfigFacts
<1>3. owner' = Append(owner, n) /\ job' = SaveConfig(c) \o Remember(c)
  BY DEF CreateNetwork, Begin
<1> HIDE DEF n, c
<1>4. Listed(job', c, {"write config", "remember"}, {"put"}, {"put"})
  BY <1>2, <1>3, NetworkLists DEF Mastering
<1> QED BY <1>1, <1>2, <1>3, <1>4 DEF n, c

LEMMA JoinFacts ==
    ASSUME Types, JoinNetwork
    PROVE  LET n == Len(owner) + 1
               c == StoredConfig(n, n, None)
           IN  /\ n \in Net /\ owner' = Append(owner, n) /\ c \in Config
               /\ Listed(job', c, {"write config", "remember", "confirm"}, {"put"}, Deletion)
<1> DEFINE n == Len(owner) + 1
           c == StoredConfig(n, n, None)
<1>1. n \in Net
  BY Bounds DEF Types, OwnerTypeOK, JoinNetwork, Net
<1>2. c \in Config /\ c.master = None
  BY <1>1, ConfigFacts
<1>3. owner' = Append(owner, n) /\ job' = Remember(c) \o SaveConfig(c) \o <<Do("confirm", None, None)>>
  BY DEF JoinNetwork, Begin
<1> HIDE DEF n, c
<1>4. Listed(job', c, {"write config", "remember", "confirm"}, {"put"}, Deletion)
  BY <1>2, <1>3, NetworkLists DEF Mastering
<1> QED BY <1>1, <1>2, <1>3, <1>4 DEF n, c

LEMMA LeaveFacts ==
    ASSUME Types, LeaveNetwork
    PROVE  \A c : Listed(job', c, {"forget", "remove config"}, Deletion, Deletion)
BY TeardownList, NamesDiffer DEF LeaveNetwork, Begin, Listed

LEMMA RotateFacts ==
    ASSUME Types, RotateNetwork
    PROVE  LET c == StoredConfig(memory.owner, Len(owner) + 1, memory.master)
           IN  /\ memory \in Config /\ c \in Config
               /\ Len(owner) + 1 \in Net /\ owner' = Append(owner, memory.owner)
               /\ Listed(job', c, {"forget", "remove config", "write config", "remember"},
                         Deletion \union {"put"}, Deletion \union {"put"})
<1> DEFINE c == StoredConfig(memory.owner, Len(owner) + 1, memory.master)
<1>1. memory \in Config /\ memory.master # None /\ Len(owner) + 1 \in Net
  BY Bounds DEF Types, ProcTypeOK, OwnerTypeOK, RotateNetwork, Net
<1>2. c \in Config /\ c.master # None
  <2>1. memory.owner \in Net /\ memory.secret \in Net /\ memory.master \in Net \union {None}
    BY <1>1, ConfigFacts
  <2>2. memory.owner # None
    BY <2>1, Bounds
  <2> QED BY <1>1, <2>1, <2>2, ConfigFacts
<1>3. c = [memory EXCEPT !.secret = Len(owner) + 1]
  BY <1>1 DEF Config, StoredConfig
<1>4. owner' = Append(owner, memory.owner) /\ job' = Teardown \o SaveConfig(c) \o Remember(c)
  BY <1>3 DEF RotateNetwork, Begin
<1> HIDE DEF c
<1>5. Listed(job', c, {"forget", "remove config", "write config", "remember"},
             Deletion \union {"put"}, Deletion \union {"put"})
  BY <1>2, <1>4, NetworkLists
<1> QED BY <1>1, <1>2, <1>4, <1>5 DEF c

LEMMA ImportFacts ==
    ASSUME Types, ImportOriginatorKey
    PROVE  LET c == StoredConfig(memory.owner, memory.secret, memory.owner)
           IN  /\ memory \in Config /\ c \in Config /\ owner' = owner
               /\ Listed(job', c, {"write config", "replace"}, {"put"}, {"put"})
<1> DEFINE c == StoredConfig(memory.owner, memory.secret, memory.owner)
<1>1. memory \in Config
  BY DEF Types, ProcTypeOK, ImportOriginatorKey
<1>2. c \in Config /\ c.master # None
  <2>1. memory.owner \in Net /\ memory.secret \in Net /\ memory.master \in Net \union {None}
    BY <1>1, ConfigFacts
  <2>2. memory.owner # None
    BY <2>1, Bounds
  <2> QED BY <1>1, <2>1, <2>2, ConfigFacts
<1>3. c = [memory EXCEPT !.master = memory.owner]
  BY <1>1 DEF Config, StoredConfig
<1>4. owner' = owner /\ job' = SaveConfig(c) \o <<Do("replace", None, c)>>
  BY <1>3 DEF ImportOriginatorKey, Begin
<1> HIDE DEF c
<1>5. Listed(job', c, {"write config", "replace"}, {"put"}, {"put"})
  BY <1>2, <1>4, NetworkLists DEF Mastering
<1> QED BY <1>1, <1>2, <1>4, <1>5 DEF c

LEMMA ReconnectFacts ==
    ASSUME Types, Reconnect
    PROVE  \E c \in Config : /\ c = IF memory = None THEN Loaded ELSE memory
                             /\ owner' = owner /\ Listed(job', c, {"remember"}, {}, {})
<1> DEFINE c == IF memory = None THEN Loaded ELSE memory
<1>1. c \in Config /\ job' = Remember(c) /\ owner' = owner
  BY LoadTypes DEF Types, ProcTypeOK, Reconnect, Begin
<1> HIDE DEF c
<1>2. Listed(job', c, {"remember"}, {}, {})
  BY <1>1, NetworkLists
<1> QED BY <1>1, <1>2 DEF c

LEMMA RequestStep ==
    ASSUME Types, Request
    PROVE  running = "up" /\ job = <<>> /\ Quiet /\ JobInv'
<1>1. running = "up" /\ job = <<>> /\ Quiet
  BY DEF Request, CreateNetwork, JoinNetwork, LeaveNetwork, RotateNetwork, ImportOriginatorKey,
         Reconnect, Begin, Idle, Quiet
<1>2. JobInv /\ running' = "up"
  BY <1>1 DEF Types, Quiet
<1>3. /\ Clears({"write config", "remember"}) /\ Clears({"write config", "remember", "confirm"})
      /\ Clears({"forget", "remove config"}) /\ Clears({"remember"}) /\ Clears({})
      /\ Clears({"forget", "remove config", "write config", "remember"})
      /\ Clears({"write config", "replace"}) /\ Clears({"put"})
  BY DEF Clears
<1>4. Clears(Deletion) /\ Clears(Deletion \union {"put"})
  BY DEF Deletion, Clears
<1>5. ASSUME CreateNetwork PROVE JobInv'
  <2>1. PICK c : Listed(job', c, {"write config", "remember"},
                        {"put"}, {"put"})
    BY <1>5, CreateFacts
  <2> QED BY <1>2, <1>3, <2>1, ListStep
<1>6. ASSUME JoinNetwork PROVE JobInv'
  <2>1. PICK c : Listed(job', c, {"write config", "remember", "confirm"},
                        {"put"}, Deletion)
    BY <1>6, JoinFacts
  <2> QED BY <1>2, <1>3, <1>4, <2>1, ListStep
<1>7. ASSUME LeaveNetwork PROVE JobInv'
  <2>1. PICK c : Listed(job', c, {"forget", "remove config"},
                        Deletion, Deletion)
    BY <1>7, LeaveFacts
  <2> QED BY <1>2, <1>3, <1>4, <2>1, ListStep
<1>8. ASSUME RotateNetwork PROVE JobInv'
  <2>1. PICK c : Listed(job', c, {"forget", "remove config", "write config", "remember"},
                        Deletion \union {"put"}, Deletion \union {"put"})
    BY <1>8, RotateFacts
  <2> QED BY <1>2, <1>3, <1>4, <2>1, ListStep
<1>9. ASSUME ImportOriginatorKey PROVE JobInv'
  <2>1. PICK c : Listed(job', c, {"write config", "replace"},
                        {"put"}, {"put"})
    BY <1>9, ImportFacts
  <2> QED BY <1>2, <1>3, <2>1, ListStep
<1>10. ASSUME Reconnect PROVE JobInv'
  <2>1. PICK c : Listed(job', c, {"remember"},
                        {}, {})
    BY <1>10, ReconnectFacts
  <2> QED BY <1>2, <1>3, <2>1, ListStep
<1> QED BY <1>1, <1>5, <1>6, <1>7, <1>8, <1>9, <1>10 DEF Request

LEMMA InitTypes == Init => Types
<1> SUFFICES ASSUME Init PROVE Types
  OBVIOUS
<1>1. JobInv
  <2>1. job = <<>> /\ running = "down"
    BY DEF Init
  <2> QED BY <2>1, EmptyList DEF JobInv, Idle
<1>2. DiskTypeOK
  BY Bounds DEF Init, DiskTypeOK
<1>3. ProcTypeOK
  <2>1. 0 \in 0 .. MaxKeys /\ 0 \in 0 .. MaxMishaps
    BY BoundAssumption
  <2> QED BY <2>1 DEF Init, ProcTypeOK
<1>4. OwnerTypeOK
  BY Bounds DEF Init, OwnerTypeOK
<1> QED BY <1>1, <1>2, <1>3, <1>4 DEF Types

LEMMA OwnerStep ==
    ASSUME OwnerTypeOK, NEW o \in 1 .. Len(owner) + 1, Len(owner) < MaxNets, owner' = Append(owner, o)
    PROVE  /\ OwnerTypeOK' /\ Len(owner') = Len(owner) + 1 /\ Len(owner) \in Nat
           /\ owner'[Len(owner) + 1] = o
           /\ \A n \in 1 .. Len(owner) : owner'[n] = owner[n]
<1>1. /\ owner \in Seq(Nat) /\ Len(owner) \in Nat /\ o \in Nat
      /\ Append(owner, o) \in Seq(Nat) /\ Len(Append(owner, o)) = Len(owner) + 1
      /\ Append(owner, o)[Len(owner) + 1] = o
      /\ \A n \in 1 .. Len(owner) : Append(owner, o)[n] = owner[n]
  BY DEF OwnerTypeOK
<1>2. Len(owner) + 1 <= MaxNets
  BY <1>1, Bounds
<1>3. \A n \in 1 .. Len(owner) + 1 : Append(owner, o)[n] \in 1 .. n
  BY <1>1 DEF OwnerTypeOK
<1> QED BY <1>1, <1>2, <1>3 DEF OwnerTypeOK

LEMMA AbortStep ==
    ASSUME JobInv, job # <<>>, Abort
    PROVE  /\ JobInv' /\ running' = IF running = "booting" THEN "down" ELSE running
           /\ \A c : Says(job', c)
           /\ job' = <<>> \/ (job' = Teardown /\ "confirm" \in Todo(job, None) /\ running = "up")
<1>1. running' = (IF running = "booting" THEN "down" ELSE running) /\ job' \in {<<>>, Teardown}
  BY DEF Abort
<1>2. running # "down"
  BY DEF JobInv, Idle
<1>3. CASE job' = <<>>
  <2>1. JobInv'
    BY <1>1, <1>3, EndStep DEF JobInv
  <2> QED BY <1>1, <1>3, <2>1, EmptyList
<1>4. CASE job' # <<>>
  <2>1. PICK i \in DOMAIN job : job[i].do = "confirm"
    BY <1>4 DEF Abort
  <2>2. job \in Seq(Item) /\ i \in 1 .. Len(job) /\ job[i] \in Item
    <3>1. job \in Seq(Item)
      BY DEF JobInv
    <3>2. \A s \in Seq(Item) : \A k \in DOMAIN s : k \in 1 .. Len(s) /\ s[k] \in Item
      OBVIOUS
    <3> QED BY <3>1, <3>2
  <2>3. job[i].name = None
    BY <2>1, <2>2, ItemFacts
  <2>4. "confirm" \in Todo(job, None)
    BY <2>1, <2>2, <2>3, TodoHas
  <2>5. running = "up" /\ running' = "up"
    BY <1>1, <1>2, <2>4, NamesDiffer DEF JobInv
  <2>6. job' = Teardown /\ Listed(job', None, {"forget", "remove config"}, Deletion, Deletion)
    BY <1>1, <1>4, TeardownList, NamesDiffer DEF Listed
  <2>7. Clears({"forget", "remove config"}) /\ Clears(Deletion)
    BY DEF Clears, Deletion
  <2>8. JobInv'
    BY <2>5, <2>6, <2>7, ListStep
  <2> QED BY <1>1, <2>4, <2>5, <2>6, <2>8, TeardownList
<1> QED BY <1>3, <1>4

\* The writes.
LEMMA ActivateTypes == Types /\ Activate => Types'
<1> SUFFICES ASSUME Types, Activate PROVE Types'
  OBVIOUS
<1>1. job # <<>> /\ (Head(job).do \in {"remember", "replace"})
  BY DEF Activate, Now
<1>2. Value \in Config /\ running = "up" /\ JobInv
  <2>1. Value \in Config /\ running # "booting" /\ running # "down" /\ JobInv
    BY <1>1, Next1, ItemFacts, Bounds DEF Types, JobInv, Idle, Name
  <2> QED BY <2>1 DEF JobInv
<1>3. DiskTypeOK' /\ OwnerTypeOK'
  BY DEF Types, Activate, disk, DiskTypeOK, OwnerTypeOK
<1>4. CASE Advance /\ running' = running /\ memory' = Value /\ left' = FALSE /\ mishaps' = mishaps
  <2>1. JobInv'
    BY <1>1, <1>2, <1>4, AdvanceStep
  <2>2. ProcTypeOK'
    BY <1>2, <1>4 DEF Types, ProcTypeOK, Activate
  <2> QED BY <1>3, <2>1, <2>2 DEF Types
<1>5. CASE Stuck /\ Abort /\ UNCHANGED <<memory, left>>
  <2>1. JobInv'
    BY <1>1, <1>2, <1>5, AbortStep
  <2>2. running' = running
    BY <1>2, <1>5 DEF Abort
  <2>3. ProcTypeOK'
    BY <1>2, <1>5, <2>2, Bounds DEF Types, ProcTypeOK, Activate, Stuck
  <2> QED BY <1>3, <2>1, <2>3 DEF Types
<1> QED BY <1>4, <1>5 DEF Activate

LEMMA WriteTypes == Types /\ (Write \/ WriteFails) => Types'
<1> SUFFICES ASSUME Types, Write \/ WriteFails PROVE Types'
  OBVIOUS
<1>1. job # <<>> /\ Head(job).do \in {"write config", "write file"}
  BY DEF Write, WriteFails, Written, Now
<1>2. /\ Head(job).do = "write config" => Value \in Net
      /\ Head(job).do = "write file" => Target \in Name /\ Value \in Kind(Target)
      /\ JobInv /\ running # "down"
      /\ \A what : Now(what) <=> Head(job).do = what
  BY <1>1, Next1, ItemFacts DEF Types, JobInv, Idle
<1>3. OwnerTypeOK'
  BY DEF Types, Write, WriteFails, OwnerTypeOK
<1>4. DiskTypeOK'
  <2>1. UNCHANGED <<keystore, marker>>
    BY DEF Write, WriteFails
  <2>2. config' \in Net \union {None, Torn}
    BY <1>2 DEF Types, DiskTypeOK, Write, WriteFails, Written
  <2>3. \/ file' = file
        \/ /\ Head(job).do = "write file"
           /\ \E v \in Kind(Target) \union {Torn} : file' = [file EXCEPT ![Target] = v]
    BY <1>2 DEF Write, WriteFails, Written
  <2>4. /\ file' \in [Name -> Nat \union {None, Torn}]
        /\ \A n \in Name : file'[n] \in Kind(n) \union {None, Torn}
    <3>1. /\ file \in [Name -> Nat \union {None, Torn}]
          /\ \A n \in Name : file[n] \in Kind(n) \union {None, Torn}
      BY DEF Types, DiskTypeOK
    <3>2. CASE file' = file
      BY <3>1, <3>2
    <3>3. ASSUME Head(job).do = "write file", NEW v \in Kind(Target) \union {Torn},
                 file' = [file EXCEPT ![Target] = v]
          PROVE  /\ file' \in [Name -> Nat \union {None, Torn}]
                 /\ \A n \in Name : file'[n] \in Kind(n) \union {None, Torn}
      <4>1. v \in Nat \union {None, Torn}
        BY <3>3, Bounds
      <4>2. \A n \in Name : file'[n] = IF n = Target THEN v ELSE file[n]
        BY <3>1, <3>3
      <4> QED BY <3>1, <3>3, <4>1, <4>2
    <3> QED BY <2>3, <3>2, <3>3
  <2> QED BY <2>1, <2>2, <2>4 DEF Types, DiskTypeOK
<1>5. CASE Write
  <2>1. JobInv'
    BY <1>1, <1>2, <1>5, AdvanceStep DEF Write
  <2>2. ProcTypeOK'
    <3>1. left' \in BOOLEAN
      BY <1>5 DEF Write, Types, ProcTypeOK
    <3> QED BY <1>5, <3>1 DEF Write, Types, ProcTypeOK
  <2> QED BY <1>3, <1>4, <2>1, <2>2 DEF Types
<1>6. CASE WriteFails
  <2>1. JobInv'
    BY <1>1, <1>2, <1>6, AbortStep DEF WriteFails
  <2>2. ProcTypeOK'
    <3>1. left' \in BOOLEAN
      BY <1>6 DEF WriteFails, Types, ProcTypeOK
    <3>2. running' # "up" => memory' = None
      <4>1. running # "up" => memory = None
        BY DEF Types, ProcTypeOK
      <4>2. running' = (IF running = "booting" THEN "down" ELSE running) /\ memory' = memory
        BY <1>6 DEF WriteFails, Abort
      <4> QED BY <1>2, <4>1, <4>2
    <3>3. mishaps' \in 0 .. MaxMishaps
      <4>1. mishaps < MaxMishaps /\ mishaps' = mishaps + 1
        BY <1>6 DEF WriteFails, Stuck
      <4>2. mishaps \in 0 .. MaxMishaps
        BY DEF Types, ProcTypeOK
      <4> QED BY <4>1, <4>2, BoundAssumption
    <3> QED BY <1>6, <3>1, <3>2, <3>3 DEF WriteFails, Types, ProcTypeOK
  <2> QED BY <1>3, <1>4, <2>1, <2>2 DEF Types
<1> QED BY <1>5, <1>6

LEMMA StuckCounts ==
    ASSUME ProcTypeOK, Stuck
    PROVE  mishaps' \in 0 .. MaxMishaps /\ mishaps' = mishaps + 1 /\ mishaps \in Nat
<1>1. mishaps < MaxMishaps /\ mishaps' = mishaps + 1 /\ mishaps \in 0 .. MaxMishaps
  BY DEF Stuck, ProcTypeOK
<1> QED BY <1>1, BoundAssumption

LEMMA ConfirmTypes == Types /\ Confirm => Types'
<1> SUFFICES ASSUME Types, Confirm PROVE Types'
  OBVIOUS
<1>1. job # <<>> /\ Head(job).do = "confirm" /\ running' = running
  BY DEF Confirm, Now
<1>2. Target = None /\ running = "up" /\ JobInv
  <2>1. Target = None /\ running # "booting" /\ running # "down" /\ JobInv
    BY <1>1, Next1, ItemFacts, NamesDiffer DEF Types, JobInv, Idle
  <2> QED BY <2>1 DEF JobInv
<1>3. JobInv'
  <2>1. CASE job' = <<>>
    BY <1>1, <1>2, <2>1, EndStep
  <2>2. CASE job' = Teardown
    <3>1. Listed(job', None, {"forget", "remove config"}, Deletion, Deletion)
      BY <2>2, TeardownList, NamesDiffer DEF Listed
    <3>2. Clears({"forget", "remove config"}) /\ Clears(Deletion)
      BY DEF Clears, Deletion
    <3> QED BY <1>1, <1>2, <3>1, <3>2, ListStep
  <2> QED BY <2>1, <2>2 DEF Confirm
<1>4. DiskTypeOK' /\ OwnerTypeOK' /\ ProcTypeOK'
  BY DEF Types, Confirm, disk, history, DiskTypeOK, OwnerTypeOK, ProcTypeOK
<1> QED BY <1>3, <1>4 DEF Types

LEMMA ForgetTypes == Types /\ Forget => Types'
<1> SUFFICES ASSUME Types, Forget PROVE Types'
  OBVIOUS
<1>1. job # <<>> /\ Advance /\ running' = running /\ JobInv
  BY DEF Forget, Now, Types
<1>2. JobInv'
  BY <1>1, AdvanceStep
<1>3. DiskTypeOK' /\ OwnerTypeOK'
  BY DEF Types, Forget, disk, DiskTypeOK, OwnerTypeOK
<1>4. ProcTypeOK'
  BY DEF Types, Forget, ProcTypeOK
<1> QED BY <1>2, <1>3, <1>4 DEF Types

\* A name takes what is of its kind.
LEMMA SlotTypes ==
    ASSUME DiskTypeOK, NEW n \in Name
    PROVE  /\ \A v \in Kind(n) \union {None} :
                  /\ [keystore EXCEPT ![n] = v] \in [Name -> Nat \union {None}]
                  /\ \A m \in Name : [keystore EXCEPT ![n] = v][m] = IF m = n THEN v ELSE keystore[m]
           /\ \A v \in Kind(n) \union {None, Torn} :
                  /\ [file EXCEPT ![n] = v] \in [Name -> Nat \union {None, Torn}]
                  /\ \A m \in Name : [file EXCEPT ![n] = v][m] = IF m = n THEN v ELSE file[m]
<1>1. keystore \in [Name -> Nat \union {None}] /\ file \in [Name -> Nat \union {None, Torn}]
  BY DEF DiskTypeOK
<1>2. Kind(n) \subseteq Nat
  BY Bounds
<1> QED BY <1>1, <1>2

LEMMA KeystoreWrite ==
    ASSUME DiskTypeOK, NEW n \in Name, NEW v \in Kind(n) \union {None},
           keystore' = (IF unlocked THEN [keystore EXCEPT ![n] = v] ELSE keystore),
           UNCHANGED <<config, marker, file>>
    PROVE  DiskTypeOK'
<1>1. /\ keystore' \in [Name -> Nat \union {None}]
      /\ \A m \in Name : keystore'[m] \in Kind(m) \union {None}
  <2>1. CASE unlocked
    BY <2>1, SlotTypes DEF DiskTypeOK
  <2>2. CASE ~unlocked
    BY <2>2 DEF DiskTypeOK
  <2> QED BY <2>1, <2>2
<1> QED BY <1>1 DEF DiskTypeOK

LEMMA PutTypes == Types /\ Put => Types'
<1> SUFFICES ASSUME Types, Put PROVE Types'
  OBVIOUS
<1>1. JobInv' /\ Target \in Name /\ Value \in Kind(Target)
  BY PutStep DEF Types
<1>2. DiskTypeOK'
  <2>1. /\ keystore' = (IF unlocked THEN [keystore EXCEPT ![Target] = Value] ELSE keystore)
        /\ UNCHANGED <<config, marker, file>>
    BY DEF Put
  <2> QED BY <1>1, <2>1, KeystoreWrite DEF Types
<1>3. OwnerTypeOK' /\ ProcTypeOK'
  BY DEF Types, Put, history, OwnerTypeOK, ProcTypeOK
<1> QED BY <1>1, <1>2, <1>3 DEF Types

LEMMA TakeOutTypes == Types /\ TakeOut => Types'
<1> SUFFICES ASSUME Types, TakeOut PROVE Types'
  OBVIOUS
<1>1. job # <<>> /\ Head(job).do = "take out" /\ Advance /\ running' = running /\ JobInv
  BY DEF TakeOut, Now, Types
<1>2. Target \in Name
  BY <1>1, Next1, ItemFacts
<1>3. JobInv'
  BY <1>1, AdvanceStep
<1>4. DiskTypeOK'
  <2>1. /\ keystore' = (IF unlocked THEN [keystore EXCEPT ![Target] = None] ELSE keystore)
        /\ UNCHANGED <<config, marker, file>>
    BY DEF TakeOut
  <2> QED BY <1>2, <2>1, KeystoreWrite DEF Types
<1>5. OwnerTypeOK' /\ ProcTypeOK'
  BY DEF Types, TakeOut, history, OwnerTypeOK, ProcTypeOK
<1> QED BY <1>3, <1>4, <1>5 DEF Types

LEMMA UnheededTypes == Types /\ Unheeded => Types'
<1> SUFFICES ASSUME Types, Unheeded PROVE Types'
  OBVIOUS
<1>1. job # <<>> /\ Advance /\ running' = running /\ JobInv
  BY DEF Unheeded, Now, Types
<1>2. Head(job).do \in {"mark", "remove file"} => Target \in Name
  BY <1>1, Next1, ItemFacts
<1>3. JobInv'
  BY <1>1, AdvanceStep
<1>4. DiskTypeOK'
  <2>1. keystore' = keystore /\ config' \in {config, None}
    BY DEF Unheeded
  <2>2. marker' \subseteq Name
    BY <1>2 DEF Unheeded, Now, Types, DiskTypeOK
  <2>3. file' = file \/ (Target \in Name /\ file' = [file EXCEPT ![Target] = None])
    BY <1>2 DEF Unheeded, Now
  <2>4. /\ file' \in [Name -> Nat \union {None, Torn}]
        /\ \A n \in Name : file'[n] \in Kind(n) \union {None, Torn}
    <3>1. CASE file' = file
      BY <3>1 DEF Types, DiskTypeOK
    <3>2. CASE Target \in Name /\ file' = [file EXCEPT ![Target] = None]
      BY <3>2, SlotTypes DEF Types, DiskTypeOK
    <3> QED BY <2>3, <3>1, <3>2
  <2> QED BY <2>1, <2>2, <2>4 DEF Types, DiskTypeOK
<1>5. OwnerTypeOK' /\ ProcTypeOK'
  BY DEF Types, Unheeded, history, OwnerTypeOK, ProcTypeOK
<1> QED BY <1>3, <1>4, <1>5 DEF Types

LEMMA UnheededFailsTypes == Types /\ UnheededFails => Types'
<1> SUFFICES ASSUME Types, UnheededFails PROVE Types'
  OBVIOUS
<1>1. job # <<>> /\ Advance /\ running' = running /\ JobInv /\ ProcTypeOK /\ Stuck
  BY DEF UnheededFails, Now, Types
<1>2. JobInv'
  BY <1>1, AdvanceStep
<1>3. DiskTypeOK' /\ OwnerTypeOK'
  BY DEF Types, UnheededFails, disk, DiskTypeOK, OwnerTypeOK
<1>4. ProcTypeOK'
  <2>1. mishaps' \in 0 .. MaxMishaps
    BY <1>1, StuckCounts
  <2>2. unmarked' \in BOOLEAN
    BY DEF UnheededFails, Types, ProcTypeOK
  <2> QED BY <2>1, <2>2 DEF Types, UnheededFails, ProcTypeOK
<1> QED BY <1>2, <1>3, <1>4 DEF Types

\* The process.
LEMMA StartTypes == Types /\ Start => Types'
<1> SUFFICES ASSUME Types, Start PROVE Types'
  OBVIOUS
<1>1. running = "down" /\ running' = "booting" /\ job = <<>> /\ JobInv
  BY DEF Start, Types, JobInv, Idle
<1>2. CASE Load("node-key") = None
  <2>1. keys < MaxKeys /\ keys' = keys + 1 /\ identity' = keys + 1 /\ job' = <<Do("put", "node-key", keys + 1)>>
    BY <1>2 DEF Start, Store
  <2>2. keys \in Nat /\ keys + 1 \in 1 .. MaxKeys /\ keys' \in 0 .. MaxKeys
    BY <2>1, BoundAssumption DEF Types, ProcTypeOK
  <2> DEFINE w == Do("put", "node-key", keys + 1)
  <2>3. w \in Item /\ w.do = "put" /\ w.name = "node-key"
    <3>1. w \in Item
      BY <2>2, ItemTypes DEF Name, Kind
    <3> QED BY <3>1 DEF Do
  <2>4. job' = <<w>>
    BY <2>1
  <2> HIDE DEF w
  <2>5. /\ <<w>> \in Seq(Item) /\ Orderly(<<w>>)
        /\ \A n : Todo(<<w>>, n) = IF n = "node-key" THEN {"put"} ELSE {}
    BY <2>3, SingleList
  <2>6. JobInv'
    <3>1. /\ job' \in Seq(Item) /\ Orderly(job')
          /\ \A n : Todo(job', n) = IF n = "node-key" THEN {"put"} ELSE {}
      BY <2>4, <2>5
    <3>2. /\ \A n : "unmark" \in Todo(job', n) => FALSE
          /\ \A n : n # "node-key" => Todo(job', n) = {}
      BY <3>1
    <3> QED BY <1>1, <3>1, <3>2 DEF JobInv
  <2>7. DiskTypeOK' /\ OwnerTypeOK'
    BY DEF Types, Start, disk, DiskTypeOK, OwnerTypeOK
  <2>8. ProcTypeOK'
    BY <2>1, <2>2, <1>1 DEF Types, Start, history, ProcTypeOK
  <2> QED BY <2>6, <2>7, <2>8 DEF Types
<1>3. CASE Load("node-key") # None
  <2>1. identity' = Load("node-key") /\ job' = <<>> /\ keys' = keys /\ identity' # Refused
    BY <1>1, <1>3 DEF Start
  <2>2. identity' \in 1 .. MaxKeys
    BY <1>3, <2>1, LoadTypes DEF Types, Name, Kind
  <2>3. JobInv'
    BY <1>1, <2>1, EndStep
  <2>4. DiskTypeOK' /\ OwnerTypeOK'
    BY DEF Types, Start, disk, DiskTypeOK, OwnerTypeOK
  <2>5. ProcTypeOK'
    BY <2>1, <2>2, <1>1 DEF Types, Start, history, ProcTypeOK
  <2> QED BY <2>3, <2>4, <2>5 DEF Types
<1> QED BY <1>2, <1>3

LEMMA StartedTypes == Types /\ Started => Types'
<1> SUFFICES ASSUME Types, Started PROVE Types'
  OBVIOUS
<1>1. running = "booting" /\ job = <<>> /\ job' = <<>> /\ JobInv /\ running' \in {"down", "up"}
  BY DEF Started, Types, Idle
<1>2. JobInv'
  BY <1>1, EndStep
<1>3. DiskTypeOK' /\ OwnerTypeOK'
  BY DEF Types, Started, disk, DiskTypeOK, OwnerTypeOK
<1>4. ProcTypeOK'
  <2>1. memory' \in Config \union {None} /\ (running' # "up" => memory' = None)
    BY <1>1, LoadTypes DEF Types, Started, ProcTypeOK
  <2>2. identity' \in 1 .. MaxKeys \union {None}
    BY DEF Types, Started, ProcTypeOK
  <2> QED BY <2>1, <2>2 DEF Types, Started, ProcTypeOK
<1> QED BY <1>2, <1>3, <1>4 DEF Types

LEMMA CrashTypes == Types /\ Crash => Types'
<1> SUFFICES ASSUME Types, Crash PROVE Types'
  OBVIOUS
<1>1. running' = "down" /\ job' = <<>> /\ JobInv /\ memory' = None /\ identity' = None
  BY DEF Crash, Types
<1>2. JobInv'
  BY <1>1, EndStep
<1>3. OwnerTypeOK'
  BY DEF Types, Crash, OwnerTypeOK
<1>4. DiskTypeOK'
  <2>1. UNCHANGED <<keystore, marker>> /\ config' \in {config, Torn}
    BY DEF Crash, disk, Written
  <2>2. \/ file' = file
        \/ job # <<>> /\ Head(job).do = "write file" /\ file' = [file EXCEPT ![Target] = Torn]
    BY DEF Crash, disk, Written, Now, Idle
  <2>3. /\ file' \in [Name -> Nat \union {None, Torn}]
        /\ \A n \in Name : file'[n] \in Kind(n) \union {None, Torn}
    <3>1. CASE file' = file
      BY <3>1 DEF Types, DiskTypeOK
    <3>2. CASE job # <<>> /\ Head(job).do = "write file" /\ file' = [file EXCEPT ![Target] = Torn]
      <4>1. Target \in Name
        BY <1>1, <3>2, Next1, ItemFacts
      <4> QED BY <4>1, <3>2, SlotTypes DEF Types, DiskTypeOK
    <3> QED BY <2>2, <3>1, <3>2
  <2> QED BY <2>1, <2>3 DEF Types, DiskTypeOK
<1>5. ProcTypeOK'
  <2>1. mishaps' \in 0 .. MaxMishaps
    <3>1. mishaps' = mishaps \/ Stuck
      BY DEF Crash
    <3> QED BY <3>1, StuckCounts DEF Types, ProcTypeOK
  <2>2. left' \in BOOLEAN
    BY DEF Crash, Types, ProcTypeOK
  <2> QED BY <1>1, <2>1, <2>2 DEF Types, Crash, ProcTypeOK
<1> QED BY <1>2, <1>3, <1>4, <1>5 DEF Types

LEMMA KeystoreTypes == Types /\ Keystore => Types'
<1> SUFFICES ASSUME Types, Keystore PROVE Types'
  OBVIOUS
<1>1. JobInv'
  BY DEF Types, Keystore, JobInv, Idle
<1>2. DiskTypeOK' /\ OwnerTypeOK'
  BY DEF Types, Keystore, disk, DiskTypeOK, OwnerTypeOK
<1>3. ProcTypeOK'
  BY DEF Types, Keystore, history, ProcTypeOK
<1> QED BY <1>1, <1>2, <1>3 DEF Types

-----------------------------------------------------------------------------
(***************************************************************************)
(* The networks named anywhere are networks that were made.                *)
(***************************************************************************)
Told(c) == c # None => c \in Config /\ c.owner \in 1 .. Len(owner)

Born ==
    /\ config \in {None, Torn} \union 1 .. Len(owner)
    /\ memory # None => memory.owner \in 1 .. Len(owner)
    /\ \E c : Told(c) /\ Says(job, c)

LEMMA BornStep ==
    ASSUME Born, Types, NEW k \in Nat, Len(owner') = k, Len(owner) <= k,
           config' \in {config, None, Torn} \union 1 .. k,
           memory' \in {memory, None} \/ memory'.owner \in 1 .. k,
           NEW c, c # None => c \in Config /\ c.owner \in 1 .. k, Says(job', c)
    PROVE  Born'
<1>1. Len(owner) \in Nat
  BY DEF Types, OwnerTypeOK
<1>2. \A n \in 1 .. Len(owner) : n \in 1 .. k
  BY <1>1
<1>3. config' \in {None, Torn} \union 1 .. k
  BY <1>2 DEF Born
<1>4. memory' # None => memory'.owner \in 1 .. k
  BY <1>2 DEF Born
<1>5. Told(c)'
  BY DEF Told
<1> QED BY <1>3, <1>4, <1>5 DEF Born

\* What the writes leave to say.
LEMMA ContinueSays ==
    ASSUME Types, Continue
    PROVE  \A c : Says(job, c) => Says(job', c)
<1>1. CASE Advance
  <2>1. job # <<>>
    BY DEF Continue, Activate, Confirm, Forget, Put, TakeOut, Unheeded, UnheededFails, Write, WriteFails,
           Written, Now
  <2> QED BY <1>1, <2>1, Next1 DEF Types, Advance
<1>2. CASE Put
  BY <1>2, PutStep DEF Types
<1>3. CASE Abort
  <2>1. job # <<>>
    BY DEF Continue, Activate, Confirm, Forget, Put, TakeOut, Unheeded, UnheededFails, Write, WriteFails,
           Written, Now
  <2> QED BY <1>3, <2>1, AbortStep DEF Types
<1>4. CASE job' \in {<<>>, Teardown}
  BY <1>4, EmptyList, TeardownList
<1>5. Advance \/ Put \/ Abort \/ job' \in {<<>>, Teardown}
  BY DEF Continue, Activate, Confirm, Forget, TakeOut, Unheeded, UnheededFails, Write, WriteFails
<1> QED BY <1>1, <1>2, <1>3, <1>4, <1>5

\* What is being told comes from the configuration that the list is about.
LEMMA TakenFrom ==
    ASSUME Types, Continue, NEW c, Says(job, c)
    PROVE  /\ memory' \in {memory, None} \/ (memory' = c /\ c \in Config)
           /\ config' \in {config, None, Torn} \/ (config' = c.owner /\ c # None)
<1>1. job # <<>> /\ JobInv
  BY DEF Continue, Activate, Confirm, Forget, Put, TakeOut, Unheeded, UnheededFails, Write, WriteFails,
         Written, Now, Types
<1>2. Head(job) \in Item /\ Tells(Head(job), c) /\ Value = Head(job).val
  BY <1>1, Next1
<1>3. memory' \in {memory, None} \/ (memory' = Value /\ Head(job).do \in {"remember", "replace"})
  BY DEF Continue, Activate, Confirm, Forget, Put, TakeOut, Unheeded, UnheededFails, Write, WriteFails, Now
<1>4. config' \in {config, None, Torn} \/ (config' = Value /\ Head(job).do = "write config")
  BY DEF Continue, Activate, Confirm, Forget, Put, TakeOut, Unheeded, UnheededFails, Write, WriteFails,
         Written, Now, disk
<1>5. Head(job).do \in {"remember", "replace"} => Value = c /\ c \in Config
  BY <1>2, ItemFacts DEF Tells
<1>6. Head(job).do = "write config" => Value = c.owner /\ c # None
  BY <1>2 DEF Tells
<1> QED BY <1>3, <1>4, <1>5, <1>6

LEMMA ContinueBorn == Types /\ Born /\ Continue => Born'
<1> SUFFICES ASSUME Types, Born, Continue PROVE Born'
  OBVIOUS
<1>1. PICK c : Told(c) /\ Says(job, c)
  BY DEF Born
<1>2. owner' = owner
  BY DEF Continue, Activate, Confirm, Forget, Put, TakeOut, Unheeded, UnheededFails, Write, WriteFails
<1>3. Says(job', c)
  BY <1>1, ContinueSays
<1> DEFINE k == Len(owner)
<1>4. Len(owner') = k /\ k \in Nat
  BY <1>2 DEF Types, OwnerTypeOK
<1>5. c # None => c \in Config /\ c.owner \in 1 .. k
  BY <1>1 DEF Told
<1>6. c \in Config => c # None
  BY ConfigFacts
<1> HIDE DEF k
<1>7. config' \in {config, None, Torn} \union 1 .. k
  BY <1>1, <1>5, TakenFrom
<1>8. memory' \in {memory, None} \/ memory'.owner \in 1 .. k
  BY <1>1, <1>5, <1>6, TakenFrom
<1>9. Len(owner) <= k
  BY <1>4 DEF k
<1> QED BY <1>3, <1>4, <1>5, <1>7, <1>8, <1>9, BornStep

LEMMA ProcessBorn == Types /\ Born /\ (Start \/ Started \/ Crash \/ Keystore) => Born'
<1> SUFFICES ASSUME Types, Born, Start \/ Started \/ Crash \/ Keystore PROVE Born'
  OBVIOUS
<1> DEFINE k == Len(owner)
<1>1. Len(owner') = k /\ k \in Nat
  <2>1. owner' = owner
    BY DEF Start, Started, Crash, Keystore
  <2>2. Len(owner) \in Nat
    BY DEF Types, OwnerTypeOK
  <2> QED BY <2>1, <2>2
<1>2. config' \in {config, None, Torn}
  BY DEF Start, Started, Crash, Keystore, disk, Written
<1>3. memory' \in {memory, None} \/ (memory' = Loaded /\ Loaded \notin {None, Refused})
  BY DEF Start, Started, Crash, Keystore
<1>4. Loaded \notin {None, Refused} => Loaded.owner \in 1 .. k
  <2> SUFFICES ASSUME Loaded \notin {None, Refused} PROVE Loaded.owner \in 1 .. k
    OBVIOUS
  <2>1. /\ Loaded = StoredConfig(config, Load("network"), Load("originator"))
        /\ config \notin {None, Torn}
    BY DEF Loaded
  <2> QED BY <2>1 DEF Born, StoredConfig
<1>5. \E c : Told(c) /\ Says(job', c)
  <2>1. CASE job' = job
    BY <2>1 DEF Born
  <2>2. CASE job' = <<>>
    BY <2>2, EmptyList DEF Told
  <2>3. CASE Start /\ job' = Store("node-key", keys + 1)
    <3> DEFINE w == Do("put", "node-key", keys + 1)
    <3>1. job' = <<w>> /\ Tells(w, None)
      BY <2>3 DEF Store, Do, Tells
    <3> HIDE DEF w
    <3>2. \A i \in 1 .. Len(<<w>>) : <<w>>[i] = w
      OBVIOUS
    <3> QED BY <3>1, <3>2 DEF Says, Told
  <2> QED BY <2>1, <2>2, <2>3 DEF Start, Started, Crash, Keystore
<1>6. PICK c : Told(c) /\ Says(job', c)
  BY <1>5
<1>7. c # None => c \in Config /\ c.owner \in 1 .. k
  BY <1>6 DEF Told
<1>8. memory' \in {memory, None} \/ memory'.owner \in 1 .. k
  BY <1>3, <1>4
<1>9. Len(owner) <= k
  BY <1>1
<1> HIDE DEF k
<1> QED BY <1>1, <1>2, <1>6, <1>7, <1>8, <1>9, BornStep

LEMMA RequestOwner ==
    ASSUME Types, Born, Request
    PROVE  /\ OwnerTypeOK' /\ Born'
           /\ owner' = owner \/ \E o \in 1 .. Len(owner) + 1 : owner' = Append(owner, o)
<1> DEFINE k == Len(owner')
<1>1. /\ Len(owner) \in Nat /\ config' = config /\ memory' = memory
      /\ memory # None => memory \in Config /\ memory.owner \in 1 .. Len(owner)
  BY RequestStep DEF Types, OwnerTypeOK, ProcTypeOK, Quiet, disk, Born
<1>2. ASSUME NEW o \in 1 .. Len(owner) + 1, Len(owner) < MaxNets, owner' = Append(owner, o)
      PROVE  OwnerTypeOK' /\ Len(owner') = Len(owner) + 1
  BY <1>2, OwnerStep DEF Types
<1>3. ASSUME owner' = owner PROVE OwnerTypeOK'
  BY <1>3 DEF Types, OwnerTypeOK
<1>4. ASSUME NEW l \in Nat, Len(owner') = l, Len(owner) <= l,
             NEW c, c # None => c \in Config /\ c.owner \in 1 .. l, Says(job', c)
      PROVE  Born'
  BY <1>1, <1>4, BornStep
<1>5. CASE CreateNetwork
  <2> DEFINE n == Len(owner) + 1
             c == StoredConfig(n, n, n)
  <2>1. n \in Nat /\ n \in 1 .. n /\ Len(owner) < MaxNets /\ owner' = Append(owner, n) /\ Len(owner) <= n
    BY <1>1, <1>5 DEF CreateNetwork
  <2>2. c \in Config /\ c.owner = n /\ Says(job', c)
    <3>1. c \in Config /\ Listed(job', c, {"write config", "remember"}, {"put"}, {"put"})
      BY <1>5, CreateFacts
    <3> QED BY <3>1 DEF Listed, StoredConfig
  <2>3. OwnerTypeOK' /\ Len(owner') = n
    BY <1>2, <2>1
  <2> HIDE DEF c, n
  <2>4. Born'
    BY <1>4, <2>1, <2>2, <2>3
  <2> QED BY <2>1, <2>3, <2>4 DEF n
<1>6. CASE JoinNetwork
  <2> DEFINE n == Len(owner) + 1
             c == StoredConfig(n, n, None)
  <2>1. n \in Nat /\ n \in 1 .. n /\ Len(owner) < MaxNets /\ owner' = Append(owner, n) /\ Len(owner) <= n
    BY <1>1, <1>6 DEF JoinNetwork
  <2>2. c \in Config /\ c.owner = n /\ Says(job', c)
    <3>1. c \in Config /\ Listed(job', c, {"write config", "remember", "confirm"}, {"put"}, Deletion)
      BY <1>6, JoinFacts
    <3> QED BY <3>1 DEF Listed, StoredConfig
  <2>3. OwnerTypeOK' /\ Len(owner') = n
    BY <1>2, <2>1
  <2> HIDE DEF c, n
  <2>4. Born'
    BY <1>4, <2>1, <2>2, <2>3
  <2> QED BY <2>1, <2>3, <2>4 DEF n
<1>7. CASE LeaveNetwork
  <2>1. owner' = owner /\ Says(job', None)
    BY <1>7, TeardownList DEF LeaveNetwork, Begin
  <2>2. Len(owner') = Len(owner) /\ Len(owner) <= Len(owner)
    BY <1>1, <2>1
  <2>3. Born'
    BY <1>1, <1>4, <2>1, <2>2
  <2> QED BY <1>3, <2>1, <2>3
<1>8. CASE RotateNetwork
  <2> DEFINE c == StoredConfig(memory.owner, Len(owner) + 1, memory.master)
             n == Len(owner) + 1
  <2>1. /\ c \in Config /\ c.owner = memory.owner /\ Says(job', c) /\ owner' = Append(owner, memory.owner)
        /\ memory.owner \in 1 .. n /\ Len(owner) < MaxNets
    <3>1. /\ memory \in Config /\ c \in Config /\ owner' = Append(owner, memory.owner)
          /\ Listed(job', c, {"forget", "remove config", "write config", "remember"},
                    Deletion \union {"put"}, Deletion \union {"put"})
      BY <1>8, RotateFacts
    <3>2. c.owner = memory.owner
      BY DEF StoredConfig
    <3>3. Says(job', c)
      BY <3>1 DEF Listed
    <3>4. Len(owner) < MaxNets /\ memory.owner \in 1 .. n
      BY <1>1, <1>8 DEF RotateNetwork
    <3> QED BY <3>1, <3>2, <3>3, <3>4
  <2>2. OwnerTypeOK' /\ Len(owner') = n
    BY <1>2, <2>1
  <2>3. n \in Nat /\ Len(owner) <= n
    BY <1>1
  <2> HIDE DEF c, n
  <2>4. Born'
    BY <1>4, <2>1, <2>2, <2>3
  <2> QED BY <2>1, <2>2, <2>4 DEF n
<1>9. CASE ImportOriginatorKey
  <2> DEFINE c == StoredConfig(memory.owner, memory.secret, memory.owner)
  <2>1. /\ c \in Config /\ Says(job', c) /\ owner' = owner /\ c.owner \in 1 .. Len(owner)
    <3>1. /\ memory \in Config /\ c \in Config /\ owner' = owner
          /\ Listed(job', c, {"write config", "replace"}, {"put"}, {"put"})
      BY <1>9, ImportFacts
    <3>2. c.owner = memory.owner
      BY DEF StoredConfig
    <3>3. Says(job', c)
      BY <3>1 DEF Listed
    <3>4. memory # None
      BY <3>1, ConfigFacts
    <3> QED BY <1>1, <3>1, <3>2, <3>3, <3>4
  <2>2. Len(owner') = Len(owner) /\ Len(owner) <= Len(owner)
    BY <1>1, <2>1
  <2> HIDE DEF c
  <2>3. Born'
    BY <1>1, <1>4, <2>1, <2>2
  <2> QED BY <1>3, <2>1, <2>3
<1>10. CASE Reconnect
  <2>1. PICK c \in Config : /\ c = IF memory = None THEN Loaded ELSE memory
                            /\ owner' = owner /\ Listed(job', c, {"remember"}, {}, {})
    BY <1>10, ReconnectFacts
  <2>2. c.owner \in 1 .. Len(owner)
    <3>1. CASE memory = None
      <4>1. Loaded \notin {None, Refused}
        BY <1>10, <3>1 DEF Reconnect
      <4>2. /\ Loaded = StoredConfig(config, Load("network"), Load("originator"))
            /\ config \notin {None, Torn}
        BY <4>1 DEF Loaded
      <4> QED BY <2>1, <3>1, <4>2 DEF Born, StoredConfig
    <3>2. CASE memory # None
      BY <1>1, <2>1, <3>2
    <3> QED BY <3>1, <3>2
  <2>3. Says(job', c)
    BY <2>1 DEF Listed
  <2>4. Len(owner') = Len(owner) /\ Len(owner) <= Len(owner)
    BY <1>1, <2>1
  <2>5. Born'
    BY <1>1, <1>4, <2>1, <2>2, <2>3, <2>4
  <2> QED BY <1>3, <2>1, <2>5
<1> QED BY <1>5, <1>6, <1>7, <1>8, <1>9, <1>10 DEF Request

LEMMA TypeStep == Types /\ Born /\ [Next]_vars => Types' /\ Born'
<1> SUFFICES ASSUME Types, Born, [Next]_vars PROVE Types' /\ Born'
  OBVIOUS
<1>1. CASE Request
  <2>1. JobInv' /\ Quiet /\ OwnerTypeOK' /\ Born'
    BY <1>1, RequestStep, RequestOwner
  <2>2. DiskTypeOK' /\ ProcTypeOK'
    BY <2>1 DEF Types, Quiet, disk, history, DiskTypeOK, ProcTypeOK
  <2> QED BY <2>1, <2>2 DEF Types
<1>2. CASE Continue
  <2>1. Types'
    BY <1>2, ActivateTypes, ConfirmTypes, ForgetTypes, PutTypes, TakeOutTypes, UnheededTypes,
       UnheededFailsTypes, WriteTypes DEF Continue
  <2> QED BY <1>2, <2>1, ContinueBorn
<1>3. CASE Start \/ Started \/ Crash \/ Keystore
  BY <1>3, StartTypes, StartedTypes, CrashTypes, KeystoreTypes, ProcessBorn
<1>4. CASE UNCHANGED vars
  <2>1. JobInv'
    BY <1>4 DEF Types, vars, JobInv, Idle
  <2>2. DiskTypeOK' /\ OwnerTypeOK'
    BY <1>4 DEF Types, vars, disk, DiskTypeOK, OwnerTypeOK
  <2>3. ProcTypeOK'
    BY <1>4 DEF Types, vars, history, ProcTypeOK
  <2>4. Born'
    BY <1>4 DEF vars, disk, Born, Told
  <2> QED BY <2>1, <2>2, <2>3, <2>4 DEF Types
<1> QED BY <1>1, <1>2, <1>3, <1>4 DEF Next

LEMMA InitBorn == Init => Born
BY EmptyList DEF Init, Born, Told

\* The disk, the keystore and the process hold what they may, and every write still to be
\* made is one that the code makes (secrets.rs, engine.rs).
THEOREM TypeCorrect == Spec => []TypeOK
<1>1. Init => Types /\ Born
  BY InitTypes, InitBorn
<1>2. Types /\ Born /\ [Next]_vars => (Types /\ Born)'
  BY TypeStep
<1>3. Types /\ Born => TypeOK
  <2> SUFFICES ASSUME Types PROVE TypeOK
    OBVIOUS
  <2>1. \A n \in DOMAIN owner : owner[n] \in 1 .. n
    BY DEF Types, OwnerTypeOK
  <2>2. running \in {"down", "booting", "up"} /\ (running = "down" => Idle /\ memory = None)
    BY DEF Types, JobInv, ProcTypeOK
  <2> QED BY <2>1, <2>2 DEF Types, DiskTypeOK, ProcTypeOK, OwnerTypeOK, TypeOK
<1> QED BY <1>1, <1>2, <1>3, PTL DEF Spec

-----------------------------------------------------------------------------
(***************************************************************************)
(* The device key.                                                         *)
(***************************************************************************)
\* What a reader that gets an answer finds.
Held(n) == IF n \in marker THEN keystore[n] ELSE file[n]

\* How far the storing of the device key has come.
KeyJob ==
    LET n == "node-key"
    IN  \/ job = <<Do("put", n, identity)>> /\ n \notin marker
        \/ job = <<Do("mark", n, None), Do("remove file", n, None)>> /\ keystore[n] = identity
        \/ job = <<Do("remove file", n, None)>> /\ n \in marker /\ keystore[n] = identity
        \/ job = <<Do("unmark", n, None), Do("write file", n, identity)>> /\ n \notin marker
        \/ job = <<Do("write file", n, identity)>> /\ n \notin marker
        \/ job = <<>> /\ Held(n) = identity

Keyed ==
    ~unmarked =>
        /\ running = "booting" => identity # None /\ KeyJob /\ (known # None => Idle)
        /\ running # "down" /\ known # None => identity = known
        /\ running = "up" => known # None
        /\ known # None => Held("node-key") = known

LEMMA LoadHolds ==
    ASSUME NEW n, Load(n) # Refused
    PROVE  Load(n) = Held(n) /\ (Load(n) = None => n \notin marker)
BY DEF Load, Held

\* The requests leave the device key alone.
LEMMA KeyAlone ==
    ASSUME Types, running = "up", Continue
    PROVE  /\ Held("node-key")' = Held("node-key")
           /\ UNCHANGED <<running, identity, known, unmarked>>
<1> DEFINE n == "node-key"
<1>1. job # <<>> /\ JobInv /\ n \in Name
  BY DEF Continue, Activate, Confirm, Forget, Put, TakeOut, Unheeded, UnheededFails, Write, WriteFails,
         Written, Now, Types, Name
<1>2. Target # n
  BY <1>1, Next1
<1>3. keystore' = keystore \/ \E v : keystore' = [keystore EXCEPT ![Target] = v]
  BY DEF Continue, Activate, Confirm, Forget, Put, TakeOut, Unheeded, UnheededFails, Write, WriteFails, disk
<1>4. file' = file \/ \E v : file' = [file EXCEPT ![Target] = v]
  BY DEF Continue, Activate, Confirm, Forget, Put, TakeOut, Unheeded, UnheededFails, Write, WriteFails,
         Written, disk
<1>5. n \in marker' <=> n \in marker
  BY <1>2 DEF Continue, Activate, Confirm, Forget, Put, TakeOut, Unheeded, UnheededFails, Write, WriteFails,
         disk
<1>6. keystore'[n] = keystore[n] /\ file'[n] = file[n]
  BY <1>1, <1>2, <1>3, <1>4 DEF Types, DiskTypeOK
<1>7. running' = running
  BY DEF Continue, Activate, Confirm, Forget, Put, TakeOut, Unheeded, UnheededFails, Write, WriteFails, Abort
<1>8. identity' = identity /\ known' = known
  BY DEF Continue, Activate, Confirm, Forget, Put, TakeOut, Unheeded, UnheededFails, Write, WriteFails,
         history
<1>9. unmarked' = unmarked
  BY <1>2 DEF Continue, Activate, Confirm, Forget, Put, TakeOut, Unheeded, UnheededFails, Write, WriteFails,
         history, Types, ProcTypeOK
<1> QED BY <1>5, <1>6, <1>7, <1>8, <1>9 DEF Held

\* Reading a literal list.
LEMMA Heads ==
    /\ \A a : <<a>> # <<>> /\ Head(<<a>>) = a /\ Tail(<<a>>) = <<>> /\ <<a>> \o <<>> = <<a>>
    /\ \A a, b : <<a, b>> # <<>> /\ Head(<<a, b>>) = a /\ Tail(<<a, b>>) = <<b>> /\ <<a, b>> \o <<>> = <<a, b>>
OBVIOUS

\* Which action makes the next write.
LEMMA Doer ==
    ASSUME Continue
    PROVE  /\ job # <<>>
           /\ Head(job).do = "put" => Put
           /\ Head(job).do \in {"mark", "unmark", "remove file", "remove config"} => Unheeded \/ UnheededFails
           /\ Head(job).do \in {"write file", "write config"} => Write \/ WriteFails
           /\ Head(job).do \in {"remember", "replace"} => Activate
           /\ Head(job).do = "take out" => TakeOut
           /\ Head(job).do = "forget" => Forget
           /\ Head(job).do = "confirm" => Confirm
<1>1. Activate => job # <<>> /\ Head(job).do \in {"remember", "replace"}
  BY DEF Activate, Now
<1>2. Confirm => job # <<>> /\ Head(job).do = "confirm"
  BY DEF Confirm, Now
<1>3. Forget => job # <<>> /\ Head(job).do = "forget"
  BY DEF Forget, Now
<1>4. Put => job # <<>> /\ Head(job).do = "put"
  BY DEF Put, Now
<1>5. TakeOut => job # <<>> /\ Head(job).do = "take out"
  BY DEF TakeOut, Now
<1>6. Unheeded \/ UnheededFails =>
          job # <<>> /\ Head(job).do \in {"mark", "unmark", "remove file", "remove config"}
  BY DEF Unheeded, UnheededFails, Now
<1>7. Write \/ WriteFails => job # <<>> /\ Head(job).do \in {"write file", "write config"}
  BY DEF Write, WriteFails, Written, Now
<1> QED BY <1>1, <1>2, <1>3, <1>4, <1>5, <1>6, <1>7 DEF Continue

\* A boot stores the device key, or ends.
LEMMA KeyStored ==
    ASSUME Types, Keyed, ~unmarked', running = "booting", Continue
    PROVE  Keyed'
<1> DEFINE n == "node-key"
           put == Do("put", n, identity)
           mark == Do("mark", n, None)
           remove == Do("remove file", n, None)
           unmark == Do("unmark", n, None)
           write == Do("write file", n, identity)
<1>1. job # <<>> /\ JobInv /\ n \in Name /\ DiskTypeOK /\ \A what : Now(what) <=> Head(job).do = what
  BY DEF Continue, Activate, Confirm, Forget, Put, TakeOut, Unheeded, UnheededFails, Write, WriteFails,
         Written, Now, Types, Name
<1>2. ~unmarked
  BY DEF Continue, Activate, Confirm, Forget, Put, TakeOut, Unheeded, UnheededFails, Write, WriteFails,
         history
<1>3. identity # None /\ KeyJob /\ known = None
  BY <1>1, <1>2 DEF Keyed, Idle
<1>4. identity' = identity /\ known' = known
  BY DEF Continue, Activate, Confirm, Forget, Put, TakeOut, Unheeded, UnheededFails, Write, WriteFails,
         history
<1>5. /\ put.do = "put" /\ put.name = n /\ put.val = identity
      /\ mark.do = "mark" /\ mark.name = n /\ remove.do = "remove file" /\ remove.name = n
      /\ unmark.do = "unmark" /\ unmark.name = n
      /\ write.do = "write file" /\ write.name = n /\ write.val = identity
  BY DEF Do
<1>6. /\ job = <<put>> => n \notin marker
      /\ job = <<mark, remove>> => keystore[n] = identity
      /\ job = <<remove>> => n \in marker /\ keystore[n] = identity
      /\ job = <<unmark, write>> => n \notin marker
      /\ job = <<write>> => n \notin marker
      /\ job \in {<<put>>, <<mark, remove>>, <<remove>>, <<unmark, write>>, <<write>>}
  <2>1. /\ \A a : <<a>> # <<>> /\ \A b, c : <<a>> # <<b, c>>
        /\ \A a, b : <<a>> = <<b>> => a = b
        /\ \A a, b, c, d : <<a, b>> = <<c, d>> => a = c /\ b = d
    OBVIOUS
  <2> DEFINE keep == <<mark, remove>>
             store == <<unmark, write>>
             one == <<put>>
             two == <<remove>>
             three == <<write>>
  <2>2. /\ one # keep /\ one # store /\ one # two /\ one # three
        /\ two # keep /\ two # store /\ two # three /\ three # keep /\ three # store /\ keep # store
    BY <1>5, <2>1
  <2>3. \/ job = one /\ n \notin marker
        \/ job = keep /\ keystore[n] = identity
        \/ job = two /\ n \in marker /\ keystore[n] = identity
        \/ job = store /\ n \notin marker
        \/ job = three /\ n \notin marker
    BY <1>1, <1>3 DEF KeyJob
  <2> HIDE DEF keep, store, one, two, three
  <2>4. /\ job = one => n \notin marker
        /\ job = keep => keystore[n] = identity
        /\ job = two => n \in marker /\ keystore[n] = identity
        /\ job = store => n \notin marker
        /\ job = three => n \notin marker
        /\ job \in {one, keep, two, store, three}
    BY <2>2, <2>3
  <2> QED BY <2>4 DEF keep, store, one, two, three
<1> HIDE DEF put, mark, remove, unmark, write
<1>7. ASSUME running' = "booting" => KeyJob' PROVE Keyed'
  <2>1. running' # "up"
    BY DEF Continue, Activate, Confirm, Forget, Put, TakeOut, Unheeded, UnheededFails, Write, WriteFails, Abort
  <2> QED BY <1>3, <1>4, <1>7, <2>1 DEF Keyed
<1>8. KeyJob' <=>
        \/ job' = <<put>> /\ n \notin marker'
        \/ job' = <<mark, remove>> /\ keystore'[n] = identity
        \/ job' = <<remove>> /\ n \in marker' /\ keystore'[n] = identity
        \/ job' = <<unmark, write>> /\ n \notin marker'
        \/ job' = <<write>> /\ n \notin marker'
        \/ job' = <<>> /\ Held(n)' = identity
  BY <1>4 DEF KeyJob, put, mark, remove, unmark, write
<1>9. CASE job = <<put>>
  <2>1. Head(job) = put /\ Tail(job) = <<>>
    BY <1>9, Heads
  <2>2. Put /\ Target = n /\ Value = identity
    BY <1>5, <2>1, Doer DEF Target, Value
  <2>3. marker' = marker /\ n \notin marker'
    BY <1>6, <1>9, <2>2 DEF Put
  <2>4. CASE unlocked
    <3>1. job' = <<mark, remove>> \o <<>>
      BY <2>1, <2>2, <2>4 DEF Put, KeepInKeystore, mark, remove
    <3>2. keystore'[n] = identity
      BY <1>1, <2>2, <2>4 DEF Put, DiskTypeOK
    <3> QED BY <1>7, <1>8, <3>1, <3>2, Heads
  <2>5. CASE ~unlocked
    <3>1. job' = <<unmark, write>> \o <<>>
      BY <2>1, <2>2, <2>5 DEF Put, KeepInFile, unmark, write
    <3> QED BY <1>7, <1>8, <2>3, <3>1, Heads
  <2> QED BY <2>4, <2>5
<1>10. CASE job = <<mark, remove>>
  <2>1. Head(job) = mark /\ Tail(job) = <<remove>> /\ Target = n
    BY <1>5, <1>10, Heads DEF Target
  <2>2. Unheeded \/ UnheededFails
    BY <1>5, <2>1, Doer
  <2>3. Now("mark") /\ ~Now("unmark") /\ ~Now("remove file") /\ ~Now("remove config")
    BY <1>1, <1>5, <2>1 DEF Now
  <2>4. ~UnheededFails
    BY <2>1, <2>3 DEF UnheededFails
  <2>5. n \in marker' /\ keystore' = keystore /\ job' = <<remove>>
    BY <2>1, <2>2, <2>3, <2>4 DEF Unheeded, Advance
  <2> QED BY <1>6, <1>7, <1>8, <1>10, <2>5
<1>11. CASE job = <<remove>>
  <2>1. Head(job) = remove /\ Tail(job) = <<>>
    BY <1>11, Heads
  <2>2. Unheeded \/ UnheededFails
    BY <1>5, <2>1, Doer
  <2>3. marker' = marker /\ keystore' = keystore /\ job' = <<>>
    <3>1. ~Now("mark") /\ ~Now("unmark")
      BY <1>1, <1>5, <2>1
    <3> QED BY <2>1, <2>2, <3>1 DEF Unheeded, UnheededFails, Advance, disk
  <2>4. Held(n)' = identity
    BY <1>6, <1>11, <2>3 DEF Held
  <2> QED BY <1>7, <1>8, <2>3, <2>4
<1>12. CASE job = <<unmark, write>>
  <2>1. Head(job) = unmark /\ Tail(job) = <<write>>
    BY <1>12, Heads
  <2>2. Unheeded \/ UnheededFails
    BY <1>5, <2>1, Doer
  <2>3. n \notin marker' /\ job' = <<write>>
    <3>1. ~Now("mark") /\ n \notin marker
      BY <1>1, <1>5, <1>6, <1>12, <2>1
    <3> QED BY <2>1, <2>2, <3>1 DEF Unheeded, UnheededFails, Advance, disk
  <2> QED BY <1>7, <1>8, <2>3
<1>13. CASE job = <<write>>
  <2>1. Head(job) = write /\ Tail(job) = <<>> /\ Target = n /\ Value = identity
    BY <1>5, <1>13, Heads DEF Target, Value
  <2>2. Write \/ WriteFails
    BY <1>5, <2>1, Doer
  <2>3. CASE Write
    <3>1. marker' = marker /\ job' = <<>>
      BY <2>1, <2>3 DEF Write, Advance
    <3>2. ~Now("write config")
      BY <1>5, <2>1 DEF Now
    <3>3. file' = [file EXCEPT ![n] = identity]
      BY <2>1, <2>3, <3>2 DEF Write, Written
    <3>4. Held(n)' = identity
      BY <1>1, <1>6, <1>13, <3>1, <3>3 DEF Held, DiskTypeOK
    <3> QED BY <1>7, <1>8, <3>1, <3>4
  <2>4. CASE WriteFails
    <3>1. running' = "down"
      BY <2>4 DEF WriteFails, Abort
    <3> QED BY <1>7, <3>1
  <2> QED BY <2>2, <2>3, <2>4
<1> QED BY <1>6, <1>9, <1>10, <1>11, <1>12, <1>13

LEMMA KeyStarted == Types /\ Keyed /\ (Start \/ Started) => Keyed'
<1> SUFFICES ASSUME Types, Keyed, ~unmarked', Start \/ Started PROVE Keyed'
  BY DEF Keyed
<1>1. UNCHANGED <<keystore, marker, file>> /\ ~unmarked /\ Held("node-key")' = Held("node-key")
  BY DEF Start, Started, disk, history, Held
<1>2. CASE Start
  <2>1. running = "down" /\ running' = "booting" /\ known' = known /\ job = <<>>
    BY <1>2 DEF Start, history, Types, JobInv, Idle
  <2>2. /\ Load("node-key") # Refused /\ Load("node-key") = Held("node-key")
        /\ Load("node-key") = None => "node-key" \notin marker
    BY <1>2, LoadHolds DEF Start
  <2>3. known # None => Held("node-key") = known
    BY <1>1 DEF Keyed
  <2>4. CASE Load("node-key") = None
    <3>1. /\ job' = <<Do("put", "node-key", identity')>> /\ identity' = keys + 1 /\ known = None
          /\ keys \in Nat
      BY <1>2, <2>2, <2>3, <2>4 DEF Start, Store, Types, ProcTypeOK
    <3>2. identity' # None
      BY <3>1, Bounds
    <3> QED BY <1>1, <2>1, <2>2, <2>4, <3>1, <3>2 DEF Keyed, KeyJob
  <2>5. CASE Load("node-key") # None
    <3>1. job' = <<>> /\ identity' = Held("node-key") /\ identity' # None
      BY <1>2, <2>1, <2>2, <2>5 DEF Start
    <3> QED BY <1>1, <2>1, <2>3, <3>1 DEF Keyed, KeyJob, Idle
  <2> QED BY <2>4, <2>5
<1>3. CASE Started
  <2>1. running = "booting" /\ job = <<>>
    BY <1>3 DEF Started, Idle
  <2>2. /\ identity # None /\ (known # None => identity = known /\ Held("node-key") = known)
        /\ Held("node-key") = identity
    <3>1. /\ identity # None /\ KeyJob
          /\ (known # None => identity = known /\ Held("node-key") = known)
      BY <1>1, <2>1 DEF Keyed
    <3>2. \A a, b : <<a>> # <<>> /\ <<a, b>> # <<>>
      OBVIOUS
    <3> QED BY <2>1, <3>1, <3>2 DEF KeyJob
  <2>3. CASE running' = "down" /\ known' = known
    BY <1>1, <2>2, <2>3 DEF Keyed
  <2>4. CASE running' = "up" /\ known' = identity /\ identity' = identity
    BY <1>1, <2>2, <2>4 DEF Keyed
  <2> QED BY <1>3, <2>3, <2>4 DEF Started
<1> QED BY <1>2, <1>3

LEMMA KeyCrash == Types /\ Keyed /\ Crash => Keyed'
<1> SUFFICES ASSUME Types, Keyed, ~unmarked', Crash PROVE Keyed'
  BY DEF Keyed
<1>1. running' = "down" /\ known' = known /\ ~unmarked /\ UNCHANGED <<keystore, marker>>
  BY DEF Crash, disk
<1>2. known # None => Held("node-key") = known
  BY <1>1 DEF Keyed
<1>3. known # None => file'["node-key"] = file["node-key"]
  <2> SUFFICES ASSUME known # None PROVE file'["node-key"] = file["node-key"]
    OBVIOUS
  <2>1. CASE file' = file
    BY <2>1
  <2>2. CASE job # <<>> /\ file' = [file EXCEPT ![Target] = Torn]
    <3>1. running # "booting"
      BY <1>1, <2>2 DEF Keyed, Idle
    <3>2. Target # "node-key"
      BY <2>2, <3>1, Next1 DEF Types
    <3> QED BY <2>2, <3>2 DEF Types, DiskTypeOK, Name
  <2> QED BY <2>1, <2>2 DEF Crash, disk, Written, Idle
<1>4. known # None => Held("node-key")' = known
  BY <1>1, <1>2, <1>3 DEF Held
<1> QED BY <1>1, <1>4 DEF Keyed

LEMMA KeyStep == Types /\ Keyed /\ [Next]_vars => Keyed'
<1> SUFFICES ASSUME Types, Keyed, [Next]_vars PROVE Keyed'
  OBVIOUS
<1>1. ASSUME UNCHANGED <<running, identity, known, unmarked>>, running # "booting",
             Held("node-key")' = Held("node-key")
      PROVE  Keyed'
  BY <1>1 DEF Keyed
<1>2. CASE Request
  <2>1. Quiet /\ running = "up"
    BY <1>2, RequestStep
  <2> QED BY <1>1, <2>1 DEF Quiet, disk, history, Held
<1>3. CASE Continue
  <2>1. CASE running = "up"
    BY <1>1, <1>3, <2>1, KeyAlone
  <2>2. CASE running = "booting"
    <3>1. unmarked' => Keyed'
      BY DEF Keyed
    <3> QED BY <1>3, <2>2, <3>1, KeyStored
  <2>3. running # "down"
    BY <1>3 DEF Continue, Activate, Confirm, Forget, Put, TakeOut, Unheeded, UnheededFails, Write,
                WriteFails, Written, Now, Types, JobInv, Idle
  <2> QED BY <2>1, <2>2, <2>3 DEF Types, JobInv
<1>4. CASE Start \/ Started \/ Crash
  BY <1>4, KeyStarted, KeyCrash
<1>5. CASE Keystore \/ UNCHANGED vars
  <2>1. UNCHANGED <<keystore, marker, file, running, identity, known, unmarked, job>>
    BY <1>5 DEF Keystore, vars, disk, history
  <2> QED BY <2>1 DEF Keyed, KeyJob, Held, Idle
<1> QED BY <1>2, <1>3, <1>4, <1>5 DEF Next

\* A device that has run keeps its identity (secrets.rs, load_or_create_secret_key): whatever
\* the keystore, the crashes and the failing writes do, no start generates another, as long as
\* each marker of the device key could be written.
THEOREM IdentityIsAlwaysKept == Spec => IdentityIsKept
<1>1. Init => Types /\ Born /\ Keyed
  <2>1. Init => Keyed
    BY DEF Init, Keyed
  <2> QED BY <2>1, InitTypes, InitBorn
<1>2. Types /\ Born /\ Keyed /\ [Next]_vars => (Types /\ Born /\ Keyed)'
  BY TypeStep, KeyStep
<1>3. Types /\ Keyed /\ [Next]_vars =>
          [(running' = "up" /\ known # None /\ ~unmarked) => identity' = known]_vars
  <2> SUFFICES ASSUME Types, Keyed, Next, running' = "up", known # None, ~unmarked
               PROVE  identity' = known
    OBVIOUS
  <2>1. running # "down" => identity = known
    BY DEF Keyed
  <2>2. running # "down"
    BY DEF Next, Request, CreateNetwork, JoinNetwork, LeaveNetwork, RotateNetwork, ImportOriginatorKey,
           Reconnect, Begin, Continue, Activate, Confirm, Forget, Put, TakeOut, Unheeded, UnheededFails, Write,
           WriteFails, Abort, Start, Started, Crash, Keystore
  <2>3. identity' = identity
    BY <2>2 DEF Next, Request, CreateNetwork, JoinNetwork, LeaveNetwork, RotateNetwork, ImportOriginatorKey,
           Reconnect, Begin, Continue, Activate, Confirm, Forget, Put, TakeOut, Unheeded, UnheededFails, Write,
           WriteFails, Start, Started, Crash, Keystore
  <2> QED BY <2>1, <2>2, <2>3
<1> QED BY <1>1, <1>2, <1>3, PTL DEF Spec, IdentityIsKept

-----------------------------------------------------------------------------
(***************************************************************************)
(* Leaving a network.                                                      *)
(***************************************************************************)
Plain == Todo(job, None)
OfNetwork == Todo(job, "network")

\* The network secret is gone, or about to go.
SecretGoes ==
    /\ "network" \in marker => "unmark" \in OfNetwork
    /\ file["network"] # None => "remove file" \in OfNetwork

TearsInOrder ==
    /\ "remove config" \in Plain => "unmark" \in OfNetwork /\ "remove file" \in OfNetwork
    /\ "forget" \in Plain => "remove config" \in Plain
\* A secret is stored after its config file.
StoresInOrder ==
    left \/ "forget" \in Plain =>
        "write config" \in Plain \/ OfNetwork \intersect {"put", "mark", "write file"} = {}
NothingLeft ==
    left /\ mishaps <= 1 =>
        /\ memory = None
        /\ "remove config" \in Plain \/ config = None \/ (mishaps = 1 /\ config # Torn /\ SecretGoes)

Leaving ==
    /\ mishaps = 0 => config # Torn
    /\ TearsInOrder /\ StoresInOrder /\ NothingLeft

\* What the next write says of those behind it.
LEMMA HeadFacts ==
    ASSUME JobInv, job # <<>>
    PROVE  /\ Head(job).do # "forget" => "forget" \notin Plain
           /\ Head(job).do \notin {"forget", "remove config"} => "remove config" \notin Plain
           /\ Head(job).do \in {"put", "mark", "write file"} => "write config" \notin Plain
           /\ Head(job).do = "confirm" => \A n : Todo(Tail(job), n) = {}
           /\ \A n : Todo(Tail(job), n) \subseteq Todo(job, n)
           /\ \A n, d : d # Head(job).do => (d \in Todo(Tail(job), n) <=> d \in Todo(job, n))
           /\ "forget" \notin Todo(Tail(job), None)
           /\ Head(job).do # "forget" => "remove config" \notin Todo(Tail(job), None)
<1>1. /\ \A n : Todo(Tail(job), n) = IF n = Target THEN Todo(job, n) \ {Head(job).do} ELSE Todo(job, n)
      /\ \A n : \A d \in Todo(Tail(job), n) : Before(Head(job).do, Target, d, n)
  BY Next1
<1>2. \A n, d : d # Head(job).do => (d \in Todo(Tail(job), n) <=> d \in Todo(job, n))
  BY <1>1
<1>3. /\ \A n : "forget" \notin Todo(Tail(job), n)
      /\ Head(job).do = "confirm" => \A n : Todo(Tail(job), n) = {}
      /\ Head(job).do # "forget" => \A n : "remove config" \notin Todo(Tail(job), n)
      /\ Head(job).do \in {"put", "mark", "write file"} => \A n : "write config" \notin Todo(Tail(job), n)
  BY <1>1 DEF Before
<1>4. \A n : Todo(Tail(job), n) \subseteq Todo(job, n)
  BY <1>1
<1> QED BY <1>2, <1>3, <1>4 DEF Plain

LEMMA IdleTodo ==
    ASSUME job = <<>>
    PROVE  Plain = {} /\ OfNetwork = {} /\ \A n : Todo(job, n) = {}
BY EmptyList DEF Plain, OfNetwork

LEMMA LeftIdle ==
    ASSUME Leaving, job = <<>>, left, mishaps <= 1
    PROVE  /\ memory = None /\ Loaded = None
           /\ config = None \/ (mishaps = 1 /\ config # Torn /\ "network" \notin marker /\ file["network"] = None)
<1>1. /\ memory = None
      /\ config = None \/ (mishaps = 1 /\ config # Torn /\ "network" \notin marker /\ file["network"] = None)
  BY IdleTodo DEF Leaving, NothingLeft, SecretGoes
<1>2. Loaded = None
  BY <1>1, ValueAssumption DEF Loaded, Load
<1> QED BY <1>1, <1>2

\* A list that ends, or gives way to a teardown.
LEMMA LeavingEnds ==
    ASSUME job' \in {<<>>, Teardown}, mishaps' = 0 => config' # Torn, NothingLeft'
    PROVE  Leaving'
<1>1. /\ \A n : Todo(<<>>, n) = {}
      /\ Todo(Teardown, None) = {"forget", "remove config"} /\ Todo(Teardown, "network") = Deletion
  BY EmptyList, TeardownList, NamesDiffer
<1>2. TearsInOrder'
  BY <1>1 DEF TearsInOrder, Plain, OfNetwork, Deletion
<1>3. StoresInOrder'
  BY <1>1 DEF StoresInOrder, Plain, OfNetwork, Deletion
<1> QED BY <1>2, <1>3 DEF Leaving

\* The next write is made, and is none of those that count here.
LEMMA LeavingAdvances ==
    ASSUME JobInv, Leaving, job # <<>>, Advance, Head(job).do # "forget",
           Head(job).do = "write config" => ~left', left' => left
    PROVE  TearsInOrder' /\ StoresInOrder'
<1>1. job' = Tail(job)
  BY DEF Advance
<1>2. /\ "forget" \notin Plain' /\ "remove config" \notin Plain'
      /\ OfNetwork' \subseteq OfNetwork
      /\ Head(job).do # "write config" => ("write config" \in Plain' <=> "write config" \in Plain)
  <2>1. /\ "forget" \notin Todo(Tail(job), None) /\ "remove config" \notin Todo(Tail(job), None)
        /\ Todo(Tail(job), "network") \subseteq Todo(job, "network")
        /\ Head(job).do # "write config" =>
              ("write config" \in Todo(Tail(job), None) <=> "write config" \in Todo(job, None))
    BY HeadFacts
  <2> QED BY <1>1, <2>1 DEF Plain, OfNetwork
<1>3. TearsInOrder'
  BY <1>2 DEF TearsInOrder
<1>4. StoresInOrder'
  BY <1>2 DEF Leaving, StoresInOrder
<1> QED BY <1>3, <1>4

LEMMA LeavingRequest == Types /\ Leaving /\ Request => Leaving'
<1> SUFFICES ASSUME Types, Leaving, Request PROVE Leaving'
  OBVIOUS
<1>1. running = "up" /\ job = <<>> /\ Quiet
  BY RequestStep
<1>2. UNCHANGED <<config, marker, file, memory, left, mishaps>>
  BY <1>1 DEF Quiet, disk, history
<1>3. NothingLeft'
  <2> SUFFICES ASSUME left', mishaps' <= 1
               PROVE  memory' = None /\ (config' = None \/ (mishaps' = 1 /\ config' # Torn /\ SecretGoes'))
    BY DEF NothingLeft
  <2> QED BY <1>1, <1>2, LeftIdle DEF SecretGoes
<1>4. TearsInOrder' /\ StoresInOrder'
  <2>1. ASSUME NEW c, NEW p, NEW n, NEW m, Listed(job', c, p, n, m),
               "remove config" \in p => "unmark" \in n /\ "remove file" \in n,
               "forget" \in p => "remove config" \in p,
               "write config" \in p \/ n \intersect {"put", "mark", "write file"} = {}
        PROVE  TearsInOrder' /\ StoresInOrder'
    <3>1. Plain' = p /\ OfNetwork' = n
      BY <2>1, NamesDiffer DEF Listed, Plain, OfNetwork
    <3> QED BY <2>1, <3>1 DEF TearsInOrder, StoresInOrder
  <2>2. CASE CreateNetwork
    <3>1. PICK c : Listed(job', c, {"write config", "remember"}, {"put"}, {"put"})
      BY <2>2, CreateFacts
    <3> QED BY <2>1, <3>1
  <2>3. CASE JoinNetwork
    <3>1. PICK c : Listed(job', c, {"write config", "remember", "confirm"}, {"put"}, Deletion)
      BY <2>3, JoinFacts
    <3> QED BY <2>1, <3>1
  <2>4. CASE LeaveNetwork
    <3>1. PICK c : Listed(job', c, {"forget", "remove config"}, Deletion, Deletion)
      BY <2>4, LeaveFacts
    <3>2. "unmark" \in Deletion /\ "remove file" \in Deletion
          /\ Deletion \intersect {"put", "mark", "write file"} = {}
      BY DEF Deletion
    <3> QED BY <2>1, <3>1, <3>2
  <2>5. CASE RotateNetwork
    <3>1. PICK c : Listed(job', c, {"forget", "remove config", "write config", "remember"},
                          Deletion \union {"put"}, Deletion \union {"put"})
      BY <2>5, RotateFacts
    <3>2. "unmark" \in Deletion \union {"put"} /\ "remove file" \in Deletion \union {"put"}
      BY DEF Deletion
    <3> QED BY <2>1, <3>1, <3>2
  <2>6. CASE ImportOriginatorKey
    <3>1. PICK c : Listed(job', c, {"write config", "replace"}, {"put"}, {"put"})
      BY <2>6, ImportFacts
    <3> QED BY <2>1, <3>1
  <2>7. CASE Reconnect
    <3>1. PICK c : Listed(job', c, {"remember"}, {}, {})
      BY <2>7, ReconnectFacts
    <3> QED BY <2>1, <3>1
  <2> QED BY <2>2, <2>3, <2>4, <2>5, <2>6, <2>7 DEF Request
<1> QED BY <1>2, <1>3, <1>4 DEF Leaving

LEMMA Mishap ==
    ASSUME Types, Stuck
    PROVE  mishaps' # 0 /\ (mishaps' <= 1 => mishaps = 0 /\ mishaps <= 1 /\ mishaps # 1 /\ mishaps' = 1)
BY StuckCounts DEF Types

LEMMA LeavingContinue == Types /\ Leaving /\ Continue => Leaving'
<1> SUFFICES ASSUME Types, Leaving, Continue PROVE Leaving'
  OBVIOUS
<1> DEFINE does == Head(job).do
<1>1. JobInv /\ job # <<>> /\ DiskTypeOK
  BY Doer DEF Types
<1>2. Head(job) \in Item /\ Target = Head(job).name
  BY <1>1, Next1
<1>3. /\ does # "forget" => "forget" \notin Plain
      /\ does \notin {"forget", "remove config"} => "remove config" \notin Plain
      /\ does \in {"put", "mark", "write file"} => "write config" \notin Plain
      /\ does = "confirm" => \A n : Todo(Tail(job), n) = {}
      /\ \A n, d : d # does => (d \in Todo(Tail(job), n) <=> d \in Todo(job, n))
  BY <1>1, HeadFacts
<1>4. does \in {"put", "mark", "write file"} /\ Target = "network" => ~left
  <2>1. does \in Todo(job, Target)
    BY <1>1, Next1
  <2> QED BY <1>3, <2>1 DEF Leaving, StoresInOrder, OfNetwork
<1>5. \A what : Now(what) <=> does = what
  BY <1>1, Next1
<1>6. \A d : /\ Advance /\ d # does => (d \in Plain' <=> d \in Plain) /\ (d \in OfNetwork' <=> d \in OfNetwork)
             /\ Advance /\ Target # "network" => OfNetwork' = OfNetwork
  <2>1. Advance => Plain' = Todo(Tail(job), None) /\ OfNetwork' = Todo(Tail(job), "network")
    BY DEF Advance, Plain, OfNetwork
  <2>2. Target # "network" => Todo(Tail(job), "network") = Todo(job, "network")
    BY <1>1, Next1
  <2> QED BY <1>3, <2>1, <2>2 DEF Plain, OfNetwork
<1> HIDE DEF does
<1>7. ASSUME Stuck, Abort, memory' = memory, left' => left /\ does # "write config",
             does \notin {"forget", "remove config"}, does # "write config" => config' = config
      PROVE  Leaving'
  <2>1. job' \in {<<>>, Teardown}
    BY <1>7 DEF Abort
  <2>2. mishaps' # 0 /\ (mishaps' <= 1 => mishaps = 0 /\ mishaps <= 1 /\ mishaps # 1 /\ mishaps' = 1)
    BY <1>7, Mishap
  <2>3. NothingLeft'
    <3> SUFFICES ASSUME left', mishaps' <= 1 PROVE memory' = None /\ config' = None
      BY DEF NothingLeft
    <3>1. memory = None /\ config = None
      BY <1>3, <1>7, <2>2 DEF Leaving, NothingLeft
    <3> QED BY <1>7, <3>1
  <2> QED BY <2>1, <2>2, <2>3, LeavingEnds
<1>8. CASE Activate
  <2>1. does \in {"remember", "replace"} /\ config' = config
    BY <1>5, <1>8 DEF Activate, disk
  <2>2. CASE Advance /\ left' = FALSE /\ mishaps' = mishaps
    <3>1. TearsInOrder' /\ StoresInOrder'
      BY <1>1, <2>1, <2>2, LeavingAdvances DEF does
    <3> QED BY <2>1, <2>2, <3>1 DEF Leaving, NothingLeft
  <2>3. CASE Stuck /\ Abort /\ UNCHANGED <<memory, left>>
    BY <1>7, <2>1, <2>3
  <2> QED BY <1>8, <2>2, <2>3 DEF Activate
<1>9. CASE Confirm
  <2>1. does = "confirm" /\ UNCHANGED <<config, marker, file, memory, left, mishaps>> /\ job' \in {<<>>, Teardown}
    BY <1>5, <1>9 DEF Confirm, disk, history
  <2>2. "remove config" \notin Plain /\ "unmark" \notin OfNetwork /\ "remove file" \notin OfNetwork
    BY <1>3, <2>1 DEF OfNetwork
  <2>3. NothingLeft'
    BY <2>1, <2>2 DEF Leaving, NothingLeft, SecretGoes
  <2> QED BY <2>1, <2>3, LeavingEnds DEF Leaving
<1>10. CASE Forget
  <2>1. does = "forget" /\ Advance /\ memory' = None /\ left' /\ UNCHANGED <<config, mishaps>>
    BY <1>5, <1>10 DEF Forget, disk
  <2>2. "forget" \in Plain
    <3>1. does \in Todo(job, Target) /\ Target = None
      BY <1>1, <1>2, <2>1, Next1, ItemFacts DEF does
    <3> QED BY <2>1, <3>1 DEF Plain
  <2>3. /\ "remove config" \in Plain' /\ "unmark" \in OfNetwork' /\ "remove file" \in OfNetwork'
        /\ "write config" \in Plain' <=> "write config" \in Plain
        /\ \A d \in {"put", "mark", "write file"} : d \in OfNetwork' <=> d \in OfNetwork
    BY <1>6, <2>1, <2>2 DEF Leaving, TearsInOrder
  <2>4. StoresInOrder'
    BY <2>2, <2>3 DEF Leaving, StoresInOrder
  <2>5. NothingLeft' /\ TearsInOrder'
    BY <2>1, <2>3 DEF NothingLeft, TearsInOrder
  <2> QED BY <2>1, <2>4, <2>5 DEF Leaving
<1>11. CASE Put
  <2>1. does = "put" /\ UNCHANGED <<config, marker, file, memory, left, mishaps>>
    BY <1>5, <1>11 DEF Put, history
  <2>2. /\ \A n : Todo(job', n) = IF n # Target THEN Todo(job, n)
                                  ELSE IF unlocked THEN {"mark", "remove file"} ELSE {"unmark", "write file"}
        /\ Target \in Name
    BY <1>1, <1>11, PutStep
  <2>3. Plain' = Plain /\ (Target # "network" => OfNetwork' = OfNetwork)
    BY <2>2, NamesDiffer DEF Plain, OfNetwork, Name
  <2>4. "remove config" \notin Plain' /\ "forget" \notin Plain'
    BY <1>3, <2>1, <2>3
  <2>5. TearsInOrder'
    BY <2>4 DEF TearsInOrder
  <2>6. StoresInOrder'
    BY <1>4, <2>1, <2>3, <2>4 DEF Leaving, StoresInOrder
  <2>7. NothingLeft'
    BY <1>4, <2>1, <2>3 DEF Leaving, NothingLeft, SecretGoes
  <2> QED BY <2>1, <2>5, <2>6, <2>7 DEF Leaving
<1>12. CASE TakeOut
  <2>1. does = "take out" /\ Advance /\ UNCHANGED <<config, marker, file, memory, left, mishaps>>
    BY <1>5, <1>12 DEF TakeOut, history
  <2>2. TearsInOrder' /\ StoresInOrder'
    BY <1>1, <2>1, LeavingAdvances DEF does
  <2>3. NothingLeft'
    BY <1>6, <2>1 DEF Leaving, NothingLeft, SecretGoes
  <2> QED BY <2>1, <2>2, <2>3 DEF Leaving
<1>13. CASE Unheeded
  <2>1. Advance /\ UNCHANGED <<memory, left, mishaps>> /\ config' \in {config, None}
    BY <1>13 DEF Unheeded, history
  <2>2. does \in {"mark", "unmark", "remove file", "remove config"}
    BY <1>5, <1>13 DEF Unheeded
  <2>3. TearsInOrder' /\ StoresInOrder'
    BY <1>1, <2>1, <2>2, LeavingAdvances DEF does
  <2>4. NothingLeft'
    <3> SUFFICES ASSUME left', mishaps' <= 1
                 PROVE  /\ memory' = None
                        /\ config' = None \/ (mishaps' = 1 /\ config' # Torn /\ SecretGoes')
      BY DEF NothingLeft
    <3>1. /\ left /\ mishaps <= 1 /\ memory = None
          /\ "remove config" \in Plain \/ config = None \/ (mishaps = 1 /\ config # Torn /\ SecretGoes)
      BY <2>1 DEF Leaving, NothingLeft
    <3>2. CASE config = None
      BY <2>1, <3>1, <3>2
    <3>3. CASE does = "remove config"
      <4>1. config' = None
        BY <1>5, <1>13, <3>3 DEF Unheeded
      <4> QED BY <2>1, <3>1, <4>1
    <3>4. CASE does # "remove config" /\ mishaps = 1 /\ config # Torn /\ SecretGoes
      <4>1. config' = config
        BY <1>5, <1>13, <3>4 DEF Unheeded
      <4>2. SecretGoes'
        <5>1. "network" \in marker' => "unmark" \in OfNetwork'
          <6>1. CASE does = "unmark" /\ Target = "network"
            <7>1. marker' = marker \ {Target}
              BY <1>5, <1>13, <6>1 DEF Unheeded
            <7> QED BY <6>1, <7>1
          <6>2. CASE does = "unmark" /\ Target # "network"
            <7>1. marker' = marker \ {Target} /\ OfNetwork' = OfNetwork
              BY <1>5, <1>6, <1>13, <2>1, <6>2 DEF Unheeded
            <7> QED BY <3>4, <7>1 DEF SecretGoes
          <6>3. CASE does # "unmark"
            <7>1. "network" \in marker' => "network" \in marker
              BY <1>4, <1>5, <1>13, <3>1, <6>3 DEF Unheeded
            <7>2. "unmark" \in OfNetwork' <=> "unmark" \in OfNetwork
              BY <1>6, <2>1, <6>3
            <7> QED BY <3>4, <7>1, <7>2 DEF SecretGoes
          <6> QED BY <6>1, <6>2, <6>3
        <5>2. file'["network"] # None => "remove file" \in OfNetwork'
          <6>1. CASE does = "remove file" /\ Target = "network"
            <7>1. file' = [file EXCEPT ![Target] = None]
              BY <1>5, <1>13, <6>1 DEF Unheeded
            <7> QED BY <1>1, <6>1, <7>1 DEF DiskTypeOK, Name
          <6>2. CASE does = "remove file" /\ Target # "network"
            <7>1. file' = [file EXCEPT ![Target] = None] /\ OfNetwork' = OfNetwork
              BY <1>5, <1>6, <1>13, <2>1, <6>2 DEF Unheeded
            <7> QED BY <1>1, <3>4, <6>2, <7>1 DEF SecretGoes, DiskTypeOK, Name
          <6>3. CASE does # "remove file"
            <7>1. file' = file
              BY <1>5, <1>13, <6>3 DEF Unheeded
            <7>2. "remove file" \in OfNetwork' <=> "remove file" \in OfNetwork
              BY <1>6, <2>1, <6>3
            <7> QED BY <3>4, <7>1, <7>2 DEF SecretGoes
          <6> QED BY <6>1, <6>2, <6>3
        <5> QED BY <5>1, <5>2 DEF SecretGoes
      <4> QED BY <2>1, <3>1, <3>4, <4>1, <4>2
    <3>5. does # "remove config" => "remove config" \notin Plain
      BY <1>3, <2>2
    <3> QED BY <3>1, <3>2, <3>3, <3>4, <3>5
  <2>5. mishaps' = 0 => config' # Torn
    BY <2>1, ValueAssumption DEF Leaving
  <2> QED BY <2>3, <2>4, <2>5 DEF Leaving
<1>14. CASE UnheededFails
  <2>1. Advance /\ Stuck /\ UNCHANGED <<config, marker, file, memory, left>>
    BY <1>14 DEF UnheededFails, disk
  <2>2. does \in {"mark", "unmark", "remove file", "remove config"}
    BY <1>5, <1>14 DEF UnheededFails
  <2>3. TearsInOrder' /\ StoresInOrder'
    BY <1>1, <2>1, <2>2, LeavingAdvances DEF does
  <2>4. mishaps' # 0 /\ (mishaps' <= 1 => mishaps = 0 /\ mishaps <= 1 /\ mishaps # 1 /\ mishaps' = 1)
    BY <2>1, Mishap
  <2>5. NothingLeft'
    <3> SUFFICES ASSUME left', mishaps' <= 1
                 PROVE  /\ memory' = None
                        /\ config' = None \/ (mishaps' = 1 /\ config' # Torn /\ SecretGoes')
      BY DEF NothingLeft
    <3>1. /\ left /\ memory = None /\ config # Torn /\ ("remove config" \in Plain \/ config = None)
      BY <2>1, <2>4 DEF Leaving, NothingLeft
    <3>2. CASE config = None
      BY <2>1, <3>1, <3>2
    <3>3. CASE "remove config" \in Plain
      <4>1. does = "remove config"
        BY <1>3, <2>2, <3>3
      <4>2. "unmark" \in OfNetwork' /\ "remove file" \in OfNetwork'
        BY <1>6, <2>1, <3>3, <4>1 DEF Leaving, TearsInOrder
      <4> QED BY <2>1, <2>4, <3>1, <4>2 DEF SecretGoes
    <3> QED BY <3>1, <3>2, <3>3
  <2> QED BY <2>3, <2>4, <2>5 DEF Leaving
<1>15. CASE Write
  <2>1. /\ Advance /\ UNCHANGED <<marker, memory, mishaps>> /\ does \in {"write config", "write file"}
        /\ left' = (left /\ does # "write config")
    BY <1>5, <1>15 DEF Write, Written
  <2>2. TearsInOrder' /\ StoresInOrder'
    BY <1>1, <2>1, LeavingAdvances DEF does
  <2>3. CASE does = "write config"
    <3>1. config' = Value /\ Value \in Net
      BY <1>1, <1>2, <1>5, <1>15, <2>3, Next1, ItemFacts DEF Write, Written, does
    <3>2. config' # Torn
      BY <3>1, Bounds
    <3> QED BY <2>1, <2>2, <2>3, <3>2 DEF Leaving, NothingLeft
  <2>4. CASE does = "write file"
    <3>1. config' = config /\ file' = [file EXCEPT ![Target] = Value]
      BY <1>5, <1>15, <2>4 DEF Write, Written
    <3>2. Target # "network" => file'["network"] = file["network"] /\ OfNetwork' = OfNetwork
      BY <1>1, <1>6, <2>1, <3>1 DEF DiskTypeOK, Name
    <3>3. NothingLeft'
      BY <1>3, <1>4, <2>1, <2>4, <3>1, <3>2 DEF Leaving, NothingLeft, SecretGoes
    <3> QED BY <2>1, <2>2, <3>1, <3>3 DEF Leaving
  <2> QED BY <2>1, <2>3, <2>4
<1>16. CASE WriteFails
  <2>1. /\ Stuck /\ Abort /\ memory' = memory /\ does \in {"write config", "write file"}
        /\ left' = (left /\ does # "write config")
    BY <1>5, <1>16 DEF WriteFails, Written
  <2>2. does # "write config" => config' = config
    BY <1>5, <1>16 DEF WriteFails, Written
  <2> QED BY <1>7, <2>1, <2>2
<1> QED BY <1>8, <1>9, <1>10, <1>11, <1>12, <1>13, <1>14, <1>15, <1>16 DEF Continue

LEMMA LeavingProcess == Types /\ Leaving /\ (Start \/ Started \/ Crash) => Leaving'
<1> SUFFICES ASSUME Types, Leaving, Start \/ Started \/ Crash PROVE Leaving'
  OBVIOUS
<1>1. ASSUME job = <<>>, \A n \in {None, "network"} : Todo(job', n) = {},
             UNCHANGED <<config, marker, file, left, mishaps>>, memory' \in {memory, None, Loaded}
      PROVE  Leaving'
  <2>1. Plain' = {} /\ OfNetwork' = {}
    BY <1>1 DEF Plain, OfNetwork
  <2>2. NothingLeft'
    BY <1>1, <2>1, LeftIdle DEF NothingLeft, SecretGoes
  <2>3. TearsInOrder' /\ StoresInOrder'
    BY <2>1 DEF TearsInOrder, StoresInOrder
  <2> QED BY <1>1, <2>2, <2>3 DEF Leaving
<1>2. CASE Start
  <2>1. job = <<>> /\ UNCHANGED <<config, marker, file, left, mishaps, memory>>
    BY <1>2 DEF Start, disk, history, Types, JobInv, Idle
  <2>2. \A n \in {None, "network"} : Todo(job', n) = {}
    <3>1. running' = "booting" /\ JobInv'
      BY <1>2, StartTypes DEF Start, Types
    <3> QED BY <3>1, NamesDiffer DEF JobInv
  <2> QED BY <1>1, <2>1, <2>2
<1>3. CASE Started
  <2>1. job = <<>> /\ job' = <<>> /\ UNCHANGED <<config, marker, file, left, mishaps>>
    BY <1>3 DEF Started, disk, Idle
  <2>2. memory' \in {memory, None, Loaded}
    BY <1>3 DEF Started
  <2> QED BY <1>1, <2>1, <2>2, EmptyList
<1>4. CASE Crash /\ Idle
  <2>1. /\ job = <<>> /\ job' = <<>> /\ UNCHANGED <<config, marker, file, left, mishaps>>
        /\ memory' \in {memory, None, Loaded}
    BY <1>4 DEF Crash, disk, Idle
  <2> QED BY <1>1, <2>1, EmptyList
<1>5. CASE Crash /\ ~Idle
  <2>1. Stuck /\ left' = FALSE /\ job' \in {<<>>, Teardown}
    BY <1>5 DEF Crash
  <2>2. mishaps' # 0
    BY <2>1, Mishap
  <2>3. NothingLeft'
    BY <2>1 DEF NothingLeft
  <2> QED BY <2>1, <2>2, <2>3, LeavingEnds
<1> QED BY <1>2, <1>3, <1>4, <1>5

LEMMA LeavingStep == Types /\ Leaving /\ [Next]_vars => Leaving'
<1> SUFFICES ASSUME Types, Leaving, [Next]_vars PROVE Leaving'
  OBVIOUS
<1>1. CASE Keystore \/ UNCHANGED vars
  <2>1. UNCHANGED <<config, marker, file, left, mishaps, memory, job>>
    BY <1>1 DEF Keystore, vars, disk, history
  <2> QED BY <2>1 DEF Leaving, TearsInOrder, StoresInOrder, NothingLeft, SecretGoes, Plain, OfNetwork
<1> QED BY <1>1, LeavingRequest, LeavingContinue, LeavingProcess DEF Next

\* Config file and network secret each suffice to forget a network (engine.rs teardown): after
\* leaving, with at most one thing gone wrong so far, no start and no going online brings the
\* network back.
THEOREM LeavingLasts == Spec => []LeavingNeedsNoLuck
<1>1. Init => Types /\ Born /\ Leaving
  <2>1. Init => Leaving
    <3> SUFFICES ASSUME Init PROVE Leaving
      OBVIOUS
    <3>1. job = <<>> /\ config = None /\ memory = None
      BY DEF Init
    <3> QED BY <3>1, IdleTodo, Bounds DEF Leaving, TearsInOrder, StoresInOrder, NothingLeft
  <2> QED BY <2>1, InitTypes, InitBorn
<1>2. Types /\ Born /\ Leaving /\ [Next]_vars => (Types /\ Born /\ Leaving)'
  BY TypeStep, LeavingStep
<1>3. Leaving => LeavingNeedsNoLuck
  BY LeftIdle DEF LeavingNeedsNoLuck, Idle
<1> QED BY <1>1, <1>2, <1>3, PTL DEF Spec

-----------------------------------------------------------------------------
(***************************************************************************)
(* One network at a time.                                                  *)
(***************************************************************************)
Secrets == {"network", "originator"}

\* With the networks that there are, v may be stored under n by a device in a network of o.
Fit(networks, n, o, v) ==
    v # None => IF n = "network" THEN v \in 1 .. Len(networks) /\ networks[v] = o ELSE v = o

\* A configuration of a network of o.
Of(c, o) ==
    c # None => c.owner = o /\ Fit(owner, "network", o, c.secret) /\ Fit(owner, "originator", o, c.master)

\* Nothing under n is of another network, read or not.
Clean(n, o) ==
    /\ file[n] # Torn /\ Fit(owner, n, o, file[n])
    /\ n \in marker \/ "mark" \in Todo(job, n) => Fit(owner, n, o, keystore[n])

\* What a reader finds under n is of no other network, or will be once the writes are made.
Settles(n, o) ==
    /\ "mark" \in Todo(job, n) => Fit(owner, n, o, keystore[n])
    /\ \/ "put" \in Todo(job, n) \/ "unmark" \in Todo(job, n) \/ "mark" \in Todo(job, n)
       \/ n \in marker /\ Fit(owner, n, o, keystore[n])
       \/ n \notin marker /\ (file[n] = Torn \/ Fit(owner, n, o, file[n]))
       \/ n \notin marker /\ ("write file" \in Todo(job, n) \/ "remove file" \in Todo(job, n))
ConfigSettles(o) == config \in {None, Torn, o} \/ "write config" \in Plain \/ "remove config" \in Plain

\* Will there be anything, once the writes are made?
SlotStays(n) ==
    IF "put" \in Todo(job, n) \/ "write file" \in Todo(job, n) \/ "mark" \in Todo(job, n) THEN TRUE
    ELSE IF "unmark" \in Todo(job, n) THEN FALSE
    ELSE IF "remove file" \in Todo(job, n) THEN n \in marker
    ELSE n \in marker \/ file[n] # None
ConfigStays ==
    IF "write config" \in Plain THEN TRUE ELSE IF "remove config" \in Plain THEN FALSE ELSE config # None
MemoryStays ==
    IF "remember" \in Plain \/ "replace" \in Plain THEN TRUE
    ELSE IF "forget" \in Plain THEN FALSE ELSE memory # None

\* Until something goes wrong a network is stored as a whole or not at all.
Whole ==
    mishaps = 0 =>
        /\ SlotStays("network") <=> ConfigStays
        /\ SlotStays("originator") => ConfigStays
        /\ running = "up" => (MemoryStays <=> ConfigStays)

Fine(c, o) ==
    /\ Of(c, o) /\ Says(job, c) /\ Of(memory, o)
    /\ ConfigSettles(o) /\ \A n \in Secrets : Settles(n, o)
    /\ mishaps = 0 => config \in {None, o} /\ \A n \in Secrets : Clean(n, o)

One == mishaps <= 1 => \E c, o : Fine(c, o)

LEMMA CleanSettles ==
    ASSUME NEW n, NEW o, Clean(n, o)
    PROVE  Settles(n, o)
BY DEF Clean, Settles

\* What is written under a name is of the network of the list.
LEMMA ValueFits ==
    ASSUME JobInv, job # <<>>, NEW c, NEW o, Of(c, o), Says(job, c)
    PROVE  /\ Target \in Secrets /\ Head(job).do \in {"put", "write file"} =>
                 Fit(owner, Target, o, Value) /\ Value \in Net /\ Value # None /\ Value # Torn
           /\ Head(job).do = "write config" => Value = o /\ Value \in Net /\ Value # None /\ Value # Torn
           /\ Head(job).do \in {"remember", "replace"} => Value = c /\ Value \in Config /\ Value # None
<1>1. Head(job) \in Item /\ Target = Head(job).name /\ Value = Head(job).val /\ Tells(Head(job), c)
  BY Next1
<1>2. /\ Head(job).do = "write config" => Value \in Net
      /\ Head(job).do \in {"put", "write file"} => Value \in Kind(Target)
      /\ Head(job).do \in {"remember", "replace"} => Value \in Config
  BY <1>1, ItemFacts
<1>3. Net \subseteq Nat /\ None \notin Nat /\ Torn \notin Nat
  BY Bounds
<1>4. Target \in Secrets => Kind(Target) = Net
  BY DEF Secrets, Kind
<1>5. ASSUME Target \in Secrets, Head(job).do \in {"put", "write file"}
      PROVE  Fit(owner, Target, o, Value)
  <2>1. CASE Target = "network"
    BY <1>1, <1>5, <2>1 DEF Tells, Of
  <2>2. CASE Target = "originator"
    BY <1>1, <1>5, <2>2 DEF Tells, Of
  <2> QED BY <1>5, <2>1, <2>2 DEF Secrets
<1>6. Head(job).do = "write config" => Value = o
  BY <1>1 DEF Tells, Of
<1>7. Head(job).do \in {"remember", "replace"} => Value = c
  BY <1>1 DEF Tells
<1>8. \A v \in Net : v # None /\ v # Torn
  BY <1>3
<1>9. Target \in Secrets /\ Head(job).do \in {"put", "write file"} =>
          Fit(owner, Target, o, Value) /\ Value \in Net
  BY <1>2, <1>4, <1>5
<1>10. Head(job).do \in {"remember", "replace"} => Value = c /\ Value \in Config /\ Value # None
  BY <1>2, <1>7, ConfigFacts
<1> QED BY <1>2, <1>6, <1>8, <1>9, <1>10

LEMMA SlotSame ==
    ASSUME NEW n, NEW o, owner' = owner, keystore'[n] = keystore[n], file'[n] = file[n],
           n \in marker' <=> n \in marker, Todo(job', n) = Todo(job, n)
    PROVE  /\ Clean(n, o) => Clean(n, o)'
           /\ Settles(n, o) => Settles(n, o)'
           /\ SlotStays(n)' <=> SlotStays(n)
<1>1. Clean(n, o) => Clean(n, o)'
  BY DEF Clean
<1>2. Settles(n, o) => Settles(n, o)'
  BY DEF Settles
<1>3. SlotStays(n)' <=> SlotStays(n)
  BY DEF SlotStays
<1> QED BY <1>1, <1>2, <1>3

\* The writes to a name, one by one.
LEMMA SlotMoves ==
    ASSUME Types, Continue, ~Stuck, ~Confirm, NEW n \in Secrets, NEW c, NEW o, Of(c, o), Says(job, c)
    PROVE  /\ Clean(n, o) => Clean(n, o)'
           /\ Settles(n, o) => Settles(n, o)'
           /\ SlotStays(n)' <=> SlotStays(n)
<1> DEFINE does == Head(job).do
<1>1. /\ JobInv /\ job # <<>> /\ DiskTypeOK /\ owner' = owner /\ n \in Name
      /\ \A what : Now(what) <=> does = what
  <2>1. JobInv /\ job # <<>> /\ DiskTypeOK /\ n \in Name
    BY Doer DEF Types, Secrets, Name
  <2>2. owner' = owner
    BY DEF Continue, Activate, Forget, Put, TakeOut, Unheeded, UnheededFails, Write, WriteFails
  <2> QED BY <2>1, <2>2, Next1
<1>2. /\ Head(job) \in Item
      /\ \A m : Todo(Tail(job), m) = IF m = Target THEN Todo(job, m) \ {does} ELSE Todo(job, m)
      /\ \A d \in Todo(Tail(job), Target) : Before(does, Target, d, Target)
      /\ does \in Todo(job, Target)
  BY <1>1, Next1
<1>3. \A d \in Todo(Tail(job), Target) : d \in After(does)
  BY <1>2 DEF Before
<1>4. Advance \/ Put
  BY DEF Continue, Activate, Forget, TakeOut, Unheeded, UnheededFails, Write, WriteFails
<1>5. keystore' = keystore \/ (does \in {"put", "take out"} /\ \E v : keystore' = [keystore EXCEPT ![Target] = v])
  BY <1>1 DEF Continue, Activate, Forget, Put, TakeOut, Unheeded, UnheededFails, Write, WriteFails, disk
<1>6. file' = file \/ (does \in {"remove file", "write file"} /\ \E v : file' = [file EXCEPT ![Target] = v])
  BY <1>1 DEF Continue, Activate, Forget, Put, TakeOut, Unheeded, UnheededFails, Write, WriteFails, Written, disk
<1>7. marker' \in {marker, marker \union {Target}, marker \ {Target}}
  BY DEF Continue, Activate, Forget, Put, TakeOut, Unheeded, UnheededFails, Write, WriteFails, disk
<1>8. CASE Target # n
  <2>1. Todo(job', n) = Todo(job, n)
    <3>1. CASE Advance
      BY <1>2, <1>8, <3>1 DEF Advance
    <3>2. CASE Put
      BY <1>1, <1>8, <3>2, PutStep
    <3> QED BY <1>4, <3>1, <3>2
  <2>2. keystore'[n] = keystore[n]
    BY <1>1, <1>5, <1>8 DEF DiskTypeOK
  <2>3. file'[n] = file[n]
    BY <1>1, <1>6, <1>8 DEF DiskTypeOK
  <2>4. n \in marker' <=> n \in marker
    BY <1>7, <1>8
  <2> QED BY <1>1, <2>1, <2>2, <2>3, <2>4, SlotSame
<1>9. CASE Target = n
  <2>1. does \in {"mark", "unmark", "remove file", "take out", "put", "write file"}
    <3>1. n # None
      BY NamesDiffer DEF Secrets
    <3> QED BY <1>2, <1>9, <3>1, <1>1, Next1, ItemFacts
  <2>2. keystore \in [Name -> Nat \union {None}] /\ file \in [Name -> Nat \union {None, Torn}]
    BY <1>1 DEF DiskTypeOK
  <2>3. ASSUME Advance
        PROVE  /\ \A d : d \in Todo(job', n) <=> d \in Todo(job, n) /\ d # does
               /\ \A d \in Todo(job', n) : d \in After(does)
    BY <1>2, <1>3, <1>9, <2>3 DEF Advance
  <2>4. does \in {"put", "write file"} => Fit(owner, n, o, Value) /\ Value # None /\ Value # Torn
    BY <1>1, <1>9, ValueFits
  <2>5. Fit(owner, n, o, None)
    BY DEF Fit
  <2>6. does \in Todo(job, n)
    BY <1>2, <1>9
  <2> HIDE DEF does
  <2>7. CASE does = "put"
    <3>1. Put
      BY <2>7, Doer DEF does
    <3>2. Todo(job', n) = IF unlocked THEN {"mark", "remove file"} ELSE {"unmark", "write file"}
      BY <1>1, <1>9, <3>1, PutStep
    <3>3. /\ keystore'[n] = IF unlocked THEN Value ELSE keystore[n]
          /\ file' = file /\ marker' = marker
      BY <1>1, <1>9, <2>2, <3>1 DEF Put
    <3>4. CASE unlocked
      <4>1. /\ "mark" \in Todo(job', n) /\ "put" \notin Todo(job', n) /\ "unmark" \notin Todo(job', n)
            /\ keystore'[n] = Value
        <5>1. Todo(job', n) = {"mark", "remove file"} /\ keystore'[n] = Value
          BY <3>2, <3>3, <3>4
        <5> QED BY <5>1
      <4> QED BY <1>1, <2>4, <2>6, <2>7, <3>3, <4>1 DEF Clean, Settles, SlotStays
    <3>5. CASE ~unlocked
      <4>1. /\ "mark" \notin Todo(job', n) /\ "unmark" \in Todo(job', n) /\ "write file" \in Todo(job', n)
            /\ keystore'[n] = keystore[n]
        <5>1. Todo(job', n) = {"unmark", "write file"} /\ keystore'[n] = keystore[n]
          BY <3>2, <3>3, <3>5
        <5> QED BY <5>1
      <4> QED BY <1>1, <2>6, <2>7, <3>3, <4>1 DEF Clean, Settles, SlotStays
    <3> QED BY <3>4, <3>5
  <2>8. CASE does = "take out"
    <3>1. TakeOut
      BY <2>8, Doer DEF does
    <3>2. /\ keystore'[n] \in {None, keystore[n]} /\ file' = file /\ marker' = marker /\ Advance
      BY <1>1, <1>9, <2>2, <3>1 DEF TakeOut
    <3>3. "mark" \notin Todo(job', n) /\ "mark" \notin Todo(job, n)
      BY <2>3, <2>8, <3>2, Afters
    <3>4. \A d \in {"put", "unmark", "write file", "remove file"} : d \in Todo(job', n) <=> d \in Todo(job, n)
      BY <2>3, <2>8, <3>2
    <3> QED BY <1>1, <2>5, <3>2, <3>3, <3>4 DEF Clean, Settles, SlotStays
  <2>9. CASE does = "mark"
    <3>1. Unheeded
      BY <2>9, Doer DEF does, UnheededFails
    <3>2. keystore' = keystore /\ file' = file /\ n \in marker' /\ Advance
      <4>1. ~Now("unmark") /\ ~Now("remove file") /\ ~Now("remove config")
        BY <2>9 DEF Now, does
      <4> QED BY <1>9, <3>1, <4>1 DEF Unheeded
    <3>3. \A d \in Todo(job', n) : d = "remove file"
      BY <2>3, <2>9, <3>2, Afters
    <3>4. "mark" \in Todo(job, n)
      BY <2>6, <2>9
    <3>5. /\ "mark" \notin Todo(job', n) /\ "put" \notin Todo(job', n) /\ "unmark" \notin Todo(job', n)
          /\ "write file" \notin Todo(job', n)
      BY <3>3
    <3> QED BY <1>1, <3>2, <3>4, <3>5 DEF Clean, Settles, SlotStays
  <2>10. CASE does = "unmark"
    <3>1. Unheeded
      BY <2>10, Doer DEF does, UnheededFails
    <3>2. keystore' = keystore /\ file' = file /\ n \notin marker' /\ Advance
      <4>1. ~Now("mark") /\ ~Now("remove file") /\ ~Now("remove config")
        BY <2>10 DEF Now, does
      <4> QED BY <1>9, <3>1, <4>1 DEF Unheeded
    <3>3. "mark" \notin Todo(job', n) /\ "mark" \notin Todo(job, n) /\ "unmark" \notin Todo(job', n)
      BY <2>3, <2>10, <3>2, Afters
    <3>4. "write file" \in Todo(job, n) \/ "remove file" \in Todo(job, n)
      BY <1>1, <2>6, <2>10 DEF JobInv
    <3>5. /\ "put" \in Todo(job', n) <=> "put" \in Todo(job, n)
          /\ "write file" \in Todo(job', n) <=> "write file" \in Todo(job, n)
          /\ "remove file" \in Todo(job', n) <=> "remove file" \in Todo(job, n)
          /\ "unmark" \in Todo(job, n)
      BY <2>3, <2>6, <2>10, <3>2
    <3>6. Clean(n, o) => Clean(n, o)'
      BY <1>1, <3>2, <3>3 DEF Clean
    <3>7. Settles(n, o)'
      BY <3>2, <3>3, <3>4, <3>5 DEF Settles
    <3>8. SlotStays(n)' <=> SlotStays(n)
      BY <3>2, <3>3, <3>4, <3>5 DEF SlotStays
    <3> QED BY <3>6, <3>7, <3>8
  <2>11. CASE does = "remove file"
    <3>1. Unheeded
      BY <2>11, Doer DEF does, UnheededFails
    <3>2. keystore' = keystore /\ file'[n] = None /\ marker' = marker /\ Advance
      <4>1. ~Now("mark") /\ ~Now("unmark") /\ ~Now("remove config")
        BY <2>11 DEF Now, does
      <4> QED BY <1>1, <1>9, <2>2, <3>1, <4>1 DEF Unheeded
    <3>3. \A d \in Todo(job', n) : d = "put"
      BY <2>3, <2>11, <3>2, Afters
    <3>4. /\ \A d \in {"mark", "unmark", "write file"} : d \notin Todo(job', n) /\ d \notin Todo(job, n)
          /\ "remove file" \notin Todo(job', n) /\ "remove file" \in Todo(job, n)
          /\ "put" \in Todo(job', n) <=> "put" \in Todo(job, n)
      BY <2>3, <2>6, <2>11, <3>2, <3>3
    <3>5. Clean(n, o) => Clean(n, o)'
      BY <1>1, <2>2, <2>5, <3>2, <3>4, ValueAssumption DEF Clean
    <3>6. Settles(n, o) => Settles(n, o)'
      BY <1>1, <2>5, <3>2, <3>4 DEF Settles
    <3>7. SlotStays(n)' <=> SlotStays(n)
      BY <3>2, <3>4 DEF SlotStays
    <3> QED BY <3>5, <3>6, <3>7
  <2>12. CASE does = "write file"
    <3>1. Write
      BY <2>12, Doer DEF does, WriteFails
    <3>2. keystore' = keystore /\ file'[n] = Value /\ marker' = marker /\ Advance
      <4>1. ~Now("write config")
        BY <2>12 DEF Now, does
      <4> QED BY <1>1, <1>9, <2>2, <3>1, <4>1 DEF Write, Written
    <3>3. \A d : d \notin Todo(job', n)
      BY <2>3, <2>12, <3>2, Afters
    <3>4. \A d \in Todo(job, n) : d = "write file"
      BY <2>3, <2>12, <3>2, <3>3
    <3>5. /\ \A d \in {"put", "mark", "unmark", "remove file"} : d \notin Todo(job, n)
          /\ "write file" \in Todo(job, n) /\ Fit(owner, n, o, Value) /\ Value # None /\ Value # Torn
      BY <2>4, <2>6, <2>12, <3>4
    <3>6. Clean(n, o) => Clean(n, o)'
      BY <1>1, <3>2, <3>3, <3>5 DEF Clean
    <3>7. Settles(n, o) => Settles(n, o)'
      BY <1>1, <3>2, <3>3, <3>5 DEF Settles
    <3>8. SlotStays(n)' <=> SlotStays(n)
      BY <3>2, <3>3, <3>5 DEF SlotStays
    <3> QED BY <3>6, <3>7, <3>8
  <2> QED BY <2>1, <2>7, <2>8, <2>9, <2>10, <2>11, <2>12
<1> QED BY <1>8, <1>9

\* The same of the config file and of the configuration in memory.
LEMMA PlainMoves ==
    ASSUME Types, Continue, ~Stuck, ~Confirm, NEW c, NEW o, Of(c, o), Says(job, c)
    PROVE  /\ config \in {None, o} => config' \in {None, o}
           /\ ConfigSettles(o) => ConfigSettles(o)'
           /\ ConfigStays' <=> ConfigStays
           /\ MemoryStays' <=> MemoryStays
           /\ Of(memory, o) => Of(memory, o)'
<1> DEFINE does == Head(job).do
<1>1. JobInv /\ job # <<>> /\ owner' = owner /\ Head(job) \in Item
  <2>1. JobInv /\ job # <<>>
    BY Doer DEF Types
  <2>2. owner' = owner
    BY DEF Continue, Activate, Forget, Put, TakeOut, Unheeded, UnheededFails, Write, WriteFails
  <2> QED BY <2>1, <2>2, Next1
<1>2. /\ does = "write config" => Value = o /\ Value # None /\ Value # Torn
      /\ does \in {"remember", "replace"} => Value = c /\ Value # None
  BY <1>1, ValueFits
<1>3. /\ \A d : d \in Todo(Tail(job), None) <=> d \in Plain /\ (Target = None => d # does)
      /\ \A d \in Todo(Tail(job), Target) : Before(does, Target, d, Target)
      /\ does \in Todo(job, Target)
  BY <1>1, Next1 DEF Plain
<1>4. Advance \/ Put
  BY DEF Continue, Activate, Forget, TakeOut, Unheeded, UnheededFails, Write, WriteFails
<1>5. Target = None <=> does \in {"write config", "remember", "replace", "forget", "remove config", "confirm"}
  BY <1>1, Next1, ItemFacts, Bounds
<1>6. /\ does # "forget" => "forget" \notin Plain
      /\ does \notin {"forget", "remove config"} => "remove config" \notin Plain
      /\ "forget" \notin Todo(Tail(job), None)
      /\ does # "forget" => "remove config" \notin Todo(Tail(job), None)
  BY <1>1, HeadFacts
<1>7. CASE Target # None
  <2>1. Plain' = Plain
    <3>1. CASE Advance
      BY <1>3, <1>7, <3>1 DEF Advance, Plain
    <3>2. CASE Put
      BY <1>1, <1>7, <3>2, PutStep DEF Plain
    <3> QED BY <1>4, <3>1, <3>2
  <2>2. config' = config /\ memory' = memory
    <3>1. /\ ~Now("write config") /\ ~Now("remove config") /\ ~Now("remember") /\ ~Now("replace")
          /\ ~Now("forget")
      BY <1>5, <1>7 DEF Now
    <3> QED BY <3>1 DEF Continue, Activate, Forget, Put, TakeOut, Unheeded, UnheededFails, Write, WriteFails,
                        Written, disk
  <2> QED BY <1>1, <2>1, <2>2 DEF ConfigSettles, ConfigStays, MemoryStays, Of
<1>8. CASE Target = None
  <2>1. ASSUME Advance
        PROVE  /\ \A d : d \in Plain' <=> d \in Plain /\ d # does
               /\ \A d \in Plain' : d \in After(does)
    BY <1>3, <1>8, <2>1 DEF Advance, Plain, Before
  <2>2. does \in Plain /\ does # "confirm"
    BY <1>3, <1>8, Doer DEF Plain
  <2>3. does # "put"
    BY <1>5, <1>8
  <2>4. Advance
    <3>1. ~Put
      BY <2>3 DEF Put, Now
    <3> QED BY <1>4, <3>1
  <2> HIDE DEF does
  <2>5. CASE does = "write config"
    <3>1. config' = Value /\ memory' = memory
      <4>1. Write /\ ~Now("write file")
        BY <2>5, Doer DEF does, WriteFails, Now
      <4> QED BY <4>1 DEF Write, Written
    <3>2. "forget" \notin Plain /\ "remove config" \notin Plain /\ "write config" \in Plain
      BY <1>6, <2>2, <2>5
    <3>3. /\ "forget" \notin Plain' /\ "remove config" \notin Plain' /\ "write config" \notin Plain'
          /\ "remember" \in Plain' <=> "remember" \in Plain
          /\ "replace" \in Plain' <=> "replace" \in Plain
      BY <2>1, <2>4, <2>5, <3>2
    <3> QED BY <1>1, <1>2, <2>5, <3>1, <3>2, <3>3 DEF ConfigSettles, ConfigStays, MemoryStays, Of
  <2>6. CASE does \in {"remember", "replace"}
    <3>1. config' = config /\ memory' = Value
      <4>1. Activate
        BY <2>6, Doer DEF does
      <4> QED BY <4>1 DEF Activate, disk
    <3>2. /\ "forget" \notin Plain /\ "remove config" \notin Plain
          /\ "forget" \notin Plain' /\ "remove config" \notin Plain'
          /\ "write config" \in Plain' <=> "write config" \in Plain
          /\ "remember" \in Plain \/ "replace" \in Plain
      BY <1>6, <2>1, <2>2, <2>4, <2>6
    <3>3. Of(memory, o)'
      BY <1>1, <1>2, <2>6, <3>1 DEF Of
    <3>4. ConfigStays' <=> ConfigStays
      BY <3>1, <3>2 DEF ConfigStays
    <3>5. MemoryStays' /\ MemoryStays
      BY <1>2, <2>6, <3>1, <3>2 DEF MemoryStays
    <3> QED BY <3>1, <3>2, <3>3, <3>4, <3>5 DEF ConfigSettles
  <2>7. CASE does = "forget"
    <3>1. config' = config /\ memory' = None
      <4>1. Forget
        BY <2>7, Doer DEF does
      <4> QED BY <4>1 DEF Forget, disk
    <3>2. /\ "forget" \in Plain /\ "forget" \notin Plain'
          /\ \A d \in {"write config", "remove config", "remember", "replace"} : d \in Plain' <=> d \in Plain
      BY <2>1, <2>2, <2>4, <2>7
    <3> QED BY <3>1, <3>2 DEF ConfigSettles, ConfigStays, MemoryStays, Of
  <2>8. CASE does = "remove config"
    <3>1. config' = None /\ memory' = memory
      <4>1. Unheeded
        BY <2>8, Doer DEF does, UnheededFails
      <4>2. ~Now("mark") /\ ~Now("unmark") /\ ~Now("remove file")
        BY <2>8 DEF Now, does
      <4> QED BY <4>1, <4>2 DEF Unheeded
    <3>2. /\ "remove config" \in Plain /\ "remove config" \notin Plain'
          /\ \A d \in {"write config", "forget", "remember", "replace"} : d \in Plain' <=> d \in Plain
      BY <2>1, <2>2, <2>4, <2>8
    <3> QED BY <1>1, <3>1, <3>2 DEF ConfigSettles, ConfigStays, MemoryStays, Of
  <2> QED BY <1>5, <1>8, <2>2, <2>5, <2>6, <2>7, <2>8 DEF does
<1> QED BY <1>7, <1>8

\* Of a list that ends, or gives way to a teardown, nothing is left to be marked.
LEMMA EndTodo ==
    ASSUME job' \in {<<>>, Teardown}
    PROVE  /\ \A c : Says(job', c)
           /\ job' = <<>> => Plain' = {} /\ \A n : Todo(job', n) = {}
           /\ job' = Teardown => /\ Plain' = {"forget", "remove config"}
                                 /\ \A n \in Secrets : Todo(job', n) = Deletion
BY EmptyList, TeardownList, NamesDiffer DEF Plain, Secrets

LEMMA ConfirmFine ==
    ASSUME Types, Confirm
    PROVE  /\ \A c, o : Fine(c, o) => Fine(c, o)'
           /\ Whole => Whole'
<1>1. /\ JobInv /\ job # <<>> /\ Head(job).do = "confirm" /\ job' \in {<<>>, Teardown}
      /\ UNCHANGED <<config, keystore, marker, file, running, memory, owner, mishaps>>
  BY DEF Types, Confirm, Now, disk, history
<1>2. /\ \A n \in Secrets : Todo(job, n) = {}
      /\ \A d : d \in Plain => d = "confirm"
  <2>1. /\ Head(job) \in Item /\ Target = Head(job).name
        /\ \A n : Todo(Tail(job), n) = IF n = Target THEN Todo(job, n) \ {"confirm"} ELSE Todo(job, n)
        /\ \A n : Todo(Tail(job), n) = {}
    BY <1>1, Next1, HeadFacts
  <2>2. Target = None
    BY <1>1, <2>1, ItemFacts
  <2>3. \A n \in Secrets : n # None
    BY NamesDiffer DEF Secrets
  <2> QED BY <2>1, <2>2, <2>3 DEF Plain
<1>3. /\ \A d \in {"write config", "remove config", "remember", "replace", "forget"} : d \notin Plain
      /\ \A n \in Secrets : \A d : d \notin Todo(job, n)
  BY <1>2
<1>4. /\ "mark" \notin Deletion /\ "put" \notin Deletion /\ "write file" \notin Deletion
      /\ "unmark" \in Deletion
  BY DEF Deletion
<1>5. CASE job' = <<>>
  <2>1. /\ \A d : d \notin Plain'
        /\ \A n \in Secrets : \A d : d \notin Todo(job', n)
        /\ \A c : Says(job', c)
    BY <1>5, EndTodo
  <2>2. ASSUME NEW c, NEW o, Fine(c, o) PROVE Fine(c, o)'
    <3>1. Of(c, o)' /\ Of(memory, o)'
      BY <1>1, <2>2 DEF Fine, Of
    <3>2. ConfigSettles(o)'
      BY <1>1, <1>3, <2>2 DEF Fine, ConfigSettles
    <3>3. ASSUME NEW n \in Secrets PROVE Settles(n, o)' /\ (Clean(n, o) => Clean(n, o)')
      BY <1>1, <1>3, <2>1, <2>2, <3>3 DEF Fine, Settles, Clean
    <3> QED BY <1>1, <2>1, <2>2, <3>1, <3>2, <3>3 DEF Fine
  <2>3. \A n \in Secrets : SlotStays(n)' <=> SlotStays(n)
    BY <1>1, <1>3, <2>1 DEF SlotStays
  <2>4. ConfigStays' <=> ConfigStays
    BY <1>1, <1>3, <2>1 DEF ConfigStays
  <2>5. MemoryStays' <=> MemoryStays
    BY <1>1, <1>3, <2>1 DEF MemoryStays
  <2>6. Whole => Whole'
    BY <1>1, <2>3, <2>4, <2>5 DEF Whole, Secrets
  <2> QED BY <2>2, <2>6
<1>6. CASE job' = Teardown
  <2>1. /\ "forget" \in Plain' /\ "remove config" \in Plain' /\ "write config" \notin Plain'
        /\ "remember" \notin Plain' /\ "replace" \notin Plain'
        /\ \A n \in Secrets : Todo(job', n) = Deletion
        /\ \A c : Says(job', c)
    BY <1>6, EndTodo
  <2>2. ASSUME NEW c, NEW o, Fine(c, o) PROVE Fine(c, o)'
    <3>1. Of(c, o)' /\ Of(memory, o)'
      BY <1>1, <2>2 DEF Fine, Of
    <3>2. ConfigSettles(o)'
      BY <2>1 DEF ConfigSettles
    <3>3. ASSUME NEW n \in Secrets PROVE Settles(n, o)' /\ (Clean(n, o) => Clean(n, o)')
      BY <1>1, <1>4, <2>1, <2>2, <3>3 DEF Fine, Settles, Clean
    <3> QED BY <1>1, <2>1, <2>2, <3>1, <3>2, <3>3 DEF Fine
  <2>3. \A n \in Secrets : ~SlotStays(n)'
    BY <1>4, <2>1 DEF SlotStays
  <2>4. ~ConfigStays' /\ ~MemoryStays'
    BY <2>1 DEF ConfigStays, MemoryStays
  <2>5. Whole'
    BY <2>3, <2>4 DEF Whole, Secrets
  <2> QED BY <2>2, <2>5
<1> QED BY <1>1, <1>5, <1>6

\* A first failure leaves what it met, or a torn file.
LEMMA FailureSettles ==
    ASSUME Types, NEW c, NEW o, Fine(c, o), mishaps = 0, mishaps' # 0,
           owner' = owner, keystore' = keystore, marker' = marker,
           config' \in {config, Torn}, file' = file \/ file' = [file EXCEPT ![Target] = Torn],
           memory' \in {memory, None}, Says(job', c),
           \A n \in Secrets : "mark" \in Todo(job', n) => "mark" \in Todo(job, n)
    PROVE  Fine(c, o)'
<1>1. Of(c, o)' /\ Of(memory, o)'
  BY DEF Fine, Of
<1>2. ConfigSettles(o)'
  BY DEF Fine, ConfigSettles
<1>3. ASSUME NEW n \in Secrets PROVE Settles(n, o)'
  <2>1. file'[n] = file[n] \/ file'[n] = Torn
    BY <1>3 DEF Types, DiskTypeOK, Secrets, Name
  <2>2. Clean(n, o)
    BY <1>3 DEF Fine
  <2> QED BY <1>3, <2>1, <2>2 DEF Clean, Settles
<1> QED BY <1>1, <1>2, <1>3 DEF Fine

LEMMA ContinueOne == Types /\ One /\ Whole /\ Continue => One' /\ Whole'
<1> SUFFICES ASSUME Types, One, Whole, Continue PROVE One' /\ Whole'
  OBVIOUS
<1>1. mishaps \in Nat /\ JobInv /\ job # <<>>
  <2>1. mishaps \in 0 .. MaxMishaps
    BY DEF Types, ProcTypeOK
  <2>2. JobInv /\ job # <<>>
    BY Doer DEF Types
  <2> QED BY <2>1, <2>2
<1>2. CASE Confirm
  <2>1. mishaps' = mishaps
    BY <1>2 DEF Confirm, history
  <2> QED BY <1>2, <2>1, ConfirmFine DEF One
<1>3. CASE ~Stuck /\ ~Confirm
  <2>1. mishaps' = mishaps /\ running' = running
    BY <1>3 DEF Continue, Activate, Forget, Put, TakeOut, Unheeded, UnheededFails, Write, WriteFails, history
  <2>2. ASSUME mishaps <= 1
        PROVE  /\ \E c, o : Fine(c, o)'
               /\ \A n \in Secrets : SlotStays(n)' <=> SlotStays(n)
               /\ ConfigStays' <=> ConfigStays
               /\ MemoryStays' <=> MemoryStays
    <3>1. PICK c, o : Fine(c, o)
      BY <2>2 DEF One
    <3>2. Of(c, o) /\ Says(job, c) /\ Says(job', c)
      BY <3>1, ContinueSays DEF Fine
    <3>3. /\ config \in {None, o} => config' \in {None, o}
          /\ ConfigSettles(o) => ConfigSettles(o)'
          /\ ConfigStays' <=> ConfigStays
          /\ MemoryStays' <=> MemoryStays
          /\ Of(memory, o) => Of(memory, o)'
      BY <1>3, <3>2, PlainMoves
    <3>4. \A n \in Secrets : /\ Clean(n, o) => Clean(n, o)'
                             /\ Settles(n, o) => Settles(n, o)'
                             /\ SlotStays(n)' <=> SlotStays(n)
      BY <1>3, <3>2, SlotMoves
    <3>5. owner' = owner
      BY <1>3 DEF Continue, Activate, Forget, Put, TakeOut, Unheeded, UnheededFails, Write, WriteFails
    <3>6. Of(c, o)'
      BY <3>2, <3>5 DEF Of
    <3>7. Fine(c, o)'
      BY <2>1, <3>1, <3>2, <3>3, <3>4, <3>6 DEF Fine
    <3> QED BY <3>3, <3>4, <3>7
  <2>3. One'
    BY <2>1, <2>2 DEF One
  <2>4. Whole'
    <3> SUFFICES ASSUME mishaps' = 0
                 PROVE  /\ SlotStays("network")' <=> ConfigStays'
                        /\ SlotStays("originator")' => ConfigStays'
                        /\ running' = "up" => (MemoryStays' <=> ConfigStays')
      BY DEF Whole
    <3>1. mishaps = 0 /\ mishaps <= 1
      BY <2>1
    <3> QED BY <2>1, <2>2, <3>1 DEF Whole, Secrets
  <2> QED BY <2>3, <2>4
<1>4. CASE Stuck
  <2>1. mishaps' # 0 /\ mishaps' # mishaps /\ (mishaps' <= 1 => mishaps = 0 /\ mishaps <= 1)
    BY <1>1, <1>4, Mishap DEF Stuck
  <2>2. Whole'
    BY <2>1 DEF Whole
  <2>3. /\ owner' = owner /\ keystore' = keystore /\ marker' = marker
        /\ config' \in {config, Torn} /\ (file' = file \/ file' = [file EXCEPT ![Target] = Torn])
        /\ memory' \in {memory, None} /\ (Advance \/ job' \in {<<>>, Teardown})
    BY <2>1 DEF Continue, Activate, Confirm, Forget, Put, TakeOut, Unheeded, UnheededFails, Write, WriteFails,
                Written, Abort, disk, history
  <2>4. \A n \in Secrets : "mark" \in Todo(job', n) => "mark" \in Todo(job, n)
    <3>1. CASE Advance
      BY <1>1, <3>1, Next1 DEF Advance
    <3>2. CASE job' \in {<<>>, Teardown}
      <4>1. "mark" \notin Deletion
        BY DEF Deletion
      <4>2. /\ job' = <<>> => \A n \in Secrets : Todo(job', n) = {}
            /\ job' = Teardown => \A n \in Secrets : Todo(job', n) = Deletion
        BY <3>2, EndTodo
      <4> QED BY <3>2, <4>1, <4>2
    <3> QED BY <2>3, <3>1, <3>2
  <2>5. One'
    <3> SUFFICES ASSUME mishaps' <= 1 PROVE \E c, o : Fine(c, o)'
      BY DEF One
    <3>1. PICK c, o : Fine(c, o)
      BY <2>1 DEF One
    <3>2. Says(job', c)
      BY <3>1, ContinueSays DEF Fine
    <3>3. Fine(c, o)'
      BY <2>1, <2>3, <2>4, <3>1, <3>2, FailureSettles
    <3> QED BY <3>3
  <2> QED BY <2>2, <2>5
<1> QED BY <1>2, <1>3, <1>4

\* What the disk says, to a reader, at rest.
LEMMA RestSays ==
    ASSUME Types, job = <<>>, NEW c, NEW o, Fine(c, o)
    PROVE  /\ config \in {None, Torn, o}
           /\ \A n \in Secrets : \/ n \in marker /\ Fit(owner, n, o, keystore[n])
                                 \/ n \notin marker /\ (file[n] = Torn \/ Fit(owner, n, o, file[n]))
           /\ Loaded # Refused => Of(Loaded, o)
<1>1. \A n : \A d : d \notin Todo(job, n)
  BY IdleTodo
<1>2. config \in {None, Torn, o}
  BY <1>1 DEF Fine, ConfigSettles, Plain
<1>3. \A n \in Secrets : \/ n \in marker /\ Fit(owner, n, o, keystore[n])
                         \/ n \notin marker /\ (file[n] = Torn \/ Fit(owner, n, o, file[n]))
  BY <1>1 DEF Fine, Settles
<1>4. ASSUME NEW n \in Secrets, Load(n) # Refused PROVE Fit(owner, n, o, Load(n))
  BY <1>3, <1>4, ValueAssumption DEF Load
<1>5. ASSUME Loaded \notin {None, Refused} PROVE Of(Loaded, o)
  <2>1. /\ Loaded = StoredConfig(config, Load("network"), Load("originator"))
        /\ config \notin {None, Torn} /\ Load("network") # Refused /\ Load("originator") # Refused
    BY <1>5 DEF Loaded
  <2>2. /\ Loaded.owner = o /\ Loaded.secret = Load("network") /\ Loaded.master = Load("originator")
    BY <1>2, <2>1 DEF StoredConfig
  <2> QED BY <1>4, <2>1, <2>2 DEF Of, Secrets
<1>6. Of(None, o)
  BY DEF Of
<1> QED BY <1>2, <1>3, <1>5, <1>6

\* At rest, and with nothing gone wrong, there is a network on disk or nothing at all.
LEMMA RestWhole ==
    ASSUME job = <<>>, Whole, mishaps = 0
    PROVE  /\ config = None => \A n \in Secrets : n \notin marker /\ file[n] = None
           /\ config # None => "network" \in marker \/ file["network"] # None
           /\ running = "up" => (memory = None <=> config = None)
<1>1. (\A d : d \notin Plain) /\ \A n : \A d : d \notin Todo(job, n)
  BY IdleTodo
<1>2. \A n : SlotStays(n) <=> n \in marker \/ file[n] # None
  BY <1>1 DEF SlotStays
<1>3. (ConfigStays <=> config # None) /\ (MemoryStays <=> memory # None)
  BY <1>1 DEF ConfigStays, MemoryStays
<1> QED BY <1>2, <1>3 DEF Whole, Secrets

LEMMA FitGrows ==
    ASSUME OwnerTypeOK, owner' = owner \/ \E k \in 1 .. Len(owner) + 1 : owner' = Append(owner, k)
    PROVE  \A n, o, v : Fit(owner, n, o, v) => Fit(owner', n, o, v)
<1>1. CASE owner' = owner
  BY <1>1
<1>2. ASSUME NEW k \in 1 .. Len(owner) + 1, owner' = Append(owner, k)
      PROVE  \A n, o, v : Fit(owner, n, o, v) => Fit(owner', n, o, v)
  <2>1. /\ Len(owner) \in Nat /\ k \in Nat /\ Len(owner') = Len(owner) + 1
        /\ \A v \in 1 .. Len(owner) : owner'[v] = owner[v]
    BY <1>2 DEF OwnerTypeOK
  <2>2. \A v \in 1 .. Len(owner) : v \in 1 .. Len(owner') /\ owner'[v] = owner[v]
    BY <2>1
  <2> QED BY <2>2 DEF Fit
<1> QED BY <1>1, <1>2

\* A request of the network that the device is in, or of none.
LEMMA SameNetwork ==
    ASSUME Types, mishaps <= 1, job = <<>>, Quiet, NEW b, NEW o, Fine(b, o),
           \A n, v : Fit(owner, n, o, v) => Fit(owner', n, o, v),
           NEW c, NEW p, NEW s, NEW m, Listed(job', c, p, s, m), "mark" \notin s, "mark" \notin m,
           c # None => c.owner = o /\ Fit(owner', "network", o, c.secret) /\ Fit(owner', "originator", o, c.master)
    PROVE  Fine(c, o)'
<1>1. /\ config \in {None, Torn, o}
      /\ \A n \in Secrets : \/ n \in marker /\ Fit(owner, n, o, keystore[n])
                            \/ n \notin marker /\ (file[n] = Torn \/ Fit(owner, n, o, file[n]))
  BY RestSays
<1>2. UNCHANGED <<config, keystore, marker, file, memory, mishaps>>
  BY DEF Quiet, disk, history
<1>3. \A n \in Secrets : "mark" \notin Todo(job', n)
  BY NamesDiffer DEF Listed, Secrets
<1>4. Says(job', c) /\ Of(c, o)'
  BY DEF Listed, Of
<1>5. Of(memory, o)'
  BY <1>2 DEF Fine, Of
<1>6. ConfigSettles(o)'
  BY <1>1, <1>2 DEF ConfigSettles
<1>7. ASSUME NEW n \in Secrets PROVE Settles(n, o)' /\ (Clean(n, o) => Clean(n, o)')
  <2>1. Settles(n, o)'
    BY <1>1, <1>2, <1>3, <1>7 DEF Settles
  <2>2. Clean(n, o) => Clean(n, o)'
    BY <1>2, <1>3, <1>7 DEF Clean
  <2> QED BY <2>1, <2>2
<1> QED BY <1>2, <1>4, <1>5, <1>6, <1>7 DEF Fine

\* A request that has the device enter another network.
LEMMA NewNetwork ==
    ASSUME Types, Whole, running = "up", job = <<>>, Quiet, memory = None,
           NEW c, NEW p, NEW s, NEW m, Listed(job', c, p, s, m), "write config" \in p,
           "mark" \notin s, "mark" \notin m,
           "put" \in s \/ "unmark" \in s, "put" \in m \/ "unmark" \in m,
           NEW o, c # None,
           c.owner = o, Fit(owner', "network", o, c.secret), Fit(owner', "originator", o, c.master)
    PROVE  Fine(c, o)'
<1>1. UNCHANGED <<config, keystore, marker, file, memory, mishaps>>
  BY DEF Quiet, disk, history
<1>2. /\ \A n \in Secrets : /\ "mark" \notin Todo(job', n)
                            /\ "put" \in Todo(job', n) \/ "unmark" \in Todo(job', n)
      /\ "write config" \in Plain'
  BY NamesDiffer DEF Listed, Secrets, Plain
<1>3. Says(job', c) /\ Of(c, o)' /\ Of(memory, o)'
  BY <1>1 DEF Listed, Of
<1>4. ConfigSettles(o)' /\ \A n \in Secrets : Settles(n, o)'
  BY <1>2 DEF ConfigSettles, Settles
<1>5. mishaps' = 0 => config' = None /\ \A n \in Secrets : Clean(n, o)'
  <2> SUFFICES ASSUME mishaps = 0 PROVE config' = None /\ \A n \in Secrets : Clean(n, o)'
    BY <1>1
  <2>1. config = None /\ \A n \in Secrets : n \notin marker /\ file[n] = None
    BY RestWhole
  <2>2. ASSUME NEW n \in Secrets PROVE Clean(n, o)'
    <3>1. n \notin marker' /\ file'[n] = None /\ "mark" \notin Todo(job', n) /\ None # Torn
      BY <1>1, <1>2, <2>1, <2>2, ValueAssumption
    <3> QED BY <3>1 DEF Clean, Fit
  <2> QED BY <1>1, <2>1, <2>2
<1> QED BY <1>3, <1>4, <1>5 DEF Fine

\* Whole lists, and lists that leave nothing.
LEMMA ListedWhole ==
    ASSUME NEW c, NEW p, NEW s, NEW m, Listed(job', c, p, s, m),
           \/ /\ "write config" \in p /\ "put" \in s
              /\ "remember" \in p \/ "replace" \in p
           \/ /\ "write config" \notin p /\ "remove config" \in p /\ "forget" \in p
              /\ "remember" \notin p /\ "replace" \notin p /\ s = Deletion /\ m = Deletion
    PROVE  Whole'
<1>1. Plain' = p /\ Todo(job', "network") = s /\ Todo(job', "originator") = m
  BY NamesDiffer DEF Listed, Plain
<1>2. CASE "write config" \in p /\ "put" \in s /\ ("remember" \in p \/ "replace" \in p)
  <2>1. ConfigStays' /\ MemoryStays' /\ SlotStays("network")'
    BY <1>1, <1>2 DEF ConfigStays, MemoryStays, SlotStays
  <2> QED BY <2>1 DEF Whole
<1>3. CASE /\ "write config" \notin p /\ "remove config" \in p /\ "forget" \in p
           /\ "remember" \notin p /\ "replace" \notin p /\ s = Deletion /\ m = Deletion
  <2>1. ~ConfigStays' /\ ~MemoryStays'
    BY <1>1, <1>3 DEF ConfigStays, MemoryStays
  <2>2. ~SlotStays("network")' /\ ~SlotStays("originator")'
    <3>1. /\ "put" \notin Deletion /\ "write file" \notin Deletion /\ "mark" \notin Deletion
          /\ "unmark" \in Deletion
      BY DEF Deletion
    <3> QED BY <1>1, <1>3, <3>1 DEF SlotStays
  <2> QED BY <2>1, <2>2 DEF Whole
<1> QED BY <1>2, <1>3

LEMMA RequestOne == Types /\ Born /\ One /\ Whole /\ Request => One' /\ Whole'
<1> SUFFICES ASSUME Types, Born, One, Whole, Request PROVE One' /\ Whole'
  OBVIOUS
<1>1. running = "up" /\ job = <<>> /\ Quiet /\ UNCHANGED <<running, config, marker, file, memory, mishaps>>
  BY RequestStep DEF Quiet, disk, history
<1>2. \A n, o, v : Fit(owner, n, o, v) => Fit(owner', n, o, v)
  BY RequestOwner, FitGrows DEF Types
<1>3. "mark" \notin Deletion /\ "unmark" \in Deletion
  BY DEF Deletion
<1>4. ASSUME NEW n \in Nat, n = Len(owner) + 1, NEW o, owner' = Append(owner, o)
      PROVE  Fit(owner', "network", o, n)
  <2>1. /\ owner \in Seq(Nat) /\ Len(owner) \in Nat
    BY DEF Types, OwnerTypeOK
  <2>2. Len(Append(owner, o)) = n /\ Append(owner, o)[n] = o
    BY <1>4, <2>1
  <2>3. n \in 1 .. n
    BY <1>4, <2>1
  <2> QED BY <1>4, <2>2, <2>3 DEF Fit
<1>5. ASSUME NEW c, NEW o, Fine(c, o)' PROVE One'
  BY <1>5 DEF One
<1>6. ASSUME mishaps <= 1, memory # None
      PROVE  \E b : /\ Fine(b, memory.owner) /\ memory \in Config
                    /\ Fit(owner', "network", memory.owner, memory.secret)
                    /\ Fit(owner', "originator", memory.owner, memory.master)
  <2>1. PICK b, o : Fine(b, o)
    BY <1>6 DEF One
  <2>2. /\ memory.owner = o /\ Fit(owner, "network", o, memory.secret)
        /\ Fit(owner, "originator", o, memory.master)
    BY <1>6, <2>1 DEF Fine, Of
  <2>3. memory \in Config
    BY <1>6 DEF Types, ProcTypeOK
  <2> QED BY <1>2, <2>1, <2>2, <2>3
<1>7. ASSUME ~(mishaps <= 1) PROVE One'
  BY <1>1, <1>7 DEF One
<1>8. CASE CreateNetwork
  <2>1. PICK n, c : n = Len(owner) + 1 /\ c = StoredConfig(n, n, n)
    OBVIOUS
  <2>2. /\ n \in Net /\ owner' = Append(owner, n) /\ c \in Config /\ memory = None
        /\ Listed(job', c, {"write config", "remember"}, {"put"}, {"put"})
    BY <1>8, <2>1, CreateFacts DEF CreateNetwork
  <2>3. c.owner = n /\ c.secret = n /\ c.master = n /\ n \in Nat
    BY <2>1, <2>2, Bounds DEF StoredConfig
  <2>4. c # None /\ Fit(owner', "network", n, c.secret) /\ Fit(owner', "originator", n, c.master)
    <3>1. Fit(owner', "network", n, n)
      BY <1>4, <2>1, <2>2, <2>3
    <3>2. Fit(owner', "originator", n, n) /\ c # None
      BY <2>2, ConfigFacts DEF Fit
    <3> QED BY <2>3, <3>1, <3>2
  <2>5. Fine(c, n)'
    <3> DEFINE p == {"write config", "remember"}
               s == {"put"}
    <3>1. Listed(job', c, p, s, s) /\ "write config" \in p /\ "mark" \notin s /\ "put" \in s
      BY <2>2
    <3> HIDE DEF p, s
    <3> QED BY <1>1, <2>2, <2>3, <2>4, <3>1, NewNetwork
  <2>6. Whole'
    BY <2>2, ListedWhole
  <2> QED BY <1>5, <2>5, <2>6
<1>9. CASE JoinNetwork
  <2>1. PICK n, c : n = Len(owner) + 1 /\ c = StoredConfig(n, n, None)
    OBVIOUS
  <2>2. /\ n \in Net /\ owner' = Append(owner, n) /\ c \in Config /\ memory = None
        /\ Listed(job', c, {"write config", "remember", "confirm"}, {"put"}, Deletion)
    BY <1>9, <2>1, JoinFacts DEF JoinNetwork
  <2>3. c.owner = n /\ c.secret = n /\ c.master = None /\ n \in Nat
    BY <2>1, <2>2, Bounds DEF StoredConfig
  <2>4. c # None /\ Fit(owner', "network", n, c.secret) /\ Fit(owner', "originator", n, c.master)
    <3>1. Fit(owner', "network", n, n)
      BY <1>4, <2>1, <2>2, <2>3
    <3>2. Fit(owner', "originator", n, None) /\ c # None
      BY <2>2, ConfigFacts DEF Fit
    <3> QED BY <2>3, <3>1, <3>2
  <2>5. Fine(c, n)'
    <3> DEFINE p == {"write config", "remember", "confirm"}
               s == {"put"}
    <3>1. Listed(job', c, p, s, Deletion) /\ "write config" \in p /\ "mark" \notin s /\ "put" \in s
      BY <2>2
    <3> HIDE DEF p, s
    <3> QED BY <1>1, <1>3, <2>2, <2>3, <2>4, <3>1, NewNetwork
  <2>6. Whole'
    BY <2>2, ListedWhole
  <2> QED BY <1>5, <2>5, <2>6
<1>10. CASE LeaveNetwork
  <2>1. Listed(job', None, {"forget", "remove config"}, Deletion, Deletion) /\ memory # None
    BY <1>10, LeaveFacts DEF LeaveNetwork
  <2>2. Whole'
    BY <2>1, ListedWhole
  <2>3. ASSUME mishaps <= 1 PROVE One'
    <3>1. PICK b, o : Fine(b, o)
      BY <2>3 DEF One
    <3>2. Fine(None, o)'
      BY <1>1, <1>2, <1>3, <2>1, <2>3, <3>1, SameNetwork
    <3> QED BY <1>5, <3>2
  <2> QED BY <1>7, <2>2, <2>3
<1>11. CASE RotateNetwork
  <2> DEFINE p == {"forget", "remove config", "write config", "remember"}
             s == Deletion \union {"put"}
  <2>1. PICK n, c, o : n = Len(owner) + 1 /\ o = memory.owner /\ c = StoredConfig(o, n, memory.master)
    OBVIOUS
  <2>2. /\ n \in Net /\ owner' = Append(owner, o) /\ memory # None
        /\ Listed(job', c, p, s, s)
    BY <1>11, <2>1, RotateFacts DEF RotateNetwork
  <2>3. c.owner = o /\ c.secret = n /\ c.master = memory.master /\ n \in Nat
    BY <2>1, <2>2, Bounds DEF StoredConfig
  <2>4. "mark" \notin s /\ "put" \in s /\ "write config" \in p /\ "remember" \in p
    BY <1>3
  <2> HIDE DEF p, s
  <2>5. Whole'
    BY <2>2, <2>4, ListedWhole
  <2>6. ASSUME mishaps <= 1 PROVE One'
    <3>1. PICK b : Fine(b, o) /\ Fit(owner', "originator", o, memory.master)
      BY <1>6, <2>1, <2>2, <2>6
    <3>2. Fit(owner', "network", o, c.secret) /\ Fit(owner', "originator", o, c.master)
      BY <1>4, <2>1, <2>2, <2>3, <3>1
    <3>3. Fine(c, o)'
      BY <1>1, <1>2, <2>2, <2>3, <2>4, <2>6, <3>1, <3>2, SameNetwork
    <3> QED BY <1>5, <3>3
  <2> QED BY <1>7, <2>5, <2>6
<1>12. CASE ImportOriginatorKey
  <2> DEFINE p == {"write config", "replace"}
             s == {"put"}
  <2>1. PICK c, o : o = memory.owner /\ c = StoredConfig(o, memory.secret, o)
    OBVIOUS
  <2>2. memory # None /\ Listed(job', c, p, s, s)
    BY <1>12, <2>1, ImportFacts DEF ImportOriginatorKey
  <2>3. c.owner = o /\ c.secret = memory.secret /\ c.master = o
    BY <2>1 DEF StoredConfig
  <2>4. "mark" \notin s /\ "put" \in s /\ "write config" \in p /\ "replace" \in p
    OBVIOUS
  <2> HIDE DEF p, s
  <2>5. Whole'
    BY <2>2, <2>4, ListedWhole
  <2>6. ASSUME mishaps <= 1 PROVE One'
    <3>1. PICK b : Fine(b, o) /\ Fit(owner', "network", o, memory.secret)
      BY <1>6, <2>1, <2>2, <2>6
    <3>2. Fit(owner', "network", o, c.secret) /\ Fit(owner', "originator", o, c.master)
      BY <2>3, <3>1 DEF Fit
    <3>3. Fine(c, o)'
      BY <1>1, <1>2, <2>2, <2>3, <2>4, <2>6, <3>1, <3>2, SameNetwork
    <3> QED BY <1>5, <3>3
  <2> QED BY <1>7, <2>5, <2>6
<1>13. CASE Reconnect
  <2>1. PICK c \in Config : /\ c = IF memory = None THEN Loaded ELSE memory
                            /\ owner' = owner /\ Listed(job', c, {"remember"}, {}, {})
    BY <1>13, ReconnectFacts
  <2>2. memory = None => Loaded \notin {None, Refused}
    BY <1>13 DEF Reconnect
  <2>3. Whole'
    <3> SUFFICES ASSUME mishaps = 0 PROVE Whole'
      BY <1>1 DEF Whole
    <3>1. /\ Plain' = {"remember"} /\ \A n \in Secrets : Todo(job', n) = {}
      BY <2>1, NamesDiffer DEF Listed, Plain, Secrets
    <3>2. /\ config = None => \A n \in Secrets : n \notin marker /\ file[n] = None
          /\ config # None => "network" \in marker \/ file["network"] # None
          /\ memory = None <=> config = None
      BY <1>1, RestWhole
    <3>3. config # None
      BY <2>2, <3>2 DEF Loaded
    <3>4. MemoryStays' /\ ConfigStays' /\ SlotStays("network")'
      <4>1. MemoryStays' /\ ConfigStays'
        BY <1>1, <3>1, <3>3 DEF MemoryStays, ConfigStays
      <4>2. SlotStays("network")'
        BY <1>1, <3>1, <3>2, <3>3 DEF SlotStays, Secrets
      <4> QED BY <4>1, <4>2
    <3> QED BY <3>4 DEF Whole
  <2>4. ASSUME mishaps <= 1 PROVE One'
    <3>1. PICK b, o : Fine(b, o)
      BY <2>4 DEF One
    <3>2. Of(c, o) /\ c # None
      <4>1. CASE memory = None
        BY <1>1, <2>1, <2>2, <3>1, <4>1, RestSays
      <4>2. CASE memory # None
        BY <2>1, <3>1, <4>2 DEF Fine
      <4> QED BY <4>1, <4>2
    <3>3. /\ c.owner = o /\ Fit(owner', "network", o, c.secret) /\ Fit(owner', "originator", o, c.master)
      BY <1>2, <3>2 DEF Of
    <3>4. Fine(c, o)'
      BY <1>1, <1>2, <2>1, <2>4, <3>1, <3>3, SameNetwork
    <3> QED BY <1>5, <3>4
  <2> QED BY <1>7, <2>3, <2>4
<1> QED BY <1>8, <1>9, <1>10, <1>11, <1>12, <1>13 DEF Request

\* Steps at rest that leave the disk alone.
LEMMA RestSteps ==
    ASSUME job = <<>>, \A n \in Secrets \union {None} : Todo(job', n) = {},
           UNCHANGED <<config, keystore, marker, file, owner, mishaps>>
    PROVE  /\ \A c, o : Fine(c, o) /\ Says(job', c) /\ Of(memory, o)' => Fine(c, o)'
           /\ SlotStays("network")' <=> SlotStays("network")
           /\ SlotStays("originator")' <=> SlotStays("originator")
           /\ ConfigStays' <=> ConfigStays
<1>1. \A n \in Secrets : Todo(job', n) = Todo(job, n)
  BY IdleTodo
<1>2. Plain' = Plain
  BY IdleTodo DEF Plain
<1>3. \A o : \A n \in Secrets : /\ Clean(n, o) => Clean(n, o)'
                                /\ Settles(n, o) => Settles(n, o)'
                                /\ SlotStays(n)' <=> SlotStays(n)
  BY <1>1, SlotSame
<1>4. ConfigStays' <=> ConfigStays
  BY <1>2 DEF ConfigStays
<1>5. ASSUME NEW c, NEW o, Fine(c, o), Says(job', c), Of(memory, o)' PROVE Fine(c, o)'
  <2>1. Of(c, o)' /\ ConfigSettles(o)'
    BY <1>2, <1>5 DEF Fine, Of, ConfigSettles
  <2> QED BY <1>3, <1>5, <2>1 DEF Fine
<1> QED BY <1>3, <1>4, <1>5 DEF Secrets

LEMMA StartOne == Types /\ One /\ Whole /\ Start => One' /\ Whole'
<1> SUFFICES ASSUME Types, One, Whole, Start PROVE One' /\ Whole'
  OBVIOUS
<1>1. /\ job = <<>> /\ running' = "booting"
      /\ UNCHANGED <<config, keystore, marker, file, owner, mishaps, memory>>
  BY DEF Start, disk, history, Types, JobInv, Idle
<1>2. \A n \in Secrets \union {None} : Todo(job', n) = {}
  <2>1. JobInv'
    BY StartTypes DEF Types
  <2> QED BY <1>1, <2>1, NamesDiffer DEF JobInv, Secrets
<1>3. \A c : Says(job', c)
  <2>1. CASE job' = job
    BY <1>1, <2>1, EmptyList
  <2>2. CASE job' = Store("node-key", keys + 1)
    <3> DEFINE w == Do("put", "node-key", keys + 1)
    <3>1. job' = <<w>> /\ \A c : Tells(w, c)
      BY <2>2 DEF Store, Do, Tells
    <3> HIDE DEF w
    <3>2. \A i \in 1 .. Len(<<w>>) : <<w>>[i] = w
      OBVIOUS
    <3> QED BY <3>1, <3>2 DEF Says
  <2> QED BY <2>1, <2>2 DEF Start
<1>4. \A o : Of(memory, o) => Of(memory, o)'
  BY <1>1 DEF Of
<1>5. One'
  <2> SUFFICES ASSUME mishaps <= 1 PROVE \E c, o : Fine(c, o)'
    BY <1>1 DEF One
  <2>1. PICK c, o : Fine(c, o)
    BY DEF One
  <2>2. Of(memory, o)'
    BY <1>4, <2>1 DEF Fine
  <2> QED BY <1>1, <1>2, <1>3, <2>1, <2>2, RestSteps
<1>6. Whole'
  <2>1. /\ SlotStays("network")' <=> SlotStays("network")
        /\ SlotStays("originator")' <=> SlotStays("originator")
        /\ ConfigStays' <=> ConfigStays
    BY <1>1, <1>2, RestSteps
  <2> QED BY <1>1, <2>1 DEF Whole
<1> QED BY <1>5, <1>6

LEMMA StartedOne == Types /\ One /\ Whole /\ Started => One' /\ Whole'
<1> SUFFICES ASSUME Types, One, Whole, Started PROVE One' /\ Whole'
  OBVIOUS
<1>1. /\ job = <<>> /\ job' = <<>> /\ UNCHANGED <<config, keystore, marker, file, owner, mishaps>>
  BY DEF Started, disk, Idle
<1>2. /\ \A n \in Secrets \union {None} : Todo(job', n) = {}
      /\ \A c : Says(job', c)
  BY <1>1, EmptyList
<1>3. (memory' = memory /\ running' = "down") \/ (memory' = Loaded /\ Loaded # Refused)
  BY DEF Started
<1>4. One'
  <2> SUFFICES ASSUME mishaps <= 1 PROVE \E c, o : Fine(c, o)'
    BY <1>1 DEF One
  <2>1. PICK c, o : Fine(c, o)
    BY DEF One
  <2>2. Of(memory, o)'
    <3>1. Loaded # Refused => Of(Loaded, o)
      BY <1>1, <2>1, RestSays
    <3> QED BY <1>1, <1>3, <2>1, <3>1 DEF Fine, Of
  <2> QED BY <1>1, <1>2, <2>1, <2>2, RestSteps
<1>5. Whole'
  <2> SUFFICES ASSUME mishaps = 0 PROVE Whole'
    BY <1>1 DEF Whole
  <2>1. /\ SlotStays("network")' <=> SlotStays("network")
        /\ SlotStays("originator")' <=> SlotStays("originator")
        /\ ConfigStays' <=> ConfigStays
    BY <1>1, <1>2, RestSteps
  <2>2. running' = "up" => (MemoryStays' <=> ConfigStays')
    <3> SUFFICES ASSUME memory' = Loaded, Loaded # Refused PROVE MemoryStays' <=> ConfigStays'
      BY <1>3
    <3>1. Loaded = None <=> config = None
      <4>1. config = None => Loaded = None
        BY DEF Loaded
      <4>2. ASSUME config # None PROVE Loaded # None
        <5>1. "network" \in marker \/ file["network"] # None
          BY <1>1, <4>2, RestWhole
        <5>2. Load("network") # None
          BY <5>1, ValueAssumption DEF Load
        <5>3. /\ config # Torn /\ Load("network") # Refused /\ Load("originator") # Refused
              /\ Loaded = StoredConfig(config, Load("network"), Load("originator"))
          BY <4>2, <5>2 DEF Loaded
        <5>4. config \in Net
          BY <4>2, <5>3 DEF Types, DiskTypeOK
        <5>5. Load("network") \in Net /\ Load("originator") \in Net \union {None}
          <6>1. \A n \in Name : Load(n) \in Kind(n) \union {None, Refused}
            BY LoadTypes DEF Types
          <6>2. /\ Load("network") \in Net \union {None, Refused}
                /\ Load("originator") \in Net \union {None, Refused}
            BY <6>1 DEF Name, Kind
          <6> QED BY <5>2, <5>3, <6>2
        <5>6. StoredConfig(config, Load("network"), Load("originator")) # None
          BY <5>4, <5>5, ConfigFacts, Bounds DEF StoredConfig
        <5> QED BY <5>3, <5>6
      <4> QED BY <4>1, <4>2
    <3>2. Plain' = {} /\ config' = config
      BY <1>1, <1>2 DEF Plain
    <3> QED BY <3>1, <3>2 DEF MemoryStays, ConfigStays
  <2> QED BY <1>1, <2>1, <2>2 DEF Whole
<1> QED BY <1>4, <1>5

LEMMA CrashOne == Types /\ One /\ Whole /\ Crash => One' /\ Whole'
<1> SUFFICES ASSUME Types, One, Whole, Crash PROVE One' /\ Whole'
  OBVIOUS
<1>1. running' = "down" /\ memory' = None /\ job' = <<>> /\ owner' = owner
  BY DEF Crash
<1>2. (\A c : Says(job', c)) /\ \A n : Todo(job', n) = {}
  BY <1>1, EmptyList
<1>3. CASE job = <<>>
  <2>1. UNCHANGED <<config, keystore, marker, file, owner, mishaps>>
    BY <1>1, <1>3 DEF Crash, disk, Idle
  <2>2. One'
    <3> SUFFICES ASSUME mishaps <= 1 PROVE \E c, o : Fine(c, o)'
      BY <2>1 DEF One
    <3>1. PICK c, o : Fine(c, o)
      BY DEF One
    <3>2. Of(memory, o)'
      BY <1>1 DEF Of
    <3> QED BY <1>2, <1>3, <2>1, <3>1, <3>2, RestSteps
  <2>3. Whole'
    <3>1. /\ SlotStays("network")' <=> SlotStays("network")
          /\ SlotStays("originator")' <=> SlotStays("originator")
          /\ ConfigStays' <=> ConfigStays
      BY <1>2, <1>3, <2>1, RestSteps
    <3> QED BY <1>1, <2>1, <3>1 DEF Whole
  <2> QED BY <2>2, <2>3
<1>4. CASE job # <<>>
  <2>1. /\ Stuck /\ UNCHANGED <<keystore, marker>>
        /\ config' \in {config, Torn} /\ (file' = file \/ file' = [file EXCEPT ![Target] = Torn])
    BY <1>4 DEF Crash, Idle, Written
  <2>2. mishaps' # 0 /\ (mishaps' <= 1 => mishaps = 0 /\ mishaps <= 1)
    BY <2>1, Mishap
  <2>3. One'
    <3> SUFFICES ASSUME mishaps' <= 1 PROVE \E c, o : Fine(c, o)'
      BY DEF One
    <3>1. PICK c, o : Fine(c, o)
      BY <2>2 DEF One
    <3>2. Fine(c, o)'
      BY <1>1, <1>2, <2>1, <2>2, <3>1, FailureSettles
    <3> QED BY <3>2
  <2> QED BY <2>2, <2>3 DEF Whole
<1> QED BY <1>3, <1>4

LEMMA StillOne == One /\ Whole /\ (Keystore \/ UNCHANGED vars) => One' /\ Whole'
<1> SUFFICES ASSUME One, Whole, Keystore \/ UNCHANGED vars PROVE One' /\ Whole'
  OBVIOUS
<1>1. UNCHANGED <<config, keystore, marker, file, owner, mishaps, memory, job, running>>
  BY DEF Keystore, vars, disk, history
<1>2. ASSUME NEW c, NEW o, Fine(c, o) PROVE Fine(c, o)'
  <2>1. Of(c, o)' /\ Says(job, c)' /\ Of(memory, o)'
    BY <1>1, <1>2 DEF Fine, Of
  <2>2. ConfigSettles(o)'
    BY <1>1, <1>2 DEF Fine, ConfigSettles, Plain
  <2>3. ASSUME NEW n \in Secrets PROVE Settles(n, o)'
    BY <1>1, <1>2 DEF Fine, Settles
  <2>4. ASSUME NEW n \in Secrets, Clean(n, o) PROVE Clean(n, o)'
    BY <1>1, <2>4 DEF Clean
  <2>5. mishaps' = 0 => config' \in {None, o} /\ \A n \in Secrets : Clean(n, o)'
    BY <1>1, <1>2, <2>4 DEF Fine
  <2> QED BY <2>1, <2>2, <2>3, <2>5 DEF Fine
<1>3. Whole'
  BY <1>1 DEF Whole, SlotStays, ConfigStays, MemoryStays, Plain
<1> QED BY <1>1, <1>2, <1>3 DEF One

\* No single failure, crash or torn file has a device run, or find at a start, the name and
\* originator of one network with the secret or the master key of another (engine.rs load_config,
\* save_config, teardown; secrets.rs store, delete), whatever was requested before and after it.
THEOREM NetworksNeverMix == Spec => []NoSingleMishapMixes
<1>1. Init => Types /\ Born /\ One /\ Whole
  <2>1. Init => One /\ Whole
    <3> SUFFICES ASSUME Init PROVE One /\ Whole
      OBVIOUS
    <3>1. /\ job = <<>> /\ config = None /\ memory = None /\ marker = {} /\ running = "down"
          /\ \A n \in Secrets : file[n] = None
      BY DEF Init, Secrets, Name
    <3>2. (\A d : d \notin Plain) /\ \A n : \A d : d \notin Todo(job, n)
      BY <3>1, IdleTodo
    <3>3. Whole
      <4>1. ~ConfigStays /\ \A n \in Secrets : ~SlotStays(n)
        BY <3>1, <3>2 DEF ConfigStays, SlotStays
      <4> QED BY <3>1, <4>1 DEF Whole, Secrets
    <3>4. \A n \in Secrets : Clean(n, None)
      BY <3>1, <3>2, ValueAssumption DEF Clean, Fit
    <3>5. Fine(None, None)
      <4>1. Of(None, None) /\ Says(job, None) /\ ConfigSettles(None)
        BY <3>1, EmptyList DEF Of, ConfigSettles
      <4> QED BY <3>1, <3>4, <4>1, CleanSettles DEF Fine
    <3> QED BY <3>3, <3>5 DEF One
  <2> QED BY <2>1, InitTypes, InitBorn
<1>2. Types /\ Born /\ One /\ Whole /\ [Next]_vars => (Types /\ Born /\ One /\ Whole)'
  BY TypeStep, RequestOne, ContinueOne, StartOne, StartedOne, CrashOne, StillOne DEF Next
<1>3. Types /\ One => NoSingleMishapMixes
  <2> SUFFICES ASSUME Types, One, mishaps <= 1 PROVE OneNetwork(memory) /\ (Idle => OneNetwork(Loaded))
    BY DEF NoSingleMishapMixes
  <2>1. PICK c, o : Fine(c, o)
    BY DEF One
  <2>2. ASSUME NEW k \in Config \union {None, Refused}, k # Refused => Of(k, o) PROVE OneNetwork(k)
    <3> SUFFICES ASSUME k \notin {None, Refused}
                 PROVE  owner[k.secret] = k.owner /\ (k.master # None => k.master = k.owner)
      BY DEF OneNetwork
    <3>1. k \in Config /\ k.secret \in Net /\ k.secret # None
      BY <2>2, ConfigFacts, Bounds
    <3> QED BY <2>2, <3>1 DEF Of, Fit
  <2>3. OneNetwork(memory)
    BY <2>1, <2>2 DEF Fine, Types, ProcTypeOK
  <2>4. Idle => OneNetwork(Loaded)
    BY <2>1, <2>2, RestSays, LoadTypes DEF Types, Idle
  <2> QED BY <2>3, <2>4
<1> QED BY <1>1, <1>2, <1>3, PTL DEF Spec
=============================================================================
