-------------------------- MODULE ShmConversionsProofs --------------------------
(***************************************************************************)
(* Theorems about the conversions: descriptors and mappings owned by any   *)
(* number of objects over any number of calls, the layout of a ring for    *)
(* every size and count, the fields of every message, the arrays of images *)
(* and clouds of every shape, and every topic and name.                    *)
(*                                                                         *)
(* Texts have no bound.  Where a fact about them needs induction, it is    *)
(* proved from the smallest counterexample, which exists since the natural *)
(* numbers are well-founded.                                               *)
(***************************************************************************)
EXTENDS ShmConversions, SequenceTheorems, FiniteSetTheorems, WellFoundedInduction, TLAPS

--------------------------------------------------------------------------------
(* Ownership                                                                *)

States == [fd : Nat, mapping : Nat, total : Nat, name : Nat, next : Nat \ {0}]

Processes ==
  [class : {"ring", "handle"}, keepsText : BOOLEAN, objects : [Objects -> States],
   fds : SUBSET Nat, maps : SUBSET [id : Nat, size : Nat], last : Seq(Nat), right : BOOLEAN]

\* What an object that owns something can rely on: what it will give back is what
\* the system has handed out, its numbers go on, and a mapping it keeps because of
\* its name is the one that is asked for.
Owns(p, o) ==
  LET x == p.objects[o] IN
  /\ x.fd # 0 => x.fd \in p.fds
  /\ x.mapping # 0 => /\ MapOf(x) \in p.maps /\ x.mapping \in 1..Len(p.last)
                      /\ x.next > p.last[x.mapping] /\ x.name = x.total

\* What the system has handed out has an owner.
FdOwned(p, f) == f \in 1..Len(p.last) /\ \E o \in Objects : p.objects[o].fd = f
MapOwned(p, m) ==
  m.id \in 1..Len(p.last) /\ \E o \in Objects : MapOf(p.objects[o]) = m

Apart(p, a, b) ==
  /\ p.objects[a].fd = p.objects[b].fd => p.objects[a].fd = 0
  /\ p.objects[a].mapping = p.objects[b].mapping => p.objects[a].mapping = 0

OwnInv(p) ==
  /\ p \in Processes /\ p.right
  /\ \A o \in Objects : Owns(p, o)
  /\ \A f \in p.fds : FdOwned(p, f)
  /\ \A m \in p.maps : MapOwned(p, m)
  /\ \A a, b \in Objects : a # b => Apart(p, a, b)

Released(p, o) == p.objects[o].fd = 0 /\ p.objects[o].mapping = 0

\* Two processes that differ in one object only.
Alike(p, q, o) ==
  /\ q.class = p.class /\ q.keepsText = p.keepsText
  /\ \A a \in Objects : a # o => q.objects[a] = p.objects[a]

\* An object that owns nothing may say what it likes.
LEMMA Indifferent ==
  ASSUME NEW p, NEW q, OwnInv(p), NEW o \in Objects, Released(p, o), Released(q, o),
         q \in Processes, Alike(p, q, o),
         q.fds = p.fds, q.maps = p.maps, q.last = p.last, q.right = p.right
  PROVE  OwnInv(q)
  <1>1. ASSUME NEW a \in Objects PROVE Owns(q, a)
    BY DEF OwnInv, Owns, Alike, Released
  <1>2. ASSUME NEW f \in q.fds PROVE FdOwned(q, f)
    <2>1. f \in 1..Len(q.last) /\ f # 0
      BY DEF OwnInv, FdOwned, Processes
    <2> QED
      BY <2>1 DEF OwnInv, FdOwned, Alike, Released
  <1>3. ASSUME NEW m \in q.maps PROVE MapOwned(q, m)
    <2>1. m.id \in 1..Len(q.last) /\ m.id # 0
      BY DEF OwnInv, MapOwned, Processes
    <2>2. PICK a \in Objects : MapOf(p.objects[a]) = m
      BY DEF OwnInv, MapOwned
    <2>3. a # o
      BY <2>1, <2>2 DEF MapOf, Released
    <2> QED
      BY <2>1, <2>2, <2>3 DEF MapOwned, Alike
  <1>4. ASSUME NEW a \in Objects, NEW b \in Objects, a # b PROVE Apart(q, a, b)
    BY <1>4 DEF OwnInv, Apart, Alike, Released
  <1> QED
    BY <1>1, <1>2, <1>3, <1>4 DEF OwnInv

LEMMA CloseDoes ==
  ASSUME NEW p, OwnInv(p), NEW o \in Objects
  PROVE  OwnInv(Close(p, o)) /\ Released(Close(p, o), o) /\ Alike(p, Close(p, o), o)
  <1>1. PICK x \in States : x = p.objects[o]
    BY DEF OwnInv, Processes
  <1>2. PICK y : y = IF p.class = "ring" THEN [x EXCEPT !.fd = 0, !.mapping = 0] ELSE Empty
    OBVIOUS
  <1>y. y \in States /\ y.fd = 0 /\ y.mapping = 0
    <2>1. CASE p.class = "ring"
      BY <1>2, <2>1 DEF States
    <2>2. CASE p.class # "ring"
      BY <1>2, <2>2 DEF States, Empty
    <2> QED
      BY <2>1, <2>2
  <1>3. PICK q : q = Close(p, o)
    OBVIOUS
  <1>4. /\ q.class = p.class /\ q.keepsText = p.keepsText /\ q.last = p.last
        /\ q.maps = p.maps \ {MapOf(x)} /\ q.fds = p.fds \ {x.fd}
        /\ q.objects = [p.objects EXCEPT ![o] = y]
        /\ q \in Processes
    BY <1>1, <1>2, <1>y, <1>3 DEF Close, OwnInv, Processes
  <1>5. q.right
    BY <1>1, <1>3 DEF Close, OwnInv, Processes, Owns
  <1>6. Released(q, o) /\ Alike(p, q, o)
    BY <1>y, <1>4 DEF Released, Alike, OwnInv, Processes
  <1>7. ASSUME NEW a \in Objects PROVE Owns(q, a)
    <2>1. CASE a = o
      BY <1>6, <2>1 DEF Owns, Released
    <2>2. CASE a # o
      <3>1. PICK z \in States : z = p.objects[a] /\ z = q.objects[a]
        BY <1>6, <2>2 DEF Alike, OwnInv, Processes
      <3>2. /\ z.fd = x.fd => z.fd = 0
            /\ z.mapping = x.mapping => z.mapping = 0
        BY <1>1, <2>2, <3>1 DEF OwnInv, Apart
      <3>3. z.mapping # 0 => MapOf(z) # MapOf(x)
        BY <3>2 DEF MapOf
      <3>4. /\ z.fd # 0 => z.fd \in p.fds
            /\ z.mapping # 0 => /\ MapOf(z) \in p.maps /\ z.mapping \in 1..Len(p.last)
                                /\ z.next > p.last[z.mapping] /\ z.name = z.total
        BY <3>1 DEF OwnInv, Owns
      <3> QED
        BY <1>4, <3>1, <3>2, <3>3, <3>4 DEF Owns
    <2> QED
      BY <2>1, <2>2
  <1>8. ASSUME NEW f \in q.fds PROVE FdOwned(q, f)
    <2>1. f \in p.fds /\ f # x.fd
      BY <1>4
    <2> QED
      BY <1>1, <1>4, <1>6, <2>1 DEF OwnInv, FdOwned, Alike
  <1>9. ASSUME NEW m \in q.maps PROVE MapOwned(q, m)
    <2>1. m \in p.maps /\ m # MapOf(x)
      BY <1>4
    <2> QED
      BY <1>1, <1>4, <1>6, <2>1 DEF OwnInv, MapOwned, Alike
  <1>10. ASSUME NEW a \in Objects, NEW b \in Objects, a # b PROVE Apart(q, a, b)
    BY <1>6, <1>10 DEF OwnInv, Apart, Alike, Released
  <1> QED
    BY <1>3, <1>4, <1>5, <1>6, <1>7, <1>8, <1>9, <1>10 DEF OwnInv

\* shm_open and mmap for an object that owns nothing.
LEMMA AcquireDoes ==
  ASSUME NEW p, OwnInv(p), NEW o \in Objects, Released(p, o), NEW size \in Sizes,
         NEW failing \in {"nothing", "shm_open", "mmap"}
  PROVE  LET q == Acquire(p, o, size, failing) IN
         /\ OwnInv(q) /\ Alike(p, q, o)
         /\ failing = "nothing" => q.objects[o].mapping # 0 /\ q.objects[o].total = size
  <1>i. PICK id : id = Len(p.last) + 1
    OBVIOUS
  <1>1. PICK x \in States : x = p.objects[o] /\ x.fd = 0 /\ x.mapping = 0
    BY DEF OwnInv, Processes, Released
  <1>2. PICK last : last = Append(p.last, 0)
    OBVIOUS
  <1>3. /\ p.last \in Seq(Nat) /\ last \in Seq(Nat) /\ id \in Nat \ {0} /\ Len(last) = id
        /\ \A i \in 1..Len(p.last) : i \in 1..Len(last) /\ last[i] = p.last[i] /\ i # id
        /\ id \in 1..Len(last) /\ last[id] = 0
    <2>1. p.last \in Seq(Nat)
      BY DEF OwnInv, Processes
    <2> QED
      BY <1>i, <1>2, <2>1
  <1>4. PICK y : y = [x EXCEPT !.fd = id, !.total = size]
    OBVIOUS
  <1>y. y \in States /\ y.fd = id /\ y.mapping = 0 /\ y.total = size /\ y.next = x.next
    BY <1>1, <1>3, <1>4, OwnershipAssumption DEF States
  <1>5. PICK q : q = [p EXCEPT !.fds = @ \cup {id}, !.last = Append(@, 0),
                            !.objects[o].fd = id, !.objects[o].total = size]
    OBVIOUS
  <1>r. p \in Processes /\ p.objects \in [Objects -> States] /\ p.fds \cup {id} \in SUBSET Nat
    BY <1>3 DEF OwnInv, Processes
  <1>s. PICK objects : objects = [p.objects EXCEPT ![o] = y]
    OBVIOUS
  <1>t. objects \in [Objects -> States]
    BY <1>r, <1>s, <1>y
  <1>u. q = [p EXCEPT !.fds = p.fds \cup {id}, !.last = last, !.objects = objects]
    BY ZenonT(60), <1>1, <1>2, <1>4, <1>5, <1>s, <1>r DEF Processes
  <1>q. /\ q \in Processes
        /\ q.class = p.class /\ q.keepsText = p.keepsText /\ q.right = p.right
        /\ q.fds = p.fds \cup {id} /\ q.maps = p.maps /\ q.last = last
        /\ q.objects = [p.objects EXCEPT ![o] = y]
    BY <1>3, <1>r, <1>s, <1>t, <1>u DEF Processes
  <1>6. Alike(p, q, o) /\ q.objects[o] = y
    BY <1>q DEF Alike, OwnInv, Processes
  <1>7. OwnInv(q)
    <2>1. ASSUME NEW a \in Objects PROVE Owns(q, a)
      <3>1. CASE a = o
        BY <1>y, <1>q, <1>6, <3>1 DEF Owns
      <3>2. CASE a # o
        <4>1. q.objects[a] = p.objects[a] /\ Owns(p, a)
          BY <1>6, <3>2 DEF Alike, OwnInv
        <4> QED
          BY <1>3, <1>q, <4>1 DEF Owns
      <3> QED
        BY <3>1, <3>2
    <2>2. ASSUME NEW f \in q.fds PROVE FdOwned(q, f)
      <3>1. CASE f = id
        BY <1>3, <1>y, <1>q, <1>6, <3>1 DEF FdOwned
      <3>2. CASE f # id
        <4>1. f \in 1..Len(p.last) /\ \E a \in Objects : p.objects[a].fd = f
          BY <1>q, <3>2 DEF OwnInv, FdOwned
        <4> QED
          BY <1>1, <1>3, <1>q, <1>6, <4>1 DEF FdOwned, Alike
      <3> QED
        BY <3>1, <3>2
    <2>3. ASSUME NEW m \in q.maps PROVE MapOwned(q, m)
      <3>1. m.id \in 1..Len(p.last)
        BY <1>q DEF OwnInv, MapOwned
      <3>2. PICK a \in Objects : MapOf(p.objects[a]) = m
        BY <1>q DEF OwnInv, MapOwned
      <3>3. a # o
        BY <1>1, <3>1, <3>2 DEF MapOf
      <3> QED
        BY <1>3, <1>q, <1>6, <3>1, <3>2, <3>3 DEF MapOwned, Alike
    <2>4. ASSUME NEW a \in Objects, a # o
          PROVE  Apart(q, a, o) /\ Apart(q, o, a)
      <3>1. PICK z \in States : z = p.objects[a] /\ z = q.objects[a]
        BY <1>6, <2>4 DEF Alike, OwnInv, Processes
      <3>2. z.fd # id
        <4>1. z.fd = 0 \/ z.fd \in 1..Len(p.last)
          BY <3>1 DEF OwnInv, Owns, FdOwned
        <4> QED
          BY <1>3, <4>1
      <3> QED
        BY <1>y, <1>6, <3>1, <3>2 DEF Apart
    <2>5. ASSUME NEW a \in Objects, NEW b \in Objects, a # b PROVE Apart(q, a, b)
      <3>1. CASE a # o /\ b # o
        BY <1>6, <2>5, <3>1 DEF OwnInv, Apart, Alike
      <3> QED
        BY <2>4, <2>5, <3>1
    <2> QED
      BY <1>q, <2>1, <2>2, <2>3, <2>5 DEF OwnInv
  <1>8. CASE failing = "shm_open"
    <2>1. Acquire(p, o, size, failing) = p
      BY <1>8 DEF Acquire
    <2>2. Alike(p, p, o)
      BY DEF Alike
    <2> QED
      BY <1>8, <2>1, <2>2
  <1>9. CASE failing = "mmap"
    <2>1. Acquire(p, o, size, failing) = Close(q, o)
      BY <1>i, <1>5, <1>9 DEF Acquire
    <2>2. OwnInv(Close(q, o)) /\ Alike(q, Close(q, o), o)
      BY <1>7, CloseDoes
    <2>3. Alike(p, Close(q, o), o)
      BY <1>6, <2>2 DEF Alike
    <2> QED
      BY <1>9, <2>1, <2>2, <2>3
  <1>10. CASE failing = "nothing"
    <2>1. PICK m : m = [id |-> id, size |-> size]
      OBVIOUS
    <2>2. m \in [id : Nat, size : Nat] /\ m.id = id /\ m.size = size
      BY <1>3, <2>1, OwnershipAssumption
    <2>3. PICK z : z = [y EXCEPT !.mapping = id, !.name = size]
      OBVIOUS
    <2>t. size \in Nat /\ id \in Nat
      BY <1>3, OwnershipAssumption
    <2>s. z \in States /\ z.fd = id /\ z.mapping = id /\ z.total = size /\ z.name = size
      BY <1>y, <2>3, <2>t DEF States
    <2>4. /\ z \in States /\ z.fd = id /\ z.mapping = id /\ z.total = size /\ z.name = size
          /\ z.next > 0
      BY <2>s DEF States
    <2>5. MapOf(z) = m
      BY <2>1, <2>4 DEF MapOf
    <2>6. PICK r : r = [q EXCEPT !.maps = @ \cup {m}, !.objects[o].mapping = id,
                                 !.objects[o].name = size]
      OBVIOUS
    <2>7. r = Acquire(p, o, size, failing)
      BY <1>i, <1>5, <1>10, <2>1, <2>6 DEF Acquire
    <2>o. PICK objects2 : objects2 = [q.objects EXCEPT ![o] = z]
      OBVIOUS
    <2>p. /\ objects2 \in [Objects -> States]
          /\ q.maps \cup {m} \in SUBSET [id : Nat, size : Nat]
      BY <1>q, <2>2, <2>4, <2>o DEF Processes
    <2>r. r = [q EXCEPT !.maps = q.maps \cup {m}, !.objects = objects2]
      BY ZenonT(60), <1>6, <1>q, <2>3, <2>6, <2>o DEF Processes
    <2>8. /\ r \in Processes
          /\ r.class = q.class /\ r.keepsText = q.keepsText /\ r.right = q.right
          /\ r.fds = q.fds /\ r.maps = q.maps \cup {m} /\ r.last = q.last
          /\ r.objects = [q.objects EXCEPT ![o] = z]
      BY <1>q, <2>o, <2>p, <2>r DEF Processes
    <2>9. Alike(q, r, o) /\ Alike(p, r, o) /\ r.objects[o] = z
      BY <1>6, <1>q, <2>8 DEF Alike, Processes
    <2>10. ASSUME NEW a \in Objects PROVE Owns(r, a)
      <3>1. CASE a = o
        BY <1>3, <1>q, <2>4, <2>5, <2>8, <2>9, <3>1 DEF Owns
      <3>2. CASE a # o
        BY <1>7, <2>8, <2>9, <3>2 DEF Owns, Alike, OwnInv
      <3> QED
        BY <3>1, <3>2
    <2>11. ASSUME NEW f \in r.fds PROVE FdOwned(r, f)
      <3>1. PICK a \in Objects : q.objects[a].fd = f
        BY <1>7, <2>8 DEF OwnInv, FdOwned
      <3>2. r.objects[a].fd = f
        BY <1>y, <1>6, <2>4, <2>9, <3>1 DEF Alike
      <3> QED
        BY <1>7, <2>8, <3>2 DEF OwnInv, FdOwned
    <2>12. ASSUME NEW n \in r.maps PROVE MapOwned(r, n)
      <3>1. CASE n = m
        BY <1>3, <1>q, <2>2, <2>5, <2>8, <2>9, <3>1 DEF MapOwned
      <3>2. CASE n # m
        <4>1. n.id \in 1..Len(p.last) /\ \E a \in Objects : MapOf(p.objects[a]) = n
          BY <1>q, <2>8, <3>2 DEF OwnInv, MapOwned
        <4>2. PICK a \in Objects : MapOf(p.objects[a]) = n
          BY <4>1
        <4>3. a # o
          BY <1>1, <4>1, <4>2 DEF MapOf
        <4> QED
          BY <1>3, <1>q, <2>8, <2>9, <4>1, <4>2, <4>3 DEF MapOwned, Alike
      <3> QED
        BY <3>1, <3>2
    <2>13. ASSUME NEW a \in Objects, a # o PROVE Apart(r, a, o) /\ Apart(r, o, a)
      <3>1. PICK w \in States : w = p.objects[a] /\ w = r.objects[a]
        BY <2>9, <2>13 DEF Alike, OwnInv, Processes
      <3>2. w.fd # id /\ w.mapping # id
        <4>1. /\ w.fd = 0 \/ w.fd \in 1..Len(p.last)
              /\ w.mapping = 0 \/ w.mapping \in 1..Len(p.last)
          BY <3>1 DEF OwnInv, Owns, FdOwned
        <4> QED
          BY <1>3, <4>1
      <3> QED
        BY <2>4, <2>9, <3>1, <3>2 DEF Apart
    <2>14. ASSUME NEW a \in Objects, NEW b \in Objects, a # b PROVE Apart(r, a, b)
      <3>1. CASE a # o /\ b # o
        BY <2>9, <2>14, <3>1 DEF OwnInv, Apart, Alike
      <3> QED
        BY <2>13, <2>14, <3>1
    <2>15. OwnInv(r)
      BY <1>7, <2>8, <2>10, <2>11, <2>12, <2>14 DEF OwnInv
    <2> QED
      BY <1>3, <2>4, <2>7, <2>9, <2>15
  <1> QED
    BY <1>8, <1>9, <1>10

\* An object that owns nothing takes over what another one owns.
LEMMA MoveFromDoes ==
  ASSUME NEW p, OwnInv(p), NEW to \in Objects, NEW from \in Objects, to # from, Released(p, to)
  PROVE  OwnInv(MoveFrom(p, to, from)) /\ MoveFrom(p, to, from).class = p.class
  <1>1. PICK x \in States : x = p.objects[from]
    BY DEF OwnInv, Processes
  <1>2. PICK e : e = [Empty EXCEPT !.name = IF p.keepsText THEN x.name ELSE 0]
    OBVIOUS
  <1>3. e \in States /\ e.fd = 0 /\ e.mapping = 0
    BY <1>2 DEF States, Empty
  <1>4. PICK q : q = MoveFrom(p, to, from)
    OBVIOUS
  <1>5. /\ q \in Processes /\ q.class = p.class /\ q.right = p.right
        /\ q.fds = p.fds /\ q.maps = p.maps /\ q.last = p.last
        /\ q.objects = [p.objects EXCEPT ![to] = x, ![from] = e]
    BY <1>1, <1>2, <1>3, <1>4 DEF MoveFrom, OwnInv, Processes
  <1>6. /\ q.objects[to] = p.objects[from] /\ q.objects[from] = e
        /\ \A a \in Objects : a # to /\ a # from => q.objects[a] = p.objects[a]
    BY <1>1, <1>5 DEF OwnInv, Processes
  <1>7. ASSUME NEW a \in Objects PROVE Owns(q, a)
    <2>1. CASE a = from
      BY <1>3, <1>6, <2>1 DEF Owns
    <2>2. CASE a # from
      BY <1>5, <1>6, <2>2 DEF OwnInv, Owns
    <2> QED
      BY <2>1, <2>2
  <1>8. ASSUME NEW f \in q.fds PROVE FdOwned(q, f)
    <2>1. f \in 1..Len(q.last) /\ f # 0
      BY <1>5 DEF OwnInv, FdOwned, Processes
    <2>2. PICK b \in Objects : p.objects[b].fd = f
      BY <1>5 DEF OwnInv, FdOwned
    <2>3. \E a \in Objects : q.objects[a].fd = f
      BY <1>6, <2>1, <2>2 DEF Released
    <2> QED
      BY <2>1, <2>3 DEF FdOwned
  <1>9. ASSUME NEW m \in q.maps PROVE MapOwned(q, m)
    <2>1. m.id \in 1..Len(q.last) /\ m.id # 0
      BY <1>5 DEF OwnInv, MapOwned, Processes
    <2>2. PICK b \in Objects : MapOf(p.objects[b]) = m
      BY <1>5 DEF OwnInv, MapOwned
    <2>3. b # to
      BY <2>1, <2>2 DEF MapOf, Released
    <2>4. \E a \in Objects : MapOf(q.objects[a]) = m
      BY <1>6, <2>2, <2>3
    <2> QED
      BY <2>1, <2>4 DEF MapOwned
  <1>10. ASSUME NEW a \in Objects, NEW b \in Objects, a # b PROVE Apart(q, a, b)
    <2>1. CASE a = from \/ b = from
      BY <1>3, <1>6, <2>1 DEF Apart
    <2>2. CASE a # from /\ b # from
      BY <1>6, <1>10, <2>2 DEF OwnInv, Apart
    <2> QED
      BY <2>1, <2>2
  <1> QED
    BY <1>4, <1>5, <1>7, <1>8, <1>9, <1>10 DEF OwnInv

\* A ring writes its next number into the object it maps.
LEMMA WriteDoes ==
  ASSUME NEW p, OwnInv(p), NEW o \in Objects
  PROVE  OwnInv(Write(p, o)) /\ Write(p, o).class = p.class
  <1>1. PICK x \in States : x = p.objects[o]
    BY DEF OwnInv, Processes
  <1>2. CASE x.mapping = 0
    BY <1>1, <1>2 DEF Write
  <1>3. CASE x.mapping # 0
    <2>1. /\ x.mapping \in 1..Len(p.last) /\ x.next > p.last[x.mapping] /\ x.name = x.total
          /\ MapOf(x) \in p.maps /\ (x.fd # 0 => x.fd \in p.fds)
      BY <1>1, <1>3 DEF OwnInv, Owns
    <2>2. PICK y : y = [x EXCEPT !.next = @ + 2]
      OBVIOUS
    <2>3. /\ y \in States /\ y.fd = x.fd /\ y.mapping = x.mapping /\ y.total = x.total
          /\ y.name = x.name /\ y.next = x.next + 2
      BY <2>2 DEF States
    <2>4. MapOf(y) = MapOf(x)
      BY <2>3 DEF MapOf
    <2>5. PICK last : last = [p.last EXCEPT ![x.mapping] = x.next]
      OBVIOUS
    <2>6. /\ last \in Seq(Nat) /\ Len(last) = Len(p.last) /\ last[x.mapping] = x.next
          /\ \A i \in 1..Len(p.last) : i # x.mapping => last[i] = p.last[i]
      BY <2>1, <2>5 DEF OwnInv, Processes, States
    <2>7. PICK q : q = Write(p, o)
      OBVIOUS
    <2>8. /\ q \in Processes /\ q.class = p.class /\ q.right = p.right
          /\ q.fds = p.fds /\ q.maps = p.maps /\ q.last = last
          /\ q.objects = [p.objects EXCEPT ![o] = y]
      BY <1>1, <1>3, <2>2, <2>3, <2>5, <2>6, <2>7 DEF Write, OwnInv, Processes
    <2>9. /\ q.objects[o] = y
          /\ \A a \in Objects : a # o => q.objects[a] = p.objects[a]
      BY <2>8 DEF OwnInv, Processes
    <2>10. ASSUME NEW a \in Objects PROVE Owns(q, a)
      <3>1. CASE a = o
        <4>1. y.next > last[y.mapping]
          BY <2>3, <2>6 DEF States
        <4> QED
          BY <2>1, <2>3, <2>4, <2>6, <2>8, <2>9, <3>1, <4>1 DEF Owns
      <3>2. CASE a # o
        <4>1. p.objects[a].mapping # x.mapping
          BY <1>1, <1>3, <3>2 DEF OwnInv, Apart
        <4> QED
          BY <2>6, <2>8, <2>9, <3>2, <4>1 DEF OwnInv, Owns
      <3> QED
        BY <3>1, <3>2
    <2>11. ASSUME NEW f \in q.fds PROVE FdOwned(q, f)
      BY SMTT(30), <1>1, <2>3, <2>6, <2>8, <2>9 DEF OwnInv, FdOwned
    <2>12. ASSUME NEW m \in q.maps PROVE MapOwned(q, m)
      BY SMTT(30), <1>1, <2>4, <2>6, <2>8, <2>9 DEF OwnInv, MapOwned
    <2>13. ASSUME NEW a \in Objects, NEW b \in Objects, a # b PROVE Apart(q, a, b)
      BY <1>1, <2>3, <2>9, <2>13 DEF OwnInv, Apart
    <2> QED
      BY <2>7, <2>8, <2>10, <2>11, <2>12, <2>13 DEF OwnInv
  <1> QED
    BY <1>2, <1>3

\* create() and open(): the object that was asked for is mapped afterwards, or the
\* call throws.
LEMMA AcquiredDoes ==
  ASSUME NEW p, OwnInv(p), NEW o \in Objects, NEW size \in Sizes,
         NEW failing \in {"nothing", "shm_open", "mmap"}
  PROVE  OwnInv(Acquired(p, o, size, failing)) /\ Acquired(p, o, size, failing).class = p.class
  <1>1. PICK c : c = Close(p, o)
    OBVIOUS
  <1>2. OwnInv(c) /\ Released(c, o) /\ Alike(p, c, o)
    BY <1>1, CloseDoes
  <1>3. PICK q : q = IF p.class = "ring" THEN Create(p, o, size, failing)
                     ELSE Open(p, o, size, failing)
    OBVIOUS
  <1>4. /\ OwnInv(q) /\ q.class = p.class
        /\ failing = "nothing" => q.objects[o].mapping # 0 /\ q.objects[o].total = size
    <2>1. CASE p.class = "ring"
      <3>1. PICK d : d = ClosedBeforeSized(p, o, size)
        OBVIOUS
      <3>2. PICK x \in States : x = c.objects[o] /\ x.fd = 0 /\ x.mapping = 0
        BY <1>2 DEF OwnInv, Processes, Released
      <3>3. PICK y : y = [x EXCEPT !.total = size, !.next = 2]
        OBVIOUS
      <3>4. y \in States /\ y.fd = 0 /\ y.mapping = 0
        <4>1. size \in Nat /\ 2 \in Nat \ {0}
          BY OwnershipAssumption
        <4>2. y \in States
          BY <3>3, <4>1 DEF States
        <4>3. y.fd = x.fd /\ y.mapping = x.mapping
          BY <3>3 DEF States
        <4> QED
          BY <3>2, <4>2, <4>3
      <3>5. /\ d \in Processes /\ d.class = c.class /\ d.keepsText = c.keepsText
            /\ d.right = c.right /\ d.fds = c.fds /\ d.maps = c.maps /\ d.last = c.last
            /\ d.objects = [c.objects EXCEPT ![o] = y]
        BY <1>1, <1>2, <3>1, <3>2, <3>3, <3>4 DEF ClosedBeforeSized, OwnInv, Processes
      <3>6. Released(d, o) /\ Alike(c, d, o)
        BY <1>2, <3>4, <3>5 DEF Released, Alike, OwnInv, Processes
      <3>7. OwnInv(d)
        BY <1>2, <3>5, <3>6, Indifferent
      <3>8. q = Acquire(d, o, size, failing)
        BY <1>3, <2>1, <3>1 DEF Create
      <3> QED
        BY <1>2, <3>6, <3>7, <3>8, AcquireDoes DEF Alike
    <2>2. CASE p.class # "ring" /\ ~Cached(p.objects[o], size)
      <3>1. q = Acquire(c, o, size, failing)
        BY <1>1, <1>3, <2>2 DEF Open
      <3> QED
        BY <1>2, <3>1, AcquireDoes DEF Alike
    <2>3. CASE p.class # "ring" /\ Cached(p.objects[o], size)
      <3>1. q = p
        BY <1>3, <2>3 DEF Open
      <3>2. p.objects[o].mapping # 0 /\ p.objects[o].total = size
        BY <2>3 DEF Cached, OwnInv, Owns
      <3> QED
        BY <3>1, <3>2
    <2> QED
      BY <2>1, <2>2, <2>3
  <1>5. Acquired(p, o, size, failing) = q
    <2>1. PICK b \in BOOLEAN : b = (q.right /\ (failing = "nothing" =>
                 q.objects[o].mapping # 0 /\ q.objects[o].total = size))
      OBVIOUS
    <2>2. Acquired(p, o, size, failing) = [q EXCEPT !.right = b]
      BY <1>3, <2>1 DEF Acquired
    <2>3. b = q.right
      BY <1>4, <2>1 DEF OwnInv, Processes
    <2> QED
      BY <1>4, <2>2, <2>3 DEF OwnInv, Processes
  <1> QED
    BY <1>4, <1>5

LEMMA DestroyDoes ==
  ASSUME NEW p, OwnInv(p), NEW o \in Objects
  PROVE  OwnInv(Destroy(p, o)) /\ Released(Destroy(p, o), o) /\ Destroy(p, o).class = p.class
  <1>1. PICK c : c = Close(p, o)
    OBVIOUS
  <1>2. OwnInv(c) /\ Released(c, o) /\ Alike(p, c, o)
    BY <1>1, CloseDoes
  <1>3. Empty \in States /\ Empty.fd = 0 /\ Empty.mapping = 0
    BY DEF Empty, States
  <1>4. PICK d : d = Destroy(p, o)
    OBVIOUS
  <1>5. /\ d \in Processes /\ d.class = c.class /\ d.keepsText = c.keepsText
        /\ d.right = c.right /\ d.fds = c.fds /\ d.maps = c.maps /\ d.last = c.last
        /\ d.objects = [c.objects EXCEPT ![o] = Empty]
    BY <1>1, <1>2, <1>3, <1>4 DEF Destroy, OwnInv, Processes
  <1>6. Released(d, o) /\ Alike(c, d, o)
    BY <1>2, <1>3, <1>5 DEF Released, Alike, OwnInv, Processes
  <1>7. OwnInv(d)
    BY <1>2, <1>5, <1>6, Indifferent
  <1> QED
    BY <1>2, <1>4, <1>6, <1>7 DEF Alike

LEMMA PerformDoes ==
  ASSUME NEW p, OwnInv(p), NEW call \in Calls(p.class)
  PROVE  OwnInv(Perform(p, call)) /\ Perform(p, call).class = p.class
  <1>1. CASE call \in [op : {"acquire"}, object : Objects, size : Sizes,
                       failing : {"nothing", "shm_open", "mmap"}]
    BY <1>1, AcquiredDoes DEF Perform
  <1>2. CASE call \in [op : {"close", "destroy"}, object : Objects]
    <2>1. CASE call.op = "close"
      BY <1>2, <2>1, CloseDoes DEF Perform, Alike
    <2>2. CASE call.op = "destroy"
      BY <1>2, <2>2, DestroyDoes DEF Perform
    <2> QED
      BY <1>2, <2>1, <2>2
  <1>3. CASE call \in [op : {"write"}, object : Objects]
    BY <1>3, WriteDoes DEF Perform
  <1>4. CASE call \in [op : {"assign"}, object : Objects, from : Objects]
    <2>1. Perform(p, call) = MoveAssign(p, call.object, call.from)
      BY <1>4 DEF Perform
    <2>2. CASE call.object = call.from
      BY <2>1, <2>2 DEF MoveAssign
    <2>3. CASE call.object # call.from
      <3>1. PICK c : c = Close(p, call.object)
        OBVIOUS
      <3>2. OwnInv(c) /\ Released(c, call.object) /\ c.class = p.class
        BY <1>4, <3>1, CloseDoes DEF Alike
      <3>3. Perform(p, call) = MoveFrom(c, call.object, call.from)
        BY <2>1, <2>3, <3>1 DEF MoveAssign
      <3> QED
        BY <1>4, <2>3, <3>2, <3>3, MoveFromDoes
    <2> QED
      BY <2>2, <2>3
  <1>5. CASE /\ call \in [op : {"construct"}, object : Objects, from : Objects]
             /\ call.object # call.from
    <2>1. PICK c : c = Destroy(p, call.object)
      OBVIOUS
    <2>2. OwnInv(c) /\ Released(c, call.object) /\ c.class = p.class
      BY <1>5, <2>1, DestroyDoes
    <2>3. Perform(p, call) = MoveFrom(c, call.object, call.from)
      BY <1>5, <2>1 DEF Perform, MoveConstruct
    <2> QED
      BY <1>5, <2>2, <2>3, MoveFromDoes
  <1> QED
    BY <1>1, <1>2, <1>3, <1>4, <1>5 DEF Calls

--------------------------------------------------------------------------------
(* Jobs                                                                     *)

OwnershipJobs ==
  [kind : {"ownership"}, class : {"ring", "handle"}, keepsText : BOOLEAN, calls : Nat]

\* Only the calls that are left of a job change.
JobInv ==
  /\ job.kind = "ownership" => job \in OwnershipJobs
  /\ job.kind # "ownership" => job \in Jobs

Convert == OpenByName \/ MeetOnTopic \/ LayOut \/ CarryMessage \/ LoadImage \/ LoadCloud

LEMMA Stepwise ==
  ASSUME JobInv, [Next]_vars
  PROVE  \/ UNCHANGED vars
         \/ MoveObjects /\ job.kind = "ownership" /\ job' \in OwnershipJobs /\ job'.class = job.class
         \/ UNCHANGED job /\ job.kind # "ownership" /\ Convert
  <1>1. CASE MoveObjects
    <2>1. job.kind = "ownership" /\ job.calls > 0 /\ job' = [job EXCEPT !.calls = @ - 1]
      BY <1>1 DEF MoveObjects
    <2> QED
      BY <1>1, <2>1 DEF JobInv, OwnershipJobs
  <1>2. CASE Convert
    BY <1>2 DEF Convert, OpenByName, MeetOnTopic, LayOut, CarryMessage, LoadImage, LoadCloud
  <1> QED
    BY <1>1, <1>2 DEF Next, Convert

LEMMA JobsStay == Spec => []JobInv
  <1>1. Init => JobInv
    BY JobsAssumption DEF Init, JobInv, OwnershipJobs
  <1>2. JobInv /\ [Next]_vars => JobInv'
    BY Stepwise DEF JobInv, OwnershipJobs, vars
  <1> QED
    BY <1>1, <1>2, PTL DEF Spec

\* No call loses a descriptor or a mapping, gives one back twice or not whole, for any
\* number of objects, whichever system calls fail.
THEOREM EverythingIsOwnedOnce == Spec => []OwnedOnce
  <1> DEFINE Inv == job.kind = "ownership" => \A d \in done : OwnInv(d) /\ d.class = job.class
  <1>1. Init => Inv
    <2> SUFFICES ASSUME Init, job.kind = "ownership"
                 PROVE  \A d \in done : OwnInv(d) /\ d.class = job.class
      OBVIOUS
    <2>1. job \in OwnershipJobs /\ done = {NewProcess(job.class, job.keepsText)}
      BY JobsAssumption DEF Init, OwnershipJobs
    <2>2. PICK p : p = NewProcess(job.class, job.keepsText)
      OBVIOUS
    <2>3. PICK e : e = Empty
      OBVIOUS
    <2>4. e \in States /\ e.fd = 0 /\ e.mapping = 0
      BY <2>3 DEF Empty, States
    <2>5. /\ p \in Processes /\ p.class = job.class /\ p.right /\ p.fds = {} /\ p.maps = {}
          /\ p.objects = [o \in Objects |-> e]
      BY <2>1, <2>2, <2>3, <2>4 DEF NewProcess, Processes, OwnershipJobs
    <2>6. OwnInv(p)
      BY <2>4, <2>5 DEF OwnInv, Owns, Apart
    <2> QED
      BY <2>1, <2>2, <2>5, <2>6
  <1>2. JobInv /\ Inv /\ [Next]_vars => Inv'
    <2> SUFFICES ASSUME JobInv, Inv, [Next]_vars PROVE Inv'
      OBVIOUS
    <2>1. CASE MoveObjects /\ job.kind = "ownership" /\ job'.class = job.class
      <3>1. PICK call \in Calls(job.class) : done' = {Perform(d, call) : d \in done}
        BY <2>1 DEF MoveObjects
      <3>2. \A d \in done : OwnInv(Perform(d, call)) /\ Perform(d, call).class = job.class
        BY <2>1, PerformDoes
      <3> QED
        BY <2>1, <3>1, <3>2
    <2>2. CASE UNCHANGED job /\ job.kind # "ownership"
      BY <2>2
    <2>3. CASE UNCHANGED vars
      BY <2>3 DEF vars
    <2> QED
      BY <2>1, <2>2, <2>3, Stepwise
  <1>3. Inv => OwnedOnce
    <2> SUFFICES ASSUME NEW d \in done, OwnInv(d)
                 PROVE  LET owners == {o \in Objects : d.objects[o].mapping # 0}
                            holders == {o \in Objects : d.objects[o].fd # 0}
                        IN  /\ d.right
                            /\ d.maps = {MapOf(d.objects[o]) : o \in owners}
                            /\ \A a, b \in owners :
                                 MapOf(d.objects[a]) = MapOf(d.objects[b]) => a = b
                            /\ d.fds = {d.objects[o].fd : o \in holders}
                            /\ \A a, b \in holders : d.objects[a].fd = d.objects[b].fd => a = b
                            /\ \A o \in owners : d.objects[o].next > d.last[d.objects[o].mapping]
      BY DEF OwnedOnce
    <2> DEFINE owners == {o \in Objects : d.objects[o].mapping # 0}
               holders == {o \in Objects : d.objects[o].fd # 0}
    <2>1. d.right /\ \A o \in owners : d.objects[o].next > d.last[d.objects[o].mapping]
      BY DEF OwnInv, Owns
    <2>2. d.maps = {MapOf(d.objects[o]) : o \in owners}
      <3>1. ASSUME NEW m \in d.maps PROVE \E o \in owners : m = MapOf(d.objects[o])
        <4>1. m.id \in 1..Len(d.last) /\ m.id # 0
          BY DEF OwnInv, MapOwned, Processes
        <4>2. PICK o \in Objects : MapOf(d.objects[o]) = m
          BY DEF OwnInv, MapOwned
        <4>3. d.objects[o].mapping # 0
          BY <4>1, <4>2 DEF MapOf
        <4> QED
          BY <4>2, <4>3
      <3>2. \A o \in owners : MapOf(d.objects[o]) \in d.maps
        BY DEF OwnInv, Owns
      <3> QED
        BY <3>1, <3>2
    <2>3. ASSUME NEW a \in owners, NEW b \in owners, MapOf(d.objects[a]) = MapOf(d.objects[b])
          PROVE  a = b
      <3>1. d.objects[a].mapping = d.objects[b].mapping
        BY <2>3 DEF MapOf
      <3> QED
        BY <3>1 DEF OwnInv, Apart
    <2>4. d.fds = {d.objects[o].fd : o \in holders}
      <3>1. ASSUME NEW f \in d.fds PROVE \E o \in holders : f = d.objects[o].fd
        <4>1. f # 0 /\ \E o \in Objects : d.objects[o].fd = f
          BY DEF OwnInv, FdOwned, Processes
        <4> QED
          BY <4>1
      <3>2. \A o \in holders : d.objects[o].fd \in d.fds
        BY DEF OwnInv, Owns
      <3> QED
        BY <3>1, <3>2
    <2>5. \A a, b \in holders : d.objects[a].fd = d.objects[b].fd => a = b
      BY DEF OwnInv, Apart
    <2> QED
      BY <2>1, <2>2, <2>3, <2>4, <2>5
  <1> QED
    BY <1>1, <1>2, <1>3, JobsStay, PTL DEF Spec

--------------------------------------------------------------------------------
(* Layout                                                                   *)

LEMMA Products ==
  ASSUME NEW s \in Nat, NEW t \in Nat, NEW k \in Nat, s < t
  PROVE  s * k + k <= t * k /\ s * k \in Nat /\ t * k \in Nat
  <1>1. t - s >= 1 /\ t - s \in Nat
    OBVIOUS
  <1>2. (t - s) * k >= k
    <2>1. ASSUME NEW d \in Nat, d >= 1 PROVE d * k >= k
      BY <2>1
    <2> QED
      BY <1>1, <2>1
  <1>3. (t - s) * k = t * k - s * k
    OBVIOUS
  <1> QED
    BY <1>2, <1>3

\* Numbers below the word are not wrapped.
LEMMA NotWrapped == ASSUME NEW n \in Nat, n < Word PROVE Wrapped(n) = n
  BY LayoutAssumption DEF Wrapped

\* Where the parts of a ring are whose exact total is below the word.
LEMMA Offsets ==
  ASSUME NEW count \in Nat, NEW size \in Nat, ExactTotal(count, size) < Word
  PROVE  /\ TotalSize(count, size) = ExactTotal(count, size)
         /\ \A s \in 0..(count - 1) :
              /\ SlotHeaderOffset(s) = HeaderSize + s * SlotHeaderSize
              /\ PayloadOffset(count, size, s) =
                   HeaderSize + count * SlotHeaderSize + s * size
  <1>1. /\ count * SlotHeaderSize \in Nat /\ count * size \in Nat
        /\ HeaderSize \in Nat /\ SlotHeaderSize \in Nat
    BY LayoutAssumption
  <1>2. HeaderSize + count * SlotHeaderSize + count * size < Word
    BY DEF ExactTotal
  <1>3. PayloadBaseOffset(count) = HeaderSize + count * SlotHeaderSize
    <2>1. Wrapped(count * SlotHeaderSize) = count * SlotHeaderSize
      BY <1>1, <1>2, NotWrapped, LayoutAssumption
    <2> QED
      BY <1>1, <1>2, <2>1, NotWrapped, LayoutAssumption DEF PayloadBaseOffset
  <1>4. TotalSize(count, size) = ExactTotal(count, size)
    <2>1. Wrapped(count * size) = count * size
      BY <1>1, <1>2, NotWrapped, LayoutAssumption
    <2> QED
      BY <1>1, <1>2, <1>3, <2>1, NotWrapped, LayoutAssumption DEF TotalSize, ExactTotal
  <1>5. ASSUME NEW s \in 0..(count - 1)
        PROVE  /\ SlotHeaderOffset(s) = HeaderSize + s * SlotHeaderSize
               /\ PayloadOffset(count, size, s) = HeaderSize + count * SlotHeaderSize + s * size
    <2>1. /\ s * SlotHeaderSize + SlotHeaderSize <= count * SlotHeaderSize
          /\ s * size + size <= count * size
          /\ s * SlotHeaderSize \in Nat /\ s * size \in Nat
      BY <1>1, Products
    <2>2. Wrapped(s * SlotHeaderSize) = s * SlotHeaderSize /\ Wrapped(s * size) = s * size
      BY <1>1, <1>2, <2>1, NotWrapped, LayoutAssumption
    <2>3. SlotHeaderOffset(s) = HeaderSize + s * SlotHeaderSize
      BY <1>1, <1>2, <2>1, <2>2, NotWrapped, LayoutAssumption DEF SlotHeaderOffset
    <2>4. PayloadOffset(count, size, s) = HeaderSize + count * SlotHeaderSize + s * size
      BY <1>1, <1>2, <1>3, <2>1, <2>2, NotWrapped, LayoutAssumption DEF PayloadOffset
    <2> QED
      BY <2>3, <2>4
  <1> QED
    BY <1>4, <1>5

Laid(d, count, size) ==
  /\ d.total = TotalSize(count, size) /\ d.exact = ExactTotal(count, size) /\ d.size = size
  /\ d.headers = [s \in 0..(count - 1) |-> SlotHeaderOffset(s)]
  /\ d.payloads = [s \in 0..(count - 1) |-> PayloadOffset(count, size, s)]

LEMMA LayOutDoes ==
  ASSUME JobInv, LayOut
  PROVE  \A d \in done' : \E count \in Nat, size \in Nat : Laid(d, count, size)
  <1>1. /\ job.kind = "layout" /\ UNCHANGED job /\ CreateAccepts(job.host, job.count, job.size)
        /\ job.host \in {"relay", "plugin"} /\ job.count \in Int /\ job.size \in Int
    BY JobsAssumption DEF LayOut, JobInv
  <1>2. PICK count : count = SlotCountOf(job.host, job.count)
    OBVIOUS
  <1>3. PICK size : size = SlotSizeOf(job.host, job.size)
    OBVIOUS
  <1>4. count \in Nat
    BY <1>1, <1>2 DEF SlotCountOf, CreateAccepts, AtLeast
  <1>5. size \in Nat
    BY <1>1, <1>3, LayoutAssumption DEF SlotSizeOf, AtLeast, Wrapped
  <1>6. PICK d : d = [total |-> TotalSize(count, size), exact |-> ExactTotal(count, size),
                      size |-> size,
                      headers |-> [s \in 0..(count - 1) |-> SlotHeaderOffset(s)],
                      payloads |-> [s \in 0..(count - 1) |-> PayloadOffset(count, size, s)]]
    OBVIOUS
  <1>7. done' = {d}
    BY <1>2, <1>3, <1>6 DEF LayOut
  <1>8. Laid(d, count, size)
    BY <1>6 DEF Laid
  <1> QED
    BY <1>4, <1>5, <1>7, <1>8

\* Slot headers and payloads of a ring of any size and count are apart and inside the
\* object, if the exact total is below the word.
THEOREM SlotsNeverOverlap == Spec => []SlotsAreDisjoint
  <1> DEFINE Inv == job.kind = "layout" =>
               \A d \in done : \E count \in Nat, size \in Nat : Laid(d, count, size)
  <1>1. Init => Inv
    BY DEF Init
  <1>2. JobInv /\ Inv /\ [Next]_vars => Inv'
    <2> SUFFICES ASSUME JobInv, Inv, [Next]_vars PROVE Inv'
      OBVIOUS
    <2>1. CASE LayOut
      BY <2>1, LayOutDoes
    <2>2. CASE Convert /\ UNCHANGED job /\ ~LayOut
      BY <2>2 DEF Convert, OpenByName, MeetOnTopic, CarryMessage, LoadImage, LoadCloud
    <2>3. CASE UNCHANGED vars
      BY <2>3 DEF vars
    <2>4. CASE job' \in OwnershipJobs
      BY <2>4 DEF OwnershipJobs
    <2> QED
      BY <2>1, <2>2, <2>3, <2>4, Stepwise
  <1>3. Inv => SlotsAreDisjoint
    <2> SUFFICES ASSUME NEW d \in done, NEW count \in Nat, NEW size \in Nat,
                        Laid(d, count, size), d.exact < Word
                 PROVE  LET Part(first, length) == first..(first + length - 1)
                            slots == DOMAIN d.headers
                            parts ==
                              {<<"header", s, Part(d.headers[s], SlotHeaderSize)>> : s \in slots}
                              \cup {<<"payload", s, Part(d.payloads[s], d.size)>> : s \in slots}
                        IN  /\ \A p \in parts : p[3] \subseteq HeaderSize..(d.total - 1)
                            /\ \A p, q \in parts : p[3] \cap q[3] # {} => p = q
      BY DEF SlotsAreDisjoint
    <2> DEFINE slots == 0..(count - 1)
               H(s) == HeaderSize + s * SlotHeaderSize
               P(s) == HeaderSize + count * SlotHeaderSize + s * size
               header(s) == <<"header", s, H(s)..(H(s) + SlotHeaderSize - 1)>>
               payload(s) == <<"payload", s, P(s)..(P(s) + size - 1)>>
               parts == {header(s) : s \in slots} \cup {payload(s) : s \in slots}
    <2>1. /\ d.total = HeaderSize + count * SlotHeaderSize + count * size
          /\ DOMAIN d.headers = slots /\ d.size = size
          /\ \A s \in slots : d.headers[s] = H(s) /\ d.payloads[s] = P(s)
      BY Offsets DEF Laid, ExactTotal
    <2>2. /\ HeaderSize \in Nat /\ SlotHeaderSize \in Nat
          /\ count * SlotHeaderSize \in Nat /\ count * size \in Nat
      BY LayoutAssumption
    <2>3. ASSUME NEW s \in slots
          PROVE  /\ H(s) \in Nat /\ HeaderSize <= H(s) /\ H(s) + SlotHeaderSize <= P(0)
                 /\ P(s) \in Nat /\ P(0) <= P(s) /\ P(s) + size <= d.total
      <3>1. /\ s * SlotHeaderSize + SlotHeaderSize <= count * SlotHeaderSize
            /\ s * size + size <= count * size
            /\ s * SlotHeaderSize \in Nat /\ s * size \in Nat
        BY <2>2, Products
      <3>2. P(0) = HeaderSize + count * SlotHeaderSize
        <4>1. 0 * size = 0
          OBVIOUS
        <4> QED
          BY <2>2, <4>1
      <3> DEFINE u == s * SlotHeaderSize
                 v == s * size
                 m == count * SlotHeaderSize
                 n == count * size
      <3>3. H(s) = HeaderSize + u /\ P(s) = HeaderSize + m + v
        OBVIOUS
      <3>4. /\ u \in Nat /\ v \in Nat /\ m \in Nat /\ n \in Nat
            /\ u + SlotHeaderSize <= m /\ v + size <= n
            /\ d.total = HeaderSize + m + n
        BY <2>1, <2>2, <3>1
      <3>5. P(0) = HeaderSize + m
        BY <3>2
      <3> HIDE DEF u, v, m, n, H, P
      <3> QED
        BY <2>2, <3>5, <3>3, <3>4
    <2>4. ASSUME NEW s \in slots, NEW t \in slots, s < t
          PROVE  H(s) + SlotHeaderSize <= H(t) /\ P(s) + size <= P(t)
      <3>1. /\ s * SlotHeaderSize + SlotHeaderSize <= t * SlotHeaderSize
            /\ s * size + size <= t * size
            /\ s * SlotHeaderSize \in Nat /\ s * size \in Nat
            /\ t * SlotHeaderSize \in Nat /\ t * size \in Nat
        BY <2>2, <2>4, Products
      <3> QED
        BY <2>2, <3>1
    <2>5. /\ P(0) \in Nat /\ HeaderSize <= P(0) /\ P(0) <= d.total
      BY <2>1, <2>2
    <2> HIDE DEF H, P
    <2>6. \A p \in parts : p[3] \subseteq HeaderSize..(d.total - 1)
      <3>1. ASSUME NEW s \in slots PROVE header(s)[3] \subseteq HeaderSize..(d.total - 1)
        BY <2>1, <2>2, <2>3, <2>5, <3>1
      <3>2. ASSUME NEW s \in slots PROVE payload(s)[3] \subseteq HeaderSize..(d.total - 1)
        BY <2>1, <2>2, <2>3, <2>5, <3>2
      <3> QED
        BY <3>1, <3>2
    <2>7. \A p, q \in parts : p[3] \cap q[3] # {} => p = q
      <3>1. ASSUME NEW s \in slots, NEW t \in slots, s # t
            PROVE  /\ header(s)[3] \cap header(t)[3] = {}
                   /\ payload(s)[3] \cap payload(t)[3] = {}
        <4>1. s < t \/ t < s
          BY <3>1
        <4> QED
          BY <2>2, <2>3, <2>4, <4>1
      <3>2. ASSUME NEW s \in slots, NEW t \in slots
            PROVE  header(s)[3] \cap payload(t)[3] = {}
        BY <2>2, <2>3, <2>5
      <3> HIDE DEF header, payload
      <3> QED
        BY <3>1, <3>2
    <2>8. parts = {<<"header", s, (d.headers[s])..(d.headers[s] + SlotHeaderSize - 1)>> :
                     s \in DOMAIN d.headers} \cup
                  {<<"payload", s, (d.payloads[s])..(d.payloads[s] + d.size - 1)>> :
                     s \in DOMAIN d.headers}
      BY <2>1
    <2> QED
      BY <2>6, <2>7, <2>8
  <1> QED
    BY <1>1, <1>2, <1>3, JobsStay, PTL DEF Spec

--------------------------------------------------------------------------------
(* Messages                                                                 *)

Types == {"CompressedImage", "Image", "PointCloud2"}

\* Both languages translate every field of every type, in both directions.
LEMMA AllFieldsAreTranslated ==
  ASSUME NEW type \in Types
  PROVE  /\ CppEncodes(type) = RosFields(type) /\ PyEncodes(type) = RosFields(type)
         /\ CppDecodes(type) = RosFields(type) /\ PyDecodes(type) = RosFields(type)
  <1>1. CASE type = "CompressedImage"
    BY <1>1 DEF RosFields, CppEncodes, PyEncodes, CppDecodes, PyDecodes
  <1>2. CASE type = "Image"
    BY <1>2 DEF RosFields, CppEncodes, PyEncodes, CppDecodes, PyDecodes
  <1>3. CASE type = "PointCloud2"
    BY <1>3 DEF RosFields, CppEncodes, PyEncodes, CppDecodes, PyDecodes
  <1> QED
    BY <1>1, <1>2, <1>3 DEF Types

\* A message of any type arrives with its fields, for every pairing of languages.
THEOREM FieldsSurvive == Spec => []MessagesSurvive
  <1> DEFINE Carried == Decoded(job.reader, job.type, Encoded(job.writer, job.type, job.values))
             Inv == job.kind = "message" => done \subseteq {Carried}
  <1>1. Init => Inv
    BY DEF Init
  <1>2. JobInv /\ Inv /\ [Next]_vars => Inv'
    <2> SUFFICES ASSUME JobInv, Inv, [Next]_vars PROVE Inv'
      OBVIOUS
    <2>1. CASE CarryMessage
      BY <2>1 DEF CarryMessage
    <2>2. CASE Convert /\ UNCHANGED job /\ ~CarryMessage
      BY <2>2 DEF Convert, OpenByName, MeetOnTopic, LayOut, LoadImage, LoadCloud
    <2>3. CASE UNCHANGED vars
      BY <2>3 DEF vars
    <2>4. CASE job' \in OwnershipJobs
      BY <2>4 DEF OwnershipJobs
    <2> QED
      BY <2>1, <2>2, <2>3, <2>4, Stepwise
  <1>3. JobInv /\ Inv => MessagesSurvive
    <2> SUFFICES ASSUME JobInv, Inv, job.kind = "message", NEW d \in done,
                        NEW f \in RosFields(job.type)
                 PROVE  IF f = "is_bigendian" THEN (d[f] # 0) = (job.values[f] # 0)
                        ELSE d[f] = job.values[f]
      BY DEF MessagesSurvive
    <2>1. job.type \in Types
      BY JobsAssumption DEF JobInv, OwnershipJobs, Types
    <2>2. PICK e : e = Encoded(job.writer, job.type, job.values)
      OBVIOUS
    <2>3. e[f] = IF f = "is_bigendian" THEN (IF job.values[f] # 0 THEN 1 ELSE 0)
                 ELSE job.values[f]
      BY <2>1, <2>2, AllFieldsAreTranslated DEF Encoded, Translated
    <2>4. d = Decoded(job.reader, job.type, e)
      BY <2>2
    <2>5. d[f] = IF f = "is_bigendian" THEN (IF e[f] # 0 THEN 1 ELSE 0) ELSE e[f]
      BY <2>1, <2>4, AllFieldsAreTranslated DEF Decoded, Translated
    <2> QED
      BY <2>3, <2>5
  <1> QED
    BY <1>1, <1>2, <1>3, JobsStay, PTL DEF Spec

--------------------------------------------------------------------------------
(* Arrays                                                                   *)

LEMMA MinOfTwo ==
  ASSUME NEW a \in Int, NEW b \in Int
  PROVE  Min({a, b}) = IF a <= b THEN a ELSE b
  <1>1. PICK m : m = IF a <= b THEN a ELSE b
    OBVIOUS
  <1>2. m \in {a, b} /\ \A y \in {a, b} : m <= y
    BY <1>1
  <1>3. \A x \in {a, b} : (\A y \in {a, b} : x <= y) => x = m
    BY <1>1
  <1>4. (CHOOSE x \in {a, b} : \A y \in {a, b} : x <= y) = m
    BY <1>2, <1>3
  <1> QED
    BY <1>1, <1>4 DEF Min

LEMMA PieceIs ==
  ASSUME NEW data \in Seq(Nat), NEW first \in Nat, NEW size \in Nat,
         first + size <= Len(data)
  PROVE  /\ Piece(data, first, size) \in Seq(Nat)
         /\ Len(Piece(data, first, size)) = size
         /\ \A i \in 1..size : Piece(data, first, size)[i] = data[first + i]
  <1>1. PICK a \in Int, b \in Int : a = first + 1 /\ b = first + size
    OBVIOUS
  <1>2. \A i \in a..b : data[i] \in Nat
    BY <1>1, ElementOfSeq
  <1>3. PICK s : s = SubSeq(data, a, b)
    OBVIOUS
  <1>4. /\ s \in Seq(Nat) /\ Len(s) = IF a <= b THEN b - a + 1 ELSE 0
        /\ \A i \in 1..(b - a + 1) : s[i] = data[a + i - 1]
    BY <1>2, <1>3, SubSeqProperties
  <1>5. Len(s) = size
    BY <1>1, <1>4
  <1>6. ASSUME NEW i \in 1..size PROVE s[i] = data[first + i]
    <2>1. i \in 1..(b - a + 1) /\ a + i - 1 = first + i
      BY <1>1
    <2> QED
      BY <1>4, <2>1
  <1>7. Piece(data, first, size) = s
    BY <1>1, <1>3 DEF Piece
  <1> QED
    BY <1>4, <1>5, <1>6, <1>7

\* A piece of a piece is a piece.
LEMMA PieceOfPiece ==
  ASSUME NEW data \in Seq(Nat), NEW first \in Nat, NEW size \in Nat,
         first + size <= Len(data),
         NEW inner \in Nat, NEW length \in Nat, inner + length <= size
  PROVE  Piece(Piece(data, first, size), inner, length) = Piece(data, first + inner, length)
  <1>1. PICK outer : outer = Piece(data, first, size)
    OBVIOUS
  <1>2. /\ outer \in Seq(Nat) /\ Len(outer) = size
        /\ \A i \in 1..size : outer[i] = data[first + i]
    BY <1>1, PieceIs
  <1>3. PICK s : s = Piece(outer, inner, length)
    OBVIOUS
  <1>f. PICK from \in Nat : from = first + inner /\ from + length <= Len(data)
    OBVIOUS
  <1>4. PICK t : t = Piece(data, from, length)
    OBVIOUS
  <1>5. /\ s \in Seq(Nat) /\ Len(s) = length
        /\ \A i \in 1..length : s[i] = outer[inner + i]
    <2>1. outer \in Seq(Nat) /\ inner + length <= Len(outer)
      BY <1>2
    <2> QED
      BY ZenonT(60), <1>3, <2>1, PieceIs
  <1>6. /\ t \in Seq(Nat) /\ Len(t) = length
        /\ \A i \in 1..length : t[i] = data[from + i]
    BY <1>f, <1>4, PieceIs
  <1>7. ASSUME NEW i \in 1..length PROVE s[i] = t[i]
    <2>1. inner + i \in 1..size /\ first + (inner + i) = from + i
      BY <1>f
    <2> QED
      BY <1>2, <1>5, <1>6, <2>1
  <1>8. s = t
    BY <1>5, <1>6, <1>7, SeqEqual
  <1> QED
    BY <1>1, <1>3, <1>f, <1>4, <1>8

\* Row r of height rows lies in them, and column x in a row.
LEMMA Within ==
  ASSUME NEW n \in Nat, NEW i \in Rows(n), NEW size \in Nat
  PROVE  i \in Nat /\ i * size \in Nat /\ n * size \in Nat /\ i * size + size <= n * size
  <1>1. i \in Nat /\ i < n
    BY DEF Rows
  <1> QED
    BY <1>1, Products

LEMMA ThreeFactors ==
  ASSUME NEW a \in Nat, NEW b \in Nat, NEW c \in Nat
  PROVE  a * (b * c) = (a * b) * c
  OBVIOUS

ImageShape(data, im) ==
  /\ data \in Seq(Nat) /\ Len(data) = im.height * im.step
  /\ im \in [height : Nat, width : Nat, step : Nat, item : Nat \ {0}, channels : Nat \ {0}]
  /\ im.width * im.channels * im.item <= im.step

LEMMA InsideAPart ==
  ASSUME NEW left \in Nat, NEW n \in Nat, NEW c \in Nat, NEW size \in Nat,
         c < n, left + n <= size
  PROVE  left + c \in Nat /\ left + c + 1 <= size
  OBVIOUS

LEMMA ByteOfPiece ==
  ASSUME NEW data \in Seq(Nat), NEW first \in Nat, NEW size \in Nat,
         first + size <= Len(data), NEW at \in Nat, at + 1 <= size
  PROVE  Piece(Piece(data, first, size), at, 1) = Piece(data, first + at, 1)
  BY PieceOfPiece, 1 \in Nat

LEMMA ByteImageIsMeant ==
  ASSUME NEW data, NEW im, ImageShape(data, im), im.item = 1
  PROVE  NumpyImage(data, im) = MeantImage(data, im)
  <1>1. PICK h : h = im.height
    OBVIOUS
  <1>2. PICK w : w = im.width
    OBVIOUS
  <1>3. PICK n : n = im.channels
    OBVIOUS
  <1>4. PICK step : step = im.step
    OBVIOUS
  <1>5. /\ h \in Nat /\ w \in Nat /\ n \in Nat /\ step \in Nat
        /\ data \in Seq(Nat) /\ Len(data) = h * step
    BY <1>1, <1>2, <1>3, <1>4 DEF ImageShape
  <1>6. w * n \in Nat /\ w * n * 1 = w * n /\ w * n <= step
    <2>1. w * n \in Nat
      BY <1>5
    <2>2. w * n * 1 = w * n
      BY <2>1
    <2> QED
      BY <1>2, <1>3, <1>4, <2>1, <2>2 DEF ImageShape
  <1>7. Min({step, w * n}) = w * n
    <2>1. PICK size : size = w * n
      OBVIOUS
    <2>2. Min({step, size}) = size
      BY <1>5, <1>6, <2>1, MinOfTwo
    <2> QED
      BY <2>1, <2>2
  <1>8. h * (w * n) = h * w * n
    BY <1>5, ThreeFactors
  <1>9. n % 1 = 0 /\ n \div 1 = n
    BY <1>5
  <1>10. PICK rows : rows = [r \in Rows(h) |-> Piece(data, r * step, w * n)]
    OBVIOUS
  <1>11. NumpyImage(data, im) = Elements(rows, h, w, n, 1)
    BY <1>1, <1>2, <1>3, <1>4, <1>5, <1>6, <1>7, <1>8, <1>9, <1>10 DEF NumpyImage, ImageRow
  <1>12. ASSUME NEW r \in Rows(h), NEW x \in Rows(w), NEW c \in Rows(n)
         PROVE  Piece(rows[r], (x * n + c) * 1, 1) = Piece(data, r * step + (x * n + c) * 1, 1)
    <2>1. PICK first : first = r * step
      OBVIOUS
    <2>2. PICK size : size = w * n
      OBVIOUS
    <2>3. PICK left : left = x * n
      OBVIOUS
    <2>4. PICK all : all = h * step
      OBVIOUS
    <2>5. PICK at : at = left + c
      OBVIOUS
    <2>6. first \in Nat /\ first + step <= all
      BY <1>5, <2>1, <2>4, Within
    <2>7. left \in Nat /\ left + n <= size /\ size \in Nat
      BY <1>5, <2>2, <2>3, Within
    <2>8. c \in Nat /\ c < n
      BY <1>5 DEF Rows
    <2>9. at \in Nat /\ at + 1 <= size
      BY <1>5, <2>5, <2>7, <2>8, InsideAPart
    <2>10. size <= step /\ Len(data) = all
      BY <1>5, <1>6, <2>2, <2>4
    <2>11. first + size <= Len(data)
      BY <1>5, <2>6, <2>7, <2>10
    <2>12. Piece(Piece(data, first, size), at, 1) = Piece(data, first + at, 1)
      <3>1. data \in Seq(Nat)
        BY <1>5
      <3> QED
        BY <2>6, <2>7, <2>9, <2>11, <3>1, ByteOfPiece
    <2>13. rows[r] = Piece(data, first, size)
      BY <1>10, <2>1, <2>2
    <2>14. (x * n + c) * 1 = at
      <3>1. at * 1 = at
        BY <2>9
      <3> QED
        BY <2>3, <2>5, <3>1
    <2>15. Piece(rows[r], (x * n + c) * 1, 1) = Piece(data, first + at, 1)
      BY <2>12, <2>13, <2>14
    <2>16. r * step + (x * n + c) * 1 = first + at
      BY <2>1, <2>14
    <2> QED
      BY <2>15, <2>16
  <1>13. Elements(rows, h, w, n, 1) = MeantImage(data, im)
    BY <1>1, <1>2, <1>3, <1>4, <1>12 DEF Elements, MeantImage
  <1> QED
    BY <1>11, <1>13

CloudShape(data, cloud) ==
  /\ data \in Seq(Nat) /\ Len(data) = cloud.height * cloud.row_step
  /\ cloud \in [height : Nat, width : Nat, point_step : Nat \ {0}, row_step : Nat,
                fields : SUBSET [offset : Nat, size : Nat]]
  /\ cloud.width * cloud.point_step <= cloud.row_step
  /\ \A f \in cloud.fields : f.offset + f.size <= cloud.point_step

FieldsFit(cloud, ps) ==
  /\ cloud.point_step = ps /\ ps \in Nat /\ ps # 0
  /\ \A f \in cloud.fields : f.offset \in Nat /\ f.size \in Nat /\ f.offset + f.size <= ps

\* What FromBuffer makes of a buffer that is long enough.
PointsOf(bytes, count, cloud) ==
  [p \in Rows(count) |->
     [f \in cloud.fields |-> Piece(bytes, p * cloud.point_step + f.offset, f.size)]]

LEMMA FieldOfPoint ==
  ASSUME NEW bytes \in Seq(Nat), NEW first \in Nat, NEW ps \in Nat, first + ps <= Len(bytes),
         NEW cloud, FieldsFit(cloud, ps)
  PROVE  FieldsOf(Piece(bytes, first, ps), cloud) =
           [f \in cloud.fields |-> Piece(bytes, first + f.offset, f.size)]
  <1>1. ASSUME NEW f \in cloud.fields
        PROVE  Piece(Piece(bytes, first, ps), f.offset, f.size) =
                 Piece(bytes, first + f.offset, f.size)
    <2>1. f.offset \in Nat /\ f.size \in Nat /\ f.offset + f.size <= ps
      BY DEF FieldsFit
    <2> QED
      BY <2>1, PieceOfPiece
  <1> QED
    BY <1>1 DEF FieldsOf

LEMMA BufferIsPoints ==
  ASSUME NEW bytes \in Seq(Nat), NEW count \in Nat, NEW cloud, NEW ps, FieldsFit(cloud, ps),
         NEW all, all = count * ps, all <= Len(bytes)
  PROVE  FromBuffer(bytes, count, cloud) = PointsOf(bytes, count, cloud)
  <1>1. ps \in Nat /\ ps # 0 /\ cloud.point_step = ps
    BY DEF FieldsFit
  <1>2. FromBuffer(bytes, count, cloud) =
          [p \in Rows(count) |-> FieldsOf(Piece(bytes, p * ps, ps), cloud)]
    <2>1. all \in Nat
      BY <1>1
    <2>2. ~(Len(bytes) < all)
      BY <2>1
    <2> QED
      BY <1>1, <2>2 DEF FromBuffer
  <1>3. ASSUME NEW p \in Rows(count)
        PROVE  FieldsOf(Piece(bytes, p * ps, ps), cloud) =
                 [f \in cloud.fields |-> Piece(bytes, p * ps + f.offset, f.size)]
    <2>1. PICK first : first = p * ps
      OBVIOUS
    <2>2. first \in Nat /\ first + ps <= all
      BY <1>1, <2>1, Within
    <2>3. first + ps <= Len(bytes)
      BY <1>1, <2>2
    <2>4. FieldsOf(Piece(bytes, first, ps), cloud) =
            [f \in cloud.fields |-> Piece(bytes, first + f.offset, f.size)]
      BY <1>1, <2>2, <2>3, FieldOfPoint
    <2> QED
      BY <2>1, <2>4
  <1> QED
    BY <1>1, <1>2, <1>3 DEF PointsOf

\* An array is not the error.
LEMMA NotError ==
  ASSUME NEW count \in Nat, NEW F, DOMAIN F = Rows(count)
  PROVE  F # Error
  <1>1. DOMAIN Error = {1}
    BY DEF Error
  <1>2. Rows(count) # {1}
    <2>1. CASE count = 0
      BY <2>1 DEF Rows
    <2>2. CASE count > 0
      <3>1. 0 \in Rows(count)
        BY <2>2 DEF Rows
      <3> QED
        BY <3>1
    <2> QED
      BY <2>1, <2>2
  <1> QED
    BY <1>1, <1>2

LEMMA PlaceInRow ==
  ASSUME NEW r \in Nat, NEW w \in Nat, NEW x \in Nat, NEW ps \in Nat
  PROVE  (r * w + x) * ps = r * (w * ps) + x * ps
  OBVIOUS

\* Rows without padding are read as one buffer.
LEMMA OneBufferIsMeant ==
  ASSUME NEW data, NEW cloud, CloudShape(data, cloud),
         cloud.row_step = cloud.width * cloud.point_step
  PROVE  RowsFromOneBuffer(data, cloud) = MeantCloud(data, cloud)
  <1>1. PICK h : h = cloud.height
    OBVIOUS
  <1>2. PICK w : w = cloud.width
    OBVIOUS
  <1>3. PICK ps : ps = cloud.point_step
    OBVIOUS
  <1>4. PICK rs : rs = cloud.row_step
    OBVIOUS
  <1>5. /\ h \in Nat /\ w \in Nat /\ ps \in Nat /\ rs \in Nat
        /\ data \in Seq(Nat) /\ Len(data) = h * rs /\ rs = w * ps
    BY <1>1, <1>2, <1>3, <1>4 DEF CloudShape
  <1>6. FieldsFit(cloud, ps)
    BY <1>3 DEF CloudShape, FieldsFit
  <1>7. PICK count : count = h * w
    OBVIOUS
  <1>8. PICK all : all = count * ps
    OBVIOUS
  <1>9. count \in Nat /\ all = Len(data)
    <2>1. h * (w * ps) = (h * w) * ps
      BY <1>5, ThreeFactors
    <2>2. h * w \in Nat
      BY <1>5
    <2> QED
      BY <1>5, <1>7, <1>8, <2>1, <2>2
  <1>10. data \in Seq(Nat) /\ Len(data) \in Nat
    BY <1>5
  <1>11. PICK points : points = FromBuffer(data, count, cloud)
    OBVIOUS
  <1>12. points = PointsOf(data, count, cloud)
    <2>1. all <= Len(data)
      BY <1>9, <1>10
    <2> QED
      BY <1>6, <1>8, <1>9, <1>10, <1>11, <2>1, BufferIsPoints
  <1>13. DOMAIN points = Rows(count) /\ points # Error
    BY <1>9, <1>12, NotError DEF PointsOf
  <1>14. RowsFromOneBuffer(data, cloud) =
           [r \in Rows(h) |-> [x \in Rows(w) |-> points[r * w + x]]]
    BY <1>1, <1>2, <1>7, <1>11, <1>13 DEF RowsFromOneBuffer
  <1>15. ASSUME NEW r \in Rows(h), NEW x \in Rows(w)
         PROVE  points[r * w + x] =
                  [f \in cloud.fields |-> Piece(data, r * rs + x * ps + f.offset, f.size)]
    <2>1. r \in Nat /\ x \in Nat /\ x < w /\ r * w \in Nat /\ r * w + w <= h * w
      BY <1>5, Within DEF Rows
    <2>2. r * w + x \in Rows(count)
      BY <1>5, <1>7, <1>9, <2>1 DEF Rows
    <2>3. (r * w + x) * ps = r * rs + x * ps
      BY <1>5, <2>1, PlaceInRow
    <2>4. points[r * w + x] =
            [f \in cloud.fields |-> Piece(data, (r * w + x) * ps + f.offset, f.size)]
      BY <1>3, <1>12, <2>2 DEF PointsOf
    <2> QED
      BY <2>3, <2>4
  <1>16. [r \in Rows(h) |-> [x \in Rows(w) |-> points[r * w + x]]] = MeantCloud(data, cloud)
    BY <1>1, <1>2, <1>3, <1>4, <1>15 DEF MeantCloud
  <1> QED
    BY <1>14, <1>16

\* Rows with padding are read one by one.
LEMMA RowByRowIsMeant ==
  ASSUME NEW data, NEW cloud, CloudShape(data, cloud), cloud.height # 0
  PROVE  RowsOneByOne(data, cloud) = MeantCloud(data, cloud)
  <1>1. PICK h : h = cloud.height
    OBVIOUS
  <1>2. PICK w : w = cloud.width
    OBVIOUS
  <1>3. PICK ps : ps = cloud.point_step
    OBVIOUS
  <1>4. PICK rs : rs = cloud.row_step
    OBVIOUS
  <1>5. PICK size : size = w * ps
    OBVIOUS
  <1>6. PICK all : all = h * rs
    OBVIOUS
  <1>s. /\ h \in Nat /\ w \in Nat /\ ps \in Nat /\ rs \in Nat
        /\ data \in Seq(Nat) /\ Len(data) = all /\ size <= rs
    BY <1>1, <1>2, <1>3, <1>4, <1>5, <1>6 DEF CloudShape
  <1>7. /\ h \in Nat /\ w \in Nat /\ ps \in Nat /\ rs \in Nat /\ size \in Nat /\ all \in Nat
        /\ data \in Seq(Nat) /\ Len(data) = all /\ size <= rs
    BY <1>s, <1>5, <1>6
  <1>8. FieldsFit(cloud, ps)
    BY <1>3 DEF CloudShape, FieldsFit
  <1>9. PICK row : row = [r \in Rows(h) |->
                            FromBuffer(Piece(data, r * rs, Min({size, Len(data) - r * rs})),
                                       w, cloud)]
    OBVIOUS
  <1>10. ASSUME NEW r \in Rows(h)
         PROVE  row[r] = [x \in Rows(w) |-> [f \in cloud.fields |->
                            Piece(data, r * rs + x * ps + f.offset, f.size)]]
    <2>1. PICK first : first = r * rs
      OBVIOUS
    <2>2. first \in Nat /\ first + rs <= all
      BY <1>6, <1>7, <2>1, Within
    <2>3. PICK rest : rest = Len(data) - first
      OBVIOUS
    <2>4. rest \in Nat /\ size <= rest /\ first + size <= Len(data)
      BY <1>7, <2>2, <2>3
    <2>5. Min({size, rest}) = size
      BY <1>7, <2>4, MinOfTwo
    <2>6. PICK bytes : bytes = Piece(data, first, size)
      OBVIOUS
    <2>7. bytes \in Seq(Nat) /\ Len(bytes) = size
      BY <1>7, <2>2, <2>4, <2>6, PieceIs
    <2>8. row[r] = FromBuffer(bytes, w, cloud)
      BY <1>9, <2>1, <2>3, <2>5, <2>6
    <2>9. FromBuffer(bytes, w, cloud) = PointsOf(bytes, w, cloud)
      <3>1. size <= Len(bytes)
        BY <1>7, <2>7
      <3> QED
        BY <1>5, <1>7, <1>8, <2>7, <3>1, BufferIsPoints
    <2>10. ASSUME NEW x \in Rows(w), NEW f \in cloud.fields
           PROVE  Piece(bytes, x * ps + f.offset, f.size) =
                    Piece(data, r * rs + x * ps + f.offset, f.size)
      <3>1. PICK left : left = x * ps
        OBVIOUS
      <3>2. left \in Nat /\ left + ps <= size
        BY <1>5, <1>7, <3>1, Within
      <3>3. PICK offset : offset = f.offset
        OBVIOUS
      <3>4. PICK length : length = f.size
        OBVIOUS
      <3>5. PICK at : at = left + offset
        OBVIOUS
      <3>6. offset \in Nat /\ length \in Nat /\ offset + length <= ps
        BY <1>8, <3>3, <3>4 DEF FieldsFit
      <3>7. at \in Nat /\ at + length <= size
        BY <1>7, <3>2, <3>5, <3>6
      <3>8. Piece(bytes, at, length) = Piece(data, first + at, length)
        <4>1. /\ data \in Seq(Nat) /\ first \in Nat /\ size \in Nat /\ first + size <= Len(data)
              /\ at \in Nat /\ length \in Nat /\ at + length <= size
          BY <1>7, <2>2, <2>4, <3>6, <3>7
        <4>2. Piece(Piece(data, first, size), at, length) = Piece(data, first + at, length)
          BY <4>1, PieceOfPiece
        <4> QED
          BY <2>6, <4>2
      <3>9. r * rs + x * ps + f.offset = first + at
        BY <2>1, <2>2, <3>1, <3>2, <3>3, <3>5, <3>6
      <3> QED
        BY <3>1, <3>3, <3>4, <3>5, <3>8, <3>9
    <2> QED
      BY <1>3, <2>8, <2>9, <2>10 DEF PointsOf
  <1>11. \A r \in Rows(h) : row[r] # Error
    <2> SUFFICES ASSUME NEW r \in Rows(h) PROVE row[r] # Error
      OBVIOUS
    <2>1. DOMAIN row[r] = Rows(w)
      BY <1>10
    <2> QED
      BY <1>7, <2>1, NotError
  <1>12. RowsOneByOne(data, cloud) = [r \in Rows(h) |-> row[r]]
    BY <1>1, <1>2, <1>3, <1>4, <1>5, <1>9, <1>11 DEF RowsOneByOne
  <1>13. [r \in Rows(h) |-> row[r]] = [r \in Rows(h) |-> [x \in Rows(w) |-> row[r][x]]]
    BY <1>10
  <1>14. ASSUME NEW r \in Rows(h), NEW x \in Rows(w)
         PROVE  row[r][x] =
                  [f \in cloud.fields |-> Piece(data, r * rs + x * ps + f.offset, f.size)]
    BY <1>10
  <1>15. [r \in Rows(h) |-> [x \in Rows(w) |-> row[r][x]]] = MeantCloud(data, cloud)
    BY <1>1, <1>2, <1>3, <1>4, <1>14 DEF MeantCloud
  <1> QED
    BY <1>12, <1>13, <1>15

\* The array of any byte image, and of any cloud, holds what the message means, whatever
\* the sizes and the padding of the rows.
THEOREM ArraysHoldTheMessage == Spec => []ArraysAreExact
  <1> DEFINE Inv == /\ job.kind = "image" => done \subseteq {NumpyImage(job.data, job.shape)}
                    /\ job.kind = "cloud" => done \subseteq {NumpyCloud(job.data, job.shape)}
  <1>1. Init => Inv
    BY DEF Init
  <1>2. JobInv /\ Inv /\ [Next]_vars => Inv'
    <2> SUFFICES ASSUME JobInv, Inv, [Next]_vars PROVE Inv'
      OBVIOUS
    <2>1. CASE LoadImage
      BY <2>1 DEF LoadImage
    <2>2. CASE LoadCloud
      BY <2>2 DEF LoadCloud
    <2>3. CASE Convert /\ UNCHANGED job /\ ~LoadImage /\ ~LoadCloud
      BY <2>3 DEF Convert, OpenByName, MeetOnTopic, LayOut, CarryMessage
    <2>4. CASE UNCHANGED vars
      BY <2>4 DEF vars
    <2>5. CASE job' \in OwnershipJobs
      BY <2>5 DEF OwnershipJobs
    <2> QED
      BY <2>1, <2>2, <2>3, <2>4, <2>5, Stepwise
  <1>3. JobInv /\ Inv => ArraysAreExact
    <2> SUFFICES ASSUME JobInv, Inv, NEW d \in done
                 PROVE  /\ job.kind = "image" /\ job.shape.item = 1 =>
                             d = MeantImage(job.data, job.shape)
                        /\ job.kind = "cloud" => d = MeantCloud(job.data, job.shape)
      BY DEF ArraysAreExact
    <2>1. CASE job.kind = "image" /\ job.shape.item = 1
      <3>1. ImageShape(job.data, job.shape)
        BY <2>1, JobsAssumption DEF JobInv, ImageShape
      <3> QED
        BY <2>1, <3>1, ByteImageIsMeant
    <2>2. CASE job.kind = "cloud"
      <3>1. /\ CloudShape(job.data, job.shape)
            /\ job.shape.height = 0 => job.shape.row_step = job.shape.width * job.shape.point_step
        BY <2>2, JobsAssumption DEF JobInv, CloudShape
      <3> QED
        BY <2>2, <3>1, OneBufferIsMeant, RowByRowIsMeant DEF NumpyCloud
    <2> QED
      BY <2>1, <2>2
  <1> QED
    BY <1>1, <1>2, <1>3, JobsStay, PTL DEF Spec

--------------------------------------------------------------------------------
(* Topics                                                                   *)

LEMMA Smallest ==
  ASSUME NEW S, S \subseteq Nat, S # {}
  PROVE  \E x \in S : \A y \in S : x <= y
  <1>1. \E x \in S : \A y \in S : ~(<<y, x>> \in OpToRel(<, Nat))
    BY NatLessThanWellFounded, WFMin, Zenon
  <1>2. ASSUME NEW x \in S, NEW y \in S, ~(<<y, x>> \in OpToRel(<, Nat))
        PROVE  x <= y
    <2>1. ~(y < x)
      BY <1>2 DEF OpToRel
    <2> QED
      BY <2>1
  <1> QED
    BY <1>1, <1>2

\* What names and topics are made of.
Chars == STRING \cup {Slash, Hidden, Underscore, Accented, "byte1", "byte2"} \cup Words

LEMMA TheseAreChars ==
  /\ Slash \in Chars /\ Hidden \in Chars /\ Underscore \in Chars /\ Accented \in Chars
  /\ Slash # Hidden /\ Slash # Underscore /\ Accented \notin {Slash, Underscore}
  BY DEF Slash, Hidden, Underscore, Accented, Chars

\* The last n characters are all that ch takes away.
EndsAt(s, ch, n) ==
  n \in 0..Len(s) /\ (n # 0 => s[n] # ch) /\ \A i \in (n + 1)..Len(s) : s[i] = ch

LEMMA LastIsFound ==
  ASSUME NEW s \in Seq(Chars), NEW ch
  PROVE  \E n \in 0..Len(s) : EndsAt(s, ch, n)
  <1>1. PICK S : S = {Len(s) - i : i \in {j \in 1..Len(s) : s[j] # ch}}
    OBVIOUS
  <1>2. S \subseteq Nat
    BY <1>1
  <1>3. CASE S = {}
    <2>1. \A i \in 1..Len(s) : s[i] = ch
      BY <1>1, <1>3
    <2> QED
      BY <2>1 DEF EndsAt
  <1>4. CASE S # {}
    <2>1. PICK x \in S : \A y \in S : x <= y
      BY <1>2, <1>4, Smallest
    <2>2. PICK n \in 1..Len(s) : s[n] # ch /\ x = Len(s) - n
      BY <1>1, <2>1
    <2>3. ASSUME NEW i \in (n + 1)..Len(s) PROVE s[i] = ch
      <3>1. s[i] # ch => Len(s) - i \in S
        BY <1>1
      <3>2. ~(Len(s) - n <= Len(s) - i)
        OBVIOUS
      <3> QED
        BY <2>1, <2>2, <3>1, <3>2
    <2> QED
      BY <2>2, <2>3 DEF EndsAt
  <1> QED
    BY <1>3, <1>4

LEMMA TrimmedThere ==
  ASSUME NEW s \in Seq(Chars), NEW ch, NEW n, EndsAt(s, ch, n)
  PROVE  Trimmed(s, ch) = SubSeq(s, 1, n)
  <1>1. PICK I : I = {i \in 1..Len(s) : s[i] # ch}
    OBVIOUS
  <1>2. Trimmed(s, ch) = SubSeq(s, 1, IF I # {} THEN Max(I) ELSE 0)
    BY <1>1 DEF Trimmed, SelectLastInSeq
  <1>3. CASE n = 0
    <2>1. I = {}
      BY <1>1, <1>3 DEF EndsAt
    <2> QED
      BY <1>2, <1>3, <2>1
  <1>4. CASE n # 0
    <2>1. n \in I /\ \A y \in I : n >= y
      BY <1>1, <1>4 DEF EndsAt
    <2>2. \A x \in I : (\A y \in I : x >= y) => x = n
      <3>1. I \subseteq Int
        BY <1>1
      <3> QED
        BY <2>1, <3>1
    <2>3. (CHOOSE x \in I : \A y \in I : x >= y) = n
      BY <2>1, <2>2
    <2> QED
      BY <1>2, <2>1, <2>3 DEF Max
  <1> QED
    BY <1>3, <1>4

LEMMA FrontOf ==
  ASSUME NEW s \in Seq(Chars), NEW n \in 0..Len(s)
  PROVE  /\ SubSeq(s, 1, n) \in Seq(Chars) /\ Len(SubSeq(s, 1, n)) = n
         /\ \A i \in 1..n : SubSeq(s, 1, n)[i] = s[i]
  <1>1. \A i \in 1..n : s[i] \in Chars
    BY ElementOfSeq
  <1>2. /\ SubSeq(s, 1, n) \in Seq(Chars)
        /\ Len(SubSeq(s, 1, n)) = IF 1 <= n THEN n - 1 + 1 ELSE 0
        /\ \A i \in 1..(n - 1 + 1) : SubSeq(s, 1, n)[i] = s[1 + i - 1]
    BY <1>1, SubSeqProperties, 1 \in Int, n \in Int
  <1> QED
    BY <1>2

\* What does not end with ch is not trimmed.
LEMMA NothingTrimmed ==
  ASSUME NEW s \in Seq(Chars), NEW ch, s # <<>>, Last(s) # ch
  PROVE  Trimmed(s, ch) = s
  <1>1. Len(s) \in Nat \ {0}
    BY EmptySeq
  <1>2. EndsAt(s, ch, Len(s))
    BY <1>1 DEF EndsAt, Last
  <1>3. Trimmed(s, ch) = SubSeq(s, 1, Len(s))
    BY <1>2, TrimmedThere
  <1>4. PICK t : t = SubSeq(s, 1, Len(s))
    OBVIOUS
  <1>5. t \in Seq(Chars) /\ Len(t) = Len(s) /\ \A i \in 1..Len(s) : t[i] = s[i]
    BY <1>1, <1>4, FrontOf
  <1>6. t = s
    BY <1>5, SeqEqual
  <1> QED
    BY <1>3, <1>4, <1>6

\* What is left of a trimmed text does not end with ch.
LEMMA TrimmedEnds ==
  ASSUME NEW s \in Seq(Chars), NEW ch
  PROVE  /\ Trimmed(s, ch) \in Seq(Chars)
         /\ Trimmed(s, ch) # <<>> => Last(Trimmed(s, ch)) # ch
  <1>1. PICK n \in 0..Len(s) : EndsAt(s, ch, n)
    BY LastIsFound
  <1>2. PICK t : t = SubSeq(s, 1, n)
    OBVIOUS
  <1>3. t \in Seq(Chars) /\ Len(t) = n /\ \A i \in 1..n : t[i] = s[i]
    BY <1>2, FrontOf
  <1>4. t # <<>> => t[Len(t)] # ch
    <2>1. t # <<>> => n # 0
      BY <1>3, EmptySeq
    <2> QED
      BY <1>1, <1>3, <2>1 DEF EndsAt
  <1> QED
    BY <1>1, <1>2, <1>3, <1>4, TrimmedThere DEF Last

LEMMA Joined ==
  ASSUME NEW s \in Seq(Chars), NEW e \in Seq(Chars)
  PROVE  /\ s \o e \in Seq(Chars) /\ Len(s \o e) = Len(s) + Len(e)
         /\ \A i \in 1..Len(s) : (s \o e)[i] = s[i]
         /\ \A i \in 1..Len(e) : (s \o e)[Len(s) + i] = e[i]
  <1>1. Len(s) \in Nat /\ Len(e) \in Nat
    OBVIOUS
  <1>2. PICK t : t = s \o e
    OBVIOUS
  <1>3. t \in Seq(Chars) /\ Len(t) = Len(s) + Len(e)
    BY <1>2, ConcatProperties, Zenon
  <1>4. \A i \in 1..(Len(s) + Len(e)) :
          t[i] = IF i <= Len(s) THEN s[i] ELSE e[i - Len(s)]
    BY <1>2, ConcatProperties, Zenon
  <1>5. ASSUME NEW i \in 1..Len(s) PROVE t[i] = s[i]
    BY <1>1, <1>4
  <1>6. ASSUME NEW i \in 1..Len(e) PROVE t[Len(s) + i] = e[i]
    <2>1. /\ Len(s) + i \in 1..(Len(s) + Len(e)) /\ ~(Len(s) + i <= Len(s))
          /\ (Len(s) + i) - Len(s) = i
      BY <1>1
    <2> QED
      BY <1>4, <2>1
  <1> QED
    BY <1>2, <1>3, <1>5, <1>6

\* One more slash behind a text changes nothing.
LEMMA SlashIsTrimmed ==
  ASSUME NEW s \in Seq(Chars)
  PROVE  Trimmed(s \o <<Slash>>, Slash) = Trimmed(s, Slash)
  <1>1. PICK n \in 0..Len(s) : EndsAt(s, Slash, n)
    BY LastIsFound
  <1>2. PICK e : e = <<Slash>>
    OBVIOUS
  <1>3. e \in Seq(Chars) /\ Len(e) = 1 /\ e[1] = Slash
    BY <1>2, TheseAreChars
  <1>4. PICK t : t = s \o e
    OBVIOUS
  <1>5. /\ t \in Seq(Chars) /\ Len(t) = Len(s) + 1 /\ t[Len(s) + 1] = Slash
        /\ \A i \in 1..Len(s) : t[i] = s[i]
    <2>1. /\ t \in Seq(Chars) /\ Len(t) = Len(s) + Len(e)
          /\ \A i \in 1..Len(s) : t[i] = s[i]
          /\ \A i \in 1..Len(e) : t[Len(s) + i] = e[i]
      BY <1>3, <1>4, Joined
    <2>2. 1 \in 1..Len(e)
      BY <1>3
    <2> QED
      BY <1>3, <2>1, <2>2
  <1>6. EndsAt(t, Slash, n)
    <2>1. n \in 0..Len(t) /\ (n # 0 => t[n] # Slash)
      BY <1>1, <1>5 DEF EndsAt
    <2>2. ASSUME NEW i \in (n + 1)..Len(t) PROVE t[i] = Slash
      <3>1. CASE i <= Len(s)
        BY <1>1, <1>5, <3>1 DEF EndsAt
      <3>2. CASE i = Len(s) + 1
        BY <1>5, <3>2
      <3> QED
        BY <1>1, <1>5, <3>1, <3>2
    <2> QED
      BY <2>1, <2>2 DEF EndsAt
  <1>7. PICK a : a = SubSeq(s, 1, n)
    OBVIOUS
  <1>8. PICK b : b = SubSeq(t, 1, n)
    OBVIOUS
  <1>9. a \in Seq(Chars) /\ Len(a) = n /\ \A i \in 1..n : a[i] = s[i]
    BY <1>7, FrontOf
  <1>10. b \in Seq(Chars) /\ Len(b) = n /\ \A i \in 1..n : b[i] = t[i]
    BY <1>5, <1>8, FrontOf
  <1>11. a = b
    <2>1. ASSUME NEW i \in 1..n PROVE a[i] = b[i]
      <3>1. i \in 1..Len(s)
        OBVIOUS
      <3> QED
        BY <1>5, <1>9, <1>10, <3>1
    <2> QED
      BY <1>9, <1>10, <2>1, SeqEqual
  <1> QED
    <2>1. Trimmed(s, Slash) = a
      BY <1>1, <1>7, TrimmedThere
    <2>2. Trimmed(t, Slash) = b
      BY <1>5, <1>6, <1>8, TrimmedThere
    <2> QED
      BY <1>2, <1>4, <1>11, <2>1, <2>2

Suffix == <<Slash, Hidden>>

LEMMA JoinedSuffix ==
  ASSUME NEW s \in Seq(Chars)
  PROVE  IsSuffix(Suffix, s \o Suffix)
  <1>1. Suffix \in Seq(Chars) /\ Len(Suffix) = 2 /\ Suffix[1] = Slash /\ Suffix[2] = Hidden
    BY TheseAreChars DEF Suffix
  <1>2. PICK t : t = s \o Suffix
    OBVIOUS
  <1>3. Len(s) \in Nat
    OBVIOUS
  <1>4. /\ t \in Seq(Chars) /\ Len(t) = Len(s) + 2
        /\ t[Len(s) + 1] = Slash /\ t[Len(s) + 2] = Hidden
    <2>1. /\ t \in Seq(Chars) /\ Len(t) = Len(s) + Len(Suffix)
          /\ \A i \in 1..Len(Suffix) : t[Len(s) + i] = Suffix[i]
      BY <1>1, <1>2, Joined
    <2>2. 1 \in 1..Len(Suffix) /\ 2 \in 1..Len(Suffix)
      BY <1>1
    <2> QED
      BY <1>1, <2>1, <2>2
  <1>5. PICK a : a = Reverse(Suffix)
    OBVIOUS
  <1>6. a = <<Hidden, Slash>>
    <2>1. a = [i \in 1..2 |-> Suffix[(2 - i) + 1]]
      BY <1>1, <1>5 DEF Reverse
    <2>2. a \in Seq(Chars) /\ Len(a) = 2 /\ a[1] = Hidden /\ a[2] = Slash
      BY <1>1, <2>1, TheseAreChars
    <2> QED
      BY <2>2
  <1>7. PICK b : b = Reverse(t)
    OBVIOUS
  <1>8. b \in Seq(Chars) /\ Len(b) = Len(s) + 2 /\ b[1] = Hidden /\ b[2] = Slash
    <2>1. PICK n : n = Len(s) + 2
      OBVIOUS
    <2>2. n \in Nat /\ n >= 2 /\ n = Len(t)
      BY <1>3, <1>4, <2>1
    <2>3. b = [i \in 1..n |-> t[(n - i) + 1]]
      BY <1>7, <2>2 DEF Reverse
    <2>4. \A i \in 1..n : t[i] \in Chars
      BY <1>4, <2>2, ElementOfSeq
    <2>5. \A i \in 1..n : t[(n - i) + 1] \in Chars
      BY <2>2, <2>4
    <2>6. b \in Seq(Chars) /\ Len(b) = n
      BY <2>2, <2>3, <2>5
    <2>7. b[1] = t[n] /\ b[2] = t[n - 1]
      <3>1. (n - 1) + 1 = n /\ (n - 2) + 1 = n - 1 /\ 1 \in 1..n /\ 2 \in 1..n
        BY <2>2
      <3> QED
        BY <2>3, <3>1
    <2>8. n - 1 = Len(s) + 1
      BY <1>3, <2>1
    <2> QED
      BY <1>4, <2>1, <2>6, <2>7, <2>8
  <1>9. PICK c : c = SubSeq(a, 1, 2)
    OBVIOUS
  <1>10. PICK d : d = SubSeq(b, 1, 2)
    OBVIOUS
  <1>11. c \in Seq(Chars) /\ Len(c) = 2 /\ c[1] = Hidden /\ c[2] = Slash
    <2>1. a \in Seq(Chars) /\ Len(a) = 2 /\ a[1] = Hidden /\ a[2] = Slash
      BY <1>6, TheseAreChars
    <2> QED
      BY <1>9, <2>1, FrontOf
  <1>12. d \in Seq(Chars) /\ Len(d) = 2 /\ d[1] = Hidden /\ d[2] = Slash
    <2>1. 2 \in 0..Len(b)
      BY <1>3, <1>8
    <2> QED
      BY <1>8, <1>10, <2>1, FrontOf
  <1>13. c = d
    <2>1. \A i \in 1..2 : c[i] = d[i]
      BY <1>11, <1>12
    <2> QED
      BY <1>11, <1>12, <2>1, SeqEqual
  <1>14. Len(a) = 2 /\ 2 <= Len(b)
    BY <1>3, <1>6, <1>8
  <1>15. IsPrefix(a, b)
    BY <1>9, <1>10, <1>13, <1>14 DEF IsPrefix
  <1> QED
    BY <1>2, <1>5, <1>7, <1>15 DEF IsSuffix

Resolved(topic) == ResolveMetadataTopic(topic)

\* A resolved topic ends with the suffix and is left as it is.
LEMMA ResolvedStays ==
  ASSUME NEW topic \in Seq(Chars), Resolved(topic) # NoTopic
  PROVE  Resolved(Resolved(topic)) = Resolved(topic)
  <1>1. PICK m : m = Trimmed(topic, Slash)
    OBVIOUS
  <1>2. m \in Seq(Chars) /\ m # <<>> /\ Last(m) # Slash
    <2>1. m # <<>>
      BY <1>1 DEF Resolved, ResolveMetadataTopic, NoTopic
    <2> QED
      BY <1>1, <2>1, TrimmedEnds
  <1>3. PICK r : r = Resolved(topic)
    OBVIOUS
  <1>4. r = IF IsSuffix(Suffix, m) THEN m ELSE m \o Suffix
    BY <1>1, <1>2, <1>3 DEF Resolved, ResolveMetadataTopic, Suffix
  <1>5. r \in Seq(Chars) /\ r # <<>> /\ Last(r) # Slash /\ IsSuffix(Suffix, r)
    <2>1. CASE IsSuffix(Suffix, m)
      BY <1>2, <1>4, <2>1
    <2>2. CASE ~IsSuffix(Suffix, m)
      <3>1. r = m \o Suffix
        BY <1>4, <2>2
      <3>2. Suffix \in Seq(Chars) /\ Len(Suffix) = 2 /\ Suffix[2] = Hidden
        BY TheseAreChars DEF Suffix
      <3>3. /\ r \in Seq(Chars) /\ Len(r) = Len(m) + Len(Suffix)
            /\ \A i \in 1..Len(Suffix) : r[Len(m) + i] = Suffix[i]
        BY <1>2, <3>1, <3>2, Joined
      <3>4. Len(m) \in Nat /\ 2 \in 1..Len(Suffix)
        BY <1>2, <3>2
      <3>5. Len(r) = Len(m) + 2 /\ r[Len(m) + 2] = Hidden
        BY <3>2, <3>3, <3>4
      <3>6. r # <<>> /\ Last(r) = Hidden
        BY <3>3, <3>4, <3>5 DEF Last
      <3>7. IsSuffix(Suffix, r)
        BY <1>2, <3>1, JoinedSuffix
      <3> QED
        BY <3>3, <3>6, <3>7 DEF Hidden, Slash
    <2> QED
      BY <2>1, <2>2
  <1>6. Trimmed(r, Slash) = r
    BY <1>5, NothingTrimmed
  <1>7. Resolved(r) = r
    BY <1>5, <1>6 DEF Resolved, ResolveMetadataTopic, Suffix
  <1> QED
    BY <1>3, <1>7

LEMMA ResolvedWithSlash ==
  ASSUME NEW topic \in Seq(Chars)
  PROVE  Resolved(topic \o <<Slash>>) = Resolved(topic)
  BY SlashIsTrimmed DEF Resolved, ResolveMetadataTopic

LEMMA StatusIsResolved ==
  ASSUME NEW topic \in Seq(Chars), ValidTopic(topic), ~IsSuffix(Suffix, topic)
  PROVE  MakeHiddenMetadataTopic(topic) = Resolved(topic)
  <1>1. topic # <<>> /\ Last(topic) # Slash
    BY DEF ValidTopic
  <1>2. Trimmed(topic, Slash) = topic
    BY <1>1, NothingTrimmed
  <1> QED
    BY <1>1, <1>2 DEF MakeHiddenMetadataTopic, Resolved, ResolveMetadataTopic, Suffix

\* Everybody who is given one topic meets on one metadata topic, whatever the topic.
THEOREM EverybodyMeets == Spec => []TopicsMeet
  <1> DEFINE Meeting(t) ==
               [publisher |-> Resolved(t),
                subscribers |-> {Resolved(u) : u \in {t, Resolved(t), t \o <<Slash>>}},
                status |-> MakeHiddenMetadataTopic(t),
                prefixes |-> {ParameterPrefix(u) : u \in {t, Resolved(t)}}]
             Inv == job.kind = "topic" => done \subseteq {Meeting(job.topic)}
  <1>1. Init => Inv
    BY DEF Init
  <1>2. JobInv /\ Inv /\ [Next]_vars => Inv'
    <2> SUFFICES ASSUME JobInv, Inv, [Next]_vars PROVE Inv'
      OBVIOUS
    <2>1. CASE MeetOnTopic
      <3>1. done' = {Meeting(job.topic)} /\ UNCHANGED job
        BY <2>1 DEF MeetOnTopic, Resolved
      <3> QED
        BY <3>1
    <2>2. CASE Convert /\ UNCHANGED job /\ ~MeetOnTopic
      BY <2>2 DEF Convert, OpenByName, LayOut, CarryMessage, LoadImage, LoadCloud
    <2>3. CASE UNCHANGED vars
      BY <2>3 DEF vars
    <2>4. CASE job' \in OwnershipJobs
      BY <2>4 DEF OwnershipJobs
    <2> QED
      BY <2>1, <2>2, <2>3, <2>4, Stepwise
  <1>3. JobInv /\ Inv => TopicsMeet
    <2> SUFFICES ASSUME JobInv, Inv, job.kind = "topic", NEW d \in done, d.publisher # NoTopic
                 PROVE  /\ d.subscribers = {d.publisher}
                        /\ Cardinality(d.prefixes) = 1
                        /\ ValidTopic(job.topic) /\ ~IsSuffix(<<Slash, Hidden>>, job.topic) =>
                             d.status = d.publisher
      BY DEF TopicsMeet
    <2>1. PICK t : t = job.topic
      OBVIOUS
    <2>2. t \in Seq(Chars)
      BY <2>1, JobsAssumption DEF JobInv, Chars
    <2>3. d = Meeting(t)
      BY <2>1
    <2>4. Resolved(t) # NoTopic /\ d.publisher = Resolved(t)
      BY <2>3
    <2>5. Resolved(Resolved(t)) = Resolved(t)
      BY <2>2, <2>4, ResolvedStays
    <2>6. Resolved(t \o <<Slash>>) = Resolved(t)
      BY <2>2, ResolvedWithSlash
    <2>7. d.subscribers = {d.publisher}
      BY <2>3, <2>4, <2>5, <2>6
    <2>8. Cardinality(d.prefixes) = 1
      <3>1. ParameterPrefix(Resolved(t)) = ParameterPrefix(t)
        BY <2>5 DEF ParameterPrefix, Resolved
      <3>2. d.prefixes = {ParameterPrefix(t)}
        BY <2>3, <3>1
      <3> QED
        BY <3>2, FS_Singleton
    <2>9. ASSUME ValidTopic(t), ~IsSuffix(Suffix, t) PROVE d.status = d.publisher
      BY <2>2, <2>3, <2>4, <2>9, StatusIsResolved
    <2> QED
      BY <2>1, <2>7, <2>8, <2>9 DEF Suffix
  <1> QED
    BY <1>1, <1>2, <1>3, JobsStay, PTL DEF Spec

--------------------------------------------------------------------------------
(* Names                                                                    *)

\* f[i] is made of the first i texts, for every i up to n.
Joins(f, s, n) ==
  f = [i \in 1..n |-> IF i = 1 THEN s[i] ELSE f[i - 1] \o s[i]]

LEMMA JoinsExist ==
  ASSUME NEW s, NEW n \in Nat
  PROVE  \E f : Joins(f, s, n)
  <1>1. PICK Bad : Bad = {m \in Nat : ~\E f : Joins(f, s, m)}
    OBVIOUS
  <1>2. ASSUME Bad # {} PROVE FALSE
    <2>1. PICK m \in Bad : \A k \in Bad : m <= k
      BY <1>1, <1>2, Smallest
    <2>2. m \in Nat /\ ~\E f : Joins(f, s, m)
      BY <1>1, <2>1
    <2>3. m # 0
      <3>1. PICK f : f = [i \in 1..0 |-> 0]
        OBVIOUS
      <3>2. f = [i \in 1..0 |-> IF i = 1 THEN s[i] ELSE f[i - 1] \o s[i]]
        BY <3>1
      <3> QED
        BY <2>2, <3>2 DEF Joins
    <2>4. PICK g : Joins(g, s, m - 1)
      <3>1. m - 1 \in Nat /\ ~(m <= m - 1)
        BY <2>2, <2>3
      <3>2. m - 1 \notin Bad
        BY <2>1, <3>1
      <3> QED
        BY <1>1, <3>1, <3>2
    <2>5. PICK f : f = [i \in 1..m |-> IF i = m THEN (IF i = 1 THEN s[i] ELSE g[i - 1] \o s[i])
                                       ELSE g[i]]
      OBVIOUS
    <2>6. ASSUME NEW i \in 1..m PROVE f[i] = IF i = 1 THEN s[i] ELSE f[i - 1] \o s[i]
      <3>1. CASE i = m
        <4>1. i # 1 => i - 1 \in 1..m /\ i - 1 # m
          BY <2>2, <3>1
        <4> QED
          BY <2>5, <3>1, <4>1
      <3>2. CASE i # m
        <4>1. i \in 1..(m - 1) /\ (i # 1 => i - 1 \in 1..m /\ i - 1 # m)
          BY <2>2, <3>2
        <4>2. g[i] = IF i = 1 THEN s[i] ELSE g[i - 1] \o s[i]
          BY <2>4, <4>1 DEF Joins
        <4> QED
          BY <2>5, <3>2, <4>1, <4>2
      <3> QED
        BY <3>1, <3>2
    <2>7. Joins(f, s, m)
      <3>1. f = [i \in 1..m |-> f[i]]
        BY <2>5
      <3>2. [i \in 1..m |-> f[i]] =
              [i \in 1..m |-> IF i = 1 THEN s[i] ELSE f[i - 1] \o s[i]]
        BY <2>6
      <3> QED
        BY <3>1, <3>2 DEF Joins
    <2> QED
      BY <2>2, <2>7
  <1> QED
    BY <1>1, <1>2

LEMMA FlattenJoins ==
  ASSUME NEW s, Len(s) \in Nat \ {0}
  PROVE  \E f : Joins(f, s, Len(s)) /\ FlattenSeq(s) = f[Len(s)]
  <1>1. PICK n : n = Len(s)
    OBVIOUS
  <1>2. PICK f : f = CHOOSE g : Joins(g, s, n)
    OBVIOUS
  <1>3. Joins(f, s, n)
    BY <1>1, <1>2, JoinsExist
  <1>4. FlattenSeq(s) = f[n]
    BY <1>1, <1>2 DEF FlattenSeq, Joins
  <1> QED
    BY <1>1, <1>3, <1>4

\* The texts that make up a joined one are texts, and so is it.
LEMMA FlattenTyped ==
  ASSUME NEW s \in Seq(Seq(Chars))
  PROVE  FlattenSeq(s) \in Seq(Chars)
  <1>1. CASE Len(s) = 0
    BY <1>1 DEF FlattenSeq
  <1>2. CASE Len(s) # 0
    <2>1. Len(s) \in Nat \ {0}
      BY <1>2
    <2>2. PICK f : Joins(f, s, Len(s)) /\ FlattenSeq(s) = f[Len(s)]
      BY <2>1, FlattenJoins
    <2>3. PICK Bad : Bad = {i \in 1..Len(s) : f[i] \notin Seq(Chars)}
      OBVIOUS
    <2>4. ASSUME Bad # {} PROVE FALSE
      <3>1. PICK i \in Bad : \A j \in Bad : i <= j
        <4>1. Bad \subseteq Nat
          BY <2>3
        <4> QED
          BY <2>4, <4>1, Smallest
      <3>2. i \in 1..Len(s) /\ f[i] \notin Seq(Chars)
        BY <2>3, <3>1
      <3>3. f[i] = IF i = 1 THEN s[i] ELSE f[i - 1] \o s[i]
        BY <2>2, <3>2 DEF Joins
      <3>4. s[i] \in Seq(Chars)
        BY <3>2, ElementOfSeq
      <3>5. i # 1
        BY <3>2, <3>3, <3>4
      <3>6. i - 1 \in 1..Len(s) /\ ~(i <= i - 1)
        BY <3>2, <3>5
      <3>7. f[i - 1] \in Seq(Chars)
        BY <2>3, <3>1, <3>6
      <3>8. f[i - 1] \o s[i] \in Seq(Chars)
        BY <3>4, <3>7, Joined
      <3> QED
        BY <3>2, <3>3, <3>5, <3>8
    <2> QED
      BY <2>1, <2>2, <2>3, <2>4
  <1> QED
    BY <1>1, <1>2

\* A text is what its characters make, joined one by one.
LEMMA FlattenSingles ==
  ASSUME NEW s \in Seq(Chars), NEW t, t = [i \in DOMAIN s |-> <<s[i]>>]
  PROVE  FlattenSeq(t) = s
  <1>1. /\ t \in Seq(Seq(Chars)) /\ Len(t) = Len(s) /\ Len(s) \in Nat
        /\ \A i \in 1..Len(s) : t[i] = <<s[i]>> /\ s[i] \in Chars
    <2>1. Len(s) \in Nat /\ DOMAIN s = 1..Len(s) /\ \A i \in 1..Len(s) : s[i] \in Chars
      BY ElementOfSeq
    <2>2. \A i \in 1..Len(s) : <<s[i]>> \in Seq(Chars)
      BY <2>1
    <2> QED
      BY <2>1, <2>2
  <1>2. CASE Len(s) = 0
    <2>1. s = <<>> /\ t = <<>>
      BY <1>1, <1>2, EmptySeq
    <2> QED
      BY <1>1, <1>2, <2>1 DEF FlattenSeq
  <1>3. CASE Len(s) # 0
    <2>1. Len(t) \in Nat \ {0}
      BY <1>1, <1>3
    <2>2. PICK f : Joins(f, t, Len(t)) /\ FlattenSeq(t) = f[Len(t)]
      BY <2>1, FlattenJoins
    <2>3. PICK Bad : Bad = {i \in 1..Len(s) : f[i] # SubSeq(s, 1, i)}
      OBVIOUS
    <2>4. ASSUME Bad # {} PROVE FALSE
      <3>1. PICK i \in Bad : \A j \in Bad : i <= j
        <4>1. Bad \subseteq Nat
          BY <2>3
        <4> QED
          BY <2>4, <4>1, Smallest
      <3>2. i \in 1..Len(s) /\ f[i] # SubSeq(s, 1, i)
        BY <2>3, <3>1
      <3>3. f[i] = IF i = 1 THEN <<s[i]>> ELSE f[i - 1] \o <<s[i]>>
        BY <1>1, <2>2, <3>2 DEF Joins
      <3>4. SubSeq(s, 1, i) = SubSeq(s, 1, i - 1) \o <<s[i]>>
        <4>1. 1 \in 1..Len(s) /\ i \in 1..Len(s)
          BY <3>2
        <4> QED
          BY <4>1, SubSeqRecursiveSecond
      <3>5. i # 1
        <4>1. ASSUME i = 1 PROVE FALSE
          <5>1. SubSeq(s, 1, i - 1) = <<>>
            BY <4>1, SubSeqEmpty, 1 \in Int, 0 \in Int
          <5>2. <<>> \o <<s[i]>> = <<s[i]>>
            <6>1. <<s[i]>> \in Seq(Chars)
              BY <1>1, <3>2
            <6> QED
              BY <6>1, ConcatEmptySeq
          <5> QED
            BY <3>2, <3>3, <3>4, <4>1, <5>1, <5>2
        <4> QED
          BY <4>1
      <3>6. i - 1 \in 1..Len(s) /\ ~(i <= i - 1)
        BY <3>2, <3>5
      <3>7. f[i - 1] = SubSeq(s, 1, i - 1)
        BY <2>3, <3>1, <3>6
      <3> QED
        BY <3>2, <3>3, <3>4, <3>5, <3>7
    <2>5. f[Len(s)] = SubSeq(s, 1, Len(s))
      <3>1. Len(s) \in 1..Len(s)
        BY <1>1, <1>3
      <3>2. Len(s) \notin Bad
        BY <2>4
      <3> QED
        BY <2>3, <3>1, <3>2
    <2> QED
      BY <1>1, <2>2, <2>5, SubSeqFull
  <1> QED
    BY <1>1, <1>2, <1>3

Plain(s) == s \in Seq(Chars) /\ \A i \in DOMAIN s : s[i] # Accented

LEMMA PlainIsUtf8 ==
  ASSUME NEW s, Plain(s)
  PROVE  Utf8(s) = s
  <1>1. PICK t : t = [i \in DOMAIN s |-> <<s[i]>>]
    OBVIOUS
  <1>2. t = [i \in DOMAIN s |->
               IF s[i] = Accented THEN <<"byte1", "byte2">> ELSE <<s[i]>>]
    BY <1>1 DEF Plain
  <1>3. FlattenSeq(t) = s
    BY <1>1, FlattenSingles DEF Plain
  <1> QED
    BY <1>2, <1>3 DEF Utf8

LEMMA Utf8Typed ==
  ASSUME NEW s \in Seq(Chars)
  PROVE  Utf8(s) \in Seq(Chars)
  <1>1. PICK t : t = [i \in DOMAIN s |->
                        IF s[i] = Accented THEN <<"byte1", "byte2">> ELSE <<s[i]>>]
    OBVIOUS
  <1>2. /\ Len(s) \in Nat /\ DOMAIN s = 1..Len(s)
        /\ \A i \in 1..Len(s) : s[i] \in Chars
    BY ElementOfSeq
  <1>3. <<"byte1", "byte2">> \in Seq(Chars)
    <2>1. "byte1" \in Chars /\ "byte2" \in Chars
      BY DEF Chars
    <2> QED
      BY <2>1
  <1>4. \A i \in 1..Len(s) : t[i] \in Seq(Chars)
    BY <1>1, <1>2, <1>3
  <1>5. t \in Seq(Seq(Chars))
    BY <1>1, <1>2, <1>4
  <1> QED
    BY <1>1, <1>5, FlattenTyped DEF Utf8

\* A slash, and then letters of this alphabet and underscores, but none at the end.
Normal(name, alphabet) ==
  /\ name \in Seq(Chars) /\ name # <<>> /\ name[1] = Slash /\ Last(name) # Underscore
  /\ \A i \in 2..Len(name) : name[i] \in alphabet \cup {Underscore}

LEMMA CleanedTyped ==
  ASSUME NEW s \in Seq(Chars), NEW alnum
  PROVE  /\ Cleaned(s, alnum) \in Seq(Chars) /\ Len(Cleaned(s, alnum)) = Len(s)
         /\ \A i \in 1..Len(s) : Cleaned(s, alnum)[i] = IF s[i] \in alnum THEN s[i] ELSE Underscore
  <1>1. Len(s) \in Nat /\ DOMAIN s = 1..Len(s) /\ \A i \in 1..Len(s) : s[i] \in Chars
    BY ElementOfSeq
  <1>2. PICK c : c = [i \in 1..Len(s) |-> IF s[i] \in alnum THEN s[i] ELSE Underscore]
    OBVIOUS
  <1>3. c \in Seq(Chars) /\ Len(c) = Len(s)
    BY <1>1, <1>2, TheseAreChars
  <1> QED
    BY <1>1, <1>2, <1>3 DEF Cleaned

LEMMA SlashBefore ==
  ASSUME NEW s \in Seq(Chars)
  PROVE  /\ <<Slash>> \o s \in Seq(Chars) /\ Len(<<Slash>> \o s) = Len(s) + 1
         /\ (<<Slash>> \o s)[1] = Slash
         /\ \A i \in 1..Len(s) : (<<Slash>> \o s)[i + 1] = s[i]
  <1>1. PICK e : e = <<Slash>>
    OBVIOUS
  <1>2. e \in Seq(Chars) /\ Len(e) = 1 /\ e[1] = Slash
    BY <1>1, TheseAreChars
  <1>3. PICK t : t = e \o s
    OBVIOUS
  <1>4. /\ t \in Seq(Chars) /\ Len(t) = Len(e) + Len(s)
        /\ \A i \in 1..Len(e) : t[i] = e[i]
        /\ \A i \in 1..Len(s) : t[Len(e) + i] = s[i]
    BY <1>2, <1>3, Joined
  <1>5. Len(s) \in Nat
    OBVIOUS
  <1>6. t[1] = Slash /\ Len(t) = Len(s) + 1
    BY <1>2, <1>4, <1>5
  <1>7. ASSUME NEW i \in 1..Len(s) PROVE t[i + 1] = s[i]
    <2>1. t[Len(e) + i] = s[i] /\ Len(e) + i = i + 1
      BY <1>2, <1>4
    <2> QED
      BY <2>1
  <1> QED
    BY <1>1, <1>3, <1>4, <1>6, <1>7

LEMMA TailOf ==
  ASSUME NEW s \in Seq(Chars), s # <<>>
  PROVE  /\ Tail(s) \in Seq(Chars) /\ Len(s) = Len(Tail(s)) + 1
         /\ \A i \in 1..Len(Tail(s)) : Tail(s)[i] = s[i + 1]
         /\ Head(s) = s[1]
  <1>1. Len(s) \in Nat \ {0}
    BY EmptySeq
  <1> QED
    BY <1>1, HeadTailProperties

\* Normalising makes a name normal; kept is what of its letters the alphabet accepts.
LEMMA NormalizedIsNormal ==
  ASSUME NEW s \in Seq(Chars), NEW alnum, NEW kept,
         \A i \in DOMAIN s : s[i] \in alnum => s[i] \in kept
  PROVE  Normal(Normalized(s, alnum), kept)
  <1>1. PICK body : body = IF StartsWithSlash(s) THEN Tail(s) ELSE s
    OBVIOUS
  <1>2. /\ body \in Seq(Chars)
        /\ \A i \in 1..Len(body) : body[i] \in alnum => body[i] \in kept
    <2>1. CASE StartsWithSlash(s)
      <3>1. s # <<>> /\ body = Tail(s)
        BY <1>1, <2>1 DEF StartsWithSlash
      <3>2. /\ body \in Seq(Chars) /\ Len(s) = Len(body) + 1
            /\ \A i \in 1..Len(body) : body[i] = s[i + 1]
        BY <3>1, TailOf
      <3>3. \A i \in 1..Len(body) : i + 1 \in DOMAIN s
        BY <3>2
      <3> QED
        BY <3>2, <3>3
    <2>2. CASE ~StartsWithSlash(s)
      BY <1>1, <2>2
    <2> QED
      BY <2>1, <2>2
  <1>3. PICK c : c = Cleaned(body, alnum)
    OBVIOUS
  <1>4. /\ c \in Seq(Chars) /\ Len(c) = Len(body)
        /\ \A i \in 1..Len(c) : c[i] \in kept \cup {Underscore}
    <2>1. /\ c \in Seq(Chars) /\ Len(c) = Len(body)
          /\ \A i \in 1..Len(body) : c[i] = IF body[i] \in alnum THEN body[i] ELSE Underscore
      BY <1>2, <1>3, CleanedTyped
    <2> QED
      BY <1>2, <2>1
  <1>5. PICK t : t = <<Slash>> \o c
    OBVIOUS
  <1>6. Normalized(s, alnum) = Trimmed(t, Underscore)
    BY <1>1, <1>3, <1>5 DEF Normalized
  <1>7. /\ t \in Seq(Chars) /\ Len(t) = Len(c) + 1 /\ t[1] = Slash
        /\ \A i \in 1..Len(c) : t[i + 1] = c[i]
    BY <1>4, <1>5, SlashBefore
  <1>8. Len(c) \in Nat
    BY <1>4
  <1>9. ASSUME NEW i \in 2..Len(t) PROVE t[i] \in kept \cup {Underscore}
    <2>1. i - 1 \in 1..Len(c) /\ (i - 1) + 1 = i
      BY <1>7, <1>8
    <2>2. t[i] = c[i - 1]
      BY <1>7, <2>1
    <2> QED
      BY <1>4, <2>1, <2>2
  <1>10. PICK n \in 0..Len(t) : EndsAt(t, Underscore, n)
    BY <1>7, LastIsFound
  <1>11. n # 0
    <2>1. 1 \in 1..Len(t) /\ t[1] # Underscore
      BY <1>7, <1>8, TheseAreChars
    <2>2. n = 0 => \A i \in 1..Len(t) : t[i] = Underscore
      BY <1>10 DEF EndsAt
    <2> QED
      BY <2>1, <2>2
  <1>12. PICK r : r = SubSeq(t, 1, n)
    OBVIOUS
  <1>13. r \in Seq(Chars) /\ Len(r) = n /\ \A i \in 1..n : r[i] = t[i]
    BY <1>7, <1>12, FrontOf
  <1>14. Normalized(s, alnum) = r
    BY <1>6, <1>7, <1>10, <1>12, TrimmedThere
  <1>15. r[1] = Slash /\ r # <<>> /\ Last(r) # Underscore
    <2>1. 1 \in 1..n /\ n \in 1..n
      BY <1>11
    <2>2. t[n] # Underscore
      BY <1>10, <1>11 DEF EndsAt
    <2>3. r[1] = Slash /\ r[n] # Underscore
      BY <1>7, <1>13, <2>1, <2>2
    <2>4. r # <<>>
      BY <1>11, <1>13
    <2> QED
      BY <1>13, <2>3, <2>4 DEF Last
  <1>16. ASSUME NEW i \in 2..Len(r) PROVE r[i] \in kept \cup {Underscore}
    <2>1. i \in 1..n /\ i \in 2..Len(t)
      BY <1>10, <1>13
    <2> QED
      BY <1>9, <1>13, <2>1
  <1> QED
    BY <1>13, <1>14, <1>15, <1>16 DEF Normal

\* Normalising once more changes nothing.
LEMMA NormalStays ==
  ASSUME NEW s, NEW alnum, Normal(s, alnum)
  PROVE  Normalized(s, alnum) = s
  <1>1. s \in Seq(Chars) /\ s # <<>> /\ s[1] = Slash /\ Last(s) # Underscore
    BY DEF Normal
  <1>2. /\ Tail(s) \in Seq(Chars) /\ Len(s) = Len(Tail(s)) + 1 /\ Head(s) = s[1]
        /\ \A i \in 1..Len(Tail(s)) : Tail(s)[i] = s[i + 1]
    BY <1>1, TailOf
  <1>3. PICK u : u = Tail(s)
    OBVIOUS
  <1>4. Len(u) \in Nat /\ u \in Seq(Chars) /\ Len(s) = Len(u) + 1
    BY <1>2, <1>3
  <1>5. PICK c : c = Cleaned(u, alnum)
    OBVIOUS
  <1>6. /\ c \in Seq(Chars) /\ Len(c) = Len(u)
        /\ \A i \in 1..Len(u) : c[i] = IF u[i] \in alnum THEN u[i] ELSE Underscore
    BY <1>4, <1>5, CleanedTyped
  <1>7. ASSUME NEW i \in 1..Len(u) PROVE c[i] = s[i + 1]
    <2>1. i + 1 \in 2..Len(s)
      BY <1>4
    <2>2. s[i + 1] \in alnum \cup {Underscore}
      BY <2>1 DEF Normal
    <2>3. u[i] = s[i + 1]
      BY <1>2, <1>3
    <2> QED
      BY <1>6, <2>2, <2>3
  <1>8. PICK t : t = <<Slash>> \o c
    OBVIOUS
  <1>9. /\ t \in Seq(Chars) /\ Len(t) = Len(c) + 1 /\ t[1] = Slash
        /\ \A i \in 1..Len(c) : t[i + 1] = c[i]
    BY <1>6, <1>8, SlashBefore
  <1>10. ASSUME NEW i \in 1..Len(s) PROVE t[i] = s[i]
    <2>1. CASE i = 1
      BY <1>1, <1>9, <2>1
    <2>2. CASE i # 1
      <3>1. i - 1 \in 1..Len(u) /\ (i - 1) + 1 = i
        BY <1>4, <2>2
      <3>2. t[i] = c[i - 1]
        BY <1>6, <1>9, <3>1
      <3>3. c[i - 1] = s[i]
        BY <1>7, <3>1
      <3> QED
        BY <3>2, <3>3
    <2> QED
      BY <2>1, <2>2
  <1>11. t = s
    <2>1. Len(t) = Len(s)
      BY <1>4, <1>6, <1>9
    <2> QED
      BY <1>1, <1>9, <1>10, <2>1, SeqEqual
  <1>12. StartsWithSlash(s)
    BY <1>1, <1>2 DEF StartsWithSlash
  <1>13. Normalized(s, alnum) = Trimmed(s, Underscore)
    BY <1>3, <1>5, <1>8, <1>11, <1>12 DEF Normalized
  <1> QED
    BY <1>1, <1>13, NothingTrimmed

LEMMA WiderSeq ==
  ASSUME NEW A, NEW B, A \subseteq B, NEW s \in Seq(A)
  PROVE  s \in Seq(B)
  OBVIOUS

\* Adding plain texts.
LEMMA PlainJoined ==
  ASSUME NEW s, NEW e, Plain(s), Plain(e)
  PROVE  Plain(s \o e)
  <1>1. s \in Seq(Chars) /\ e \in Seq(Chars) /\ Len(s) \in Nat /\ Len(e) \in Nat
    BY DEF Plain
  <1>2. PICK t : t = s \o e
    OBVIOUS
  <1>3. /\ t \in Seq(Chars) /\ Len(t) = Len(s) + Len(e)
        /\ \A i \in 1..Len(s) : t[i] = s[i]
        /\ \A i \in 1..Len(e) : t[Len(s) + i] = e[i]
    BY <1>1, <1>2, Joined
  <1>4. ASSUME NEW i \in 1..Len(t) PROVE t[i] # Accented
    <2>1. CASE i \in 1..Len(s)
      BY <1>1, <1>3, <2>1 DEF Plain
    <2>2. CASE i \notin 1..Len(s)
      <3>1. i - Len(s) \in 1..Len(e) /\ Len(s) + (i - Len(s)) = i
        BY <1>1, <1>3, <2>2
      <3>2. t[i] = e[i - Len(s)]
        BY <1>3, <3>1
      <3> QED
        BY <1>1, <3>1, <3>2 DEF Plain
    <2> QED
      BY <2>1, <2>2
  <1>5. DOMAIN t = 1..Len(t)
    BY <1>3
  <1> QED
    BY <1>2, <1>3, <1>4, <1>5 DEF Plain

LEMMA WordsArePlain ==
  /\ Plain(<<Slash, "ros2_shm", Underscore>>) /\ Plain(<<Underscore, "hash">>)
  /\ Plain(<<"topic">>) /\ Plain(<<Slash, "ros2_shm_topic">>)
  <1>1. Words \subseteq Chars \ {Accented}
    BY DEF Words, Chars, Accented
  <1>2. /\ "ros2_shm" \in Words /\ "hash" \in Words /\ "topic" \in Words
        /\ "ros2_shm_topic" \in Words
    BY DEF Words
  <1>3. \A c \in {Slash, Underscore, "ros2_shm", "hash", "topic", "ros2_shm_topic"} :
          c \in Chars /\ c # Accented
    BY <1>1, <1>2, TheseAreChars
  <1>4. \A a, b, c : a \in Chars \ {Accented} /\ b \in Chars \ {Accented}
                       /\ c \in Chars \ {Accented} => Plain(<<a, b, c>>)
    BY DEF Plain
  <1>5. \A a, b : a \in Chars \ {Accented} /\ b \in Chars \ {Accented} => Plain(<<a, b>>)
    BY DEF Plain
  <1>6. \A a : a \in Chars \ {Accented} => Plain(<<a>>)
    BY DEF Plain
  <1> QED
    BY <1>3, <1>4, <1>5, <1>6

LEMMA PlainStem ==
  ASSUME NEW topic, Plain(topic), NEW alnum
  PROVE  Plain(Stem(topic, alnum))
  <1>1. topic \in Seq(Chars)
    BY DEF Plain
  <1>2. PICK c : c = Cleaned(topic, alnum)
    OBVIOUS
  <1>3. /\ c \in Seq(Chars) /\ Len(c) \in Nat /\ DOMAIN c = 1..Len(c)
        /\ \A i \in 1..Len(c) : c[i] \in Chars \ {Accented}
    <2>1. /\ c \in Seq(Chars) /\ Len(c) = Len(topic)
          /\ \A i \in 1..Len(topic) : c[i] = IF topic[i] \in alnum THEN topic[i] ELSE Underscore
      BY <1>1, <1>2, CleanedTyped
    <2>2. \A i \in 1..Len(topic) : topic[i] \in Chars \ {Accented}
      BY <1>1, ElementOfSeq DEF Plain
    <2> QED
      BY <2>1, <2>2, TheseAreChars
  <1>4. PICK l : l = LeftTrimmed(c, Underscore)
    OBVIOUS
  <1>5. Plain(l)
    <2>1. CASE \A i \in DOMAIN c : c[i] = Underscore
      <3>1. l = <<>>
        BY <1>4, <2>1 DEF LeftTrimmed
      <3> QED
        BY <3>1 DEF Plain
    <2>2. CASE ~\A i \in DOMAIN c : c[i] = Underscore
      <3>1. PICK I : I = {i \in 1..Len(c) : c[i] # Underscore}
        OBVIOUS
      <3>2. I # {} /\ I \subseteq Nat
        BY <1>3, <2>2, <3>1
      <3>3. PICK m : m = CHOOSE x \in I : \A y \in I : x <= y
        OBVIOUS
      <3>4. m \in I
        BY <3>2, <3>3, Smallest
      <3>5. SelectInSeq(c, LAMBDA a : a # Underscore) = m
        BY <3>1, <3>2, <3>3 DEF SelectInSeq, Min
      <3>6. l = SubSeq(c, m, Len(c))
        BY <1>4, <2>2, <3>5 DEF LeftTrimmed
      <3>7. m \in 1..Len(c)
        BY <3>1, <3>4
      <3>8. \A i \in m..Len(c) : c[i] \in Chars \ {Accented}
        BY <1>3, <3>7
      <3>9. l \in Seq(Chars \ {Accented})
        BY <1>3, <3>6, <3>7, <3>8, SubSeqProperties
      <3> QED
        BY <3>9 DEF Plain
    <2> QED
      BY <2>1, <2>2
  <1> QED
    BY <1>2, <1>4, <1>5, WordsArePlain DEF Stem

LEMMA PlainMadeName ==
  ASSUME NEW topic, Plain(topic), NEW alnum
  PROVE  Plain(MadeName(topic, alnum))
  <1>1. Plain(<<Slash, "ros2_shm", Underscore>> \o Stem(topic, alnum))
    BY PlainStem, PlainJoined, WordsArePlain
  <1> QED
    BY <1>1, PlainJoined, WordsArePlain DEF MadeName

\* Names that both languages accept letter by letter.
LEMMA NormalIsPlain ==
  ASSUME NEW name, Normal(name, CppAlnum)
  PROVE  Plain(name)
  <1>1. name \in Seq(Chars) /\ name[1] = Slash
    BY DEF Normal
  <1>2. Accented \notin CppAlnum /\ Accented # Underscore /\ Accented # Slash
    BY DEF CppAlnum, Letters, Words, Accented, Underscore, Slash
  <1>3. ASSUME NEW i \in DOMAIN name PROVE name[i] # Accented
    <2>1. CASE i = 1
      BY <1>1, <1>2, <2>1
    <2>2. CASE i # 1
      <3>1. i \in 2..Len(name)
        BY <1>1, <2>2
      <3> QED
        BY <1>2, <3>1 DEF Normal
    <2> QED
      BY <2>1, <2>2
  <1> QED
    BY <1>1, <1>3 DEF Plain

LEMMA CppNameIsNormal ==
  ASSUME NEW option \in Seq(Chars), NEW topic, Plain(topic)
  PROVE  Normal(RingName("cpp", option, topic), CppAlnum)
  <1>1. \A s \in Seq(Chars) : Normal(CppNormalize(s), CppAlnum)
    BY NormalizedIsNormal DEF CppNormalize
  <1>2. \A s \in Seq(Chars) : CppNormalize(s) \in Seq(Chars)
    BY <1>1 DEF Normal
  <1>3. CppMakeName(topic) \in Seq(Chars)
    BY <1>2, PlainMadeName DEF CppMakeName, Plain
  <1>4. CppNormalize(Utf8(option)) \in Seq(Chars)
    BY <1>2, Utf8Typed
  <1> QED
    BY <1>1, <1>3, <1>4 DEF RingName

\* What the Python normalisation makes of a plain name is normal in C++ as well.
LEMMA PyPlainIsNormal ==
  ASSUME NEW s, Plain(s)
  PROVE  Normal(PyNormalize(s), CppAlnum)
  <1>1. PICK t : t = IF s = <<>> THEN <<Slash, "ros2_shm_topic">> ELSE s
    OBVIOUS
  <1>2. Plain(t)
    BY <1>1, WordsArePlain
  <1>3. \A i \in DOMAIN t : t[i] \in PyAlnum => t[i] \in CppAlnum
    BY <1>2 DEF Plain, PyAlnum, CppAlnum
  <1>4. Normal(Normalized(t, PyAlnum), CppAlnum)
    BY <1>2, <1>3, NormalizedIsNormal DEF Plain
  <1> QED
    BY <1>1, <1>4 DEF PyNormalize

LEMMA PyNameIsNormal ==
  ASSUME NEW s \in Seq(Chars)
  PROVE  Normal(PyNormalize(s), PyAlnum)
  <1>1. PICK t : t = IF s = <<>> THEN <<Slash, "ros2_shm_topic">> ELSE s
    OBVIOUS
  <1>2. t \in Seq(Chars)
    BY <1>1, WordsArePlain DEF Plain
  <1>3. Normal(Normalized(t, PyAlnum), PyAlnum)
    BY <1>2, NormalizedIsNormal
  <1> QED
    BY <1>1, <1>3 DEF PyNormalize

\* A name without accents is opened as it was created by either language.
LEMMA NormalIsOpened ==
  ASSUME NEW name, Normal(name, CppAlnum)
  PROVE  OpenedFile("cpp", name) = CreatedFile(name)
  <1>1. Plain(name) /\ name # <<>> /\ name \in Seq(Chars)
    BY NormalIsPlain DEF Normal
  <1>2. Plain(Tail(name))
    <2>1. /\ Tail(name) \in Seq(Chars) /\ Len(name) = Len(Tail(name)) + 1
          /\ \A i \in 1..Len(Tail(name)) : Tail(name)[i] = name[i + 1]
      BY <1>1, TailOf
    <2>2. \A i \in 1..Len(Tail(name)) : i + 1 \in DOMAIN name
      BY <1>1, <2>1
    <2>3. \A i \in 1..Len(Tail(name)) : Tail(name)[i] # Accented
      BY <1>1, <2>1, <2>2 DEF Plain
    <2> QED
      BY <2>1, <2>3 DEF Plain
  <1>3. Utf8(name) = name /\ Utf8(Tail(name)) = Tail(name)
    BY <1>1, <1>2, PlainIsUtf8
  <1>4. CppNormalize(name) = name
    BY NormalStays DEF CppNormalize
  <1> QED
    BY <1>3, <1>4 DEF OpenedFile, CreatedFile

LEMMA PythonOpens ==
  ASSUME NEW name, NEW alnum, Normal(name, alnum)
  PROVE  OpenedFile("python", name) = CreatedFile(name)
  <1>1. StartsWithSlash(name)
    BY TailOf DEF Normal, StartsWithSlash
  <1> QED
    BY <1>1 DEF OpenedFile, CreatedFile

LEMMA NameIsOpened ==
  ASSUME NEW writer \in Languages, NEW reader \in Languages, NEW option \in Seq(Chars),
         NEW topic, Plain(topic), NEW name, name = RingName(writer, option, topic),
         ~(writer = "python" /\ reader = "cpp" /\ ~Plain(option))
  PROVE  OpenedFile(reader, name) = CreatedFile(name)
  <1>1. CASE writer = "cpp"
    BY <1>1, CppNameIsNormal, NormalIsOpened, PythonOpens DEF Languages
  <1>2. CASE writer = "python"
    <2>1. PICK s : s = IF option = <<>> THEN PyMakeName(topic) ELSE option
      OBVIOUS
    <2>2. name = PyNormalize(s)
      BY <1>2, <2>1 DEF RingName
    <2>3. Normal(PyMakeName(topic), CppAlnum)
      BY PlainMadeName, PyPlainIsNormal DEF PyMakeName
    <2>4. Plain(PyMakeName(topic))
      BY <2>3, NormalIsPlain
    <2>5. CASE reader = "python"
      <3>1. s \in Seq(Chars)
        BY <2>1, <2>4 DEF Plain
      <3>2. Normal(name, PyAlnum)
        BY <2>2, <3>1, PyNameIsNormal
      <3> QED
        BY <2>5, <3>2, PythonOpens
    <2>6. CASE reader = "cpp"
      <3>1. Plain(s)
        BY <1>2, <2>1, <2>4, <2>6
      <3>2. Normal(name, CppAlnum)
        BY <2>2, <3>1, PyPlainIsNormal
      <3> QED
        BY <2>6, <3>2, NormalIsOpened
    <2> QED
      BY <2>5, <2>6 DEF Languages
  <1> QED
    BY <1>1, <1>2 DEF Languages

\* Every option and every topic leads a subscriber of either language to the ring of
\* a publisher of either language, but for accented options from Python to C++.
THEOREM RingIsFound == Spec => []SubscriberOpensTheRing
  <1> DEFINE Name == RingName(job.writer, job.option, job.topic)
             Files == [created |-> CreatedFile(Name), opened |-> OpenedFile(job.reader, Name)]
             Inv == job.kind = "name" => done \subseteq {Files}
  <1>1. Init => Inv
    BY DEF Init
  <1>2. JobInv /\ Inv /\ [Next]_vars => Inv'
    <2> SUFFICES ASSUME JobInv, Inv, [Next]_vars PROVE Inv'
      OBVIOUS
    <2>1. CASE OpenByName
      <3>1. done' = {Files} /\ UNCHANGED job
        BY <2>1 DEF OpenByName
      <3> QED
        BY <3>1
    <2>2. CASE Convert /\ UNCHANGED job /\ ~OpenByName
      BY <2>2 DEF Convert, MeetOnTopic, LayOut, CarryMessage, LoadImage, LoadCloud
    <2>3. CASE UNCHANGED vars
      BY <2>3 DEF vars
    <2>4. CASE job' \in OwnershipJobs
      BY <2>4 DEF OwnershipJobs
    <2> QED
      BY <2>1, <2>2, <2>3, <2>4, Stepwise
  <1>3. JobInv /\ Inv => SubscriberOpensTheRing
    <2> SUFFICES ASSUME JobInv, Inv, job.kind = "name", NEW d \in done
                 PROVE  \/ d.opened = d.created
                        \/ job.writer = "python" /\ job.reader = "cpp" /\ ~NamedInAscii(job.option)
      BY DEF SubscriberOpensTheRing
    <2>1. /\ job.writer \in Languages /\ job.reader \in Languages
          /\ job.option \in Seq(STRING) /\ job.topic \in Seq(STRING \ {Accented})
      BY JobsAssumption DEF JobInv
    <2>2. Plain(job.topic) /\ job.option \in Seq(Chars)
      <3>1. STRING \subseteq Chars /\ STRING \ {Accented} \subseteq Chars
        BY DEF Chars
      <3>2. job.option \in Seq(Chars) /\ job.topic \in Seq(Chars)
        BY <2>1, <3>1, WiderSeq
      <3>3. \A i \in DOMAIN job.topic : job.topic[i] # Accented
        BY <2>1, ElementOfSeq
      <3> QED
        BY <3>2, <3>3 DEF Plain
    <2>3. NamedInAscii(job.option) => Plain(job.option)
      BY <2>2 DEF NamedInAscii, Plain
    <2>4. d.created = CreatedFile(Name) /\ d.opened = OpenedFile(job.reader, Name)
      OBVIOUS
    <2> QED
      BY <2>1, <2>2, <2>3, <2>4, NameIsOpened
  <1> QED
    BY <1>1, <1>2, <1>3, JobsStay, PTL DEF Spec
===============
