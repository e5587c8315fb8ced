----------------------------- MODULE ShmOwnership -----------------------------
(***************************************************************************)
(* Who owns the descriptors and the mappings of a process: ShmRingBuffer   *)
(* and ShmHandle are moved, assigned, closed and opened again, and what    *)
(* the system has handed out must be given back once, and whole.           *)
(*                                                                         *)
(* Objects of one class are operated on.  Descriptors and mappings are     *)
(* numbered and numbers are not used again; an object opened by a handle   *)
(* is named by its size.                                                   *)
(***************************************************************************)
EXTENDS Integers, Sequences

CONSTANTS
  Objects,    \* the rings, or the handles, of a process
  Sizes       \* sizes of the shared-memory objects they map

ASSUME OwnershipAssumption == Sizes \subseteq Nat \ {0}

\* The members that say what an object owns, as its constructor leaves them.
Empty == [fd |-> 0, mapping |-> 0, total |-> 0, name |-> 0, next |-> 2]

\* A process: its class of objects; whether a string that was moved from keeps
\* its text; descriptors, mappings with their sizes, the last number written into
\* each; whether all calls so far were right.
NewProcess(class, keepsText) ==
  [class |-> class, keepsText |-> keepsText, objects |-> [o \in Objects |-> Empty],
   fds |-> {}, maps |-> {}, last |-> <<>>, right |-> TRUE]

MapOf(x) == [id |-> x.mapping, size |-> x.total]

Close(p, o) ==
  LET x == p.objects[o] IN
  [p EXCEPT !.maps = @ \ {MapOf(x)},
            !.fds = @ \ {x.fd},
            !.right = @ /\ (x.mapping # 0 => MapOf(x) \in p.maps)
                        /\ (x.fd # 0 => x.fd \in p.fds),
            !.objects[o] = IF p.class = "ring" THEN [x EXCEPT !.fd = 0, !.mapping = 0]
                           ELSE Empty]

\* shm_open, and mmap of what it returned, unless one of them fails.
Acquire(p, o, size, failing) ==
  LET id == Len(p.last) + 1
      q == [p EXCEPT !.fds = @ \cup {id}, !.last = Append(@, 0), !.objects[o].fd = id,
                     !.objects[o].total = size]
  IN CASE failing = "shm_open" -> p
       [] failing = "mmap" -> Close(q, o)
       [] OTHER -> [q EXCEPT !.maps = @ \cup {[id |-> id, size |-> size]},
                             !.objects[o].mapping = id, !.objects[o].name = size]

SizedBeforeClose(p, o, size) ==
  Close([p EXCEPT !.objects[o].total = size, !.objects[o].next = 2], o)
ClosedBeforeSized(p, o, size) ==
  [Close(p, o) EXCEPT !.objects[o].total = size, !.objects[o].next = 2]

Create(p, o, size, failing) == Acquire(ClosedBeforeSized(p, o, size), o, size, failing)

Cached(x, size) == x.name = size /\ x.mapping # 0

Open(p, o, size, failing) ==
  IF Cached(p.objects[o], size) THEN p ELSE Acquire(Close(p, o), o, size, failing)

\* A slot gets its number from the ring.
Write(p, o) ==
  LET x == p.objects[o] IN
  IF x.mapping = 0 THEN p
  ELSE [p EXCEPT !.last[x.mapping] = x.next, !.objects[o].next = @ + 2]

CopyMembers(p, to, from) == [p EXCEPT !.objects[to] = p.objects[from]]
MoveFrom(p, to, from) ==
  [p EXCEPT !.objects[to] = p.objects[from],
            !.objects[from] = [Empty EXCEPT !.name = IF p.keepsText THEN p.objects[from].name ELSE 0]]

MoveAssign(p, to, from) ==
  IF to = from THEN p ELSE MoveFrom(Close(p, to), to, from)

Destroy(p, o) == [Close(p, o) EXCEPT !.objects[o] = Empty]
MoveConstruct(p, to, from) == MoveFrom(Destroy(p, to), to, from)

\* A call of create or open that returns leaves the object mapped as it was asked.
Acquired(p, o, size, failing) ==
  LET q == IF p.class = "ring" THEN Create(p, o, size, failing) ELSE Open(p, o, size, failing)
  IN [q EXCEPT !.right = @ /\ (failing = "nothing" => /\ q.objects[o].mapping # 0
                                                      /\ q.objects[o].total = size)]

Perform(p, call) ==
  CASE call.op = "acquire" -> Acquired(p, call.object, call.size, call.failing)
    [] call.op = "write" -> Write(p, call.object)
    [] call.op = "close" -> Close(p, call.object)
    [] call.op = "destroy" -> Destroy(p, call.object)
    [] call.op = "assign" -> MoveAssign(p, call.object, call.from)
    [] call.op = "construct" -> MoveConstruct(p, call.object, call.from)

\* The calls a program may make, for a class of objects.
Calls(class) ==
  [op : {"acquire"}, object : Objects, size : Sizes, failing : {"nothing", "shm_open", "mmap"}] \cup
  [op : {"close", "destroy"}, object : Objects] \cup
  [op : IF class = "ring" THEN {"write"} ELSE {}, object : Objects] \cup
  [op : {"assign"}, object : Objects, from : Objects] \cup
  {c \in [op : {"construct"}, object : Objects, from : Objects] : c.object # c.from}
===============================================================================
