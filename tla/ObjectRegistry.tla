--------------------------- MODULE ObjectRegistry ---------------------------
(***************************************************************************)
(* The layer's maps from driver handles to its own objects: buffersMap,    *)
(* imagesMap, fencesMap and commandBuffersMap (buffer.cpp, image.cpp,      *)
(* fence.cpp, command_buffer.cpp).  All four follow one protocol:          *)
(*   create:  the driver creates the object, then global_lock is taken and *)
(*            the handle is mapped to a new record;                        *)
(*   destroy: global_lock is taken, the driver destroys the object, then   *)
(*            the handle is erased;                                        *)
(*   look up: most callers do not take global_lock.                        *)
(* The driver may give the handle of a destroyed object to the next one,   *)
(* so an entry has to be erased before a new object with its handle is     *)
(* mapped, and never after.                                                *)
(*                                                                         *)
(* As Vulkan requires, the application does not destroy an object, or bind *)
(* its memory, while another thread uses it.  What a thread finds in a map *)
(* that another is changing is undefined: the entry, or none.              *)
(***************************************************************************)
EXTENDS Integers, FiniteSets

CONSTANTS
  Threads,   \* the application's threads
  Handles,   \* the handles the driver hands out
  Formats,   \* what a new object is created with
  Memories,  \* what a buffer is bound to
  None

Objects == [format : Formats, memory : Memories \cup {None}]

ASSUME NoneIsNothing ==
  None \notin Threads \cup Handles \cup Formats \cup Memories \cup Objects

VARIABLES
  global_lock,  \* the thread that holds it, or None
  pc,
  handle,       \* the handle of the call a thread is in
  wanted,       \* the format or memory of that call
  live,         \* the handles of the driver's objects
  map,          \* handle -> record, or None
  owned,        \* the objects of the application, as it knows them
  forgotten,    \* handles freed by a call the layer does not intercept
  raced         \* whether the thread read the map while it was being changed

vars == <<global_lock, pc, handle, wanted, live, map, owned, forgotten, raced>>

New(format) == [format |-> format, memory |-> None]

\* The handles of the calls in progress on objects the application has.
InUse == {handle[t] : t \in {u \in Threads : pc[u] \notin {"idle", "insert", "inserting"}}}

------------------------------------------------------------------------------
Init ==
  /\ global_lock = None
  /\ pc = [t \in Threads |-> "idle"]
  /\ handle = [t \in Threads |-> None]
  /\ wanted = [t \in Threads |-> None]
  /\ live = {}
  /\ map = [h \in Handles |-> None]
  /\ owned = [h \in Handles |-> None]
  /\ forgotten = {}
  /\ raced = [t \in Threads |-> FALSE]

\* The driver creates the object, before the lock is taken.  If it refuses, the
\* call returns and nothing has changed.
CreateInDriver(t) ==
  /\ pc[t] = "idle"
  /\ \E h \in Handles \ live, f \in Formats :
       /\ live' = live \cup {h}
       /\ handle' = [handle EXCEPT ![t] = h]
       /\ wanted' = [wanted EXCEPT ![t] = f]
  /\ pc' = [pc EXCEPT ![t] = "insert"]
  /\ UNCHANGED <<global_lock, map, owned, forgotten, raced>>

LockInsert(t) ==
  /\ pc[t] = "insert"
  /\ global_lock = None
  /\ global_lock' = t
  /\ pc' = [pc EXCEPT ![t] = "inserting"]
  /\ UNCHANGED <<handle, wanted, live, map, owned, forgotten, raced>>

\* Mutant: try_emplace, which keeps an entry that is there.
InsertUnlessPresent(t) ==
  /\ pc[t] = "inserting"
  /\ LET h == handle[t]
     IN  /\ map' = [map EXCEPT ![h] = IF map[h] = None THEN New(wanted[t]) ELSE map[h]]
         /\ owned' = [owned EXCEPT ![h] = New(wanted[t])]
         /\ forgotten' = forgotten \ {h}
  /\ global_lock' = None
  /\ pc' = [pc EXCEPT ![t] = "idle"]
  /\ UNCHANGED <<handle, wanted, live, raced>>

\* The record is mapped, over any record there, and the call returns.
Insert(t) ==
  /\ pc[t] = "inserting"
  /\ LET h == handle[t]
     IN  /\ map' = [map EXCEPT ![h] = New(wanted[t])]
         /\ owned' = [owned EXCEPT ![h] = New(wanted[t])]
         /\ forgotten' = forgotten \ {h}
  /\ global_lock' = None
  /\ pc' = [pc EXCEPT ![t] = "idle"]
  /\ UNCHANGED <<handle, wanted, live, raced>>

\* The application gives the object up.
Destroy(t) ==
  /\ pc[t] = "idle"
  /\ \E h \in Handles \ InUse :
       /\ owned[h] # None
       /\ owned' = [owned EXCEPT ![h] = None]
       /\ handle' = [handle EXCEPT ![t] = h]
  /\ pc' = [pc EXCEPT ![t] = "destroy"]
  /\ UNCHANGED <<global_lock, wanted, live, map, forgotten, raced>>

\* Mutant: the driver destroys the object before the lock is taken.
DestroyInDriverUnlocked(t) ==
  /\ pc[t] = "destroy"
  /\ live' = live \ {handle[t]}
  /\ pc' = [pc EXCEPT ![t] = "erasing"]
  /\ UNCHANGED <<global_lock, handle, wanted, map, owned, forgotten, raced>>

\* Under the lock: the driver destroys the object, if it is mapped.
DestroyInDriver(t) ==
  /\ pc[t] = "destroy"
  /\ global_lock = None
  /\ IF map[handle[t]] = None
     THEN pc' = [pc EXCEPT ![t] = "idle"] /\ UNCHANGED <<global_lock, live>>
     ELSE /\ global_lock' = t
          /\ live' = live \ {handle[t]}
          /\ pc' = [pc EXCEPT ![t] = "erasing"]
  /\ UNCHANGED <<handle, wanted, map, owned, forgotten, raced>>

\* Mutant: the entry stays.
EraseNothing(t) ==
  /\ pc[t] = "erasing"
  /\ global_lock' = None
  /\ pc' = [pc EXCEPT ![t] = "idle"]
  /\ UNCHANGED <<handle, wanted, live, map, owned, forgotten, raced>>

Erase(t) ==
  /\ pc[t] = "erasing"
  /\ map' = [map EXCEPT ![handle[t]] = None]
  /\ global_lock' = None
  /\ pc' = [pc EXCEPT ![t] = "idle"]
  /\ UNCHANGED <<handle, wanted, live, owned, forgotten, raced>>

\* vkDestroyCommandPool, which the layer does not intercept, frees the command
\* buffers of the pool: here, one of them.
DestroyCommandPool(t) ==
  /\ pc[t] = "idle"
  /\ \E h \in Handles \ InUse :
       /\ owned[h] # None
       /\ owned' = [owned EXCEPT ![h] = None]
       /\ live' = live \ {h}
       /\ forgotten' = forgotten \cup {h}
  /\ UNCHANGED <<global_lock, pc, handle, wanted, map, raced>>

\* BindBufferMemory and BindBufferMemory2: under the lock, in the driver and in
\* the record.
BindBufferMemory(t) ==
  /\ pc[t] = "idle"
  /\ global_lock = None
  /\ \E h \in Handles \ InUse, m \in Memories :
       /\ owned[h] # None
       /\ owned[h].memory = None
       /\ owned' = [owned EXCEPT ![h].memory = m]
       /\ IF map[h] = None
          THEN /\ handle' = [handle EXCEPT ![t] = h]
               /\ raced' = [raced EXCEPT ![t] = FALSE]
               /\ pc' = [pc EXCEPT ![t] = "missed"]
               /\ UNCHANGED map
          ELSE /\ map' = [map EXCEPT ![h].memory = m]
               /\ UNCHANGED <<handle, pc, raced>>
  /\ UNCHANGED <<global_lock, wanted, live, forgotten>>

\* Another thread is between the lock and the unlock of a change.
Changing(t) == \E u \in Threads \ {t} : pc[u] \in {"inserting", "erasing"}

\* find_image, find_buffer and get_command_buffer without the lock, when a copy
\* is recorded or a view created: the entry, or the path of an unknown object.
LookUp(t) ==
  /\ pc[t] = "idle"
  /\ \E h \in Handles :
       /\ owned[h] # None
       /\ handle' = [handle EXCEPT ![t] = h]
       /\ raced' = [raced EXCEPT ![t] = Changing(t)]
       /\ \/ map[h] # None /\ pc' = [pc EXCEPT ![t] = "using"]
          \/ (map[h] = None \/ Changing(t)) /\ pc' = [pc EXCEPT ![t] = "missed"]
  /\ UNCHANGED <<global_lock, wanted, live, map, owned, forgotten>>

\* The lookup of QueueSubmit and decompress_bcn_compute, under the lock.
LookUpLocked(t) ==
  /\ pc[t] = "idle"
  /\ global_lock = None
  /\ \E h \in Handles :
       /\ owned[h] # None
       /\ handle' = [handle EXCEPT ![t] = h]
       /\ raced' = [raced EXCEPT ![t] = FALSE]
       /\ pc' = [pc EXCEPT ![t] = IF map[h] = None THEN "missed" ELSE "using"]
  /\ UNCHANGED <<global_lock, wanted, live, map, owned, forgotten>>

\* The call returns.
Finish(t) ==
  /\ pc[t] \in {"using", "missed"}
  /\ pc' = [pc EXCEPT ![t] = "idle"]
  /\ UNCHANGED <<global_lock, handle, wanted, live, map, owned, forgotten, raced>>

Next ==
  \E t \in Threads :
     \/ CreateInDriver(t) \/ LockInsert(t) \/ Insert(t)
     \/ Destroy(t) \/ DestroyInDriver(t) \/ Erase(t)
     \/ DestroyCommandPool(t) \/ BindBufferMemory(t)
     \/ LookUp(t) \/ LookUpLocked(t) \/ Finish(t)

Spec == Init /\ [][Next]_vars

------------------------------------------------------------------------------
\* The types of the variables; the lock is held by the thread that changes the
\* map.
TypeOK ==
  /\ pc \in [Threads -> {"idle", "insert", "inserting", "destroy", "erasing",
                         "using", "missed"}]
  /\ \A t \in Threads : pc[t] \in {"inserting", "erasing"} <=> global_lock = t
  /\ global_lock \in Threads \cup {None}
  /\ handle \in [Threads -> Handles \cup {None}]
  /\ wanted \in [Threads -> Formats \cup {None}]
  /\ live \subseteq Handles
  /\ map \in [Handles -> Objects \cup {None}]
  /\ owned \in [Handles -> Objects \cup {None}]
  /\ forgotten \subseteq Handles
  /\ raced \in [Threads -> BOOLEAN]

\* Whatever the order of creations and destructions by all threads, and however
\* soon the driver reuses a handle, an object of the application is mapped to
\* the record of its own creation: never to none, never to a record of an
\* earlier object with its handle.
OwnedRegistered ==
  \A h \in Handles : owned[h] # None => h \in live /\ map[h] = owned[h]

\* A call that looks an object up finds it, and finds it unchanged as long as
\* it uses it, unless it read the map while another thread was changing it.
LookupsSucceed ==
  \A t \in Threads :
     /\ pc[t] = "missed" => raced[t]
     /\ pc[t] = "using" => owned[handle[t]] # None /\ map[handle[t]] = owned[handle[t]]

\* When no call is in progress the map has entries for the driver's objects, all
\* of them, and for nothing else but what destroyed command pools left behind.
NothingStale ==
  (\A t \in Threads : pc[t] = "idle") =>
    \A h \in Handles : h \in live <=> map[h] # None /\ h \notin forgotten
=============================================================================
