----------------------------- MODULE SocketTable -----------------------------
(***************************************************************************)
(* The descriptor table of atu_sockets.c (lines 30-152 and 296-316): the   *)
(* growing array netconn_maps, its size, the lazily created mutex          *)
(* maps_lock, and the calls atu_socket, atu_accept_r and atu_close_r that  *)
(* several tasks make on it.  A step is one access to state that tasks     *)
(* share, so steps of different calls interleave as preemption lets them.  *)
(*                                                                         *)
(* Only atu_conn2fd takes maps_lock.  atu_fd2conn, and with it everything  *)
(* atu_close_r does, reads and writes the table without it.  Exclusive     *)
(* says which calls the application keeps apart on its own: with {} the    *)
(* model is the code alone, and each member is an obligation on callers.   *)
(***************************************************************************)
EXTENDS Integers, FiniteSets

CONSTANTS
    Tasks,          \* tasks that call the socket API
    Conns,          \* addresses the allocator can give a netconn
    Types,          \* socket types: SOCK_STREAM and SOCK_DGRAM in the code
    Null,           \* a NULL pointer, an absent mutex
    Growth,         \* entries a growth adds: 16 in the code
    MaxBlocks,      \* bound: tables the heap has room for, none is ever freed
    CallocMayFail,  \* whether calloc may fail before that bound is reached
    Exclusive       \* kinds of call that run with no other call in progress

ASSUME NullIsNothing == Null \notin Tasks \cup Conns
ASSUME TypesAreNot == "unset" \notin Types
ASSUME GrowthPositive == Growth \in Nat \ {0}
ASSUME HeapBound == MaxBlocks \in Nat \ {0}
ASSUME CallocChoice == CallocMayFail \in BOOLEAN
ASSUME ExclusiveKinds == Exclusive \subseteq {"first", "close"}

Cap == MaxBlocks * Growth              \* entries of the largest table
Index == 0 .. (Cap - 1)
Blocks == 0 .. MaxBlocks               \* 0 is the NULL table of the start
Slots == Blocks \X Index               \* every entry of every table
NoSlot == <<0, 0>>
Unset == "unset"                       \* nc_type of a zeroed entry

VARIABLES
    maps_lock,      \* the mutex handle: the task that created it, or Null
    holder,         \* holder[m]: the task that holds the mutex m created
    netconn_maps,   \* the table in use
    maps_size,      \* its number of entries, as the code believes it
    nblocks,        \* tables allocated so far
    len,            \* len[b]: the entries table b was allocated with
    left,           \* entries that memcpy has still to copy in a growth
    conn,           \* conn[s]: field conn of entry s
    nc_type,        \* nc_type[s]: field nc_type of entry s, Unset when zero
    live,           \* netconns that are allocated
    fds,            \* fds[t]: descriptors task t was returned and not closed
    pc, call,       \* where each task is, and in which call
    handle,         \* the mutex a task waits for: esp_sys_mutex_lock read it
    nc,             \* local nc or client: the netconn being given a descriptor
    idx,            \* local i, then fd; in a close, the argument s
    nf,             \* local nf: the entry a call points to
    blk,            \* local new_maps
    type            \* local nc_type

mutex == <<maps_lock, holder>>
table == <<netconn_maps, maps_size, nblocks, len, left>>
entries == <<conn, nc_type>>
app == <<live, fds>>
locals == <<call, handle, nc, idx, nf, blk, type>>
vars == <<mutex, table, entries, app, pc, locals>>

Kinds == {"first", "socket", "accept", "close"}

\* The program counters of atu_conn2fd between taking and releasing the mutex.
Locked == {"match", "free", "grow", "copy", "publish", "size", "maps",
           "store", "unlock"}
Pcs == Locked \cup {"idle", "create", "new", "lock", "acquire", "lookup",
                    "type", "accept", "delete", "clear", "fault"}

Goto(t, label) == pc' = [pc EXCEPT ![t] = label]

\* The entry that index i selects in the table in use.
Entry(i) == <<netconn_maps, i>>

\* atu_fd2conn gives an entry, and not NULL, for exactly these numbers.
InTable(s) == s >= 0 /\ s < maps_size

\* A NULL pointer dereference stops the microcontroller and all its tasks.
Running == \A t \in Tasks : pc[t] # "fault"

Idle(t) == pc[t] = "idle"

\* The callers' obligation: an exclusive call overlaps no other call.
MayStart(t, kind) ==
    /\ Running
    /\ Idle(t)
    /\ kind \in Exclusive => \A u \in Tasks : Idle(u)
    /\ \A u \in Tasks : Idle(u) \/ call[u] \notin Exclusive

Begin(t, kind) == call' = [call EXCEPT ![t] = kind]

\* A call returns to its caller: its locals are gone.
Return(t) ==
    /\ Goto(t, "idle")
    /\ call' = [call EXCEPT ![t] = "none"]
    /\ handle' = [handle EXCEPT ![t] = Null]
    /\ nc' = [nc EXCEPT ![t] = Null]
    /\ idx' = [idx EXCEPT ![t] = -1]
    /\ nf' = [nf EXCEPT ![t] = NoSlot]
    /\ blk' = [blk EXCEPT ![t] = 0]
    /\ type' = [type EXCEPT ![t] = Unset]

Init ==
    /\ maps_lock = Null
    /\ holder = [m \in Tasks |-> Null]
    /\ netconn_maps = 0 /\ maps_size = 0 /\ nblocks = 0
    /\ len = [b \in Blocks |-> 0] /\ left = {}
    /\ conn = [s \in Slots |-> Null]
    /\ nc_type = [s \in Slots |-> Unset]
    /\ live = {}
    /\ fds = [t \in Tasks |-> {}]
    /\ pc = [t \in Tasks |-> "idle"]
    /\ call = [t \in Tasks |-> "none"]
    /\ handle = [t \in Tasks |-> Null]
    /\ nc = [t \in Tasks |-> Null]
    /\ idx = [t \in Tasks |-> -1]
    /\ nf = [t \in Tasks |-> NoSlot]
    /\ blk = [t \in Tasks |-> 0]
    /\ type = [t \in Tasks |-> Unset]

-----------------------------------------------------------------------------
(* The choices inside the actions, each after mistakes in it that a        *)
(* property of this module catches.                                        *)

\* The index that atu_conn2fd returns when it has none.
MinusTwo == -2
NoIndex == -1

\* esp_sys_mutex_lock goes on when the mutex is free.
Anyway(t) == TRUE
CanTake(t) == holder[handle[t]] = Null

\* The first loop of atu_conn2fd is at the netconn it looks for.
NeverThere(t) == FALSE
IsThere(t) == conn[Entry(idx[t])] = nc[t]

\* The second loop is at an entry it can use.
AnyIsFree(t) == TRUE
NoneIsFree(t) == FALSE
IsFree(t) == conn[Entry(idx[t])] = Null

\* The entries that calloc is asked for.
OnlyAdded == Growth
NewLen == maps_size + Growth

\* The entries that memcpy copies to the new table.
AllButLast == 0 .. (maps_size - 2)
ToCopy == 0 .. (maps_size - 1)

\* Every path out of atu_conn2fd unlocks, that of a failed calloc as well.
SuccessUnlocks(t) == idx[t] # -1
Unlocks(t) == TRUE

\* The netconn that atu_close_r deletes.
Nothing(t) == {}
Doomed(t) == {conn[nf[t]]}

-----------------------------------------------------------------------------
(* atu_socket up to its call of atu_conn2fd.                               *)

\* Entry of the call: the type is valid, and esp_sys_mutex_isvalid reads the
\* handle.  The mutex is created in a later step, which is the race.
SocketCall(t) ==
    /\ LET kind == IF maps_lock = Null THEN "first" ELSE "socket"
       IN  /\ MayStart(t, kind)
           /\ Begin(t, kind)
           /\ Goto(t, IF kind = "first" THEN "create" ELSE "new")
    /\ \E ty \in Types : type' = [type EXCEPT ![t] = ty]
    /\ UNCHANGED <<mutex, table, entries, app, handle, nc, idx, nf, blk>>

\* esp_sys_mutex_create overwrites whatever handle is there.
CreateLock(t) ==
    /\ pc[t] = "create"
    /\ maps_lock' = t
    /\ Goto(t, "new")
    /\ UNCHANGED <<holder, table, entries, app, locals>>

\* esp_netconn_new: any address that is free, one just freed included.
NewConn(t) ==
    /\ pc[t] = "new"
    /\ \E c \in Conns \ live :
        /\ live' = live \cup {c}
        /\ nc' = [nc EXCEPT ![t] = c]
    /\ Goto(t, "lock")
    /\ UNCHANGED <<mutex, table, entries, fds, call, handle, idx, nf, blk,
                   type>>

\* esp_netconn_new has no memory: atu_socket returns -2.
NewFails(t) ==
    /\ pc[t] = "new"
    /\ Return(t)
    /\ UNCHANGED <<mutex, table, entries, app>>

-----------------------------------------------------------------------------
(* atu_accept_r up to its call of atu_conn2fd.                             *)

\* Entry of the call on a descriptor of the task's: it waits for a client.
AcceptCall(t) ==
    /\ MayStart(t, "accept")
    /\ \E s \in fds[t] : InTable(s) /\ conn[Entry(s)] # Null
    /\ Begin(t, "accept")
    /\ Goto(t, "accept")
    /\ UNCHANGED <<mutex, table, entries, app, handle, nc, idx, nf, blk, type>>

\* A client connects: the ESP thread made a netconn for it.
Accepted(t) ==
    /\ pc[t] = "accept"
    /\ \E c \in Conns \ live :
        /\ live' = live \cup {c}
        /\ nc' = [nc EXCEPT ![t] = c]
    /\ Goto(t, "lock")
    /\ UNCHANGED <<mutex, table, entries, fds, call, handle, idx, nf, blk,
                   type>>

\* The listening connection fails: atu_accept_r returns -1.
AcceptFails(t) ==
    /\ pc[t] = "accept"
    /\ Return(t)
    /\ UNCHANGED <<mutex, table, entries, app>>

-----------------------------------------------------------------------------
(* atu_conn2fd.                                                            *)

\* esp_sys_mutex_lock reads the handle, then waits for the mutex it names.
Lock(t) ==
    /\ pc[t] = "lock"
    /\ handle' = [handle EXCEPT ![t] = maps_lock]
    /\ Goto(t, "acquire")
    /\ UNCHANGED <<mutex, table, entries, app, call, nc, idx, nf, blk, type>>

Acquire(t) ==
    /\ pc[t] = "acquire"
    /\ CanTake(t)
    /\ holder' = [holder EXCEPT ![handle[t]] = t]
    /\ idx' = [idx EXCEPT ![t] = 0]
    /\ Goto(t, "match")
    /\ UNCHANGED <<maps_lock, table, entries, app, call, handle, nc, nf, blk,
                   type>>

\* One turn of the first loop: is the netconn in the table already?
Match(t) ==
    /\ pc[t] = "match"
    /\ \/ /\ InTable(idx[t])
          /\ IsThere(t)
          /\ Goto(t, "unlock")
          /\ UNCHANGED idx
       \/ /\ InTable(idx[t])
          /\ ~IsThere(t)
          /\ idx' = [idx EXCEPT ![t] = @ + 1]
          /\ UNCHANGED pc
       \/ /\ ~InTable(idx[t])
          /\ idx' = [idx EXCEPT ![t] = 0]
          /\ Goto(t, "free")
    /\ UNCHANGED <<mutex, table, entries, app, call, handle, nc, nf, blk, type>>

\* One turn of the second loop: take the entry if it is free.
FindFree(t) ==
    /\ pc[t] = "free"
    /\ \/ /\ InTable(idx[t])
          /\ IsFree(t)
          /\ conn' = [conn EXCEPT ![Entry(idx[t])] = nc[t]]
          /\ Goto(t, "unlock")
          /\ UNCHANGED idx
       \/ /\ InTable(idx[t])
          /\ ~IsFree(t)
          /\ idx' = [idx EXCEPT ![t] = @ + 1]
          /\ UNCHANGED <<conn, pc>>
       \/ /\ ~InTable(idx[t])
          /\ Goto(t, "grow")
          /\ UNCHANGED <<conn, idx>>
    /\ UNCHANGED <<mutex, table, nc_type, app, call, handle, nc, nf, blk, type>>

\* calloc: a larger table, all zero.  The NULL table of the start is not
\* copied, and has nothing to copy.
Grow(t) ==
    /\ pc[t] = "grow"
    /\ nblocks < MaxBlocks
    /\ nblocks' = nblocks + 1
    /\ len' = [len EXCEPT ![nblocks + 1] = NewLen]
    /\ blk' = [blk EXCEPT ![t] = nblocks + 1]
    /\ left' = ToCopy
    /\ Goto(t, IF ToCopy = {} THEN "publish" ELSE "copy")
    /\ UNCHANGED <<mutex, netconn_maps, maps_size, entries, app, call, handle,
                   nc, idx, nf, type>>

\* memcpy, in whatever order: an entry as it is by then, which atu_close_r and
\* atu_socket of other tasks may change before and after.
CopyEntry(t) ==
    /\ pc[t] = "copy"
    /\ \E i \in left :
        /\ conn' = [conn EXCEPT ![<<blk[t], i>>] = conn[Entry(i)]]
        /\ nc_type' = [nc_type EXCEPT ![<<blk[t], i>>] = nc_type[Entry(i)]]
        /\ left' = left \ {i}
        /\ Goto(t, IF left = {i} THEN "publish" ELSE "copy")
    /\ UNCHANGED <<mutex, netconn_maps, maps_size, nblocks, len, app, locals>>

\* calloc returns NULL: atu_conn2fd is to return -1.
GrowFails(t) ==
    /\ pc[t] = "grow"
    /\ CallocMayFail \/ nblocks = MaxBlocks
    /\ idx' = [idx EXCEPT ![t] = NoIndex]
    /\ Goto(t, "unlock")
    /\ UNCHANGED <<mutex, table, entries, app, call, handle, nc, nf, blk, type>>

\* The size and the pointer are plain variables that other tasks read without
\* the mutex: the compiler may order the two stores as it likes.
PublishSize(t) ==
    /\ \/ pc[t] = "publish" /\ Goto(t, "maps")
       \/ pc[t] = "size" /\ Goto(t, "store")
    /\ maps_size' = maps_size + Growth
    /\ UNCHANGED <<mutex, netconn_maps, nblocks, len, left, entries, app,
                   locals>>

PublishMaps(t) ==
    /\ \/ pc[t] = "publish" /\ Goto(t, "size")
       \/ pc[t] = "maps" /\ Goto(t, "store")
    /\ netconn_maps' = blk[t]
    /\ UNCHANGED <<mutex, maps_size, nblocks, len, left, entries, app, locals>>

Store(t) ==
    /\ pc[t] = "store"
    /\ conn' = [conn EXCEPT ![Entry(idx[t])] = nc[t]]
    /\ Goto(t, "unlock")
    /\ UNCHANGED <<mutex, table, nc_type, app, locals>>

\* esp_sys_mutex_unlock reads the handle again, and releases the mutex only if
\* the task holds it.  atu_accept_r returns what atu_conn2fd returns.
Unlock(t) ==
    /\ pc[t] = "unlock"
    /\ holder' = [holder EXCEPT ![maps_lock] =
                    IF @ = t /\ Unlocks(t) THEN Null ELSE @]
    /\ IF call[t] = "accept"
       THEN /\ fds' = [fds EXCEPT ![t] = @ \cup ({idx[t]} \cap Index)]
            /\ Return(t)
       ELSE /\ Goto(t, "lookup")
            /\ UNCHANGED <<fds, locals>>
    /\ UNCHANGED <<maps_lock, table, entries, live>>

-----------------------------------------------------------------------------
(* atu_socket after its call of atu_conn2fd.                               *)

\* nf = atu_fd2conn(fd), whose NULL the next statement dereferences.
Lookup(t) ==
    /\ pc[t] = "lookup"
    /\ IF InTable(idx[t])
       THEN nf' = [nf EXCEPT ![t] = Entry(idx[t])] /\ Goto(t, "type")
       ELSE Goto(t, "fault") /\ UNCHANGED nf
    /\ UNCHANGED <<mutex, table, entries, app, call, handle, nc, idx, blk, type>>

\* nf->nc_type = nc_type, through a pointer that a growth may have overtaken.
SetType(t) ==
    /\ pc[t] = "type"
    /\ nc_type' = [nc_type EXCEPT ![nf[t]] = type[t]]
    /\ fds' = [fds EXCEPT ![t] = @ \cup {idx[t]}]
    /\ Return(t)
    /\ UNCHANGED <<mutex, table, conn, live>>

-----------------------------------------------------------------------------
(* atu_close_r.                                                            *)

\* A task closes a descriptor it was returned, or the -1 of a failed call.
CloseCall(t) ==
    /\ MayStart(t, "close")
    /\ \E s \in fds[t] :
        /\ InTable(s) /\ conn[Entry(s)] # Null
        /\ nf' = [nf EXCEPT ![t] = Entry(s)]
        /\ idx' = [idx EXCEPT ![t] = s]
        /\ fds' = [fds EXCEPT ![t] = @ \ {s}]
    /\ Begin(t, "close")
    /\ Goto(t, "delete")
    /\ UNCHANGED <<mutex, table, entries, live, handle, nc, blk, type>>

\* There is nothing behind the descriptor: atu_close_r returns -1 at once.
CloseBad(t) ==
    /\ MayStart(t, "close")
    /\ \E s \in fds[t] \cup {-1} :
        /\ ~(InTable(s) /\ conn[Entry(s)] # Null)
        /\ fds' = [fds EXCEPT ![t] = @ \ {s}]
    /\ UNCHANGED <<mutex, table, entries, live, pc, locals>>

\* esp_netconn_close and esp_netconn_delete of what the entry holds by now.
Delete(t) ==
    /\ pc[t] = "delete"
    /\ live' = live \ Doomed(t)
    /\ Goto(t, "clear")
    /\ UNCHANGED <<mutex, table, entries, fds, locals>>

\* nf->conn = NULL, whoever the entry belongs to by now.
Clear(t) ==
    /\ pc[t] = "clear"
    /\ conn' = [conn EXCEPT ![nf[t]] = Null]
    /\ Return(t)
    /\ UNCHANGED <<mutex, table, nc_type, app>>

-----------------------------------------------------------------------------
\* What a task does on its own once it is in a call and not kept waiting.
Work(t) ==
    /\ Running
    /\ \/ CreateLock(t) \/ NewConn(t) \/ NewFails(t)
       \/ Lock(t) \/ Match(t) \/ FindFree(t)
       \/ Grow(t) \/ GrowFails(t) \/ CopyEntry(t)
       \/ PublishSize(t) \/ PublishMaps(t) \/ Store(t) \/ Unlock(t)
       \/ Lookup(t) \/ SetType(t)
       \/ Delete(t) \/ Clear(t)

Start(t) == SocketCall(t) \/ AcceptCall(t) \/ CloseCall(t) \/ CloseBad(t)

Wait(t) == Running /\ (Acquire(t) \/ Accepted(t) \/ AcceptFails(t))

Next == \E t \in Tasks : Start(t) \/ Wait(t) \/ Work(t)

Spec == Init /\ [][Next]_vars

\* The scheduler runs every ready task, and the mutex of the RTOS wakes its
\* waiters in order: a task that waits for it gets it.
Fairness ==
    \A t \in Tasks : WF_vars(Work(t)) /\ SF_vars(Running /\ Acquire(t))

FairSpec == Spec /\ Fairness

-----------------------------------------------------------------------------
(* What makes the table correct.                                           *)

\* Every variable has its type: the pointers, sizes and locals of
\* atu_sockets.c stay in the ranges the model gives them.
TypeOK ==
    /\ maps_lock \in Tasks \cup {Null}
    /\ holder \in [Tasks -> Tasks \cup {Null}]
    /\ netconn_maps \in Blocks
    /\ maps_size \in 0 .. Cap
    /\ nblocks \in Blocks
    /\ len \in [Blocks -> 0 .. Cap]
    /\ left \in SUBSET Index
    /\ conn \in [Slots -> Conns \cup {Null}]
    /\ nc_type \in [Slots -> Types \cup {Unset}]
    /\ live \in SUBSET Conns
    /\ fds \in [Tasks -> SUBSET Index]
    /\ pc \in [Tasks -> Pcs]
    /\ call \in [Tasks -> Kinds \cup {"none"}]
    /\ handle \in [Tasks -> Tasks \cup {Null}]
    /\ nc \in [Tasks -> Conns \cup {Null}]
    /\ idx \in [Tasks -> -1 .. Cap]
    /\ nf \in [Tasks -> Slots]
    /\ blk \in [Tasks -> Blocks]
    /\ type \in [Tasks -> Types \cup {Unset}]

InCS(t) == pc[t] \in Locked

\* atu_conn2fd is a critical section: from esp_sys_mutex_lock to
\* esp_sys_mutex_unlock (lines 49-82) no two tasks search or grow the table.
LockExclusive == \A t, u \in Tasks : InCS(t) /\ InCS(u) => t = u

\* Every access stays inside the table it goes to, in the middle of a growth
\* too: the descriptors atu_fd2conn looks up for their owner, the entries the
\* loops of atu_conn2fd visit, the one it stores to after growing, and the
\* entry a call still points to although a growth has replaced its table.
InBounds ==
    \A t \in Tasks :
        /\ \A s \in fds[t] : InTable(s) /\ s < len[netconn_maps]
        /\ pc[t] \in {"match", "free"} /\ InTable(idx[t])
              => idx[t] < len[netconn_maps]
        /\ pc[t] = "store" => idx[t] < len[netconn_maps]
        /\ pc[t] \in {"type", "delete", "clear"} => nf[t][2] < len[nf[t][1]]

\* atu_conn2fd gives a netconn one entry of the table in use and no second
\* one, whatever was closed while its loops went through the table.
ConnUnique ==
    \A i, j \in 0 .. (len[netconn_maps] - 1) :
        conn[Entry(i)] = conn[Entry(j)] /\ conn[Entry(i)] # Null => i = j

\* The copy in the larger table has another type for entry i, because
\* atu_socket stored one in the old table after memcpy (line 127 is not under
\* maps_lock).
TypeMissed(i) ==
    \E t \in Tasks :
        /\ pc[t] \in {"publish", "maps"}
        /\ conn[<<blk[t], i>>] = conn[Entry(i)]
        /\ nc_type[<<blk[t], i>>] # nc_type[Entry(i)]

\* An entry in use keeps its netconn through any step of any task, the copy
\* and the switch to a larger table included, until atu_close_r clears it; and
\* it keeps its type, by which atu_recv_r decides whether a closed connection
\* is an end of file (line 395), from when atu_socket stores it, with the one
\* exception of a store that comes after the copy.
EntryKept ==
    [][\A i \in Index :
        InTable(i) /\ conn[Entry(i)] # Null =>
            /\ \/ i < maps_size' /\ conn'[<<netconn_maps', i>>] = conn[Entry(i)]
               \/ \E t \in Tasks : pc[t] = "clear" /\ nf[t] = Entry(i)
            /\ \/ nc_type'[<<netconn_maps', i>>] = nc_type[Entry(i)]
               \/ \E t \in Tasks : pc[t] = "type" /\ nf[t] = Entry(i)
               \/ TypeMissed(i)]_vars

\* A task that is in a call returns from it, unless it waits for a client or
\* the program has crashed: no order of the steps loses the mutex (failure
\* path of calloc included) or keeps a task in the loops of atu_conn2fd.
CallsReturn ==
    \A t \in Tasks :
        ~Idle(t) /\ pc[t] # "accept" ~> Idle(t) \/ ~Running

\* A descriptor belongs to the one task it was returned to, and the table in
\* use has a netconn behind it that nobody has deleted.
Ownership ==
    /\ \A t, u \in Tasks : fds[t] \cap fds[u] # {} => t = u
    /\ \A t \in Tasks : \A s \in fds[t] :
        InTable(s) /\ conn[Entry(s)] \in live

\* A netconn that is allocated is behind a descriptor that some task owns, or
\* in the hands of a call that is opening or closing it: none is lost.
NoLeak ==
    \A c \in live : \E t \in Tasks :
        \/ \E s \in fds[t] : conn[Entry(s)] = c
        \/ nc[t] = c
        \/ pc[t] = "delete" /\ conn[nf[t]] = c

\* The netconn behind each descriptor, as a caller sees it.
Behind == [s \in Index |-> IF InTable(s) THEN conn[Entry(s)] ELSE Null]

Promise == INSTANCE DescriptorTable WITH Descriptors <- Index, sock <- Behind

\* The table, the lock and the growth implement the descriptors that
\* DescriptorTable promises, lowest free descriptor first.
KeepsPromise == Promise!Spec
=============================================================================
