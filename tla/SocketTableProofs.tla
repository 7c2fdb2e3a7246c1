-------------------------- MODULE SocketTableProofs --------------------------
(***************************************************************************)
(* What holds of SocketTable for any number of tasks and netconns, any     *)
(* growth and any bound on the heap.  When the first call of atu_socket is *)
(* made alone: the types, the mutual exclusion of atu_conn2fd, that every  *)
(* access stays inside the table it goes to, that no netconn is given two  *)
(* entries, and that an entry in use keeps its netconn and its type.  When *)
(* no call overlaps atu_close_r either: one owner for each descriptor, no  *)
(* netconn lost if growths succeed, and the refinement of DescriptorTable. *)
(***************************************************************************)
EXTENDS SocketTable, FiniteSetTheorems, TLAPS

\* The obligation on callers that the theorems need.  Without it two tasks
\* create maps_lock twice and LockExclusive fails.
FirstCallAlone == "first" \in Exclusive

-----------------------------------------------------------------------------
(* The inductive invariant.                                                *)

\* The mutex handle is written once, by a call that runs alone, before any
\* task can read it or own a descriptor; whoever is between lock and unlock
\* holds that mutex.
LockInv ==
    /\ maps_lock = Null =>
        \A t \in Tasks : pc[t] \in {"idle", "create"} /\ fds[t] = {}
    /\ \A t \in Tasks : pc[t] = "create" =>
        /\ maps_lock = Null
        /\ call[t] = "first"
        /\ \A u \in Tasks : u # t => Idle(u)
    /\ \A t \in Tasks : pc[t] = "acquire" => handle[t] = maps_lock
    /\ \A t \in Tasks : InCS(t) => holder[maps_lock] = t

Publishing == {"copy", "publish", "size", "maps"}

\* Table b was allocated with b growths, and only allocated tables are used.
TablesInv ==
    /\ netconn_maps <= nblocks
    /\ \A b \in 0 .. nblocks : len[b] = b * Growth

\* Outside a growth the last table allocated is the one in use, and its size
\* is known exactly; inside one, either of the two stores may be missing.
SizeInv ==
    /\ (\A t \in Tasks : pc[t] \notin Publishing)
          => netconn_maps = nblocks /\ maps_size = nblocks * Growth
    /\ \A t \in Tasks : pc[t] \in Publishing =>
        /\ nblocks >= 1
        /\ blk[t] = nblocks
        /\ netconn_maps = IF pc[t] = "size" THEN nblocks ELSE nblocks - 1
        /\ maps_size = (IF pc[t] = "maps" THEN nblocks ELSE nblocks - 1)
                          * Growth
        /\ idx[t] = (nblocks - 1) * Growth

\* There is something left to copy only while a task copies, and it is of the
\* table in use.
LeftInv == \A i \in left : \E t \in Tasks : pc[t] = "copy" /\ i < maps_size

\* An index that selects an entry of the table in use.
Inside(i) == InTable(i) /\ i < len[netconn_maps]

\* The indices and pointers that a task holds select entries that exist.
HoldsInside(t) ==
    /\ \A s \in fds[t] : Inside(s)
    /\ pc[t] \in {"match", "free"} => idx[t] \in 0 .. maps_size
    /\ pc[t] = "grow" => idx[t] = maps_size
    /\ pc[t] = "store" => Inside(idx[t])
    /\ pc[t] \in {"unlock", "lookup"} => idx[t] = -1 \/ Inside(idx[t])
    /\ pc[t] = "type" => Inside(idx[t])
    /\ pc[t] \in {"type", "delete", "clear"} =>
        nf[t][1] <= nblocks /\ nf[t][2] < len[nf[t][1]]

IndexInv == \A t \in Tasks : HoldsInside(t)

IInv == TypeOK /\ LockInv /\ TablesInv /\ SizeInv /\ LeftInv /\ IndexInv

-----------------------------------------------------------------------------
(* Facts about the constants and the tables.                               *)

\* The arithmetic of a growth: table sizes are multiples of Growth.
LEMMA Multiples ==
    /\ Growth \in Nat /\ Growth > 0 /\ MaxBlocks \in Nat /\ MaxBlocks >= 1
    /\ Cap \in Nat /\ Cap > 0
    /\ \A n \in Nat : n * Growth \in Nat /\ (n + 1) * Growth = n * Growth + Growth
    /\ \A n \in Blocks : n \in Nat /\ n * Growth \in 0 .. Cap
    /\ \A n \in Blocks \ {0} : (n - 1) \in Blocks /\ (n - 1) * Growth + Growth = n * Growth
<1>1. Growth \in Nat /\ Growth > 0 /\ MaxBlocks \in Nat /\ MaxBlocks >= 1
    BY GrowthPositive, HeapBound
<1>2. \A n \in Nat : n * Growth \in Nat /\ (n + 1) * Growth = n * Growth + Growth
    BY <1>1
<1>3. ASSUME NEW n \in Blocks
      PROVE  n \in Nat /\ n * Growth \in 0 .. Cap
    <2>1. n \in Nat /\ n <= MaxBlocks
        BY <1>1 DEF Blocks
    <2>2. n * Growth <= MaxBlocks * Growth
        BY <1>1, <2>1
    <2> QED
        BY <1>1, <1>2, <2>1, <2>2 DEF Cap
<1>4. Cap \in Nat /\ Cap > 0
    BY <1>1 DEF Cap
<1>5. ASSUME NEW n \in Blocks \ {0}
      PROVE  (n - 1) \in Blocks /\ (n - 1) * Growth + Growth = n * Growth
    <2>1. (n - 1) \in Nat /\ (n - 1) + 1 = n /\ n - 1 \in Blocks
        BY <1>1 DEF Blocks
    <2> QED
        BY <1>2, <2>1
<1> QED
    BY <1>1, <1>2, <1>3, <1>4, <1>5

\* An index below Cap names an entry of every table.
LEMMA SlotOf ==
    /\ NoSlot \in Slots
    /\ \A b \in Blocks, i \in Index : <<b, i>> \in Slots
    /\ \A s \in Slots : s[1] \in Blocks /\ s[2] \in Index
BY Multiples DEF Slots, Index, Blocks, NoSlot

-----------------------------------------------------------------------------
(* Type correctness of the steps.                                          *)

\* The first state has the types.
LEMMA InitType == Init => TypeOK
BY NullIsNothing, SlotOf, Multiples DEF Init, TypeOK, Pcs, Kinds, Blocks, Index

\* A call that returns leaves well-typed locals behind.
LEMMA ReturnType ==
    ASSUME TypeOK, NEW t \in Tasks, Return(t)
    PROVE  /\ pc' \in [Tasks -> Pcs]
           /\ call' \in [Tasks -> Kinds \cup {"none"}]
           /\ handle' \in [Tasks -> Tasks \cup {Null}]
           /\ nc' \in [Tasks -> Conns \cup {Null}]
           /\ idx' \in [Tasks -> -1 .. Cap]
           /\ nf' \in [Tasks -> Slots]
           /\ blk' \in [Tasks -> Blocks]
           /\ type' \in [Tasks -> Types \cup {Unset}]
BY SlotOf, Multiples DEF TypeOK, Return, Goto, Pcs, Kinds, Blocks

\* At most one task is between lock and unlock, because each holds the mutex.
LEMMA OneInside ==
    ASSUME LockInv, NEW t \in Tasks, InCS(t), NEW u \in Tasks, InCS(u)
    PROVE  t = u
BY DEF LockInv

\* In the critical section and not publishing, a task sees the exact size.
LEMMA ExactSize ==
    ASSUME IInv, NEW t \in Tasks, InCS(t), pc[t] \notin Publishing
    PROVE  /\ netconn_maps = nblocks
           /\ maps_size = nblocks * Growth
           /\ len[netconn_maps] = maps_size
<1>1. \A u \in Tasks : pc[u] \notin Publishing
    BY OneInside DEF IInv, InCS, Publishing, Locked
<1>2. netconn_maps = nblocks /\ maps_size = nblocks * Growth
    BY <1>1 DEF IInv, SizeInv
<1>3. nblocks \in 0 .. nblocks
    BY DEF IInv, TypeOK, Blocks
<1> QED
    BY <1>2, <1>3 DEF IInv, TablesInv

\* An index that atu_fd2conn accepts names an entry of every table.
LEMMA InTableIndex ==
    ASSUME TypeOK, NEW i \in -1 .. Cap, InTable(i)
    PROVE  i \in Index /\ i + 1 \in 0 .. maps_size /\ i + 1 \in -1 .. Cap /\ Entry(i) \in Slots
BY SlotOf, Multiples DEF TypeOK, InTable, Index, Entry

\* Every step keeps the types; a growth fits because it starts from the exact
\* size.
LEMMA TypeStep ==
    ASSUME IInv, NEW t \in Tasks, Start(t) \/ Wait(t) \/ Work(t)
    PROVE  TypeOK'
<1> USE DEF IInv
<1>1. CASE SocketCall(t)
    BY <1>1 DEF TypeOK, SocketCall, Goto, Begin, Pcs, Locked, Kinds, mutex,
        table, entries, app
<1>2. CASE CreateLock(t)
    BY <1>2 DEF TypeOK, CreateLock, Goto, Pcs, Locked, table, entries, app,
        locals
<1>3. CASE NewConn(t)
    BY <1>3 DEF TypeOK, NewConn, Goto, Pcs, Locked, mutex, table, entries, app
<1>4. CASE NewFails(t)
    BY <1>4, ReturnType DEF TypeOK, NewFails, mutex, table, entries, app
<1>5. CASE AcceptCall(t)
    BY <1>5 DEF TypeOK, AcceptCall, Goto, Begin, Pcs, Locked, Kinds, mutex,
        table, entries, app
<1>6. CASE Accepted(t)
    BY <1>6 DEF TypeOK, Accepted, Goto, Pcs, Locked, mutex, table, entries, app
<1>7. CASE AcceptFails(t)
    BY <1>7, ReturnType DEF TypeOK, AcceptFails, mutex, table, entries, app
<1>8. CASE Lock(t)
    BY <1>8 DEF TypeOK, Lock, Goto, Pcs, Locked, mutex, table, entries, app
<1>9. CASE Acquire(t)
    <2>1. 0 \in -1 .. Cap
        BY Multiples
    <2> QED
        BY <1>9, <2>1 DEF TypeOK, Acquire, Goto, Pcs, Locked, table, entries,
            app
<1>10. CASE Match(t)
    <2>1. 0 \in -1 .. Cap /\ idx[t] \in -1 .. Cap
        BY Multiples DEF TypeOK
    <2>2. InTable(idx[t]) => idx[t] + 1 \in -1 .. Cap
        BY <2>1, InTableIndex
    <2>3. idx' \in [Tasks -> -1 .. Cap]
        BY <1>10, <2>1, <2>2 DEF TypeOK, Match
    <2>4. pc' \in [Tasks -> Pcs]
        BY <1>10 DEF TypeOK, Match, Goto, Pcs, Locked, mutex, table, entries,
            app
    <2> QED
        BY <1>10, <2>3, <2>4 DEF TypeOK, Match, mutex, table, entries, app
<1>11. CASE FindFree(t)
    <2>1. idx[t] \in -1 .. Cap
        BY DEF TypeOK
    <2>2. InTable(idx[t]) => idx[t] + 1 \in -1 .. Cap
        BY <2>1, InTableIndex
    <2>3. idx' \in [Tasks -> -1 .. Cap]
        BY <1>11, <2>1, <2>2 DEF TypeOK, FindFree
    <2>4. pc' \in [Tasks -> Pcs]
        BY <1>11 DEF TypeOK, FindFree, Goto, Pcs, Locked, mutex, table, app
    <2>5. conn' \in [Slots -> Conns \cup {Null}]
        BY <1>11 DEF TypeOK, FindFree
    <2> QED
        BY <1>11, <2>3, <2>4, <2>5 DEF TypeOK, FindFree, mutex, table, app
<1>12. CASE Grow(t)
    <2>1. maps_size = nblocks * Growth
        BY <1>12, ExactSize DEF Grow, InCS, Locked, Publishing
    <2>2. nblocks + 1 \in Blocks
        BY <1>12, Multiples DEF TypeOK, Grow, Blocks
    <2>3. maps_size + Growth \in 0 .. Cap
        BY <2>1, <2>2, Multiples DEF TypeOK, Blocks
    <2>4. len' \in [Blocks -> 0 .. Cap]
        BY <1>12, <2>3 DEF TypeOK, Grow, NewLen
    <2>5. left' \in SUBSET Index
        BY <1>12, Multiples DEF TypeOK, Grow, ToCopy, Index
    <2>6. pc' \in [Tasks -> Pcs] /\ blk' \in [Tasks -> Blocks]
        BY <1>12, <2>2 DEF TypeOK, Grow, Goto, Pcs, Locked
    <2> QED
        BY <1>12, <2>2, <2>4, <2>5, <2>6 DEF TypeOK, Grow, mutex, entries, app
<1>13. CASE GrowFails(t)
    BY <1>13, Multiples DEF TypeOK, GrowFails, NoIndex, Goto, Pcs, Locked,
        mutex, table, entries, app
<1>14. CASE PublishSize(t)
    <2>1. /\ nblocks \in Blocks \ {0}
          /\ maps_size = (nblocks - 1) * Growth
        BY <1>14 DEF PublishSize, SizeInv, TypeOK, Publishing, Blocks
    <2>2. maps_size + Growth \in 0 .. Cap
        BY <2>1, Multiples
    <2>3. pc' \in [Tasks -> Pcs]
        BY <1>14 DEF TypeOK, PublishSize, Goto, Pcs, Locked, mutex, entries,
            app, locals
    <2> QED
        BY <1>14, <2>2, <2>3 DEF TypeOK, PublishSize, mutex, entries, app,
            locals
<1>15. CASE PublishMaps(t)
    BY <1>15 DEF TypeOK, PublishMaps, Goto, Pcs, Locked, mutex, entries, app,
        locals
<1>16. CASE Store(t)
    BY <1>16 DEF TypeOK, Store, Goto, Pcs, Locked, mutex, table, app, locals
<1>17. CASE Unlock(t)
    <2>1. holder' \in [Tasks -> Tasks \cup {Null}]
        BY <1>17 DEF TypeOK, Unlock
    <2>2. CASE call[t] = "accept"
        <3>1. Return(t) /\ fds' = [fds EXCEPT ![t] = @ \cup ({idx[t]} \cap Index)]
            BY <1>17, <2>2 DEF Unlock
        <3>2. fds' \in [Tasks -> SUBSET Index]
            BY <3>1 DEF TypeOK
        <3> QED
            BY <1>17, <2>1, <3>1, <3>2, ReturnType DEF TypeOK, Unlock, table,
                entries
    <2>3. CASE call[t] # "accept"
        BY <1>17, <2>1, <2>3 DEF TypeOK, Unlock, Goto, Pcs, Locked, table,
            entries, app, locals
    <2> QED
        BY <2>2, <2>3
<1>18. CASE Lookup(t)
    <2>1. idx[t] \in -1 .. Cap
        BY DEF TypeOK
    <2>2. InTable(idx[t]) => Entry(idx[t]) \in Slots
        BY <2>1, InTableIndex
    <2>3. nf' \in [Tasks -> Slots]
        BY <1>18, <2>2 DEF TypeOK, Lookup
    <2>4. pc' \in [Tasks -> Pcs]
        BY <1>18 DEF TypeOK, Lookup, Goto, Pcs, Locked, mutex, table, entries,
            app
    <2> QED
        BY <1>18, <2>3, <2>4 DEF TypeOK, Lookup, mutex, table, entries, app
<1>19. CASE SetType(t)
    <2>1. idx[t] \in -1 .. Cap /\ InTable(idx[t])
        BY <1>19 DEF TypeOK, IndexInv, HoldsInside, Inside, SetType
    <2>2. idx[t] \in Index
        BY <2>1, InTableIndex
    <2> QED
        BY <1>19, <2>2, ReturnType DEF TypeOK, SetType, mutex, table, app
<1>20. CASE CloseCall(t)
    <2>1. \A s \in fds[t] : InTable(s) => /\ s \in -1 .. Cap
                                            /\ Entry(s) \in Slots
        BY SlotOf, Multiples DEF TypeOK, Index, Entry
    <2>2. pc' \in [Tasks -> Pcs] /\ call' \in [Tasks -> Kinds \cup {"none"}]
        BY <1>20 DEF TypeOK, CloseCall, Goto, Begin, Pcs, Kinds
    <2>3. nf' \in [Tasks -> Slots] /\ idx' \in [Tasks -> -1 .. Cap]
        BY <1>20, <2>1 DEF TypeOK, CloseCall
    <2>4. fds' \in [Tasks -> SUBSET Index]
        BY <1>20 DEF TypeOK, CloseCall
    <2> QED
        BY <1>20, <2>2, <2>3, <2>4 DEF TypeOK, CloseCall, mutex, table, entries,
            app
<1>21. CASE CloseBad(t)
    BY <1>21 DEF TypeOK, CloseBad, Pcs, Locked, mutex, table, entries, app,
        locals
<1>22. CASE Delete(t)
    BY <1>22 DEF TypeOK, Delete, Goto, Pcs, Locked, mutex, table, entries, app,
        locals
<1>23. CASE Clear(t)
    <2>1. conn' \in [Slots -> Conns \cup {Null}]
        BY <1>23 DEF TypeOK, Clear
    <2> QED
        BY <1>23, <2>1, ReturnType DEF TypeOK, Clear, mutex, table, app
<1>24. CASE CopyEntry(t)
    <2>1. \A i \in Index : Entry(i) \in Slots
        BY SlotOf DEF TypeOK, Entry
    <2>2. left \subseteq Index /\ left' \in SUBSET Index
        BY <1>24 DEF TypeOK, CopyEntry
    <2>3. PICK i \in left :
            /\ conn' = [conn EXCEPT ![<<blk[t], i>>] = conn[Entry(i)]]
            /\ nc_type' = [nc_type EXCEPT ![<<blk[t], i>>] = nc_type[Entry(i)]]
        BY <1>24 DEF CopyEntry
    <2>5. /\ conn[Entry(i)] \in Conns \cup {Null}
          /\ nc_type[Entry(i)] \in Types \cup {Unset}
        BY <2>1, <2>2 DEF TypeOK
    <2>6. conn' \in [Slots -> Conns \cup {Null}]
        BY <2>3, <2>5 DEF TypeOK
    <2>7. nc_type' \in [Slots -> Types \cup {Unset}]
        BY <2>3, <2>5 DEF TypeOK
    <2>4. pc' \in [Tasks -> Pcs]
        BY <1>24 DEF TypeOK, CopyEntry, Goto, Pcs, Locked
    <2> QED
        BY <1>24, <2>2, <2>4, <2>6, <2>7 DEF TypeOK, CopyEntry, mutex, app,
            locals
<1> QED
    BY <1>1, <1>2, <1>3, <1>4, <1>5, <1>6, <1>7, <1>8, <1>9, <1>10, <1>11,
        <1>12, <1>13, <1>14, <1>15, <1>16, <1>17, <1>18, <1>19, <1>20, <1>21,
        <1>22, <1>23, <1>24 DEF Start, Wait, Work

-----------------------------------------------------------------------------
(* The mutex protects atu_conn2fd.                                         *)

\* Every step keeps one mutex, one holder, and the first call alone.
LEMMA LockStep ==
    ASSUME FirstCallAlone, IInv, NEW t \in Tasks,
           Start(t) \/ Wait(t) \/ Work(t)
    PROVE  LockInv'
<1> USE DEF IInv
<1>1. CASE SocketCall(t)
    BY <1>1, NullIsNothing DEF TypeOK, LockInv, SocketCall, Goto, Begin,
        MayStart, Idle, InCS, Locked, mutex, app, FirstCallAlone
<1>2. CASE CreateLock(t)
    BY <1>2, NullIsNothing DEF TypeOK, LockInv, CreateLock, Goto, Idle, InCS,
        Locked, app, locals
<1>3. CASE NewConn(t)
    BY <1>3, NullIsNothing DEF TypeOK, LockInv, NewConn, Goto, Idle, InCS,
        Locked, mutex, app
<1>4. CASE NewFails(t)
    BY <1>4, NullIsNothing DEF TypeOK, LockInv, NewFails, Return, Goto, Idle,
        InCS, Locked, mutex, app
<1>5. CASE AcceptCall(t)
    BY <1>5, NullIsNothing DEF TypeOK, LockInv, AcceptCall, Goto, Begin,
        MayStart, Idle, InCS, Locked, mutex, app
<1>6. CASE Accepted(t)
    BY <1>6, NullIsNothing DEF TypeOK, LockInv, Accepted, Goto, Idle, InCS,
        Locked, mutex, app
<1>7. CASE AcceptFails(t)
    BY <1>7, NullIsNothing DEF TypeOK, LockInv, AcceptFails, Return, Goto, Idle,
        InCS, Locked, mutex, app
<1>8. CASE Lock(t)
    BY <1>8, NullIsNothing DEF TypeOK, LockInv, Lock, Goto, Idle, InCS, Locked,
        mutex, app
<1>9. CASE Acquire(t)
    BY <1>9, NullIsNothing DEF TypeOK, LockInv, Acquire, Goto, Idle, InCS,
        Locked, CanTake, app
<1>10. CASE Match(t)
    BY <1>10, NullIsNothing DEF TypeOK, LockInv, Match, Goto, Idle, InCS,
        Locked, mutex, app
<1>11. CASE FindFree(t)
    BY <1>11, NullIsNothing DEF TypeOK, LockInv, FindFree, Goto, Idle, InCS,
        Locked, mutex, app
<1>12. CASE Grow(t)
    BY <1>12, NullIsNothing DEF TypeOK, LockInv, Grow, Goto, Idle, InCS, Locked,
        mutex, app, locals
<1>13. CASE GrowFails(t)
    BY <1>13, NullIsNothing DEF TypeOK, LockInv, GrowFails, Goto, Idle, InCS,
        Locked, mutex, app
<1>14. CASE PublishSize(t)
    BY <1>14, NullIsNothing DEF TypeOK, LockInv, PublishSize, Goto, Idle, InCS,
        Locked, mutex, app, locals
<1>15. CASE PublishMaps(t)
    BY <1>15, NullIsNothing DEF TypeOK, LockInv, PublishMaps, Goto, Idle, InCS,
        Locked, mutex, app, locals
<1>16. CASE Store(t)
    BY <1>16, NullIsNothing DEF TypeOK, LockInv, Store, Goto, Idle, InCS,
        Locked, mutex, app, locals
<1>17. CASE Unlock(t)
    BY <1>17, NullIsNothing DEF TypeOK, LockInv, Unlock, Return, Goto, Idle,
        InCS, Locked, Unlocks, app, locals
<1>18. CASE Lookup(t)
    BY <1>18, NullIsNothing DEF TypeOK, LockInv, Lookup, Goto, Idle, InCS,
        Locked, mutex, app
<1>19. CASE SetType(t)
    BY <1>19, NullIsNothing DEF TypeOK, LockInv, SetType, Return, Goto, Idle,
        InCS, Locked, mutex, app
<1>20. CASE CloseCall(t)
    BY <1>20, NullIsNothing DEF TypeOK, LockInv, CloseCall, Goto, Begin,
        MayStart, Idle, InCS, Locked, mutex, app
<1>21. CASE CloseBad(t)
    BY <1>21, NullIsNothing DEF TypeOK, LockInv, CloseBad, MayStart, Idle, InCS,
        Locked, mutex, app, locals
<1>22. CASE Delete(t)
    BY <1>22, NullIsNothing DEF TypeOK, LockInv, Delete, Goto, Idle, InCS,
        Locked, mutex, app, locals
<1>23. CASE Clear(t)
    BY <1>23, NullIsNothing DEF TypeOK, LockInv, Clear, Return, Goto, Idle,
        InCS, Locked, mutex, app
<1>24. CASE CopyEntry(t)
    BY <1>24, NullIsNothing DEF TypeOK, LockInv, CopyEntry, Goto, Idle, InCS,
        Locked, mutex, app, locals
<1> QED
    BY <1>1, <1>2, <1>3, <1>4, <1>5, <1>6, <1>7, <1>8, <1>9, <1>10, <1>11,
        <1>12, <1>13, <1>14, <1>15, <1>16, <1>17, <1>18, <1>19, <1>20, <1>21,
        <1>22, <1>23, <1>24 DEF Start, Wait, Work

-----------------------------------------------------------------------------
(* The tables and the sizes.                                               *)

\* Nobody publishes a table while another task is in the critical section.
LEMMA OnePublishing ==
    ASSUME LockInv, NEW t \in Tasks, InCS(t), NEW u \in Tasks, pc[u] \in Publishing
    PROVE  u = t
BY OneInside DEF InCS, Publishing, Locked

\* Every step keeps the sizes; a growth is the only one that changes them, in
\* three steps of one task.
LEMMA SizeStep ==
    ASSUME IInv, NEW t \in Tasks, Start(t) \/ Wait(t) \/ Work(t)
    PROVE  TablesInv' /\ SizeInv'
<1> USE DEF IInv
<1>1. CASE SocketCall(t)
    BY <1>1 DEF TypeOK, TablesInv, SizeInv, Publishing, SocketCall, Goto, Begin,
        MayStart, Idle, table
<1>2. CASE CreateLock(t)
    BY <1>2 DEF TypeOK, TablesInv, SizeInv, Publishing, CreateLock, Goto, table,
        locals
<1>3. CASE NewConn(t)
    BY <1>3 DEF TypeOK, TablesInv, SizeInv, Publishing, NewConn, Goto, table
<1>4. CASE NewFails(t)
    BY <1>4 DEF TypeOK, TablesInv, SizeInv, Publishing, NewFails, Return, Goto,
        table
<1>5. CASE AcceptCall(t)
    BY <1>5 DEF TypeOK, TablesInv, SizeInv, Publishing, AcceptCall, Goto, Begin,
        MayStart, Idle, table
<1>6. CASE Accepted(t)
    BY <1>6 DEF TypeOK, TablesInv, SizeInv, Publishing, Accepted, Goto, table
<1>7. CASE AcceptFails(t)
    BY <1>7 DEF TypeOK, TablesInv, SizeInv, Publishing, AcceptFails, Return,
        Goto, table
<1>8. CASE Lock(t)
    BY <1>8 DEF TypeOK, TablesInv, SizeInv, Publishing, Lock, Goto, table
<1>9. CASE Acquire(t)
    BY <1>9 DEF TypeOK, TablesInv, SizeInv, Publishing, Acquire, Goto, table
<1>10. CASE Match(t)
    BY <1>10 DEF TypeOK, TablesInv, SizeInv, Publishing, Match, Goto, table
<1>11. CASE FindFree(t)
    BY <1>11 DEF TypeOK, TablesInv, SizeInv, Publishing, FindFree, Goto, table
<1>12. CASE Grow(t)
    <2>1. /\ netconn_maps = nblocks /\ maps_size = nblocks * Growth
          /\ idx[t] = maps_size
        BY <1>12, ExactSize DEF Grow, InCS, Locked, Publishing, IndexInv,
            HoldsInside
    <2>2. \A u \in Tasks : u # t => pc[u] \notin Publishing
        BY <1>12, OnePublishing DEF Grow, InCS, Locked
    <2>3. /\ nblocks \in Nat /\ nblocks < MaxBlocks /\ nblocks' = nblocks + 1
          /\ netconn_maps' = netconn_maps /\ maps_size' = maps_size
          /\ idx' = idx /\ blk' = [blk EXCEPT ![t] = nblocks + 1]
          /\ pc' \in {[pc EXCEPT ![t] = "copy"], [pc EXCEPT ![t] = "publish"]}
          /\ len' = [len EXCEPT ![nblocks + 1] = maps_size + Growth]
        BY <1>12, Multiples DEF TypeOK, Grow, NewLen, Goto, Blocks
    <2>4. TablesInv'
        <3>1. netconn_maps' <= nblocks'
            BY <2>1, <2>3
        <3>2. ASSUME NEW b \in 0 .. nblocks'
              PROVE  len'[b] = b * Growth
            <4>1. b \in Blocks /\ nblocks + 1 \in Blocks
                BY <2>3, Multiples DEF Blocks
            <4>2. CASE b = nblocks + 1
                BY <2>1, <2>3, <4>1, <4>2, Multiples DEF TypeOK
            <4>3. CASE b # nblocks + 1
                <5>1. b \in 0 .. nblocks
                    BY <2>3, <4>3
                <5> QED
                    BY <2>3, <4>1, <4>3, <5>1 DEF TypeOK, TablesInv
            <4> QED
                BY <4>2, <4>3
        <3> QED
            BY <3>1, <3>2 DEF TablesInv
    <2>5. SizeInv'
        <3>1. /\ nblocks' >= 1 /\ blk'[t] = nblocks'
              /\ pc'[t] \in {"copy", "publish"}
              /\ netconn_maps' = nblocks' - 1
              /\ maps_size' = (nblocks' - 1) * Growth
              /\ idx'[t] = (nblocks' - 1) * Growth
            <4>1. nblocks' - 1 = nblocks
                BY <2>3
            <4> QED
                BY <2>1, <2>3, <4>1 DEF TypeOK
        <3>2. \A u \in Tasks : u # t => pc'[u] \notin Publishing
            BY <2>2, <2>3 DEF TypeOK
        <3> QED
            BY <3>1, <3>2 DEF SizeInv, Publishing
    <2> QED
        BY <2>4, <2>5
<1>13. CASE GrowFails(t)
    BY <1>13 DEF TypeOK, TablesInv, SizeInv, Publishing, GrowFails, Goto, table
<1>14. CASE PublishSize(t)
    <2>1. \A u \in Tasks : u # t => pc[u] \notin Publishing
        BY <1>14, OnePublishing DEF PublishSize, InCS, Locked
    <2>2. /\ nblocks \in Blocks \ {0} /\ nblocks >= 1 /\ blk[t] = nblocks
          /\ pc[t] \in {"publish", "size"}
          /\ netconn_maps = (IF pc[t] = "size" THEN nblocks ELSE nblocks - 1)
          /\ maps_size = (IF pc[t] = "maps" THEN nblocks ELSE nblocks - 1) * Growth
          /\ idx[t] = (nblocks - 1) * Growth
        BY <1>14 DEF TypeOK, PublishSize, SizeInv, Publishing, Blocks
    <2>3. (nblocks - 1) * Growth + Growth = nblocks * Growth
        BY <2>2, Multiples
    <2>4. /\ pc' = [pc EXCEPT ![t] = IF pc[t] = "publish" THEN "maps" ELSE "store"]
          /\ UNCHANGED <<nblocks, len, blk, idx, netconn_maps>>
          /\ maps_size' = maps_size + Growth
        BY <1>14 DEF PublishSize, Goto, locals
    <2>5. TablesInv'
        BY <2>2, <2>4 DEF TypeOK, TablesInv, Blocks
    <2>6. SizeInv'
        BY <2>1, <2>2, <2>3, <2>4 DEF TypeOK, SizeInv, Publishing
    <2> QED
        BY <2>5, <2>6
<1>15. CASE PublishMaps(t)
    <2>1. \A u \in Tasks : u # t => pc[u] \notin Publishing
        BY <1>15, OnePublishing DEF PublishMaps, InCS, Locked
    <2>2. /\ nblocks \in Blocks \ {0} /\ nblocks >= 1 /\ blk[t] = nblocks
          /\ pc[t] \in {"publish", "maps"}
          /\ netconn_maps = (IF pc[t] = "size" THEN nblocks ELSE nblocks - 1)
          /\ maps_size = (IF pc[t] = "maps" THEN nblocks ELSE nblocks - 1) * Growth
          /\ idx[t] = (nblocks - 1) * Growth
        BY <1>15 DEF TypeOK, PublishMaps, SizeInv, Publishing, Blocks
    <2>3. (nblocks - 1) * Growth + Growth = nblocks * Growth
        BY <2>2, Multiples
    <2>4. /\ pc' = [pc EXCEPT ![t] = IF pc[t] = "publish" THEN "size" ELSE "store"]
          /\ UNCHANGED <<nblocks, len, blk, idx, maps_size>>
          /\ netconn_maps' = blk[t]
        BY <1>15 DEF PublishMaps, Goto, locals
    <2>5. TablesInv'
        BY <2>2, <2>4 DEF TypeOK, TablesInv, Blocks
    <2>6. SizeInv'
        BY <2>1, <2>2, <2>3, <2>4 DEF TypeOK, SizeInv, Publishing
    <2> QED
        BY <2>5, <2>6
<1>16. CASE Store(t)
    BY <1>16 DEF TypeOK, TablesInv, SizeInv, Publishing, Store, Goto, table,
        locals
<1>17. CASE Unlock(t)
    BY <1>17 DEF TypeOK, TablesInv, SizeInv, Publishing, Unlock, Return, Goto,
        table, locals
<1>18. CASE Lookup(t)
    BY <1>18 DEF TypeOK, TablesInv, SizeInv, Publishing, Lookup, Goto, table
<1>19. CASE SetType(t)
    BY <1>19 DEF TypeOK, TablesInv, SizeInv, Publishing, SetType, Return, Goto,
        table
<1>20. CASE CloseCall(t)
    BY <1>20 DEF TypeOK, TablesInv, SizeInv, Publishing, CloseCall, Goto, Begin,
        MayStart, Idle, table
<1>21. CASE CloseBad(t)
    BY <1>21 DEF TypeOK, TablesInv, SizeInv, Publishing, CloseBad, MayStart,
        Idle, table, locals
<1>22. CASE Delete(t)
    BY <1>22 DEF TypeOK, TablesInv, SizeInv, Publishing, Delete, Goto, table,
        locals
<1>23. CASE Clear(t)
    BY <1>23 DEF TypeOK, TablesInv, SizeInv, Publishing, Clear, Return, Goto,
        table
<1>24. CASE CopyEntry(t)
    <2>1. \A u \in Tasks : u # t => pc[u] \notin Publishing
        BY <1>24, OnePublishing DEF CopyEntry, InCS, Locked
    <2>2. /\ UNCHANGED <<netconn_maps, maps_size, nblocks, len, blk, idx>>
          /\ pc' \in {[pc EXCEPT ![t] = "copy"], [pc EXCEPT ![t] = "publish"]}
          /\ pc[t] = "copy"
        BY <1>24 DEF CopyEntry, Goto, locals
    <2>3. TablesInv'
        BY <2>2 DEF TablesInv
    <2>4. SizeInv'
        BY <2>1, <2>2 DEF TypeOK, SizeInv, Publishing
    <2> QED
        BY <2>3, <2>4
<1> QED
    BY <1>1, <1>2, <1>3, <1>4, <1>5, <1>6, <1>7, <1>8, <1>9, <1>10, <1>11,
        <1>12, <1>13, <1>14, <1>15, <1>16, <1>17, <1>18, <1>19, <1>20, <1>21,
        <1>22, <1>23, <1>24 DEF Start, Wait, Work

-----------------------------------------------------------------------------
(* The indices and pointers.                                               *)

\* A step of t leaves the other tasks where they are.
LEMMA OthersStay ==
    ASSUME IInv, NEW t \in Tasks, Start(t) \/ Wait(t) \/ Work(t),
           NEW u \in Tasks, u # t
    PROVE  /\ pc'[u] = pc[u] /\ idx'[u] = idx[u]
           /\ nf'[u] = nf[u] /\ fds'[u] = fds[u]
<1> USE DEF IInv
<1>1. CASE SocketCall(t)
    BY <1>1 DEF TypeOK, SocketCall, Goto, app
<1>2. CASE CreateLock(t)
    BY <1>2 DEF TypeOK, CreateLock, Goto, app, locals
<1>3. CASE NewConn(t)
    BY <1>3 DEF TypeOK, NewConn, Goto, app
<1>4. CASE NewFails(t)
    BY <1>4 DEF TypeOK, NewFails, Return, Goto, app
<1>5. CASE AcceptCall(t)
    BY <1>5 DEF TypeOK, AcceptCall, Goto, app
<1>6. CASE Accepted(t)
    BY <1>6 DEF TypeOK, Accepted, Goto, app
<1>7. CASE AcceptFails(t)
    BY <1>7 DEF TypeOK, AcceptFails, Return, Goto, app
<1>8. CASE Lock(t)
    BY <1>8 DEF TypeOK, Lock, Goto, app
<1>9. CASE Acquire(t)
    BY <1>9 DEF TypeOK, Acquire, Goto, app
<1>10. CASE Match(t)
    BY <1>10 DEF TypeOK, Match, Goto, app
<1>11. CASE FindFree(t)
    BY <1>11 DEF TypeOK, FindFree, Goto, app
<1>12. CASE Grow(t)
    BY <1>12 DEF TypeOK, Grow, Goto, app, locals
<1>13. CASE GrowFails(t)
    BY <1>13 DEF TypeOK, GrowFails, Goto, app
<1>14. CASE PublishSize(t)
    BY <1>14 DEF TypeOK, PublishSize, Goto, app, locals
<1>15. CASE PublishMaps(t)
    BY <1>15 DEF TypeOK, PublishMaps, Goto, app, locals
<1>16. CASE Store(t)
    BY <1>16 DEF TypeOK, Store, Goto, app, locals
<1>17. CASE Unlock(t)
    BY <1>17 DEF TypeOK, Unlock, Return, Goto, app, locals
<1>18. CASE Lookup(t)
    BY <1>18 DEF TypeOK, Lookup, Goto, app
<1>19. CASE SetType(t)
    BY <1>19 DEF TypeOK, SetType, Return, Goto, app
<1>20. CASE CloseCall(t)
    BY <1>20 DEF TypeOK, CloseCall, Goto, app
<1>21. CASE CloseBad(t)
    BY <1>21 DEF TypeOK, CloseBad, app, locals
<1>22. CASE Delete(t)
    BY <1>22 DEF TypeOK, Delete, Goto, app, locals
<1>23. CASE Clear(t)
    BY <1>23 DEF TypeOK, Clear, Return, Goto, app
<1>24. CASE CopyEntry(t)
    BY <1>24 DEF TypeOK, CopyEntry, Goto, app, locals
<1> QED
    BY <1>1, <1>2, <1>3, <1>4, <1>5, <1>6, <1>7, <1>8, <1>9, <1>10, <1>11,
        <1>12, <1>13, <1>14, <1>15, <1>16, <1>17, <1>18, <1>19, <1>20, <1>21,
        <1>22, <1>23, <1>24 DEF Start, Wait, Work

\* Tables only grow: what is inside one stays inside, and the size that a
\* task in the critical section works with changes by its own steps only.
LEMMA TablesGrow ==
    ASSUME IInv, NEW t \in Tasks, Start(t) \/ Wait(t) \/ Work(t)
    PROVE  /\ nblocks <= nblocks'
           /\ \A b \in 0 .. nblocks : len'[b] = len[b]
           /\ \A i \in -1 .. Cap : Inside(i) => Inside(i)'
           /\ \A u \in Tasks : u # t /\ InCS(u) => maps_size' = maps_size
<1> USE DEF IInv
<1>0. netconn_maps \in 0 .. nblocks
    BY DEF TypeOK, TablesInv, Blocks
<1>1. CASE SocketCall(t)
    BY <1>0, <1>1 DEF TypeOK, SocketCall, Inside, InTable, Blocks, table
<1>2. CASE CreateLock(t)
    BY <1>0, <1>2 DEF TypeOK, CreateLock, Inside, InTable, Blocks, table
<1>3. CASE NewConn(t)
    BY <1>0, <1>3 DEF TypeOK, NewConn, Inside, InTable, Blocks, table
<1>4. CASE NewFails(t)
    BY <1>0, <1>4 DEF TypeOK, NewFails, Inside, InTable, Blocks, table
<1>5. CASE AcceptCall(t)
    BY <1>0, <1>5 DEF TypeOK, AcceptCall, Inside, InTable, Blocks, table
<1>6. CASE Accepted(t)
    BY <1>0, <1>6 DEF TypeOK, Accepted, Inside, InTable, Blocks, table
<1>7. CASE AcceptFails(t)
    BY <1>0, <1>7 DEF TypeOK, AcceptFails, Inside, InTable, Blocks, table
<1>8. CASE Lock(t)
    BY <1>0, <1>8 DEF TypeOK, Lock, Inside, InTable, Blocks, table
<1>9. CASE Acquire(t)
    BY <1>0, <1>9 DEF TypeOK, Acquire, Inside, InTable, Blocks, table
<1>10. CASE Match(t)
    BY <1>0, <1>10 DEF TypeOK, Match, Inside, InTable, Blocks, table
<1>11. CASE FindFree(t)
    BY <1>0, <1>11 DEF TypeOK, FindFree, Inside, InTable, Blocks, table
<1>12. CASE Grow(t)
    <2>1. len' = [len EXCEPT ![nblocks + 1] = maps_size + Growth]
        BY <1>12 DEF Grow, NewLen
    <2>2. \A b \in 0 .. nblocks : len'[b] = len[b]
        BY <2>1 DEF TypeOK, Blocks
    <2> QED
        BY <1>0, <1>12, <2>2 DEF TypeOK, Grow, Inside, InTable, Blocks
<1>13. CASE GrowFails(t)
    BY <1>0, <1>13 DEF TypeOK, GrowFails, Inside, InTable, Blocks, table
<1>14. CASE PublishSize(t)
    <2>1. \A u \in Tasks : u # t => ~InCS(u)
        BY <1>14, OneInside DEF PublishSize, InCS, Locked
    <2> QED
        BY <1>0, <1>14, <2>1, Multiples DEF TypeOK, PublishSize, Inside,
            InTable, Blocks
<1>15. CASE PublishMaps(t)
    <2>1. /\ netconn_maps = nblocks - 1 /\ netconn_maps' = nblocks
          /\ UNCHANGED <<maps_size, nblocks, len>>
        BY <1>15 DEF PublishMaps, SizeInv, Publishing, TypeOK
    <2>2. len[nblocks - 1] <= len[nblocks]
        <3>1. nblocks \in Blocks \ {0}
            BY <1>0, <2>1 DEF TypeOK, Blocks
        <3> QED
            BY <3>1, <1>0, <2>1, Multiples DEF TablesInv, TypeOK, Blocks
    <2>3. len[netconn_maps] <= len'[netconn_maps']
        BY <2>1, <2>2
    <2>4. len[netconn_maps] \in Int /\ len'[netconn_maps'] \in Int
        BY <1>0, <2>1 DEF TypeOK
    <2>5. ASSUME NEW i \in -1 .. Cap, Inside(i)
          PROVE  Inside(i)'
        BY <2>1, <2>3, <2>4, <2>5, Multiples DEF Inside, InTable
    <2> QED
        BY <2>1, <2>5 DEF TypeOK, Blocks
<1>16. CASE Store(t)
    BY <1>0, <1>16 DEF TypeOK, Store, Inside, InTable, Blocks, table
<1>17. CASE Unlock(t)
    BY <1>0, <1>17 DEF TypeOK, Unlock, Inside, InTable, Blocks, table
<1>18. CASE Lookup(t)
    BY <1>0, <1>18 DEF TypeOK, Lookup, Inside, InTable, Blocks, table
<1>19. CASE SetType(t)
    BY <1>0, <1>19 DEF TypeOK, SetType, Inside, InTable, Blocks, table
<1>20. CASE CloseCall(t)
    BY <1>0, <1>20 DEF TypeOK, CloseCall, Inside, InTable, Blocks, table
<1>21. CASE CloseBad(t)
    BY <1>0, <1>21 DEF TypeOK, CloseBad, Inside, InTable, Blocks, table
<1>22. CASE Delete(t)
    BY <1>0, <1>22 DEF TypeOK, Delete, Inside, InTable, Blocks, table
<1>23. CASE Clear(t)
    BY <1>0, <1>23 DEF TypeOK, Clear, Inside, InTable, Blocks, table
<1>24. CASE CopyEntry(t)
    BY <1>0, <1>24 DEF TypeOK, CopyEntry, Inside, InTable, Blocks
<1> QED
    BY <1>1, <1>2, <1>3, <1>4, <1>5, <1>6, <1>7, <1>8, <1>9, <1>10, <1>11,
        <1>12, <1>13, <1>14, <1>15, <1>16, <1>17, <1>18, <1>19, <1>20, <1>21,
        <1>22, <1>23, <1>24 DEF Start, Wait, Work

\* Every step keeps the indices and pointers of all tasks inside their tables.
LEMMA IndexStep ==
    ASSUME IInv, NEW t \in Tasks, Start(t) \/ Wait(t) \/ Work(t)
    PROVE  IndexInv'
<1> USE DEF IInv
<1>a. HoldsInside(t) /\ \A u \in Tasks : HoldsInside(u)
    BY DEF IndexInv
<1>b. /\ nblocks <= nblocks'
      /\ \A b \in 0 .. nblocks : len'[b] = len[b]
      /\ \A i \in -1 .. Cap : Inside(i) => Inside(i)'
    BY TablesGrow
<1>i. PICK i \in -1 .. Cap : i = idx[t]
    BY DEF TypeOK
<1>c. \A s \in fds[t] : Inside(s)'
    BY <1>a, <1>b, Multiples DEF HoldsInside, TypeOK, Index
<1>d. ASSUME NEW u \in Tasks, u # t
      PROVE  HoldsInside(u)'
    <2>1. /\ pc'[u] = pc[u] /\ idx'[u] = idx[u]
          /\ nf'[u] = nf[u] /\ fds'[u] = fds[u]
        BY <1>d, OthersStay
    <2>2. InCS(u) => maps_size' = maps_size
        BY <1>d, TablesGrow
    <2>3. \A s \in fds[u] : Inside(s)'
        BY <1>a, <1>b, Multiples DEF HoldsInside, TypeOK, Index
    <2>4. nf[u][1] \in Nat /\ (nf[u][1] <= nblocks => nf[u][1] \in 0 .. nblocks)
        <3>1. nf[u] \in Slots /\ nblocks \in Nat
            BY DEF TypeOK, Blocks
        <3>2. nf[u][1] \in Blocks
            BY <3>1, SlotOf
        <3> QED
            BY <3>1, <3>2 DEF Blocks
    <2>5. idx[u] \in -1 .. Cap
        BY DEF TypeOK
    <2>6. nblocks \in Nat /\ nblocks' \in Nat
        BY TypeStep, SMTT(30) DEF TypeOK, Blocks
    <2> QED
        BY <1>a, <1>b, <2>1, <2>2, <2>3, <2>4, <2>5, <2>6 DEF HoldsInside, InCS,
            Locked
<1>e. ASSUME HoldsInside(t)'
      PROVE  IndexInv'
    BY <1>d, <1>e DEF IndexInv
<1>1. CASE SocketCall(t)
    BY <1>1, <1>c, <1>e DEF TypeOK, HoldsInside, SocketCall, Goto, Begin,
        MayStart, Idle, app
<1>2. CASE CreateLock(t)
    BY <1>2, <1>c, <1>e DEF TypeOK, HoldsInside, CreateLock, Goto, app, locals
<1>3. CASE NewConn(t)
    BY <1>3, <1>c, <1>e DEF TypeOK, HoldsInside, NewConn, Goto, app
<1>4. CASE NewFails(t)
    BY <1>4, <1>c, <1>e DEF TypeOK, HoldsInside, NewFails, Return, Goto, app
<1>5. CASE AcceptCall(t)
    BY <1>5, <1>c, <1>e DEF TypeOK, HoldsInside, AcceptCall, Goto, Begin,
        MayStart, Idle, app
<1>6. CASE Accepted(t)
    BY <1>6, <1>c, <1>e DEF TypeOK, HoldsInside, Accepted, Goto, app
<1>7. CASE AcceptFails(t)
    BY <1>7, <1>c, <1>e DEF TypeOK, HoldsInside, AcceptFails, Return, Goto, app
<1>8. CASE Lock(t)
    BY <1>8, <1>c, <1>e DEF TypeOK, HoldsInside, Lock, Goto, app
<1>9. CASE Acquire(t)
    <2>1. 0 \in 0 .. maps_size
        BY DEF TypeOK
    <2> QED
        BY <1>9, <1>c, <1>e, <2>1 DEF TypeOK, HoldsInside, Acquire, Goto, table,
            app
<1>10. CASE Match(t)
    <2>1. maps_size = len[netconn_maps] /\ maps_size \in Nat
        BY <1>10, ExactSize DEF Match, InCS, Locked, Publishing, TypeOK
    <2>2. idx[t] \in 0 .. maps_size
        BY <1>10, <1>a DEF Match, HoldsInside
    <2>3. InTable(idx[t]) => Inside(idx[t]) /\ idx[t] + 1 \in 0 .. maps_size
        BY <2>1, <2>2 DEF Inside, InTable
    <2>4. ~InTable(idx[t]) => idx[t] = maps_size
        BY <2>1, <2>2 DEF InTable
    <2>5. Inside(idx[t]) => Inside(i)'
        BY <1>b, <1>i
    <2>6. UNCHANGED <<maps_size, fds>> /\ pc' \in [Tasks -> Pcs] /\ 0 \in 0 .. maps_size
        BY <1>10, <2>1, TypeStep DEF Match, table, app, TypeOK
    <2> QED
        BY <1>10, <1>c, <1>e, <1>i, <2>2, <2>3, <2>4, <2>5, <2>6 DEF TypeOK,
            HoldsInside, Match, Goto
<1>11. CASE FindFree(t)
    <2>1. maps_size = len[netconn_maps] /\ maps_size \in Nat
        BY <1>11, ExactSize DEF FindFree, InCS, Locked, Publishing, TypeOK
    <2>2. idx[t] \in 0 .. maps_size
        BY <1>11, <1>a DEF FindFree, HoldsInside
    <2>3. InTable(idx[t]) => Inside(idx[t]) /\ idx[t] + 1 \in 0 .. maps_size
        BY <2>1, <2>2 DEF Inside, InTable
    <2>4. ~InTable(idx[t]) => idx[t] = maps_size
        BY <2>1, <2>2 DEF InTable
    <2>5. Inside(idx[t]) => Inside(i)'
        BY <1>b, <1>i
    <2>6. UNCHANGED <<maps_size, fds>> /\ pc' \in [Tasks -> Pcs] /\ 0 \in 0 .. maps_size
        BY <1>11, <2>1, TypeStep DEF FindFree, table, app, TypeOK
    <2> QED
        BY <1>11, <1>c, <1>e, <1>i, <2>2, <2>3, <2>4, <2>5, <2>6 DEF TypeOK,
            HoldsInside, FindFree, Goto
<1>12. CASE Grow(t)
    BY <1>12, <1>c, <1>e DEF TypeOK, HoldsInside, Grow, Goto, Idle, app, locals
<1>13. CASE GrowFails(t)
    BY <1>13, <1>c, <1>e DEF TypeOK, HoldsInside, GrowFails, NoIndex, Goto, app
<1>14. CASE PublishSize(t)
    <2>1. UNCHANGED <<idx, fds, nf>> /\ pc'[t] \in {"size", "maps", "store"}
        BY <1>14 DEF PublishSize, Goto, app, locals, TypeOK
    <2>2. TypeOK' /\ TablesInv' /\ SizeInv' /\ nblocks' = nblocks
        BY <1>14, TypeStep, SizeStep DEF PublishSize
    <2>3. ASSUME pc'[t] = "store"
          PROVE  Inside(idx[t])'
        <3>1. pc[t] = "size" /\ pc' = [pc EXCEPT ![t] = "store"]
            BY <1>14, <2>3 DEF PublishSize, Goto, TypeOK
        <3>2. /\ nblocks \in Blocks \ {0} /\ idx[t] = (nblocks - 1) * Growth
              /\ netconn_maps' = nblocks /\ maps_size' = nblocks * Growth
            <4>1. /\ nblocks \in Nat /\ nblocks >= 1 /\ idx[t] = (nblocks - 1) * Growth
                  /\ blk[t] = nblocks
                  /\ netconn_maps = (IF pc[t] = "size" THEN nblocks ELSE nblocks - 1)
                  /\ maps_size = (IF pc[t] = "maps" THEN nblocks ELSE nblocks - 1) * Growth
                BY <3>1 DEF SizeInv, Publishing, TypeOK, Blocks
            <4>2. nblocks \in Blocks \ {0}
                BY <4>1 DEF TypeOK
            <4>3. (nblocks - 1) * Growth + Growth = nblocks * Growth
                BY <4>2, Multiples
            <4> QED
                BY <1>14, <3>1, <4>1, <4>2, <4>3 DEF PublishSize
        <3>3. len'[nblocks] = nblocks * Growth
            BY <2>2, <3>2 DEF TablesInv, Blocks
        <3>4. idx[t] >= 0 /\ idx[t] < nblocks * Growth
            BY <3>2, Multiples
        <3> QED
            BY <2>1, <3>2, <3>3, <3>4 DEF Inside, InTable
    <2> QED
        BY <1>c, <1>e, <2>1, <2>3 DEF HoldsInside
<1>15. CASE PublishMaps(t)
    <2>1. UNCHANGED <<idx, fds, nf>> /\ pc'[t] \in {"size", "maps", "store"}
        BY <1>15 DEF PublishMaps, Goto, app, locals, TypeOK
    <2>2. TypeOK' /\ TablesInv' /\ SizeInv' /\ nblocks' = nblocks
        BY <1>15, TypeStep, SizeStep DEF PublishMaps
    <2>3. ASSUME pc'[t] = "store"
          PROVE  Inside(idx[t])'
        <3>1. pc[t] = "maps" /\ pc' = [pc EXCEPT ![t] = "store"]
            BY <1>15, <2>3 DEF PublishMaps, Goto, TypeOK
        <3>2. /\ nblocks \in Blocks \ {0} /\ idx[t] = (nblocks - 1) * Growth
              /\ netconn_maps' = nblocks /\ maps_size' = nblocks * Growth
            <4>1. /\ nblocks \in Nat /\ nblocks >= 1 /\ idx[t] = (nblocks - 1) * Growth
                  /\ blk[t] = nblocks
                  /\ netconn_maps = (IF pc[t] = "size" THEN nblocks ELSE nblocks - 1)
                  /\ maps_size = (IF pc[t] = "maps" THEN nblocks ELSE nblocks - 1) * Growth
                BY <3>1 DEF SizeInv, Publishing, TypeOK, Blocks
            <4>2. nblocks \in Blocks \ {0}
                BY <4>1 DEF TypeOK
            <4>3. (nblocks - 1) * Growth + Growth = nblocks * Growth
                BY <4>2, Multiples
            <4> QED
                BY <1>15, <3>1, <4>1, <4>2, <4>3 DEF PublishMaps
        <3>3. len'[nblocks] = nblocks * Growth
            BY <2>2, <3>2 DEF TablesInv, Blocks
        <3>4. idx[t] >= 0 /\ idx[t] < nblocks * Growth
            BY <3>2, Multiples
        <3> QED
            BY <2>1, <3>2, <3>3, <3>4 DEF Inside, InTable
    <2> QED
        BY <1>c, <1>e, <2>1, <2>3 DEF HoldsInside
<1>16. CASE Store(t)
    <2>1. Inside(i)'
        BY <1>16, <1>a, <1>b, <1>i DEF Store, HoldsInside
    <2> QED
        BY <1>i, <1>16, <1>c, <1>e, <2>1 DEF TypeOK, HoldsInside, Store, Goto,
            app, locals
<1>17. CASE Unlock(t)
    <2>1. i = -1 \/ Inside(i)'
        BY <1>17, <1>a, <1>b, <1>i DEF Unlock, HoldsInside
    <2>2. \A s \in {i} \cap Index : Inside(s)'
        BY <2>1 DEF Index
    <2>3. CASE call[t] = "accept"
        <3>1. pc'[t] = "idle" /\ fds'[t] = fds[t] \cup ({idx[t]} \cap Index)
            BY <1>17, <2>3 DEF Unlock, Return, Goto, TypeOK
        <3> QED
            BY <1>c, <1>e, <1>i, <2>2, <3>1 DEF HoldsInside
    <2>4. CASE call[t] # "accept"
        <3>1. pc'[t] = "lookup" /\ idx' = idx /\ fds' = fds
            BY <1>17, <2>4 DEF Unlock, Goto, locals, TypeOK
        <3> QED
            BY <1>c, <1>e, <1>i, <2>1, <3>1 DEF HoldsInside
    <2> QED
        BY <2>3, <2>4
<1>18. CASE Lookup(t)
    <2>1. InTable(idx[t]) => Inside(idx[t]) /\ Inside(idx[t])'
        <3>1. idx[t] = -1 => ~InTable(idx[t])
            BY DEF InTable
        <3> QED
            BY <1>18, <1>a, <1>b, <3>1 DEF Lookup, HoldsInside, TypeOK
    <2>2. UNCHANGED <<netconn_maps, nblocks, len, idx, fds>>
        BY <1>18 DEF Lookup, table, app
    <2>3. CASE InTable(idx[t])
        <3>1. pc'[t] = "type" /\ nf'[t] = <<netconn_maps, idx[t]>>
            BY <1>18, <2>3 DEF Lookup, Goto, Entry, TypeOK
        <3>2. nf'[t][1] = netconn_maps /\ nf'[t][2] = idx[t]
            BY <3>1
        <3>3. netconn_maps <= nblocks /\ idx[t] < len[netconn_maps]
            BY <2>1, <2>3 DEF Inside, TablesInv
        <3> QED
            BY <1>c, <1>e, <2>1, <2>2, <2>3, <3>1, <3>2, <3>3 DEF HoldsInside
    <2>4. CASE ~InTable(idx[t])
        <3>1. pc'[t] = "fault"
            BY <1>18, <2>4 DEF Lookup, Goto, TypeOK
        <3> QED
            BY <1>c, <1>e, <2>2, <3>1 DEF HoldsInside
    <2> QED
        BY <2>3, <2>4
<1>19. CASE SetType(t)
    <2>1. Inside(i)'
        BY <1>19, <1>a, <1>b, <1>i DEF SetType, HoldsInside
    <2>2. pc'[t] = "idle" /\ fds'[t] = fds[t] \cup {idx[t]}
        BY <1>19 DEF SetType, Return, Goto, TypeOK
    <2> QED
        BY <1>c, <1>e, <1>i, <2>1, <2>2 DEF HoldsInside
<1>20. CASE CloseCall(t)
    <2>1. PICK s \in fds[t] : /\ nf' = [nf EXCEPT ![t] = Entry(s)]
                              /\ fds' = [fds EXCEPT ![t] = @ \ {s}]
        BY <1>20 DEF CloseCall
    <2>2. /\ pc'[t] = "delete" /\ UNCHANGED <<netconn_maps, nblocks, len>>
        BY <1>20 DEF CloseCall, Goto, table, TypeOK
    <2>3. nf'[t] = <<netconn_maps, s>> /\ fds'[t] = fds[t] \ {s}
        BY <2>1 DEF Entry, TypeOK
    <2>4. netconn_maps <= nblocks /\ s < len[netconn_maps]
        BY <1>a DEF HoldsInside, Inside, TablesInv
    <2> QED
        BY <1>c, <1>e, <2>2, <2>3, <2>4 DEF HoldsInside
<1>21. CASE CloseBad(t)
    BY <1>21, <1>c, <1>e DEF TypeOK, HoldsInside, CloseBad, MayStart, Idle, app,
        locals
<1>22. CASE Delete(t)
    <2>1. /\ pc[t] = "delete" /\ pc'[t] = "clear"
          /\ UNCHANGED <<nblocks, len, fds, nf>>
        BY <1>22 DEF Delete, Goto, table, locals, TypeOK
    <2> QED
        BY <1>a, <1>c, <1>e, <2>1 DEF HoldsInside
<1>23. CASE Clear(t)
    BY <1>23, <1>c, <1>e DEF TypeOK, HoldsInside, Clear, Return, Goto, app
<1>24. CASE CopyEntry(t)
    BY <1>24, <1>c, <1>e DEF TypeOK, HoldsInside, CopyEntry, Goto, app, locals
<1> QED
    BY <1>1, <1>2, <1>3, <1>4, <1>5, <1>6, <1>7, <1>8, <1>9, <1>10, <1>11,
        <1>12, <1>13, <1>14, <1>15, <1>16, <1>17, <1>18, <1>19, <1>20, <1>21,
        <1>22, <1>23, <1>24 DEF Start, Wait, Work

\* Something to copy appears by a growth, and goes by being copied, which is
\* all that a task does that copies.
LEMMA LeftChanges ==
    ASSUME NEW t \in Tasks, Start(t) \/ Wait(t) \/ Work(t),
           ~Grow(t), ~CopyEntry(t)
    PROVE  left' = left /\ pc[t] # "copy"
BY DEF Start, Wait, Work, SocketCall, CreateLock, NewConn, NewFails, AcceptCall,
    Accepted, AcceptFails, Lock, Acquire, Match, FindFree, GrowFails,
    PublishSize, PublishMaps, Store, Unlock, Lookup, SetType, CloseCall,
    CloseBad, Delete, Clear, MayStart, Idle, table

\* Every step leaves nothing to copy but to a task that copies.
LEMMA LeftStep ==
    ASSUME IInv, NEW t \in Tasks, Start(t) \/ Wait(t) \/ Work(t)
    PROVE  LeftInv'
<1> USE DEF IInv
<1> SUFFICES ASSUME NEW i \in left'
             PROVE  \E u \in Tasks : pc'[u] = "copy" /\ i < maps_size'
    BY DEF LeftInv
<1>1. CASE Grow(t)
    <2>1. i \in ToCopy /\ pc' = [pc EXCEPT ![t] = "copy"] /\ maps_size' = maps_size
        BY <1>1 DEF Grow, Goto
    <2>2. i < maps_size
        BY <2>1 DEF ToCopy, TypeOK
    <2> QED
        BY <2>1, <2>2 DEF TypeOK
<1>2. CASE CopyEntry(t)
    <2>1. i \in left /\ pc' = [pc EXCEPT ![t] = "copy"] /\ maps_size' = maps_size
        BY <1>2 DEF CopyEntry, Goto
    <2> QED
        BY <2>1 DEF LeftInv, TypeOK
<1>3. CASE ~Grow(t) /\ ~CopyEntry(t)
    <2>1. PICK u \in Tasks : pc[u] = "copy" /\ i < maps_size
        BY <1>3, LeftChanges DEF LeftInv
    <2>2. u # t /\ InCS(u)
        BY <1>3, <2>1, LeftChanges DEF InCS, Locked
    <2> QED
        BY <2>1, <2>2, OthersStay, TablesGrow
<1> QED
    BY <1>1, <1>2, <1>3

\* A task that is past its memcpy has copied everything.
LEMMA AllCopied ==
    ASSUME IInv, NEW t \in Tasks, InCS(t), pc[t] # "copy"
    PROVE  left = {}
<1>1. \A u \in Tasks : pc[u] # "copy"
    BY OneInside DEF IInv, InCS, Locked
<1> QED
    BY <1>1 DEF IInv, LeftInv

-----------------------------------------------------------------------------
(* The theorems that IInv gives.                                           *)

\* The first state satisfies the invariant.
LEMMA InitInv == Init => IInv
<1> SUFFICES ASSUME Init PROVE IInv
    OBVIOUS
<1>1. TypeOK
    BY InitType
<1>2. LockInv
    BY DEF Init, LockInv, InCS, Locked
<1>3. TablesInv /\ SizeInv
    BY Multiples DEF Init, TablesInv, SizeInv, Publishing, Blocks
<1>4. IndexInv /\ LeftInv
    BY DEF Init, IndexInv, HoldsInside, LeftInv
<1> QED
    BY <1>1, <1>2, <1>3, <1>4 DEF IInv

\* Every step keeps the invariant: it is inductive.
LEMMA StepInv ==
    ASSUME FirstCallAlone, IInv, [Next]_vars
    PROVE  IInv'
<1>1. CASE UNCHANGED vars
    BY <1>1 DEF IInv, TypeOK, LockInv, TablesInv, SizeInv, LeftInv, IndexInv,
        HoldsInside, Inside, InTable, InCS, Idle, vars, mutex, table, entries,
        app, locals
<1>2. CASE Next
    <2>1. PICK t \in Tasks : Start(t) \/ Wait(t) \/ Work(t)
        BY <1>2 DEF Next
    <2> QED
        BY <2>1, TypeStep, LockStep, SizeStep, LeftStep, IndexStep DEF IInv
<1> QED
    BY <1>1, <1>2

\* The inductive invariant holds of every behaviour in which the first call
\* of atu_socket is made alone.
THEOREM Inductive ==
    ASSUME FirstCallAlone
    PROVE  Spec => []IInv
<1>1. IInv /\ [Next]_vars => IInv'
    BY StepInv
<1> QED
    BY InitInv, <1>1, PTL DEF Spec

\* The table's pointers, sizes, indices and fields keep their types however
\* the calls of atu_socket, atu_accept_r and atu_close_r interleave.
THEOREM TypeCorrect ==
    ASSUME FirstCallAlone
    PROVE  Spec => []TypeOK
<1>1. IInv => TypeOK
    BY DEF IInv
<1> QED
    BY Inductive, <1>1, PTL

\* atu_conn2fd is a critical section for any number of tasks, calloc failures
\* included, provided the lazily created mutex is created by a call alone.
THEOREM MutualExclusion ==
    ASSUME FirstCallAlone
    PROVE  Spec => []LockExclusive
<1>1. IInv => LockExclusive
    BY OneInside DEF IInv, LockExclusive
<1> QED
    BY Inductive, <1>1, PTL

\* No access of atu_conn2fd, and none through a pointer that atu_fd2conn gave
\* before a growth, leaves the table it goes to.
THEOREM AccessesInside ==
    ASSUME FirstCallAlone
    PROVE  Spec => []InBounds
<1>1. ASSUME IInv
      PROVE  InBounds
    <2> SUFFICES ASSUME NEW t \in Tasks
                 PROVE  /\ \A s \in fds[t] : InTable(s) /\ s < len[netconn_maps]
                        /\ pc[t] \in {"match", "free"} /\ InTable(idx[t])
                              => idx[t] < len[netconn_maps]
                        /\ pc[t] = "store" => idx[t] < len[netconn_maps]
                        /\ pc[t] \in {"type", "delete", "clear"}
                              => nf[t][2] < len[nf[t][1]]
        BY DEF InBounds
    <2>1. HoldsInside(t)
        BY <1>1 DEF IInv, IndexInv
    <2>2. pc[t] \in {"match", "free"} => len[netconn_maps] = maps_size
        BY <1>1, ExactSize DEF InCS, Locked, Publishing
    <2> QED
        BY <2>1, <2>2 DEF HoldsInside, Inside, InTable
<1> QED
    BY Inductive, <1>1, PTL

-----------------------------------------------------------------------------
(* What the entries hold: the inductive invariant of ConnUnique and of     *)
(* EntryKept, which allows calls of atu_close_r to overlap anything.       *)

\* Table b has no netconn c in its first n entries.
Absent(b, n, c) == \A i \in Index : i < n /\ conn[<<b, i>>] = c => c = Null

\* No two entries of table b hold the same netconn.
Unique(b) ==
    \A i, j \in Index :
        conn[<<b, i>>] = conn[<<b, j>>] /\ conn[<<b, i>>] # Null => i = j

Growing == Publishing \cup {"store"}

\* No netconn is in the larger table at another index than in the one in use.
Apart == \A i, j \in Index :
    conn[<<nblocks, i>>] = conn[Entry(j)] /\ conn[Entry(j)] # Null => i = j

\* Entries that were never allocated hold nothing.
Beyond == \A b \in Blocks, i \in Index :
    conn[<<b, i>>] # Null => b <= nblocks /\ i < len[b]

\* What a task in atu_conn2fd knows of the tables: the first loop has not met
\* its netconn, after it the netconn is nowhere, and what was copied of the
\* larger table repeats what is in the one in use, or was before a close, and
\* has nothing behind it.
Search(t) ==
    /\ pc[t] = "match" => Absent(netconn_maps, idx[t], nc[t])
    /\ pc[t] \in {"free", "grow"} \cup Growing =>
        Absent(netconn_maps, Cap, nc[t])
    /\ pc[t] \in Growing =>
        /\ Unique(nblocks)
        /\ Absent(nblocks, Cap, nc[t])
        /\ \A i \in Index : i >= idx[t] => conn[<<nblocks, i>>] = Null
    /\ pc[t] \in {"copy", "publish", "maps"} =>
        /\ Apart
        /\ \A i \in Index \ left : conn[Entry(i)] # Null =>
            conn[<<nblocks, i>>] = conn[Entry(i)]

\* A pointer that a call keeps is into the table in use or an older one.
Old(t) == pc[t] \in {"type", "delete", "clear"} => nf[t][1] <= netconn_maps

EntryInv ==
    /\ Beyond
    /\ Unique(netconn_maps)
    /\ \A t \in Tasks : Search(t) /\ Old(t)


-----------------------------------------------------------------------------
(* What the steps do to the entries.                                       *)

\* Entry k of the table in use is given the value c.
Put(k, c) == conn' = [conn EXCEPT ![Entry(k)] = c]

\* A store through a pointer into the table in use changes that entry only.
LEMMA PutAt ==
    ASSUME TypeOK, NEW k \in Index, NEW c, Put(k, c)
    PROVE  \A b \in Blocks, i \in Index :
               conn'[<<b, i>>] = IF b = netconn_maps /\ i = k THEN c
                                 ELSE conn[<<b, i>>]
BY SlotOf DEF TypeOK, Entry, Put

\* A growth starts with a new table that is empty.
LEMMA GrowValues ==
    ASSUME IInv, NEW t \in Tasks, Grow(t)
    PROVE  /\ nblocks \in Nat /\ nblocks + 1 \in Blocks
           /\ nblocks' = nblocks + 1 /\ netconn_maps = nblocks
           /\ maps_size \in Nat /\ maps_size = len[netconn_maps]
           /\ len'[nblocks + 1] = maps_size + Growth
           /\ conn' = conn /\ left' = 0 .. (maps_size - 1)
<1>1. nblocks \in Nat /\ nblocks + 1 \in Blocks /\ nblocks' = nblocks + 1
    BY Multiples DEF IInv, TypeOK, Grow, Blocks
<1>2. netconn_maps = nblocks /\ maps_size = len[netconn_maps]
    BY ExactSize DEF Grow, InCS, Locked, Publishing
<1>3. len'[nblocks + 1] = maps_size + Growth /\ maps_size \in Nat
    BY <1>1 DEF IInv, TypeOK, Grow, NewLen
<1>4. conn' = conn /\ left' = 0 .. (maps_size - 1)
    BY DEF Grow, ToCopy, entries
<1> QED
    BY <1>1, <1>2, <1>3, <1>4

\* memcpy copies one entry to the new table and leaves the others alone.
LEMMA CopyValues ==
    ASSUME IInv, NEW t \in Tasks, CopyEntry(t)
    PROVE  /\ nblocks \in Blocks \ {0} /\ netconn_maps = nblocks - 1
           /\ nblocks' = nblocks /\ netconn_maps' = netconn_maps
           /\ len' = len /\ len[nblocks] > maps_size
           /\ idx[t] = maps_size /\ maps_size \in Nat
           /\ \E k \in left : /\ k \in Index /\ k < maps_size
                             /\ left' = left \ {k}
                             /\ \A b \in Blocks, i \in Index :
                                conn'[<<b, i>>] = IF b = nblocks /\ i = k
                                                  THEN conn[<<netconn_maps, k>>]
                                                  ELSE conn[<<b, i>>]
<1>1. /\ nblocks \in Blocks \ {0} /\ netconn_maps = nblocks - 1
      /\ blk[t] = nblocks
      /\ maps_size = (nblocks - 1) * Growth /\ idx[t] = maps_size
    BY DEF IInv, TypeOK, SizeInv, Publishing, CopyEntry, Blocks
<1>2. len[nblocks] = nblocks * Growth
    BY <1>1, Multiples DEF IInv, TypeOK, TablesInv, Blocks
<1>3. len[nblocks] > maps_size /\ maps_size \in Nat
    BY <1>1, <1>2, Multiples DEF IInv, TypeOK
<1>4. PICK k \in left : /\ conn' = [conn EXCEPT ![<<nblocks, k>>] = conn[Entry(k)]]
                        /\ left' = left \ {k}
    BY <1>1 DEF CopyEntry
<1>5. k \in Index /\ k < maps_size
    BY DEF IInv, TypeOK, LeftInv
<1>6. \A b \in Blocks, i \in Index :
        conn'[<<b, i>>] = IF b = nblocks /\ i = k THEN conn[<<netconn_maps, k>>]
                          ELSE conn[<<b, i>>]
    BY <1>1, <1>4, <1>5, SlotOf DEF IInv, TypeOK, Entry
<1> QED
    BY <1>1, <1>3, <1>4, <1>5, <1>6 DEF CopyEntry

\* atu_close_r clears the entry it points to and no other.
LEMMA ClearValues ==
    ASSUME TypeOK, NEW t \in Tasks, Clear(t)
    PROVE  /\ nf[t][1] \in Blocks /\ nf[t][2] \in Index
           /\ \A b \in Blocks, i \in Index :
               conn'[<<b, i>>] = IF b = nf[t][1] /\ i = nf[t][2] THEN Null
                                 ELSE conn[<<b, i>>]
<1>1. nf[t] \in Slots
    BY DEF TypeOK
<1>2. PICK c \in Blocks, k \in Index : nf[t] = <<c, k>>
    BY <1>1 DEF Slots
<1> QED
    BY <1>2, SlotOf DEF TypeOK, Clear

\* The steps that change the table in use or what is in an entry.
LEMMA TableSteps ==
    ASSUME NEW t \in Tasks, Start(t) \/ Wait(t) \/ Work(t)
    PROVE  \/ UNCHANGED <<conn, netconn_maps, nblocks, len, left>>
           \/ FindFree(t) \/ Grow(t) \/ CopyEntry(t) \/ PublishMaps(t)
           \/ Store(t) \/ Clear(t)
BY DEF Start, Wait, Work, SocketCall, CreateLock, NewConn, NewFails, AcceptCall,
    Accepted, AcceptFails, Lock, Acquire, Match, GrowFails, PublishSize, Unlock,
    Lookup, SetType, CloseCall, CloseBad, Delete, table, entries

\* A step of t leaves the netconn in the hands of another task alone.
LEMMA HandsStay ==
    ASSUME IInv, NEW t \in Tasks, Start(t) \/ Wait(t) \/ Work(t),
           NEW u \in Tasks, u # t
    PROVE  nc'[u] = nc[u]
BY DEF IInv, TypeOK, Start, Wait, Work, Return, SocketCall, CreateLock, NewConn,
    NewFails, AcceptCall, Accepted, AcceptFails, Lock, Acquire, Match, FindFree,
    Grow, GrowFails, CopyEntry, PublishSize, PublishMaps, Store, Unlock, Lookup,
    SetType, CloseCall, CloseBad, Delete, Clear, app, locals

\* While a task is in atu_conn2fd the others only empty entries, of the table
\* in use or of an older one.
LEMMA OthersOnlyClear ==
    ASSUME IInv, EntryInv, NEW t \in Tasks, Start(t) \/ Wait(t) \/ Work(t),
           NEW u \in Tasks, u # t, InCS(u)
    PROVE  /\ UNCHANGED <<netconn_maps, nblocks, left>>
           /\ pc'[u] = pc[u] /\ idx'[u] = idx[u] /\ nc'[u] = nc[u]
           /\ \A b \in Blocks, i \in Index :
               \/ conn'[<<b, i>>] = conn[<<b, i>>]
               \/ conn'[<<b, i>>] = Null /\ b <= netconn_maps
<1>1. ~InCS(t)
    BY OneInside DEF IInv
<1>2. \/ UNCHANGED <<conn, netconn_maps, nblocks, left>>
      \/ Clear(t)
    BY <1>1, TableSteps DEF FindFree, Grow, CopyEntry, PublishMaps, Store, InCS,
        Locked
<1>3. CASE Clear(t)
    <2>1. nf[t][1] <= netconn_maps /\ UNCHANGED <<netconn_maps, nblocks, left>>
        BY <1>3 DEF EntryInv, Old, Clear, table
    <2> QED
        BY <1>3, <2>1, ClearValues, OthersStay, HandsStay DEF IInv
<1> QED
    BY <1>2, <1>3, OthersStay, HandsStay

-----------------------------------------------------------------------------
(* The entries stay in order.                                              *)

\* What a task in atu_conn2fd knows survives the steps of the others.
LEMMA SearchOthers ==
    ASSUME IInv, EntryInv, NEW t \in Tasks, Start(t) \/ Wait(t) \/ Work(t),
           NEW u \in Tasks, u # t
    PROVE  Search(u)'
<1>1. pc'[u] = pc[u]
    BY OthersStay
<1>2. CASE ~InCS(u)
    BY <1>1, <1>2 DEF Search, InCS, Locked, Growing, Publishing
<1>3. CASE InCS(u)
    <2>1. /\ UNCHANGED <<netconn_maps, nblocks, left>>
          /\ idx'[u] = idx[u] /\ nc'[u] = nc[u]
          /\ \A b \in Blocks, i \in Index :
              \/ conn'[<<b, i>>] = conn[<<b, i>>]
              \/ conn'[<<b, i>>] = Null /\ b <= netconn_maps
        BY <1>3, OthersOnlyClear
    <2>2. netconn_maps \in Blocks /\ nblocks \in Blocks /\ Search(u)
        BY DEF IInv, TypeOK, EntryInv
    <2>3. pc[u] = "match" => Absent(netconn_maps, idx[u], nc[u])'
        BY <2>1, <2>2 DEF Search, Absent
    <2>4. pc[u] \in {"free", "grow"} \cup Growing =>
            Absent(netconn_maps, Cap, nc[u])'
        BY <2>1, <2>2 DEF Search, Absent
    <2>5. pc[u] \in Growing =>
            /\ Unique(nblocks)'
            /\ Absent(nblocks, Cap, nc[u])'
            /\ \A i \in Index : i >= idx[u] => conn'[<<nblocks, i>>] = Null
        BY <2>1, <2>2 DEF Search, Absent, Unique
    <2>6. ASSUME pc[u] \in {"copy", "publish", "maps"}, NEW i \in Index \ left,
                 conn'[<<netconn_maps, i>>] # Null
          PROVE  conn'[<<nblocks, i>>] = conn'[<<netconn_maps, i>>]
        <3>1. nblocks \in Nat /\ netconn_maps = nblocks - 1
            BY <2>6, <2>2 DEF IInv, SizeInv, Publishing, Blocks
        <3>2. conn'[<<netconn_maps, i>>] = conn[<<netconn_maps, i>>]
            BY <2>1, <2>2, <2>6
        <3>3. conn'[<<nblocks, i>>] = conn[<<nblocks, i>>]
            BY <2>1, <2>2, <3>1
        <3> QED
            BY <2>2, <2>6, <3>2, <3>3 DEF Search, Entry
    <2>7. ASSUME pc[u] \in {"copy", "publish", "maps"}
          PROVE  Apart'
        BY <2>1, <2>2, <2>7 DEF Search, Apart, Entry
    <2> QED
        BY <1>1, <2>1, <2>3, <2>4, <2>5, <2>6, <2>7 DEF Search, Entry
<1> QED
    BY <1>2, <1>3

\* What lies behind the tables stays empty.
LEMMA BeyondStep ==
    ASSUME IInv, EntryInv, NEW t \in Tasks, Start(t) \/ Wait(t) \/ Work(t)
    PROVE  Beyond'
<1> USE DEF IInv, EntryInv
<1>a. nblocks \in Nat /\ netconn_maps \in Blocks /\ netconn_maps <= nblocks
    BY DEF TypeOK, TablesInv, Blocks
<1>b. \A b \in 0 .. nblocks : len'[b] = len[b]
    BY TablesGrow
<1>1. CASE UNCHANGED <<conn, netconn_maps, nblocks, len, left>>
    BY <1>1 DEF Beyond
<1>2. CASE FindFree(t)
    <2>1. UNCHANGED <<nblocks, len>>
        BY <1>2 DEF FindFree, table
    <2>2. idx[t] \in -1 .. Cap /\ len[netconn_maps] = maps_size
        BY <1>2, ExactSize DEF TypeOK, FindFree, InCS, Locked, Publishing
    <2>3. CASE conn' = conn
        BY <2>1, <2>3 DEF Beyond
    <2>4. CASE InTable(idx[t]) /\ Put(idx[t], nc[t])
        <3>1. idx[t] \in Index /\ idx[t] < len[netconn_maps]
            BY <2>2, <2>4, InTableIndex DEF InTable
        <3> QED
            BY <1>a, <2>1, <2>4, <3>1, PutAt DEF Beyond
    <2> QED
        BY <1>2, <2>3, <2>4 DEF FindFree, Put
<1>3. CASE Grow(t)
    <2>1. conn' = conn /\ nblocks' = nblocks + 1
        BY <1>3, GrowValues
    <2>2. \A b \in Blocks : b <= nblocks => b \in 0 .. nblocks
        BY <1>a, Multiples DEF Blocks
    <2> QED
        BY <1>a, <1>b, <2>1, <2>2, Multiples DEF Beyond
<1>4. CASE PublishMaps(t)
    BY <1>4 DEF PublishMaps, entries, Beyond
<1>5. CASE Store(t)
    <2>1. UNCHANGED <<nblocks, len>>
        BY <1>5 DEF Store, table
    <2>2. InTable(idx[t]) /\ idx[t] < len[netconn_maps] /\ idx[t] \in -1 .. Cap
        BY <1>5 DEF Store, IndexInv, HoldsInside, Inside, TypeOK
    <2>3. idx[t] \in Index /\ Put(idx[t], nc[t])
        BY <1>5, <2>2, InTableIndex DEF Store, Put
    <2> QED
        BY <1>a, <2>1, <2>2, <2>3, PutAt DEF Beyond
<1>6. CASE Clear(t)
    <2>1. UNCHANGED <<nblocks, len>>
        BY <1>6 DEF Clear, table
    <2> QED
        BY <1>6, <2>1, ClearValues DEF Beyond
<1>7. CASE CopyEntry(t)
    <2>1. /\ nblocks' = nblocks /\ len' = len /\ len[nblocks] > maps_size
          /\ nblocks \in Blocks /\ nblocks <= nblocks
          /\ maps_size \in Nat /\ len[nblocks] \in Nat
        BY <1>a, <1>7, CopyValues, Multiples DEF TypeOK
    <2>2. PICK k \in left :
            /\ k < maps_size
            /\ \A b \in Blocks, i \in Index :
                conn'[<<b, i>>] = IF b = nblocks /\ i = k
                                  THEN conn[<<netconn_maps, k>>]
                                  ELSE conn[<<b, i>>]
        BY <1>7, CopyValues
    <2>3. \A i \in Index : i = k => i < len[nblocks]
        BY <2>1, <2>2, Multiples DEF Index
    <2> QED
        BY <2>1, <2>2, <2>3 DEF Beyond
<1> QED
    BY <1>1, <1>2, <1>3, <1>4, <1>5, <1>6, <1>7, TableSteps

\* Nothing that a task does gives a netconn a second entry.
LEMMA UniqueStep ==
    ASSUME IInv, EntryInv, NEW t \in Tasks, Start(t) \/ Wait(t) \/ Work(t)
    PROVE  Unique(netconn_maps)'
<1> USE DEF IInv, EntryInv
<1>a. netconn_maps \in Blocks /\ Unique(netconn_maps) /\ Search(t)
    BY DEF TypeOK
<1>b. ASSUME NEW k \in Index, netconn_maps' = netconn_maps,
             Put(k, nc[t]),
             Absent(netconn_maps, Cap, nc[t])
      PROVE  Unique(netconn_maps)'
    <2>1. \A i \in Index : i < Cap
        BY Multiples DEF Index
    <2>2. \A i \in Index : conn'[<<netconn_maps, i>>]
                             = IF i = k THEN nc[t] ELSE conn[<<netconn_maps, i>>]
        BY <1>a, <1>b, PutAt
    <2> QED
        BY <1>a, <1>b, <2>1, <2>2 DEF Unique, Absent
<1>1. CASE UNCHANGED <<conn, netconn_maps, nblocks, len, left>>
    BY <1>1, <1>a DEF Unique
<1>2. CASE FindFree(t)
    <2>1. UNCHANGED netconn_maps /\ Absent(netconn_maps, Cap, nc[t])
        BY <1>2, <1>a DEF FindFree, table, Search
    <2>2. CASE conn' = conn
        BY <1>a, <2>1, <2>2 DEF Unique
    <2>3. CASE InTable(idx[t]) /\ Put(idx[t], nc[t])
        <3>1. idx[t] \in Index
            BY <2>3, InTableIndex DEF TypeOK
        <3> QED
            BY <1>b, <2>1, <2>3, <3>1
    <2> QED
        BY <1>2, <2>2, <2>3 DEF FindFree, Put
<1>3. CASE Grow(t)
    BY <1>3, <1>a, GrowValues DEF Grow, Unique
<1>4. CASE PublishMaps(t)
    <2>1. blk[t] = nblocks /\ Unique(nblocks)
        BY <1>4, <1>a DEF PublishMaps, SizeInv, Publishing, Search, Growing
    <2>2. netconn_maps' = nblocks /\ conn' = conn
        BY <1>4, <2>1 DEF PublishMaps, entries
    <2> QED
        BY <2>1, <2>2 DEF Unique
<1>5. CASE Store(t)
    <2>1. UNCHANGED netconn_maps /\ Absent(netconn_maps, Cap, nc[t])
        BY <1>5, <1>a DEF Store, table, Search, Growing
    <2>2. InTable(idx[t]) /\ Put(idx[t], nc[t])
        BY <1>5 DEF Store, IndexInv, HoldsInside, Inside, Put
    <2>3. idx[t] \in Index
        BY <2>2, InTableIndex DEF TypeOK
    <2> QED
        BY <1>b, <2>1, <2>2, <2>3
<1>6. CASE Clear(t)
    <2>1. UNCHANGED netconn_maps
        BY <1>6 DEF Clear, table
    <2>2. \A i \in Index : \/ conn'[<<netconn_maps, i>>] = conn[<<netconn_maps, i>>]
                           \/ conn'[<<netconn_maps, i>>] = Null
        BY <1>6, <1>a, ClearValues
    <2> QED
        BY <1>a, <2>1, <2>2 DEF Unique
<1>7. CASE CopyEntry(t)
    <2>1. \A i \in Index : conn'[<<netconn_maps, i>>] = conn[<<netconn_maps, i>>]
        BY <1>7, <1>a, CopyValues DEF Blocks
    <2> QED
        BY <1>7, <1>a, <2>1, CopyValues DEF Unique
<1> QED
    BY <1>1, <1>2, <1>3, <1>4, <1>5, <1>6, <1>7, TableSteps

\* Pointers that calls keep do not get ahead of the table in use.
LEMMA OldStep ==
    ASSUME IInv, EntryInv, NEW t \in Tasks, Start(t) \/ Wait(t) \/ Work(t),
           NEW u \in Tasks
    PROVE  Old(u)'
<1> USE DEF IInv, EntryInv
<1>a. netconn_maps \in Nat /\ nf[u][1] \in Nat
    BY SlotOf DEF TypeOK, Blocks
<1>b. netconn_maps' \in Nat /\ netconn_maps <= netconn_maps'
    <2>1. CASE PublishMaps(t)
        BY <1>a, <2>1 DEF PublishMaps, SizeInv, Publishing, TypeOK, Blocks
    <2>2. CASE ~PublishMaps(t)
        <3>1. netconn_maps' = netconn_maps
            BY <2>2, TableSteps DEF FindFree, Grow, CopyEntry, Store, Clear,
                table
        <3> QED
            BY <1>a, <3>1
    <2> QED
        BY <2>1, <2>2
<1>1. CASE u # t
    <2>1. pc'[u] = pc[u] /\ nf'[u] = nf[u]
        BY <1>1, OthersStay
    <2> QED
        BY <1>a, <1>b, <2>1 DEF Old
<1>2. CASE u = t /\ nf'[u] = nf[u] /\ pc[u] \in {"type", "delete", "clear"}
    BY <1>a, <1>b, <1>2 DEF Old
<1>3. CASE u = t /\ (Lookup(t) \/ CloseCall(t))
    <2>1. pc'[t] \in {"type", "delete", "clear"} =>
            nf'[t] \in {Entry(i) : i \in Int}
        BY <1>3, Multiples DEF Lookup, CloseCall, Goto, TypeOK, Index
    <2> QED
        BY <1>b, <1>3, <2>1 DEF Old, Entry
<1>4. CASE u = t /\ pc'[t] \notin {"type", "delete", "clear"}
    BY <1>4 DEF Old
<1>5. \/ Lookup(t) \/ CloseCall(t)
      \/ pc'[t] \notin {"type", "delete", "clear"}
      \/ nf'[t] = nf[t] /\ pc[t] \in {"type", "delete", "clear"}
    BY ZenonT(40) DEF TypeOK, Start, Wait, Work, Return, Goto, SocketCall, CreateLock,
        NewConn, NewFails, AcceptCall, Accepted, AcceptFails, Lock, Acquire,
        Match, FindFree, Grow, GrowFails, CopyEntry, PublishSize, PublishMaps,
        Store, Unlock, SetType, CloseBad, Delete, Clear, locals
<1> QED
    BY <1>1, <1>2, <1>3, <1>4, <1>5

\* The loops of atu_conn2fd and its growth keep what they know.
LEMMA SearchOwn ==
    ASSUME IInv, EntryInv, NEW t \in Tasks, Start(t) \/ Wait(t) \/ Work(t)
    PROVE  Search(t)'
<1> USE DEF IInv, EntryInv
<1>a. Search(t) /\ netconn_maps \in Blocks /\ nblocks \in Nat
    BY DEF TypeOK, Blocks
<1>b. \A i \in Index : i \in Nat /\ i < Cap
    BY Multiples DEF Index
<1>1. CASE Acquire(t)
    <2>1. pc'[t] = "match" /\ idx'[t] = 0
        BY <1>1 DEF Acquire, Goto, TypeOK
    <2> QED
        BY <1>b, <2>1 DEF Search, Absent, Growing, Publishing
<1>2. CASE Match(t)
    <2>1. /\ UNCHANGED <<conn, netconn_maps>> /\ nc'[t] = nc[t]
          /\ pc[t] = "match" /\ Absent(netconn_maps, idx[t], nc[t])
          /\ maps_size = len[netconn_maps] /\ maps_size \in Nat
          /\ idx[t] \in 0 .. maps_size
        BY <1>2, <1>a, ExactSize DEF Match, entries, table, Search, InCS,
            Locked, Publishing, TypeOK, IndexInv, HoldsInside
    <2>2. CASE InTable(idx[t]) /\ IsThere(t) /\ Goto(t, "unlock")
        BY <2>2 DEF Goto, TypeOK, Search, Growing, Publishing
    <2>3. CASE /\ ~IsThere(t) /\ idx' = [idx EXCEPT ![t] = @ + 1]
               /\ UNCHANGED pc
        <3>1. pc'[t] = "match" /\ idx'[t] = idx[t] + 1
            BY <2>1, <2>3 DEF TypeOK
        <3>2. conn[<<netconn_maps, idx[t]>>] # nc[t]
            BY <2>3 DEF IsThere, Entry
        <3>3. Absent(netconn_maps, idx[t] + 1, nc[t])
            BY <1>b, <2>1, <3>2 DEF Absent
        <3> QED
            BY <2>1, <3>1, <3>3 DEF Search, Absent, Growing, Publishing
    <2>4. CASE ~InTable(idx[t]) /\ Goto(t, "free")
        <3>1. pc'[t] = "free" /\ idx[t] = maps_size
            BY <2>1, <2>4 DEF Goto, TypeOK, InTable
        <3>2. Absent(netconn_maps, Cap, nc[t])
            BY <1>a, <1>b, <2>1, <3>1 DEF Absent, Beyond
        <3> QED
            BY <2>1, <3>1, <3>2 DEF Search, Absent, Growing, Publishing
    <2> QED
        BY <1>2, <2>2, <2>3, <2>4 DEF Match
<1>3. CASE FindFree(t)
    <2>1. /\ UNCHANGED netconn_maps /\ nc'[t] = nc[t]
          /\ Absent(netconn_maps, Cap, nc[t]) /\ pc[t] = "free"
        BY <1>3, <1>a DEF FindFree, table, Search
    <2>2. pc'[t] \in {"unlock", "free", "grow"} /\ (pc'[t] # "unlock" => conn' = conn)
        BY <1>3 DEF FindFree, Goto, TypeOK
    <2> QED
        BY <2>1, <2>2 DEF Search, Absent, Growing, Publishing
<1>4. CASE Grow(t)
    <2>1. /\ pc'[t] \in {"copy", "publish"} /\ nc'[t] = nc[t] /\ idx'[t] = idx[t]
          /\ idx[t] = maps_size /\ UNCHANGED <<netconn_maps, conn>>
          /\ Absent(netconn_maps, Cap, nc[t])
        BY <1>4, <1>a, GrowValues DEF Grow, Goto, TypeOK, Search, IndexInv,
            HoldsInside
    <2>2. \A i \in Index : conn[<<nblocks', i>>] = Null
        BY <1>4, <1>a, GrowValues DEF Beyond
    <2>3. Absent(netconn_maps, Cap, nc[t])' /\ Absent(nblocks, Cap, nc[t])'
        BY <2>1, <2>2 DEF Absent
    <2>4. Unique(nblocks)' /\ Apart'
        BY <2>1, <2>2 DEF Unique, Apart
    <2>5. \A i \in Index \ left' : conn[<<netconn_maps, i>>] = Null
        <3>1. \A i \in Index \ left' : ~(i < len[netconn_maps])
            BY <1>4, <1>b, GrowValues
        <3> QED
            BY <1>a, <3>1 DEF Beyond
    <2> QED
        BY <2>1, <2>2, <2>3, <2>4, <2>5 DEF Search, Entry
<1>5. CASE PublishSize(t)
    <2>1. /\ UNCHANGED <<conn, netconn_maps, nblocks, nc, idx, left>>
          /\ pc[t] \in {"publish", "size"} /\ pc'[t] \in {"maps", "store"}
          /\ pc'[t] = "maps" => pc[t] = "publish"
        BY <1>5 DEF PublishSize, entries, locals, Goto, TypeOK
    <2> QED
        BY <1>a, <2>1 DEF Search, Absent, Unique, Apart, Growing, Publishing,
            Entry
<1>6. CASE PublishMaps(t)
    <2>1. /\ UNCHANGED <<conn, nblocks, nc, idx>> /\ netconn_maps' = nblocks
          /\ pc[t] \in {"publish", "maps"} /\ pc'[t] \in {"size", "store"}
        BY <1>6 DEF PublishMaps, entries, locals, Goto, TypeOK, SizeInv,
            Publishing
    <2> QED
        BY <1>a, <2>1 DEF Search, Absent, Unique, Growing, Publishing, Entry
<1>9. CASE CopyEntry(t)
    <2>1. /\ pc[t] = "copy" /\ pc'[t] \in {"copy", "publish"}
          /\ UNCHANGED <<nc, idx, nblocks, netconn_maps>>
        BY <1>9 DEF CopyEntry, Goto, TypeOK, locals
    <2>2. PICK k \in left :
            /\ k \in Index /\ k < maps_size /\ left' = left \ {k}
            /\ \A b \in Blocks, i \in Index :
                conn'[<<b, i>>] = IF b = nblocks /\ i = k THEN conn[<<netconn_maps, k>>]
                                  ELSE conn[<<b, i>>]
        BY <1>9, CopyValues
    <2>3. /\ nblocks \in Blocks /\ netconn_maps # nblocks
          /\ idx[t] = maps_size /\ maps_size \in Nat
        BY <1>9, CopyValues DEF Blocks
    <2>4. /\ \A i \in Index : conn'[<<netconn_maps, i>>] = conn[<<netconn_maps, i>>]
          /\ \A i \in Index : conn'[<<nblocks, i>>]
                = IF i = k THEN conn[<<netconn_maps, k>>] ELSE conn[<<nblocks, i>>]
        BY <1>a, <2>2, <2>3
    <2>5. /\ Unique(netconn_maps) /\ Unique(nblocks) /\ Apart
          /\ Absent(netconn_maps, Cap, nc[t]) /\ Absent(nblocks, Cap, nc[t])
          /\ \A i \in Index : i >= idx[t] => conn[<<nblocks, i>>] = Null
          /\ \A i \in Index \ left : conn[<<netconn_maps, i>>] # Null =>
                conn[<<nblocks, i>>] = conn[<<netconn_maps, i>>]
        BY <1>a, <2>1 DEF Search, Growing, Publishing, Entry
    <2>6. Unique(nblocks)'
        BY <2>1, <2>2, <2>4, <2>5 DEF Unique, Apart, Entry
    <2>7. Apart'
        BY <2>1, <2>2, <2>4, <2>5 DEF Unique, Apart, Entry
    <2>8. Absent(netconn_maps, Cap, nc[t])' /\ Absent(nblocks, Cap, nc[t])'
        BY <1>b, <2>1, <2>2, <2>4, <2>5 DEF Absent
    <2>9. \A i \in Index : i >= idx[t] => conn'[<<nblocks, i>>] = Null
        BY <1>b, <2>2, <2>3, <2>4, <2>5
    <2>10. \A i \in Index \ left' : conn'[<<netconn_maps, i>>] # Null =>
            conn'[<<nblocks, i>>] = conn'[<<netconn_maps, i>>]
        BY <2>2, <2>4, <2>5
    <2> QED
        BY <2>1, <2>6, <2>7, <2>8, <2>9, <2>10 DEF Search, Entry
<1>7. CASE pc'[t] \notin {"match", "free", "grow"} \cup Growing
    BY <1>7 DEF Search, Growing, Publishing
<1>8. \/ Acquire(t) \/ Match(t) \/ FindFree(t) \/ Grow(t) \/ CopyEntry(t)
      \/ PublishSize(t) \/ PublishMaps(t)
      \/ pc'[t] \notin {"match", "free", "grow"} \cup Growing
    BY DEF TypeOK, Start, Wait, Work, Return, Goto, SocketCall, CreateLock,
        NewConn, NewFails, AcceptCall, Accepted, AcceptFails, Lock, GrowFails,
        Store, Unlock, Lookup, SetType, CloseCall, CloseBad, Delete, Clear,
        locals, Growing, Publishing, MayStart, Idle
<1> QED
    BY <1>1, <1>2, <1>3, <1>4, <1>5, <1>6, <1>7, <1>8, <1>9

\* The first state has no entries.
LEMMA InitEntries == Init => EntryInv
<1> SUFFICES ASSUME Init PROVE EntryInv
    OBVIOUS
<1>1. netconn_maps \in Blocks
    BY Multiples DEF Init, Blocks
<1>2. \A b \in Blocks, i \in Index : conn[<<b, i>>] = Null
    BY SlotOf DEF Init
<1>3. Beyond /\ Unique(netconn_maps)
    BY <1>1, <1>2 DEF Beyond, Unique
<1>4. \A t \in Tasks : Search(t) /\ Old(t)
    BY DEF Init, Search, Old, Growing, Publishing
<1> QED
    BY <1>3, <1>4 DEF EntryInv

\* Every step keeps the entries in order.
LEMMA EntryStep ==
    ASSUME FirstCallAlone, IInv, EntryInv, [Next]_vars
    PROVE  EntryInv'
<1>1. CASE UNCHANGED vars
    BY <1>1 DEF EntryInv, Beyond, Unique, Apart, Search, Absent, Old, Entry,
        vars, table, entries, locals
<1>2. CASE Next
    <2>1. PICK t \in Tasks : Start(t) \/ Wait(t) \/ Work(t)
        BY <1>2 DEF Next
    <2>2. \A u \in Tasks : Search(u)'
        BY <2>1, SearchOwn, SearchOthers
    <2> QED
        BY <2>1, <2>2, BeyondStep, UniqueStep, OldStep DEF EntryInv
<1> QED
    BY <1>1, <1>2

\* The entries are in order in every behaviour.
LEMMA EntriesAlways ==
    ASSUME FirstCallAlone
    PROVE  Spec => []EntryInv
<1>1. IInv /\ EntryInv /\ [Next]_vars => EntryInv'
    BY EntryStep
<1> QED
    BY Inductive, InitEntries, <1>1, PTL DEF Spec

\* atu_conn2fd gives no netconn a second descriptor, although atu_close_r
\* empties entries, and frees addresses for new netconns, under its loops.
THEOREM OneDescriptor ==
    ASSUME FirstCallAlone
    PROVE  Spec => []ConnUnique
<1>1. ASSUME IInv, EntryInv
      PROVE  ConnUnique
    <2>1. len[netconn_maps] \in 0 .. Cap
        BY <1>1 DEF IInv, TypeOK
    <2>2. \A i \in 0 .. (len[netconn_maps] - 1) : i \in Index
        BY <2>1, Multiples DEF Index
    <2> QED
        BY <1>1, <2>2 DEF EntryInv, Unique, ConnUnique, Entry
<1> QED
    BY Inductive, EntriesAlways, <1>1, PTL

\* What one step may do to an entry in use.
Kept(i) ==
    /\ \/ i < maps_size' /\ conn'[<<netconn_maps', i>>] = conn[Entry(i)]
       \/ \E t \in Tasks : pc[t] = "clear" /\ nf[t] = Entry(i)
    /\ \/ nc_type'[<<netconn_maps', i>>] = nc_type[Entry(i)]
       \/ \E t \in Tasks : pc[t] = "type" /\ nf[t] = Entry(i)
       \/ TypeMissed(i)

\* One step keeps an entry in use, but for the steps meant to change it.
LEMMA KeptStep ==
    ASSUME IInv, EntryInv, NEW t \in Tasks, Start(t) \/ Wait(t) \/ Work(t),
           NEW i \in Index, InTable(i), conn[Entry(i)] # Null
    PROVE  Kept(i)
<1> USE DEF IInv, EntryInv
<1>a. /\ netconn_maps \in Blocks /\ Search(t) /\ Entry(i) \in Slots
      /\ i \in Nat /\ maps_size \in Nat
    BY SlotOf, Multiples DEF TypeOK, Entry, Index
<1>b. nc_type \in [Slots -> Types \cup {Unset}] /\ conn \in [Slots -> Conns \cup {Null}]
    BY DEF TypeOK
<1>c. i < maps_size
    BY DEF InTable
<1>d. netconn_maps' = netconn_maps \/ PublishMaps(t)
    BY TableSteps DEF FindFree, Grow, CopyEntry, Store, Clear, table
<1>1. CASE PublishMaps(t)
    <2>1. /\ UNCHANGED <<conn, nc_type, maps_size>> /\ netconn_maps' = nblocks
          /\ blk[t] = nblocks
          /\ pc[t] \in {"publish", "maps"}
        BY <1>1 DEF PublishMaps, entries, SizeInv, Publishing
    <2>2. conn[<<nblocks, i>>] = conn[Entry(i)]
        <3>1. left = {}
            BY <2>1, AllCopied DEF InCS, Locked
        <3> QED
            BY <1>a, <2>1, <3>1 DEF Search
    <2>3. nc_type[<<nblocks, i>>] = nc_type[Entry(i)] \/ TypeMissed(i)
        BY <2>1, <2>2 DEF TypeMissed
    <2> QED
        BY <1>c, <2>1, <2>2, <2>3 DEF Kept
<1>2. CASE netconn_maps' = netconn_maps
    <2>1. i < maps_size'
        <3>1. maps_size' = maps_size \/ PublishSize(t)
            BY DEF Start, Wait, Work, SocketCall, CreateLock, NewConn, NewFails,
                AcceptCall, Accepted, AcceptFails, Lock, Acquire, Match,
                FindFree, Grow, GrowFails, CopyEntry, PublishMaps, Store,
                Unlock, Lookup, SetType, CloseCall, CloseBad, Delete, Clear,
                table
        <3> QED
            BY <1>a, <1>c, <3>1, Multiples DEF PublishSize
    <2>2. \/ conn'[Entry(i)] = conn[Entry(i)]
          \/ \E u \in Tasks : pc[u] = "clear" /\ nf[u] = Entry(i)
        <3>1. CASE FindFree(t)
            BY <1>a, <1>b, <3>1 DEF FindFree, IsFree
        <3>2. CASE Grow(t)
            BY <3>2, GrowValues
        <3>5. CASE CopyEntry(t)
            <4>1. netconn_maps # nblocks
                BY <3>5, CopyValues DEF Blocks
            <4> QED
                BY <1>a, <3>5, <4>1, CopyValues DEF Entry
        <3>3. CASE Store(t)
            <4>1. netconn_maps = nblocks /\ pc[t] \in Growing
                BY <3>3, ExactSize DEF Store, InCS, Locked, Publishing, Growing
            <4>2. conn[Entry(idx[t])] = Null
                <5>1. idx[t] \in Index
                    BY <3>3, InTableIndex DEF Store, IndexInv, HoldsInside,
                        Inside, TypeOK
                <5> QED
                    BY <1>a, <4>1, <5>1, Multiples DEF Search, Entry, Index
            <4> QED
                BY <1>a, <1>b, <3>3, <4>2 DEF Store
        <3>4. CASE Clear(t)
            BY <1>a, <1>b, <3>4 DEF Clear
        <3> QED
            BY <1>1, <3>1, <3>2, <3>3, <3>4, <3>5, TableSteps DEF PublishMaps,
                entries
    <2>3. \/ nc_type'[Entry(i)] = nc_type[Entry(i)]
          \/ \E u \in Tasks : pc[u] = "type" /\ nf[u] = Entry(i)
        <3>1. CASE CopyEntry(t)
            <4>1. blk[t] = nblocks
                BY <3>1 DEF CopyEntry, SizeInv, Publishing
            <4>2. netconn_maps # nblocks
                BY <3>1, CopyValues DEF Blocks
            <4> QED
                BY <1>a, <1>b, <3>1, <4>1, <4>2 DEF CopyEntry, Entry
        <3>2. CASE SetType(t)
            BY <1>a, <1>b, <3>2 DEF SetType
        <3>3. CASE UNCHANGED nc_type
            BY <3>3
        <3>4. CopyEntry(t) \/ SetType(t) \/ UNCHANGED nc_type
            BY DEF Start, Wait, Work, SocketCall, CreateLock, NewConn, NewFails,
                AcceptCall, Accepted, AcceptFails, Lock, Acquire, Match,
                FindFree, Grow, GrowFails, PublishSize, PublishMaps, Store, Unlock,
                Lookup, CloseCall, CloseBad, Delete, Clear, entries
        <3> QED
            BY <3>1, <3>2, <3>3, <3>4
    <2> QED
        BY <1>2, <2>1, <2>2, <2>3 DEF Kept, Entry
<1> QED
    BY <1>d, <1>1, <1>2

\* An entry in use keeps its netconn and its type through every step of every
\* task, the growth of the table included, but for the steps that are meant to
\* change them and the type stored after the copy.
THEOREM EntriesKept ==
    ASSUME FirstCallAlone
    PROVE  Spec => EntryKept
<1>1. ASSUME IInv, EntryInv, [Next]_vars
      PROVE  [\A i \in Index : InTable(i) /\ conn[Entry(i)] # Null =>
                /\ \/ i < maps_size' /\ conn'[<<netconn_maps', i>>] = conn[Entry(i)]
                   \/ \E t \in Tasks : pc[t] = "clear" /\ nf[t] = Entry(i)
                /\ \/ nc_type'[<<netconn_maps', i>>] = nc_type[Entry(i)]
                   \/ \E t \in Tasks : pc[t] = "type" /\ nf[t] = Entry(i)
                   \/ TypeMissed(i)]_vars
    <2>1. CASE UNCHANGED vars
        BY <2>1
    <2>2. CASE Next
        <3>1. PICK t \in Tasks : Start(t) \/ Wait(t) \/ Work(t)
            BY <2>2 DEF Next
        <3>2. \A i \in Index : InTable(i) /\ conn[Entry(i)] # Null => Kept(i)
            BY <1>1, <3>1, KeptStep
        <3> QED
            BY <3>2 DEF Kept
    <2> QED
        BY <1>1, <2>1, <2>2
<1> QED
    BY Inductive, EntriesAlways, <1>1, PTL DEF Spec, EntryKept

-----------------------------------------------------------------------------
(* Whose the entries are: the inductive invariant of Ownership, of NoLeak  *)
(* and of the refinement, for applications that let nothing overlap a call *)
(* of atu_close_r.                                                         *)

\* A task that has no netconn in its hands.
EmptyHanded == {"idle", "create", "new", "accept", "delete", "clear"}

\* A task whose netconn is not in the table yet.
Opening == {"lock", "acquire"} \cup (Locked \ {"unlock"})

\* A task that is about to return the descriptor idx[t].
Given(t) == pc[t] \in {"unlock", "lookup", "type"} /\ idx[t] # -1

\* While a descriptor is being closed nobody else is in a call.
ClosingInv == \A t \in Tasks : pc[t] \in {"delete", "clear"} =>
    /\ call[t] = "close"
    /\ \A u \in Tasks : u # t => Idle(u)
    /\ nf[t] = Entry(idx[t]) /\ Inside(idx[t]) /\ conn[nf[t]] # Null
    /\ pc[t] = "delete" <=> conn[nf[t]] \in live
    /\ \A u \in Tasks : idx[t] \notin fds[u]

\* Each call that is opening a socket has a netconn of its own.
HandInv ==
    /\ \A t \in Tasks : pc[t] \in EmptyHanded <=> nc[t] = Null
    /\ \A t \in Tasks : nc[t] # Null => nc[t] \in live
    /\ \A t, u \in Tasks : nc[t] = nc[u] /\ nc[t] # Null => t = u

\* The table in use holds netconns that are allocated, except for the one that
\* is just being closed, and none that is still to be entered.
LiveInv ==
    /\ \A i \in Index : conn[Entry(i)] # Null =>
        \/ conn[Entry(i)] \in live
        \/ \E t \in Tasks : pc[t] = "clear" /\ nf[t] = Entry(i)
    /\ \A t \in Tasks : pc[t] \in Opening =>
        \A i \in Index : conn[Entry(i)] # nc[t]

\* The second loop has passed no free entry, and what was copied of the larger
\* table is exact until it is in use.
FullInv == \A t \in Tasks :
    /\ pc[t] \in {"free", "grow"} \cup Growing =>
        \A i \in Index : i < idx[t] => conn[Entry(i)] # Null
    /\ pc[t] \in {"copy", "publish", "maps"} =>
        \A i \in Index \ left : conn[<<nblocks, i>>] = conn[Entry(i)]

\* A descriptor that is about to be returned is nobody else's.
GivenInv == \A t \in Tasks : Given(t) =>
    /\ conn[Entry(idx[t])] = nc[t]
    /\ \A u \in Tasks : idx[t] \notin fds[u]

OwnInv ==
    /\ ClosingInv /\ HandInv /\ LiveInv /\ FullInv /\ GivenInv
    /\ Ownership

\* The obligation on callers that the theorems about ownership need besides
\* FirstCallAlone.  Without it atu_close_r clears an entry that is somebody
\* else's by now, and Ownership fails.
CloseAlone == "close" \in Exclusive

-----------------------------------------------------------------------------
(* What the steps do to the table in use, as the descriptors see it.       *)

\* Every descriptor keeps what is behind it.
Same == \A i \in Index : conn'[<<netconn_maps', i>>] = conn[Entry(i)]

\* The task enters its netconn behind idx[t], a free descriptor.
Taken(t) ==
    /\ idx[t] \in Index /\ InTable(idx[t]) /\ conn[Entry(idx[t])] = Null
    /\ pc[t] \in {"free", "store"} /\ pc'[t] = "unlock"
    /\ UNCHANGED <<netconn_maps, maps_size, live, fds, nc, idx>>
    /\ \A i \in Index : conn'[<<netconn_maps', i>>]
                          = IF i = idx[t] THEN nc[t] ELSE conn[Entry(i)]

\* The descriptor that the task closes becomes free.
Cleared(t) == \A i \in Index : conn'[<<netconn_maps', i>>]
                          = IF i = idx[t] THEN Null ELSE conn[Entry(i)]

\* An entry that holds a netconn is one that atu_fd2conn gives.
LEMMA UsedInTable ==
    ASSUME IInv, EntryInv, NEW i \in Index, conn[Entry(i)] # Null
    PROVE  InTable(i)
<1> USE DEF IInv, EntryInv
<1>1. /\ i \in Nat /\ netconn_maps \in Blocks /\ maps_size \in Nat
      /\ i < len[netconn_maps] /\ len[netconn_maps] = netconn_maps * Growth
    BY Multiples DEF Beyond, Entry, TypeOK, TablesInv, Index, Blocks
<1>2. CASE \A t \in Tasks : pc[t] \notin Publishing
    BY <1>1, <1>2 DEF SizeInv, InTable
<1>3. CASE \E t \in Tasks : pc[t] \in Publishing
    <2>1. PICK t \in Tasks : pc[t] \in Publishing
        BY <1>3
    <2>2. /\ nblocks \in Blocks \ {0}
          /\ netconn_maps = IF pc[t] = "size" THEN nblocks ELSE nblocks - 1
          /\ maps_size = (IF pc[t] = "maps" THEN nblocks ELSE nblocks - 1)
                            * Growth
          /\ idx[t] = (nblocks - 1) * Growth
        BY <2>1 DEF SizeInv, TypeOK
    <2>3. CASE pc[t] = "size"
        <3>1. ~(i >= idx[t])
            BY <2>2, <2>3 DEF Search, Growing, Publishing, Entry
        <3> QED
            BY <1>1, <2>2, <2>3, <3>1, Multiples DEF InTable
    <2>4. CASE pc[t] # "size"
        BY <1>1, <2>2, <2>4, Multiples DEF InTable
    <2> QED
        BY <2>3, <2>4
<1> QED
    BY <1>2, <1>3

\* Nobody is closing a descriptor when another task makes a step.
LEMMA NoneCloses ==
    ASSUME CloseAlone, IInv, ClosingInv,
           NEW t \in Tasks, Start(t) \/ Wait(t) \/ Work(t),
           ~Delete(t), ~Clear(t), NEW u \in Tasks
    PROVE  pc[u] \notin {"delete", "clear"}
<1> SUFFICES ASSUME pc[u] \in {"delete", "clear"}
             PROVE  FALSE
    OBVIOUS
<1>1. call[u] \in Exclusive /\ ~Idle(u)
    BY DEF CloseAlone, ClosingInv, Idle
<1>2. CASE Start(t)
    BY <1>1, <1>2 DEF Start, SocketCall, AcceptCall, CloseCall, CloseBad,
        MayStart
<1>3. CASE Wait(t) \/ Work(t)
    <2>1. pc[t] \notin {"idle", "delete", "clear"}
        BY <1>3 DEF Wait, Work, CreateLock, NewConn, NewFails, Accepted,
            AcceptFails, Lock, Acquire, Match, FindFree, Grow, GrowFails,
            CopyEntry, PublishSize, PublishMaps, Store, Unlock, Lookup, SetType,
            Delete, Clear
    <2> QED
        BY <2>1 DEF ClosingInv, Idle
<1> QED
    BY <1>2, <1>3

\* A step leaves all descriptors as they are, fills one that was free, or frees
\* the one that is being closed.
LEMMA ViewStep ==
    ASSUME IInv, EntryInv, OwnInv,
           NEW t \in Tasks, Start(t) \/ Wait(t) \/ Work(t)
    PROVE  \/ Same /\ pc[t] # "clear"
           \/ Taken(t)
           \/ Cleared(t) /\ Clear(t) /\ UNCHANGED netconn_maps
<1> USE DEF IInv, EntryInv, OwnInv
<1>a. /\ netconn_maps \in Blocks /\ Search(t)
      /\ UNCHANGED <<conn, netconn_maps>> => Same
    BY DEF TypeOK, Same, Entry
<1>b. pc[t] = "clear" => Clear(t)
    BY DEF Start, Wait, Work, SocketCall, AcceptCall, CloseCall, CloseBad,
        MayStart, Idle, CreateLock, NewConn, NewFails, Accepted, AcceptFails,
        Lock, Acquire, Match, FindFree, Grow, GrowFails, CopyEntry, PublishSize,
        PublishMaps, Store, Unlock, Lookup, SetType, Delete
<1>1. CASE UNCHANGED <<conn, netconn_maps, nblocks, len, left>> /\ ~Clear(t)
    BY <1>1, <1>a, <1>b
<1>2. CASE FindFree(t)
    <2>1. UNCHANGED <<netconn_maps, maps_size, live, fds, nc>> /\ pc[t] = "free"
        BY <1>2 DEF FindFree, table, app
    <2>2. CASE conn' = conn
        BY <1>a, <2>1, <2>2
    <2>3. CASE /\ InTable(idx[t]) /\ IsFree(t) /\ Put(idx[t], nc[t])
               /\ Goto(t, "unlock") /\ UNCHANGED idx
        <3>1. idx[t] \in Index
            BY <2>3, InTableIndex DEF TypeOK
        <3>2. pc'[t] = "unlock"
            BY <2>3 DEF Goto, TypeOK
        <3>3. \A i \in Index : conn'[<<netconn_maps, i>>]
                = IF i = idx[t] THEN nc[t] ELSE conn[<<netconn_maps, i>>]
            BY <1>a, <2>3, <3>1, PutAt
        <3> QED
            BY <2>1, <2>3, <3>1, <3>2, <3>3 DEF Taken, IsFree, Entry
    <2> QED
        BY <1>2, <2>2, <2>3 DEF FindFree, Put
<1>3. CASE Grow(t)
    <2>1. UNCHANGED <<conn, netconn_maps>> /\ pc[t] # "clear"
        BY <1>3, GrowValues DEF Grow
    <2> QED
        BY <1>a, <2>1
<1>7. CASE CopyEntry(t)
    <2>1. netconn_maps # nblocks /\ netconn_maps' = netconn_maps
        BY <1>7, CopyValues DEF Blocks
    <2>2. \A i \in Index : conn'[<<netconn_maps, i>>] = conn[<<netconn_maps, i>>]
        BY <1>7, <1>a, <2>1, CopyValues
    <2>3. pc[t] # "clear"
        BY <1>7 DEF CopyEntry
    <2> QED
        BY <2>1, <2>2, <2>3 DEF Same, Entry
<1>4. CASE PublishMaps(t)
    <2>1. /\ UNCHANGED conn /\ netconn_maps' = nblocks
          /\ pc[t] \in {"publish", "maps"}
        BY <1>4 DEF PublishMaps, entries, SizeInv, Publishing
    <2>2. left = {}
        BY <2>1, AllCopied DEF InCS, Locked
    <2> QED
        BY <2>1, <2>2 DEF FullInv, Same
<1>5. CASE Store(t)
    <2>1. /\ UNCHANGED <<netconn_maps, maps_size, live, fds, nc, idx>>
          /\ pc[t] = "store" /\ pc'[t] = "unlock" /\ Put(idx[t], nc[t])
        BY <1>5 DEF Store, table, app, locals, Goto, Put, TypeOK
    <2>2. idx[t] \in Index /\ InTable(idx[t])
        BY <2>1, InTableIndex DEF IndexInv, HoldsInside, Inside, TypeOK
    <2>3. netconn_maps = nblocks
        BY <2>1, ExactSize DEF InCS, Locked, Publishing
    <2>4. conn[Entry(idx[t])] = Null
        BY <1>a, <2>1, <2>2, <2>3, Multiples DEF Search, Growing, Entry, Index
    <2>5. \A i \in Index : conn'[<<netconn_maps, i>>]
            = IF i = idx[t] THEN nc[t] ELSE conn[<<netconn_maps, i>>]
        BY <1>a, <2>1, <2>2, PutAt
    <2> QED
        BY <2>1, <2>2, <2>4, <2>5 DEF Taken, Entry
<1>6. CASE Clear(t)
    <2>1. UNCHANGED netconn_maps /\ nf[t] = <<netconn_maps, idx[t]>>
        BY <1>6 DEF Clear, table, ClosingInv, Entry
    <2>2. nf[t][1] = netconn_maps /\ nf[t][2] = idx[t]
        BY <2>1
    <2> QED
        BY <1>6, <1>a, <2>1, <2>2, ClearValues DEF Cleared, Entry
<1> QED
    BY <1>1, <1>2, <1>3, <1>4, <1>5, <1>6, <1>7, TableSteps

-----------------------------------------------------------------------------
(* The parts of OwnInv, one after the other.                               *)

\* Other tasks are idle while one is closing a descriptor.
LEMMA CloserAlone ==
    ASSUME ClosingInv, NEW t \in Tasks, pc[t] \in {"delete", "clear"},
           NEW u \in Tasks, u # t
    PROVE  pc[u] = "idle"
BY DEF ClosingInv, Idle

\* A close starts and goes on with every other task idle, and on a descriptor
\* that nobody owns any more.
LEMMA ClosingStep ==
    ASSUME CloseAlone, IInv, EntryInv, OwnInv,
           NEW t \in Tasks, Start(t) \/ Wait(t) \/ Work(t)
    PROVE  ClosingInv'
<1> USE DEF IInv, EntryInv, OwnInv
<1>1. CASE CloseCall(t)
    <2>1. PICK s \in fds[t] : /\ nf' = [nf EXCEPT ![t] = Entry(s)]
                              /\ idx' = [idx EXCEPT ![t] = s]
                              /\ fds' = [fds EXCEPT ![t] = @ \ {s}]
        BY <1>1 DEF CloseCall
    <2>2. /\ UNCHANGED <<conn, netconn_maps, maps_size, len, live>>
          /\ call' = [call EXCEPT ![t] = "close"]
          /\ pc' = [pc EXCEPT ![t] = "delete"]
          /\ \A u \in Tasks : Idle(u)
        BY <1>1 DEF CloseCall, Begin, Goto, table, entries, MayStart, CloseAlone
    <2>3. /\ nf'[t] = <<netconn_maps, s>> /\ idx'[t] = s /\ Inside(s)
          /\ conn[<<netconn_maps, s>>] \in live
        BY <2>1 DEF TypeOK, Entry, IndexInv, HoldsInside, Ownership
    <2>4. conn[<<netconn_maps, s>>] # Null
        BY <2>3, NullIsNothing DEF TypeOK
    <2>5. ASSUME NEW u \in Tasks
          PROVE  s \notin fds'[u]
        BY <2>1 DEF TypeOK, Ownership
    <2>6. \A u \in Tasks : u # t => pc'[u] = "idle"
        BY <2>2 DEF Idle, TypeOK
    <2>7. pc'[t] = "delete" /\ call'[t] = "close"
        BY <2>2 DEF TypeOK
    <2>8. Inside(s)' /\ conn'[nf'[t]] = conn[<<netconn_maps, s>>] /\ live' = live
        BY <2>2, <2>3 DEF Inside, InTable
    <2>9. nf'[t] = <<netconn_maps', idx'[t]>>
        BY <2>2, <2>3
    <2>10. \A u \in Tasks : u # t => Idle(u)'
        BY <2>6 DEF Idle
    <2>11. ASSUME NEW u \in Tasks, pc'[u] \in {"delete", "clear"}
           PROVE  u = t
        BY <2>6, <2>11
    <2> QED
        BY <2>3, <2>4, <2>5, <2>7, <2>8, <2>9, <2>10, <2>11 DEF ClosingInv,
            Entry
<1>2. CASE Delete(t)
    <2>1. /\ UNCHANGED <<conn, netconn_maps, maps_size, len, fds, call, nf, idx>>
          /\ pc[t] = "delete" /\ pc' = [pc EXCEPT ![t] = "clear"]
          /\ live' = live \ {conn[nf[t]]}
        BY <1>2 DEF Delete, Doomed, Goto, table, entries, locals
    <2>2. \A u \in Tasks : u # t => pc[u] = "idle" /\ pc'[u] = "idle"
        BY <2>1, CloserAlone DEF TypeOK
    <2>3. pc'[t] = "clear"
        BY <2>1 DEF TypeOK
    <2> QED
        BY <2>1, <2>2, <2>3 DEF ClosingInv, Entry, Idle, Inside, InTable
<1>3. CASE ~CloseCall(t) /\ ~Delete(t)
    <2>1. ASSUME NEW u \in Tasks
          PROVE  pc'[u] \notin {"delete", "clear"}
        <3>1. CASE Clear(t)
            BY <3>1, CloserAlone DEF Clear, Return, Goto, TypeOK
        <3>2. CASE ~Clear(t) /\ u # t
            BY <1>3, <3>2, NoneCloses, OthersStay
        <3>3. CASE ~Clear(t) /\ u = t
            <4>1. pc[t] \notin {"delete", "clear"}
                BY <1>3, <3>3, NoneCloses
            <4> QED
                BY <1>3, <3>3, <4>1 DEF TypeOK, Start, Wait, Work, Return, Goto,
                    SocketCall, CreateLock, NewConn, NewFails, AcceptCall,
                    Accepted, AcceptFails, Lock, Acquire, Match, FindFree, Grow,
                    GrowFails, CopyEntry, PublishSize, PublishMaps, Store,
                    Unlock, Lookup, SetType, CloseBad
        <3> QED
            BY <3>1, <3>2, <3>3
    <2> QED
        BY <2>1 DEF ClosingInv
<1> QED
    BY <1>1, <1>2, <1>3

\* What a step does to the netconns that are allocated and to the one in the
\* hands of its task.
LEMMA HandSteps ==
    ASSUME IInv, HandInv, NEW t \in Tasks, Start(t) \/ Wait(t) \/ Work(t)
    PROVE  \/ /\ UNCHANGED <<live, nc>>
              /\ pc[t] \in EmptyHanded <=> pc'[t] \in EmptyHanded
           \/ /\ \E c \in Conns \ live : live' = live \cup {c} /\ nc'[t] = c
              /\ pc'[t] = "lock"
           \/ /\ UNCHANGED live
              /\ nc'[t] = Null /\ pc'[t] = "idle"
           \/ Delete(t)
<1> USE DEF IInv
<1>1. CASE NewConn(t) \/ Accepted(t)
    <2>1. PICK c \in Conns \ live : live' = live \cup {c} /\ nc' = [nc EXCEPT ![t] = c]
        BY <1>1 DEF NewConn, Accepted
    <2> QED
        BY <1>1, <2>1 DEF NewConn, Accepted, Goto, TypeOK
<1>2. CASE NewFails(t) \/ AcceptFails(t) \/ SetType(t) \/ Clear(t)
    BY <1>2 DEF NewFails, AcceptFails, SetType, Clear, Return, Goto, TypeOK, app
<1>3. CASE Unlock(t)
    BY <1>3 DEF Unlock, Return, Goto, TypeOK, locals, EmptyHanded
<1>4. CASE Delete(t)
    BY <1>4
<1>5. CASE SocketCall(t) \/ AcceptCall(t) \/ CloseCall(t) \/ CloseBad(t)
    BY <1>5 DEF SocketCall, AcceptCall, CloseCall, CloseBad, MayStart, Idle,
        Goto, TypeOK, app, locals, EmptyHanded
<1>6. CASE CreateLock(t) \/ Lock(t) \/ Acquire(t) \/ Match(t) \/ FindFree(t)
    BY <1>6 DEF CreateLock, Lock, Acquire, Match, FindFree, Goto, TypeOK, app,
        locals, EmptyHanded
<1>7. CASE \/ Grow(t) \/ GrowFails(t) \/ CopyEntry(t) \/ PublishSize(t)
           \/ PublishMaps(t) \/ Store(t) \/ Lookup(t)
    BY <1>7 DEF Grow, GrowFails, CopyEntry, PublishSize, PublishMaps, Store,
        Lookup, Goto, TypeOK, app, locals, EmptyHanded
<1> QED
    BY <1>1, <1>2, <1>3, <1>4, <1>5, <1>6, <1>7 DEF Start, Wait, Work

\* A call that opens a socket gets a netconn that no other call has.
LEMMA HandStep ==
    ASSUME IInv, EntryInv, OwnInv,
           NEW t \in Tasks, Start(t) \/ Wait(t) \/ Work(t)
    PROVE  HandInv'
<1> USE DEF IInv, OwnInv
<1>a. \A u \in Tasks : u # t => pc'[u] = pc[u] /\ nc'[u] = nc[u]
    BY OthersStay, HandsStay
<1>1. CASE Delete(t)
    <2>1. /\ UNCHANGED nc /\ pc[t] = "delete" /\ pc'[t] = "clear"
        BY <1>1 DEF Delete, locals, Goto, TypeOK
    <2>2. \A u \in Tasks : nc[u] = Null
        BY <2>1, CloserAlone DEF HandInv, EmptyHanded
    <2> QED
        BY <1>a, <2>1, <2>2 DEF HandInv, EmptyHanded
<1>2. CASE /\ UNCHANGED <<live, nc>>
           /\ pc[t] \in EmptyHanded <=> pc'[t] \in EmptyHanded
    BY <1>a, <1>2 DEF HandInv
<1>3. CASE UNCHANGED live /\ nc'[t] = Null /\ pc'[t] = "idle"
    BY <1>a, <1>3 DEF HandInv, EmptyHanded
<1>4. CASE /\ \E c \in Conns \ live : live' = live \cup {c} /\ nc'[t] = c
           /\ pc'[t] = "lock"
    <2>1. PICK c \in Conns \ live : live' = live \cup {c} /\ nc'[t] = c
        BY <1>4
    <2>2. c # Null /\ \A u \in Tasks : nc[u] # c
        BY <2>1, NullIsNothing DEF HandInv
    <2> QED
        BY <1>a, <1>4, <2>1, <2>2 DEF HandInv, EmptyHanded
<1> QED
    BY <1>1, <1>2, <1>3, <1>4, HandSteps

\* Netconns are freed by atu_close_r only, the one it closes.
LEMMA LiveSteps ==
    ASSUME IInv, EntryInv, OwnInv,
           NEW t \in Tasks, Start(t) \/ Wait(t) \/ Work(t)
    PROVE  \/ ~Delete(t) /\ live \subseteq live'
           \/ /\ Delete(t) /\ live' = live \ {conn[Entry(idx[t])]}
              /\ pc[t] = "delete" /\ pc'[t] = "clear"
              /\ UNCHANGED <<conn, netconn_maps, nf, nc, idx, fds>>
              /\ nf[t] = Entry(idx[t]) /\ idx[t] \in Index
<1> USE DEF IInv, OwnInv
<1>1. CASE Delete(t)
    <2>1. /\ live' = live \ {conn[nf[t]]} /\ pc[t] = "delete" /\ pc'[t] = "clear"
          /\ UNCHANGED <<conn, netconn_maps, nf, nc, idx, fds>>
        BY <1>1 DEF Delete, Doomed, entries, table, locals, Goto, TypeOK
    <2>2. nf[t] = Entry(idx[t]) /\ InTable(idx[t])
        BY <2>1 DEF ClosingInv, Inside
    <2>3. idx[t] \in Index
        BY <2>2, InTableIndex DEF TypeOK
    <2> QED
        BY <1>1, <2>1, <2>2, <2>3
<1>2. CASE ~Delete(t)
    BY <1>2, HandSteps
<1> QED
    BY <1>1, <1>2

\* The table holds no freed netconn, and none that is still to be entered.
LEMMA LiveStep ==
    ASSUME CloseAlone, IInv, EntryInv, OwnInv,
           NEW t \in Tasks, Start(t) \/ Wait(t) \/ Work(t)
    PROVE  LiveInv'
<1> USE DEF IInv, OwnInv
<1>a. \A u \in Tasks : u # t => pc'[u] = pc[u] /\ nc'[u] = nc[u]
    BY OthersStay, HandsStay
<1>b. \A i \in Index : conn[<<netconn_maps, i>>] \in Conns \cup {Null}
    BY SlotOf DEF TypeOK
<1>1. ASSUME NEW i \in Index, conn'[<<netconn_maps', i>>] # Null
      PROVE  \/ conn'[<<netconn_maps', i>>] \in live'
             \/ \E u \in Tasks : pc'[u] = "clear" /\ nf'[u] = <<netconn_maps', i>>
    <2>1. CASE Clear(t)
        <3>1. Cleared(t) /\ UNCHANGED netconn_maps /\ live' = live
            BY <2>1, ViewStep DEF Clear, app, Taken
        <3>2. i # idx[t] /\ conn'[<<netconn_maps', i>>] = conn[Entry(i)]
            BY <1>1, <3>1 DEF Cleared
        <3>3. ASSUME NEW u \in Tasks, pc[u] = "clear"
              PROVE  nf[u] # Entry(i)
            <4>1. u = t
                BY <2>1, <3>3, CloserAlone DEF Clear
            <4>2. nf[t] = Entry(idx[t])
                BY <2>1 DEF Clear, ClosingInv
            <4> QED
                BY <3>2, <4>1, <4>2 DEF Entry
        <3> QED
            BY <1>1, <3>1, <3>2, <3>3 DEF LiveInv
    <2>2. CASE Delete(t)
        <3>1. /\ live' = live \ {conn[Entry(idx[t])]} /\ pc'[t] = "clear"
              /\ UNCHANGED <<conn, netconn_maps, nf>>
              /\ nf[t] = Entry(idx[t]) /\ idx[t] \in Index
              /\ pc[t] = "delete"
            BY <2>2, LiveSteps
        <3>2. \A u \in Tasks : pc[u] # "clear"
            BY <3>1, CloserAlone
        <3>3. conn[<<netconn_maps, i>>] \in live
            BY <1>1, <3>1, <3>2 DEF LiveInv, Entry
        <3>4. CASE conn[<<netconn_maps, i>>] = conn[<<netconn_maps, idx[t]>>]
            <4>1. i = idx[t]
                BY <1>1, <3>1, <3>4 DEF EntryInv, Unique
            <4> QED
                BY <3>1, <4>1 DEF Entry
        <3> QED
            BY <3>1, <3>3, <3>4 DEF Entry
    <2>3. CASE ~Clear(t) /\ ~Delete(t)
        <3>1. live \subseteq live'
            BY <2>3, LiveSteps
        <3>2. \A j \in Index : conn[Entry(j)] # Null => conn[Entry(j)] \in live
            BY <2>3, NoneCloses DEF LiveInv
        <3>3. CASE Same
            BY <1>1, <3>1, <3>2, <3>3 DEF Same
        <3>4. CASE Taken(t)
            <4>1. nc[t] \in live
                BY <3>4 DEF Taken, HandInv, EmptyHanded
            <4> QED
                BY <1>1, <3>1, <3>2, <3>4, <4>1 DEF Taken
        <3> QED
            BY <2>3, <3>3, <3>4, ViewStep
    <2> QED
        BY <2>1, <2>2, <2>3
<1>2. ASSUME NEW u \in Tasks, pc'[u] \in Opening, NEW i \in Index
      PROVE  conn'[<<netconn_maps', i>>] # nc'[u]
    <2>1. CASE Clear(t) \/ Delete(t)
        <3>1. pc[t] \in {"delete", "clear"} /\ pc'[t] \notin Opening
            BY <2>1 DEF Clear, Delete, Return, Goto, TypeOK, Opening, Locked
        <3> QED
            BY <1>a, <1>2, <3>1, CloserAlone DEF Opening, Locked
    <2>2. CASE ~Clear(t) /\ ~Delete(t)
        <3>1. \A j \in Index : conn[Entry(j)] # Null => conn[Entry(j)] \in live
            BY <2>2, NoneCloses DEF LiveInv
        <3>2. CASE pc[u] \in Opening /\ nc'[u] = nc[u]
            <4>1. \A j \in Index : conn[Entry(j)] # nc[u]
                BY <3>2 DEF LiveInv
            <4>2. CASE Same
                BY <3>2, <4>1, <4>2 DEF Same
            <4>3. CASE Taken(t)
                <5>1. u # t
                    BY <1>2, <4>3 DEF Taken, Opening, Locked
                <5>2. nc[t] # nc[u]
                    BY <4>3, <5>1 DEF HandInv, Taken, EmptyHanded
                <5> QED
                    BY <3>2, <4>1, <4>3, <5>2 DEF Taken
            <4> QED
                BY <2>2, <4>2, <4>3, ViewStep
        <3>3. CASE u = t /\ nc'[t] \in Conns \ live /\ pc'[t] = "lock"
            <4>1. Same
                <5>1. pc[t] \notin {"free", "store"}
                    BY <3>3 DEF TypeOK, Start, Wait, Work, SocketCall,
                        AcceptCall, CloseCall, CloseBad, CreateLock, NewConn,
                        NewFails, Accepted, AcceptFails, Lock, Acquire, Match,
                        FindFree, Grow, GrowFails, CopyEntry, PublishSize,
                        PublishMaps, Store, Unlock, Lookup, SetType, Delete,
                        Clear, Goto, Return, MayStart, Idle
                <5> QED
                    BY <2>2, <5>1, ViewStep DEF Taken
            <4> QED
                BY <3>1, <3>3, <4>1, NullIsNothing DEF Same
        <3>4. \/ pc[u] \in Opening /\ nc'[u] = nc[u]
              \/ u = t /\ nc'[t] \in Conns \ live /\ pc'[t] = "lock"
            <4>1. CASE u # t
                BY <1>a, <1>2, <4>1
            <4>2. CASE u = t /\ (NewConn(t) \/ Accepted(t))
                BY <4>2 DEF NewConn, Accepted, Goto, TypeOK
            <4>3. CASE u = t /\ ~NewConn(t) /\ ~Accepted(t)
                BY <1>2, <2>2, <4>3 DEF TypeOK, Start, Wait, Work, SocketCall,
                    AcceptCall, CloseCall, CloseBad, CreateLock, NewFails,
                    AcceptFails, Lock, Acquire, Match, FindFree, Grow,
                    GrowFails, CopyEntry, PublishSize, PublishMaps, Store,
                    Unlock, Lookup, SetType, Goto, Return, MayStart, Idle,
                    locals, Opening, Locked
            <4> QED
                BY <4>1, <4>2, <4>3
        <3> QED
            BY <3>2, <3>3, <3>4
    <2> QED
        BY <2>1, <2>2
<1> QED
    BY <1>1, <1>2 DEF LiveInv, Entry

\* The second loop leaves no free entry behind, and a growth copies everything.
LEMMA FullStep ==
    ASSUME CloseAlone, IInv, EntryInv, OwnInv,
           NEW t \in Tasks, Start(t) \/ Wait(t) \/ Work(t)
    PROVE  FullInv'
<1> USE DEF IInv, EntryInv, OwnInv
<1>a. netconn_maps \in Blocks /\ nblocks \in Nat
    BY DEF TypeOK, Blocks
<1>b. \A i \in Index : i \in Nat
    BY Multiples DEF Index
<1> DEFINE Full(u) ==
        /\ pc[u] \in {"free", "grow"} \cup Growing =>
            \A i \in Index : i < idx[u] => conn[<<netconn_maps, i>>] # Null
        /\ pc[u] \in {"copy", "publish", "maps"} =>
            \A i \in Index \ left :
                conn[<<nblocks, i>>] = conn[<<netconn_maps, i>>]
<1>c. \A u \in Tasks : Full(u)
    BY DEF FullInv, Entry
<1>d. ASSUME NEW u \in Tasks, u # t
      PROVE  Full(u)'
    <2>1. pc'[u] = pc[u] /\ idx'[u] = idx[u]
        BY <1>d, OthersStay
    <2>2. CASE ~InCS(u)
        BY <2>1, <2>2 DEF InCS, Locked, Growing, Publishing
    <2>3. CASE InCS(u)
        <3>1. ~InCS(t) /\ ~Clear(t)
            BY <1>d, <2>3, OneInside, CloserAlone DEF Clear, InCS, Locked
        <3>2. UNCHANGED <<conn, netconn_maps, nblocks, left>>
            BY <3>1, TableSteps DEF FindFree, Grow, CopyEntry, PublishMaps,
                Store, InCS, Locked
        <3> QED
            BY <1>c, <2>1, <3>2
    <2> QED
        BY <2>2, <2>3
<1>e. ASSUME Full(t)'
      PROVE  FullInv'
    BY <1>d, <1>e DEF FullInv, Entry
<1>1. CASE Match(t)
    <2>1. \/ pc'[t] \notin {"free", "grow"} \cup Growing
          \/ pc'[t] = "free" /\ idx'[t] = 0
        BY <1>1 DEF Match, Goto, TypeOK, Growing, Publishing
    <2> QED
        BY <1>b, <1>e, <2>1 DEF Growing, Publishing
<1>2. CASE FindFree(t)
    <2>1. pc[t] = "free" /\ UNCHANGED netconn_maps /\ idx[t] \in Nat
        BY <1>2 DEF FindFree, table, IndexInv, HoldsInside
    <2>2. CASE Goto(t, "unlock")
        BY <1>e, <2>2 DEF Goto, TypeOK, Growing, Publishing
    <2>3. CASE ~IsFree(t) /\ idx' = [idx EXCEPT ![t] = @ + 1] /\ UNCHANGED <<conn, pc>>
        <3>1. idx'[t] = idx[t] + 1 /\ conn[<<netconn_maps, idx[t]>>] # Null
            BY <2>3 DEF TypeOK, IsFree, Entry
        <3>2. \A i \in Index : i < idx'[t] => conn'[<<netconn_maps', i>>] # Null
            BY <1>b, <1>c, <2>1, <2>3, <3>1
        <3> QED
            BY <1>e, <2>1, <2>3, <3>2
    <2>4. CASE Goto(t, "grow") /\ UNCHANGED <<conn, idx>>
        <3>1. pc'[t] = "grow"
            BY <2>4 DEF Goto, TypeOK
        <3> QED
            BY <1>c, <1>e, <2>1, <2>4, <3>1
    <2> QED
        BY <1>2, <2>2, <2>3, <2>4 DEF FindFree
<1>3. CASE Grow(t)
    <2>1. /\ pc[t] = "grow" /\ idx' = idx /\ netconn_maps' = netconn_maps
          /\ conn' = conn
        BY <1>3, GrowValues DEF Grow
    <2>2. ASSUME NEW i \in Index \ left'
          PROVE  conn[<<nblocks', i>>] = Null /\ conn[<<netconn_maps, i>>] = Null
        <3>1. ~(i < maps_size) /\ i \in Nat
            BY <1>b, <1>3, <2>2, GrowValues
        <3> QED
            BY <1>3, <1>a, <2>2, <3>1, GrowValues DEF Beyond
    <2> QED
        BY <1>c, <1>e, <2>1, <2>2
<1>8. CASE CopyEntry(t)
    <2>1. /\ pc[t] = "copy" /\ idx' = idx
          /\ UNCHANGED <<netconn_maps, nblocks>>
        BY <1>8 DEF CopyEntry, locals
    <2>2. nblocks \in Blocks /\ netconn_maps # nblocks
        BY <1>8, CopyValues DEF Blocks
    <2>3. PICK k \in left :
            /\ k \in Index /\ left' = left \ {k}
            /\ \A b \in Blocks, i \in Index :
                conn'[<<b, i>>] = IF b = nblocks /\ i = k
                                  THEN conn[<<netconn_maps, k>>]
                                  ELSE conn[<<b, i>>]
        BY <1>8, CopyValues
    <2>4. \A i \in Index : conn'[<<netconn_maps, i>>] = conn[<<netconn_maps, i>>]
        BY <1>a, <2>2, <2>3
    <2>5. \A i \in Index \ left' :
            conn'[<<nblocks, i>>] = conn'[<<netconn_maps, i>>]
        BY <1>c, <2>1, <2>2, <2>3, <2>4
    <2>6. \A i \in Index : i < idx[t] => conn[<<netconn_maps, i>>] # Null
        BY <1>c, <2>1 DEF Growing, Publishing
    <2> QED
        BY <1>e, <2>1, <2>4, <2>5, <2>6
<1>4. CASE PublishSize(t)
    <2>1. /\ UNCHANGED <<conn, netconn_maps, nblocks, idx, left>>
          /\ pc[t] \in {"publish", "size"} /\ pc'[t] \in {"maps", "store"}
          /\ pc'[t] = "maps" => pc[t] = "publish"
        BY <1>4 DEF PublishSize, entries, locals, Goto, TypeOK
    <2> QED
        BY <1>c, <1>e, <2>1 DEF Growing, Publishing
<1>5. CASE PublishMaps(t)
    <2>1. /\ UNCHANGED <<conn, nblocks, idx>> /\ netconn_maps' = nblocks
          /\ pc[t] \in {"publish", "maps"} /\ pc'[t] \in {"size", "store"}
        BY <1>5 DEF PublishMaps, entries, locals, Goto, TypeOK, SizeInv,
            Publishing
    <2>2. left = {}
        BY <2>1, AllCopied DEF InCS, Locked
    <2> QED
        BY <1>c, <1>e, <2>1, <2>2 DEF Growing, Publishing
<1>6. CASE pc'[t] \notin {"free", "grow"} \cup Growing
    BY <1>6, <1>e DEF Growing, Publishing
<1>7. \/ Match(t) \/ FindFree(t) \/ Grow(t) \/ CopyEntry(t)
      \/ PublishSize(t) \/ PublishMaps(t)
      \/ pc'[t] \notin {"free", "grow"} \cup Growing
    BY DEF TypeOK, Start, Wait, Work, Return, Goto, SocketCall, CreateLock,
        NewConn, NewFails, AcceptCall, Accepted, AcceptFails, Lock, Acquire,
        GrowFails, Store, Unlock, Lookup, SetType, CloseCall, CloseBad, Delete,
        Clear, locals, Growing, Publishing, MayStart, Idle
<1> QED
    BY <1>1, <1>2, <1>3, <1>4, <1>5, <1>6, <1>7, <1>8

\* The descriptors that tasks own change in three ways.
LEMMA FdsSteps ==
    ASSUME IInv, NEW t \in Tasks, Start(t) \/ Wait(t) \/ Work(t)
    PROVE  \/ \A u \in Tasks : fds'[u] \subseteq fds[u]
           \/ /\ Given(t) /\ idx[t] \in Index /\ pc'[t] = "idle"
              /\ fds' = [fds EXCEPT ![t] = @ \cup {idx[t]}]
<1> USE DEF IInv
<1>a. Inside(idx[t]) => idx[t] \in Index
    BY InTableIndex DEF TypeOK, Inside
<1>1. CASE Unlock(t) /\ call[t] = "accept"
    <2>1. /\ fds' = [fds EXCEPT ![t] = @ \cup ({idx[t]} \cap Index)]
          /\ pc[t] = "unlock" /\ pc'[t] = "idle"
        BY <1>1 DEF Unlock, Return, Goto, TypeOK
    <2>2. CASE idx[t] = -1
        <3>1. idx[t] \notin Index
            BY <2>2, Multiples DEF Index
        <3>2. \A u \in Tasks : fds'[u] = fds[u]
            BY <2>1, <3>1 DEF TypeOK
        <3> QED
            BY <3>2
    <2>3. CASE idx[t] # -1
        <3>1. idx[t] \in Index
            BY <1>a, <2>1, <2>3 DEF IndexInv, HoldsInside
        <3>2. fds' = [fds EXCEPT ![t] = @ \cup {idx[t]}]
            BY <2>1, <3>1
        <3> QED
            BY <2>1, <2>3, <3>1, <3>2 DEF Given
    <2> QED
        BY <2>2, <2>3
<1>2. CASE SetType(t)
    <2>1. /\ fds' = [fds EXCEPT ![t] = @ \cup {idx[t]}]
          /\ pc[t] = "type" /\ pc'[t] = "idle"
        BY <1>2 DEF SetType, Return, Goto, TypeOK
    <2>2. idx[t] \in Index /\ idx[t] # -1
        <3>1. Inside(idx[t])
            BY <2>1 DEF IndexInv, HoldsInside
        <3> QED
            BY <1>a, <3>1 DEF Inside, InTable
    <2> QED
        BY <2>1, <2>2 DEF Given
<1>3. CASE CloseCall(t) \/ CloseBad(t)
    BY <1>3 DEF CloseCall, CloseBad, TypeOK
<1>4. CASE UNCHANGED fds
    BY <1>4
<1>5. \/ Unlock(t) /\ call[t] = "accept"
      \/ SetType(t) \/ CloseCall(t) \/ CloseBad(t)
      \/ UNCHANGED fds
    BY DEF Start, Wait, Work, SocketCall, CreateLock, NewConn, NewFails,
        AcceptCall, Accepted, AcceptFails, Lock, Acquire, Match, FindFree, Grow,
        GrowFails, CopyEntry, PublishSize, PublishMaps, Store, Unlock, Lookup,
        Delete, Clear, app
<1> QED
    BY <1>1, <1>2, <1>3, <1>4, <1>5

\* Descriptors that are owned, or about to be, have different netconns behind
\* them, so a task that returns one adds nobody else's.
LEMMA GivenApart ==
    ASSUME IInv, OwnInv, NEW t \in Tasks, Given(t),
           NEW u \in Tasks, u # t, Given(u)
    PROVE  idx[u] # idx[t]
BY DEF OwnInv, GivenInv, HandInv, Given, EmptyHanded

\* What is behind a descriptor in use changes when it is closed, and then only.
LEMMA BehindStays ==
    ASSUME IInv, EntryInv, OwnInv,
           NEW t \in Tasks, Start(t) \/ Wait(t) \/ Work(t),
           NEW i \in Index, conn[Entry(i)] # Null,
           ~(Clear(t) /\ i = idx[t])
    PROVE  conn'[<<netconn_maps', i>>] = conn[Entry(i)]
BY ViewStep DEF Same, Taken, Cleared

\* The netconn behind a descriptor that is owned or about to be.
LEMMA BehindLives ==
    ASSUME IInv, OwnInv, NEW i \in Index,
           \/ \E u \in Tasks : i \in fds[u]
           \/ \E u \in Tasks : Given(u) /\ i = idx[u]
    PROVE  conn[Entry(i)] # Null /\ conn[Entry(i)] \in live
<1>1. CASE \E u \in Tasks : i \in fds[u]
    BY <1>1, NullIsNothing DEF IInv, TypeOK, OwnInv, Ownership
<1>2. CASE \E u \in Tasks : Given(u) /\ i = idx[u]
    BY <1>2 DEF OwnInv, GivenInv, HandInv, Given, EmptyHanded
<1> QED
    BY <1>1, <1>2

\* A descriptor is given to one task, and has the netconn of its call behind it.
LEMMA GivenStep ==
    ASSUME CloseAlone, IInv, EntryInv, OwnInv,
           NEW t \in Tasks, Start(t) \/ Wait(t) \/ Work(t)
    PROVE  GivenInv'
<1> USE DEF IInv, OwnInv
<1>a. ASSUME NEW u \in Tasks, Given(u)
      PROVE  idx[u] \in Index /\ Inside(idx[u])
    <2>1. Inside(idx[u])
        BY <1>a DEF Given, IndexInv, HoldsInside
    <2> QED
        BY <2>1, InTableIndex DEF TypeOK, Inside
<1>b. ASSUME NEW u \in Tasks, Given(u), NEW v \in Tasks,
             ~(v = t /\ u = t /\ pc'[t] = "idle")
      PROVE  idx[u] \notin fds'[v]
    <2>1. idx[u] \notin fds[v]
        BY <1>b DEF GivenInv
    <2>2. CASE fds'[v] \subseteq fds[v]
        BY <2>1, <2>2
    <2>3. CASE /\ Given(t) /\ pc'[t] = "idle"
               /\ fds' = [fds EXCEPT ![t] = @ \cup {idx[t]}]
        <3>1. CASE v # t
            BY <2>1, <2>3, <3>1 DEF TypeOK
        <3>2. CASE v = t
            <4>1. idx[u] # idx[t]
                BY <1>b, <2>3, <3>2, GivenApart
            <4> QED
                BY <2>1, <2>3, <3>2, <4>1 DEF TypeOK
        <3> QED
            BY <3>1, <3>2
    <2> QED
        BY <2>2, <2>3, FdsSteps
<1>c. ASSUME NEW u \in Tasks, Given(u), ~Clear(t)
      PROVE  conn'[<<netconn_maps', idx[u]>>] = nc[u]
    <2>1. conn[Entry(idx[u])] = nc[u] /\ nc[u] # Null
        BY <1>c DEF GivenInv, HandInv, Given, EmptyHanded
    <2> QED
        BY <1>a, <1>c, <2>1, BehindStays
<1>1. ASSUME NEW u \in Tasks, u # t, Given(u)'
      PROVE  /\ conn'[<<netconn_maps', idx'[u]>>] = nc'[u]
             /\ \A v \in Tasks : idx'[u] \notin fds'[v]
    <2>1. pc'[u] = pc[u] /\ idx'[u] = idx[u] /\ nc'[u] = nc[u] /\ Given(u)
        BY <1>1, OthersStay, HandsStay DEF Given
    <2>2. ~Clear(t)
        BY <1>1, <2>1, CloserAlone DEF Clear, Given
    <2> QED
        BY <1>1, <1>b, <1>c, <2>1, <2>2
<1>2. ASSUME Given(t)'
      PROVE  /\ conn'[<<netconn_maps', idx'[t]>>] = nc'[t]
             /\ \A v \in Tasks : idx'[t] \notin fds'[v]
    <2>1. CASE Taken(t)
        <3>1. \A v \in Tasks : idx[t] \notin fds[v]
            BY <2>1, BehindLives DEF Taken
        <3> QED
            BY <2>1, <3>1 DEF Taken
    <2>2. CASE Given(t) /\ ~Clear(t) /\ UNCHANGED <<idx, nc>>
        <3>1. pc'[t] # "idle"
            BY <1>2 DEF Given
        <3> QED
            BY <1>b, <1>c, <2>2, <3>1
    <2>3. CASE Match(t)
        <3>1. ~IsThere(t) \/ ~InTable(idx[t])
            <4>1. InTable(idx[t]) => idx[t] \in Index
                BY InTableIndex DEF TypeOK
            <4> QED
                BY <2>3, <4>1 DEF Match, LiveInv, Opening, Locked, IsThere
        <3> QED
            BY <1>2, <2>3, <3>1 DEF Match, Goto, TypeOK, Given
    <2>4. CASE GrowFails(t)
        BY <1>2, <2>4, Multiples DEF GrowFails, NoIndex, Goto, TypeOK, Given
    <2>5. CASE FindFree(t) /\ ~Taken(t)
        <3>1. ~(InTable(idx[t]) /\ IsFree(t) /\ pc'[t] = "unlock")
            <4> SUFFICES ASSUME InTable(idx[t]), IsFree(t), pc'[t] = "unlock"
                         PROVE  FALSE
                OBVIOUS
            <4>1. conn' = [conn EXCEPT ![Entry(idx[t])] = nc[t]]
                BY <2>5 DEF FindFree
            <4>2. idx[t] \in Index
                BY InTableIndex DEF TypeOK
            <4>3. conn'[<<netconn_maps', idx[t]>>] = nc[t] /\ nc[t] # Null
                BY <2>5, <4>1, <4>2, SlotOf DEF FindFree, TypeOK, Entry, table,
                    HandInv, EmptyHanded
            <4>4. Same
                BY <2>5, ViewStep DEF FindFree, Clear
            <4> QED
                BY <4>2, <4>3, <4>4 DEF Same, IsFree
        <3> QED
            BY <1>2, <2>5, <3>1 DEF FindFree, Goto, TypeOK, Given
    <2>6. CASE Store(t) /\ ~Taken(t)
        <3>1. pc[t] = "store" /\ conn' = [conn EXCEPT ![Entry(idx[t])] = nc[t]]
            BY <2>6 DEF Store
        <3>2. idx[t] \in Index /\ idx' = idx /\ nc' = nc /\ fds' = fds
            BY <2>6, InTableIndex DEF Store, IndexInv, HoldsInside, Inside,
                TypeOK, locals, app
        <3>3. conn'[<<netconn_maps', idx[t]>>] = nc[t] /\ nc[t] # Null
            BY <2>6, <3>1, <3>2, SlotOf DEF Store, TypeOK, Entry, table,
                HandInv, EmptyHanded
        <3>4. Same
            BY <2>6, ViewStep DEF Store, Clear
        <3>5. conn[Entry(idx[t])] = nc[t]
            BY <3>2, <3>3, <3>4 DEF Same
        <3> QED
            BY <3>1, <3>2, <3>5 DEF LiveInv, Opening, Locked
    <2>7. \/ Given(t) /\ ~Clear(t) /\ UNCHANGED <<idx, nc>>
          \/ Match(t) \/ GrowFails(t) \/ FindFree(t) \/ Store(t)
        BY <1>2, ZenonT(40) DEF TypeOK, Start, Wait, Work, Return, Goto, SocketCall,
            CreateLock, NewConn, NewFails, AcceptCall, Accepted, AcceptFails,
            Lock, Acquire, Grow, CopyEntry, PublishSize, PublishMaps, Unlock,
            Lookup, SetType, CloseCall, CloseBad, Delete, Clear, locals,
            MayStart, Idle, Given
    <2> QED
        BY <2>1, <2>2, <2>3, <2>4, <2>5, <2>6, <2>7
<1> QED
    BY <1>1, <1>2 DEF GivenInv, Entry

\* A descriptor is added to what its task owns and taken away when it is closed.
LEMMA OwnershipStep ==
    ASSUME CloseAlone, IInv, IInv', EntryInv, OwnInv,
           NEW t \in Tasks, Start(t) \/ Wait(t) \/ Work(t)
    PROVE  Ownership'
<1> USE DEF OwnInv
<1>a. \A u \in Tasks : fds[u] \subseteq Index /\ fds'[u] \subseteq Index
    BY DEF IInv, TypeOK
<1>b. ASSUME NEW u \in Tasks, NEW s \in fds'[u]
      PROVE  \/ s \in fds[u]
             \/ u = t /\ Given(t) /\ s = idx[t]
    BY FdsSteps DEF IInv, TypeOK
<1>1. ASSUME NEW u \in Tasks, NEW v \in Tasks,
             fds'[u] \cap fds'[v] # {}
      PROVE  u = v
    <2>1. PICK s \in fds'[u] : s \in fds'[v]
        BY <1>1
    <2>2. CASE s \in fds[u] /\ s \in fds[v]
        BY <2>2 DEF Ownership
    <2>3. CASE s \in fds[u] /\ v = t /\ Given(t) /\ s = idx[t]
        BY <2>3 DEF GivenInv
    <2>4. CASE s \in fds[v] /\ u = t /\ Given(t) /\ s = idx[t]
        BY <2>4 DEF GivenInv
    <2> QED
        BY <1>b, <2>1, <2>2, <2>3, <2>4
<1>2. ASSUME NEW u \in Tasks, NEW s \in fds'[u]
      PROVE  InTable(s)' /\ conn'[<<netconn_maps', s>>] \in live'
    <2>1. InTable(s)'
        BY <1>2 DEF IInv, IndexInv, HoldsInside, Inside
    <2>2. s \in Index /\ conn[Entry(s)] # Null /\ conn[Entry(s)] \in live
        BY <1>a, <1>b, <1>2, BehindLives
    <2>3. ~(pc[t] \in {"delete", "clear"} /\ s = idx[t])
        BY <1>b, <1>2 DEF ClosingInv, Given
    <2>4. conn'[<<netconn_maps', s>>] = conn[Entry(s)]
        BY <2>2, <2>3, BehindStays DEF Clear
    <2>5. conn[Entry(s)] \in live'
        <3>1. CASE ~Delete(t)
            BY <2>2, <3>1, LiveSteps
        <3>2. CASE Delete(t)
            <4>1. /\ live' = live \ {conn[Entry(idx[t])]} /\ idx[t] \in Index
                  /\ s # idx[t]
                BY <2>3, <3>2, LiveSteps
            <4> QED
                BY <2>2, <4>1 DEF EntryInv, Unique, Entry
        <3> QED
            BY <3>1, <3>2
    <2> QED
        BY <2>1, <2>4, <2>5
<1> QED
    BY <1>1, <1>2 DEF Ownership, Entry

\* In the first state nobody owns anything.
LEMMA InitOwn == Init => OwnInv
<1> SUFFICES ASSUME Init PROVE OwnInv
    OBVIOUS
<1>1. \A i \in Index : conn[Entry(i)] = Null
    BY SlotOf, Multiples DEF Init, Entry, Blocks
<1> QED
    BY <1>1 DEF Init, OwnInv, ClosingInv, HandInv, LiveInv, FullInv, GivenInv,
        Ownership, EmptyHanded, Opening, Locked, Growing, Publishing, Given

\* Every step keeps the six parts of OwnInv.
LEMMA OwnStep ==
    ASSUME FirstCallAlone, CloseAlone, IInv, EntryInv, OwnInv, [Next]_vars
    PROVE  OwnInv'
<1>1. CASE UNCHANGED vars
    BY <1>1 DEF OwnInv, ClosingInv, HandInv, LiveInv, FullInv, GivenInv,
        Ownership, Given, Inside, InTable, Idle, Entry, vars, table, entries,
        app, locals
<1>2. CASE Next
    <2>1. PICK t \in Tasks : Start(t) \/ Wait(t) \/ Work(t)
        BY <1>2 DEF Next
    <2>2. IInv'
        BY StepInv
    <2> QED
        BY <2>1, <2>2, ClosingStep, HandStep, LiveStep, FullStep, GivenStep,
            OwnershipStep DEF OwnInv
<1> QED
    BY <1>1, <1>2

\* OwnInv holds in every behaviour in which a close overlaps no call.
LEMMA OwnAlways ==
    ASSUME FirstCallAlone, CloseAlone
    PROVE  Spec => []OwnInv
<1>1. IInv /\ EntryInv /\ OwnInv /\ [Next]_vars => OwnInv'
    BY OwnStep
<1> QED
    BY Inductive, EntriesAlways, InitOwn, <1>1, PTL DEF Spec

\* No descriptor is returned to two tasks, and each one that a task owns has
\* a netconn behind it that nobody has freed, for any number of tasks.
THEOREM OneOwner ==
    ASSUME FirstCallAlone, CloseAlone
    PROVE  Spec => []Ownership
<1>1. OwnInv => Ownership
    BY DEF OwnInv
<1> QED
    BY OwnAlways, <1>1, PTL

-----------------------------------------------------------------------------
(* The refinement of DescriptorTable.                                      *)

\* The size of the table never goes down.
LEMMA SizeGrows ==
    ASSUME IInv, NEW t \in Tasks, Start(t) \/ Wait(t) \/ Work(t)
    PROVE  /\ maps_size \in Nat /\ maps_size' \in Nat /\ maps_size <= maps_size'
           /\ Clear(t) => maps_size' = maps_size
<1>1. maps_size \in Nat
    BY Multiples DEF IInv, TypeOK
<1>2. maps_size' = maps_size \/ PublishSize(t)
    BY DEF Start, Wait, Work, SocketCall, CreateLock, NewConn, NewFails,
        AcceptCall, Accepted, AcceptFails, Lock, Acquire, Match, FindFree, Grow,
        GrowFails, CopyEntry, PublishMaps, Store, Unlock, Lookup, SetType,
        CloseCall, CloseBad, Delete, Clear, table
<1>3. Clear(t) => maps_size' = maps_size
    BY DEF Clear, table
<1> QED
    BY <1>1, <1>2, <1>3, Multiples DEF PublishSize

\* What a caller sees behind a descriptor is what the entry holds.
LEMMA BehindNow ==
    ASSUME IInv, EntryInv, NEW i \in Index
    PROVE  Behind[i] = conn[Entry(i)]
BY UsedInTable DEF Behind

\* And after a step what the entry holds then.
LEMMA BehindNext ==
    ASSUME IInv, EntryInv, OwnInv,
           NEW t \in Tasks, Start(t) \/ Wait(t) \/ Work(t),
           NEW i \in Index
    PROVE  Behind'[i] = conn'[<<netconn_maps', i>>]
<1>1. Behind'[i] = IF 0 <= i /\ i < maps_size'
                   THEN conn'[<<netconn_maps', i>>] ELSE Null
    BY Multiples DEF Behind, InTable, Entry, Index
<1>2. i \in Nat
    BY Multiples DEF Index
<1>3. ASSUME conn'[<<netconn_maps', i>>] # Null
      PROVE  i < maps_size'
    <2>1. CASE Same
        BY <1>2, <1>3, <2>1, UsedInTable, SizeGrows DEF Same, InTable
    <2>2. CASE Taken(t)
        BY <1>2, <1>3, <2>2, UsedInTable DEF Taken, InTable
    <2>3. CASE Cleared(t) /\ Clear(t)
        BY <1>2, <1>3, <2>3, UsedInTable, SizeGrows DEF Cleared, InTable
    <2> QED
        BY <2>1, <2>2, <2>3, ViewStep
<1> QED
    BY <1>1, <1>2, <1>3

\* Each step opens or closes a descriptor as DescriptorTable does, or stutters.
LEMMA PromiseStep ==
    ASSUME CloseAlone, IInv, EntryInv, OwnInv,
           NEW t \in Tasks, Start(t) \/ Wait(t) \/ Work(t)
    PROVE  Promise!Next \/ Behind' = Behind
<1>a. \A i \in Index : /\ Behind[i] = conn[Entry(i)]
                       /\ Behind'[i] = conn'[<<netconn_maps', i>>]
    BY BehindNow, BehindNext
<1>b. Behind = [i \in Index |-> Behind[i]] /\ Behind' = [i \in Index |-> Behind'[i]]
    BY DEF Behind
<1>1. CASE Same
    BY <1>a, <1>b, <1>1 DEF Same
<1>2. CASE Taken(t)
    <2>1. nc[t] \in Conns /\ pc[t] \in Opening
        BY <1>2 DEF Taken, OwnInv, HandInv, EmptyHanded, IInv, TypeOK, Opening,
            Locked
    <2>2. \A i \in Index : Behind[i] # nc[t]
        BY <1>a, <2>1, ZenonT(40) DEF OwnInv, LiveInv
    <2>3. idx[t] \in Promise!Free
        BY <1>2, <1>a DEF Taken, Promise!Free
    <2>4. ASSUME NEW d \in Promise!Free
          PROVE  idx[t] <= d
        <3>1. d \in Index /\ conn[Entry(d)] = Null
            BY <1>a DEF Promise!Free
        <3>2. ~(d < idx[t])
            BY <1>2, <3>1 DEF Taken, OwnInv, FullInv, Growing
        <3> QED
            BY <1>2, <3>1, <3>2, Multiples DEF Taken, Index
    <2>5. Behind' = [Behind EXCEPT ![idx[t]] = nc[t]]
        <3>1. \A i \in Index : Behind'[i] = IF i = idx[t] THEN nc[t]
                                           ELSE Behind[i]
            BY <1>2, <1>a DEF Taken
        <3> QED
            BY <1>b, <3>1
    <2>6. Promise!Open(nc[t])
        BY <2>2, <2>3, <2>4, <2>5 DEF Promise!Open
    <2> QED
        BY <2>1, <2>6 DEF Promise!Next
<1>3. CASE Cleared(t) /\ Clear(t)
    <2>1. /\ pc[t] = "clear" /\ InTable(idx[t])
          /\ conn[Entry(idx[t])] # Null
        BY <1>3 DEF Clear, OwnInv, ClosingInv, Inside
    <2>2. idx[t] \in Index
        BY <2>1, InTableIndex DEF IInv, TypeOK
    <2>3. \A i \in Index : Behind'[i] = IF i = idx[t] THEN Null ELSE Behind[i]
        BY <1>3, <1>a DEF Cleared
    <2>4. Behind' = [Behind EXCEPT ![idx[t]] = Null]
        BY <1>b, <2>3
    <2> QED
        BY <1>a, <2>1, <2>2, <2>4 DEF Promise!Close, Promise!Next
<1> QED
    BY <1>1, <1>2, <1>3, ViewStep

\* The table, its lock, its loops and its growth implement DescriptorTable:
\* each step of the code is a step that a caller expects, or none.
THEOREM Refinement ==
    ASSUME FirstCallAlone, CloseAlone
    PROVE  Spec => KeepsPromise
<1>1. Init => Promise!Init
    <2> SUFFICES ASSUME Init
                 PROVE  Behind = [d \in Index |-> Null]
        BY DEF Promise!Init
    <2>1. \A i \in Index : ~InTable(i)
        BY Multiples DEF Init, InTable, Index
    <2> QED
        BY <2>1 DEF Behind
<1>2. ASSUME IInv, EntryInv, OwnInv, [Next]_vars
      PROVE  [Promise!Next]_Behind
    <2>1. CASE UNCHANGED vars
        BY <2>1 DEF Behind, InTable, Entry, vars, table, entries
    <2>2. CASE Next
        <3>1. PICK t \in Tasks : Start(t) \/ Wait(t) \/ Work(t)
            BY <2>2 DEF Next
        <3> QED
            BY <1>2, <3>1, PromiseStep
    <2> QED
        BY <1>2, <2>1, <2>2
<1> QED
    BY Inductive, EntriesAlways, OwnAlways, <1>1, <1>2, PTL DEF Spec,
        KeepsPromise, Promise!Spec

-----------------------------------------------------------------------------
(* No netconn is lost.                                                     *)

\* What NoLeak needs besides: a growth never fails, because the heap has room
\* for an entry per netconn.  When one fails atu_accept_r loses its client.
EnoughRoom ==
    /\ CallocMayFail = FALSE
    /\ IsFiniteSet(Conns) /\ Cardinality(Conns) <= Cap

\* No call of atu_conn2fd comes back without a descriptor.
NoneRefused == \A t \in Tasks : pc[t] \in {"unlock", "lookup"} => idx[t] # -1

\* A table as large as the heap allows has more entries than there are
\* netconns, so one of them is free.
LEMMA NeverFull ==
    ASSUME EnoughRoom, IInv, EntryInv, OwnInv, NEW t \in Tasks, pc[t] = "grow"
    PROVE  nblocks # MaxBlocks
<1> SUFFICES ASSUME nblocks = MaxBlocks
             PROVE  FALSE
    OBVIOUS
<1> DEFINE f == [i \in Index |-> conn[Entry(i)]]
<1>1. idx[t] = Cap
    <2>1. idx[t] = maps_size /\ maps_size = nblocks * Growth
        BY ExactSize DEF IInv, IndexInv, HoldsInside, InCS, Locked, Publishing
    <2> QED
        BY <2>1 DEF Cap
<1>2. \A i \in Index : conn[Entry(i)] \in Conns \ {nc[t]}
    <2>1. \A i \in Index : conn[Entry(i)] # Null /\ conn[Entry(i)] # nc[t]
        BY <1>1, Multiples DEF OwnInv, FullInv, LiveInv, Opening, Locked, Index
    <2>2. \A i \in Index : Entry(i) \in Slots
        BY SlotOf DEF IInv, TypeOK, Entry
    <2> QED
        BY <2>1, <2>2 DEF IInv, TypeOK
<1>3. nc[t] \in Conns
    BY DEF IInv, TypeOK, OwnInv, HandInv, EmptyHanded
<1>4. IsFiniteSet(Index) /\ Cardinality(Index) = Cap
    BY Multiples, FS_Interval DEF Index
<1>5. /\ IsFiniteSet(Conns \ {nc[t]})
      /\ Cardinality(Conns \ {nc[t]}) = Cardinality(Conns) - 1
    BY <1>3, FS_RemoveElement DEF EnoughRoom
<1>6. Cardinality(Conns \ {nc[t]}) < Cardinality(Index)
    <2>1. Cardinality(Conns) \in Nat
        BY FS_CardinalityType DEF EnoughRoom
    <2> QED
        BY <1>4, <1>5, <2>1, Multiples DEF EnoughRoom
<1>7. f \in [Index -> Conns \ {nc[t]}]
    BY <1>2
<1> HIDE DEF f
<1>8. PICK i, j \in Index : i # j /\ f[i] = f[j]
    BY <1>4, <1>5, <1>6, <1>7, FS_PigeonHole
<1>9. conn[<<netconn_maps, i>>] = conn[<<netconn_maps, j>>]
    BY <1>8 DEF f, Entry
<1>10. conn[<<netconn_maps, i>>] # Null
    BY <1>2, NullIsNothing DEF Entry
<1> QED
    BY <1>8, <1>9, <1>10 DEF EntryInv, Unique

\* No growth fails, so atu_conn2fd has a descriptor to return.
LEMMA RefusedStep ==
    ASSUME EnoughRoom, IInv, EntryInv, OwnInv, NoneRefused,
           NEW t \in Tasks, Start(t) \/ Wait(t) \/ Work(t)
    PROVE  NoneRefused'
<1> USE DEF IInv
<1>1. ASSUME NEW u \in Tasks, u # t, pc'[u] \in {"unlock", "lookup"}
      PROVE  idx'[u] # -1
    BY <1>1, OthersStay DEF NoneRefused
<1>2. ASSUME pc'[t] \in {"unlock", "lookup"}
      PROVE  idx'[t] # -1
    <2>1. ~GrowFails(t)
        BY NeverFull DEF GrowFails, EnoughRoom
    <2>2. \/ (Match(t) \/ FindFree(t)) /\ InTable(idx[t]) /\ UNCHANGED idx
          \/ Store(t) /\ UNCHANGED idx
          \/ Unlock(t) /\ UNCHANGED idx
        BY <1>2, <2>1, ZenonT(40) DEF TypeOK, Start, Wait, Work, Return, Goto, SocketCall,
            CreateLock, NewConn, NewFails, AcceptCall, Accepted, AcceptFails,
            Lock, Acquire, Match, FindFree, Grow, CopyEntry, PublishSize,
            PublishMaps, Store, Unlock, Lookup, SetType, CloseCall, CloseBad,
            Delete, Clear, locals, MayStart, Idle
    <2>3. CASE InTable(idx[t]) /\ UNCHANGED idx
        BY <2>3 DEF InTable
    <2>4. CASE Store(t) /\ UNCHANGED idx
        BY <2>4 DEF Store, IndexInv, HoldsInside, Inside, InTable
    <2>5. CASE Unlock(t) /\ UNCHANGED idx
        BY <2>5 DEF Unlock, NoneRefused
    <2> QED
        BY <2>2, <2>3, <2>4, <2>5
<1> QED
    BY <1>1, <1>2 DEF NoneRefused

\* Where a netconn is: behind a descriptor, or in the hands of a call.
HasIt(c, t) ==
    \/ \E s \in fds[t] : conn[Entry(s)] = c
    \/ nc[t] = c
    \/ pc[t] = "delete" /\ conn[nf[t]] = c

\* A descriptor keeps its netconn, or its task starts to close it.
LEMMA OwnedStays ==
    ASSUME IInv, EntryInv, OwnInv,
           NEW t \in Tasks, Start(t) \/ Wait(t) \/ Work(t),
           NEW u \in Tasks, NEW s \in fds[u], NEW c, conn[Entry(s)] = c
    PROVE  HasIt(c, u)'
<1> USE DEF IInv, OwnInv
<1>1. /\ s \in Index /\ InTable(s) /\ conn[Entry(s)] # Null
      /\ ~(pc[t] = "clear" /\ s = idx[t])
    BY BehindLives DEF TypeOK, Ownership, ClosingInv
<1>2. conn'[<<netconn_maps', s>>] = conn[Entry(s)]
    BY <1>1, BehindStays DEF Clear
<1>3. CASE s \in fds'[u]
    BY <1>2, <1>3 DEF HasIt, Entry
<1>4. CASE s \notin fds'[u]
    <2>1. u = t
        BY <1>4, OthersStay
    <2>2. CASE CloseCall(t)
        <3>1. PICK r \in fds[t] : /\ nf' = [nf EXCEPT ![t] = Entry(r)]
                                  /\ fds' = [fds EXCEPT ![t] = @ \ {r}]
            BY <2>2 DEF CloseCall
        <3>2. r = s /\ nf'[t] = Entry(s)
            BY <1>4, <2>1, <3>1 DEF TypeOK
        <3>3. pc'[t] = "delete" /\ conn' = conn
            BY <2>2 DEF CloseCall, Goto, entries, TypeOK
        <3> QED
            BY <2>1, <3>2, <3>3 DEF HasIt
    <2>3. CASE ~CloseCall(t)
        <3>1. ~CloseBad(t)
            BY <1>1, <1>4, <2>1 DEF CloseBad, TypeOK
        <3> QED
            BY <1>4, <2>1, <2>3, <3>1 DEF TypeOK, Start, Wait, Work, SocketCall,
                CreateLock, NewConn, NewFails, AcceptCall, Accepted,
                AcceptFails, Lock, Acquire, Match, FindFree, Grow, GrowFails,
                CopyEntry, PublishSize, PublishMaps, Store, Unlock, Lookup,
                SetType, Delete, Clear, app
    <2> QED
        BY <2>2, <2>3
<1> QED
    BY <1>3, <1>4

\* A call keeps its netconn in its hands until it returns a descriptor for it.
LEMMA HandKeeps ==
    ASSUME IInv, EntryInv, OwnInv, NoneRefused,
           NEW t \in Tasks, Start(t) \/ Wait(t) \/ Work(t),
           NEW u \in Tasks, NEW c, nc[u] = c, c # Null
    PROVE  HasIt(c, u)'
<1> USE DEF IInv, OwnInv
<1>1. CASE nc'[u] = nc[u]
    BY <1>1 DEF HasIt
<1>2. CASE nc'[u] # nc[u]
    <2>1. u = t /\ pc[t] \notin EmptyHanded
        BY <1>2, HandsStay DEF HandInv
    <2>2. (Unlock(t) /\ call[t] = "accept") \/ SetType(t)
        BY <1>2, <2>1 DEF Start, Wait, Work, SocketCall, CreateLock, NewConn,
            NewFails, AcceptCall, Accepted, AcceptFails, Lock, Acquire, Match,
            FindFree, Grow, GrowFails, CopyEntry, PublishSize, PublishMaps,
            Store, Unlock, Lookup, CloseCall, CloseBad, Delete, Clear, locals,
            MayStart, Idle, EmptyHanded
    <2>3. UNCHANGED <<conn, netconn_maps>>
        BY <2>2 DEF Unlock, SetType, table, entries
    <2>4. Given(t) /\ idx[t] \in Index
        <3>1. pc[t] \in {"unlock", "type"} /\ Inside(idx[t])
            BY <2>2 DEF Unlock, SetType, NoneRefused, IndexInv, HoldsInside
        <3> QED
            BY <3>1, InTableIndex DEF Given, Inside, InTable, TypeOK
    <2>5. idx[t] \in fds'[t]
        BY <2>2, <2>4 DEF Unlock, SetType, TypeOK
    <2>6. conn[Entry(idx[t])] = nc[t]
        BY <2>4 DEF GivenInv
    <2> QED
        BY <2>1, <2>3, <2>5, <2>6 DEF HasIt, Entry
<1> QED
    BY <1>1, <1>2

\* A netconn passes from the call that opens it to its owner, and from there to
\* the call that deletes it.
LEMMA LeakStep ==
    ASSUME CloseAlone, IInv, EntryInv, OwnInv, NoneRefused, NoLeak,
           NEW t \in Tasks, Start(t) \/ Wait(t) \/ Work(t)
    PROVE  NoLeak'
<1> USE DEF IInv, OwnInv
<1> SUFFICES ASSUME NEW c \in live'
             PROVE  \E u \in Tasks : HasIt(c, u)'
    BY DEF NoLeak, HasIt
<1>1. CASE c \notin live
    <2>1. nc'[t] = c
        BY <1>1, HandSteps, LiveSteps
    <2> QED
        BY <2>1 DEF HasIt
<1>2. CASE c \in live
    <2>1. c # Null
        BY <1>2, NullIsNothing DEF TypeOK
    <2>2. PICK u \in Tasks : HasIt(c, u)
        BY <1>2 DEF NoLeak, HasIt
    <2>3. CASE \E s \in fds[u] : conn[Entry(s)] = c
        BY <2>3, OwnedStays
    <2>4. CASE nc[u] = c
        BY <2>1, <2>4, HandKeeps
    <2>5. CASE pc[u] = "delete" /\ conn[nf[u]] = c
        <3>1. Delete(t) \/ Clear(t)
            BY <2>5, NoneCloses
        <3>2. u = t
            BY <2>5, <3>1, CloserAlone DEF Delete, Clear
        <3>3. live' = live \ {c}
            BY <2>5, <3>1, <3>2 DEF Delete, Clear, Doomed
        <3> QED
            BY <3>3
    <2> QED
        BY <2>2, <2>3, <2>4, <2>5 DEF HasIt
<1> QED
    BY <1>1, <1>2

\* Every netconn that is allocated has an owner, or a call that is opening or
\* closing it, when growths of the table do not fail.
THEOREM NothingLeaks ==
    ASSUME FirstCallAlone, CloseAlone, EnoughRoom
    PROVE  Spec => []NoLeak
<1>1. Init => NoneRefused /\ NoLeak
    BY DEF Init, NoneRefused, NoLeak
<1>2. ASSUME IInv, EntryInv, OwnInv, NoneRefused, NoLeak, [Next]_vars
      PROVE  NoneRefused' /\ NoLeak'
    <2>1. CASE UNCHANGED vars
        BY <1>2, <2>1 DEF NoneRefused, NoLeak, Entry, vars, table, entries, app,
            locals
    <2>2. CASE Next
        <3>1. PICK t \in Tasks : Start(t) \/ Wait(t) \/ Work(t)
            BY <2>2 DEF Next
        <3> QED
            BY <1>2, <3>1, RefusedStep, LeakStep
    <2> QED
        BY <1>2, <2>1, <2>2
<1> QED
    BY Inductive, EntriesAlways, OwnAlways, <1>1, <1>2, PTL DEF Spec
=============================================================================
